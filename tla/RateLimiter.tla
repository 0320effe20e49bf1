---------------------------- MODULE RateLimiter -----------------------------
(***************************************************************************)
(* The limiter of logins (internal/middleware/ratelimit.go): a token       *)
(* bucket per address, made at its first login and kept until the process  *)
(* ends.  A login finds its limiter under a mutex, reads the clock, and    *)
(* asks the limiter with the time it read, under the limiter's own mutex   *)
(* (golang.org/x/time/rate): times need not come to a bucket in order.     *)
(* Operators named Bug... are plausible mistakes in the definition that    *)
(* follows them; the specification uses none, each breaks a property.      *)
(***************************************************************************)
EXTENDS Integers

CONSTANTS
    Clients,           \* addresses
    Watched,           \* the address the history is kept for, any one of them
    Logins,            \* requests to /auth/login, in the order in which they find
                       \*   their limiter
    NoLimiter,
    Rate, Burst,       \* tokens per tick of the clock, size of a bucket
    MaxTime            \* bound of the clock

ASSUME LimiterAssumption ==
    /\ Watched \in Clients
    /\ Rate \in Nat /\ Burst \in Nat
    /\ Logins \subseteq Nat /\ NoLimiter \notin Logins

VARIABLES
    visitors,          \* limiter of each address, named by the login that made it
    bucket,            \* tokens and time of the last admission of each limiter
    login,             \* progress of each login, its limiter and the time it read
    now,
    born,              \* when this process began
    window             \* history: a window of time opened at some moment, and
                       \*   what the watched address was admitted in it

limiterVars == <<visitors, bucket, login, now, born, window>>

-----------------------------------------------------------------------------
(* spent counts the address's admissions by this process; admitted those   *)
(* that read the clock in the window; rewound the time by which they went  *)
(* back behind others; restarts the processes that began in it.            *)
Window == [spent : Nat, open : BOOLEAN, from : Nat, admitted : Nat,
           rewound : Nat, restarts : Nat]

Idle == [pc |-> "idle"]
Done == [pc |-> "done"]
Refused == [pc |-> "refused"]

LimiterType ==
    /\ visitors \in [Clients -> Logins \cup {NoLimiter}]
    /\ bucket \in [Logins -> [tokens : 0 .. Burst, last : Nat]]
    /\ login \in [Logins -> [pc : {"allow"}, by : Clients, limiter : Logins, read : Nat]
                            \cup {Idle, Done, Refused}]
    /\ now \in Nat /\ born \in Nat
    /\ window \in Window

FullBuckets == [r \in Logins |-> [tokens |-> Burst, last |-> 0]]

LimiterInit ==
    /\ visitors = [k \in Clients |-> NoLimiter]
    /\ bucket = FullBuckets
    /\ login = [r \in Logins |-> Idle]
    /\ now = 0 /\ born = 0
    /\ window = [spent |-> 0, open |-> FALSE, from |-> 0, admitted |-> 0, rewound |-> 0,
                 restarts |-> 0]

-----------------------------------------------------------------------------
(* A process ends with its limiters and the logins it had begun.           *)
Forget ==
    /\ visitors' = [k \in Clients |-> NoLimiter]
    /\ login' = [r \in Logins |-> IF login[r].pc = "allow" THEN Done ELSE login[r]]
    /\ bucket' = FullBuckets
    /\ born' = now
    /\ window' = [window EXCEPT !.spent = 0, !.restarts = IF window.open THEN @ + 1 ELSE @]
    /\ UNCHANGED now

(* The limiter that was made is not kept. *)
BugKept(k, r) == visitors

(* The entry of an address is made by its first login. *)
Kept(k, r) == IF visitors[k] = NoLimiter THEN [visitors EXCEPT ![k] = r] ELSE visitors

(* All addresses have the limiter of the first.                            *)
BugLimiterOf(k, r) == IF \E j \in Clients : visitors[j] # NoLimiter
                      THEN visitors[CHOOSE j \in Clients : visitors[j] # NoLimiter] ELSE r

LimiterOf(k, r) == IF visitors[k] = NoLimiter THEN r ELSE visitors[k]

(* getLimiter under its mutex; Allow reads the clock and then waits for the  *)
(* limiter's.  An entry once made stays, so when the clock is read after it  *)
(* was found does not matter.                                               *)
GetLimiter(r, k) ==
    /\ login[r] = Idle /\ \A q \in Logins : q < r => login[q] # Idle
    /\ visitors' = Kept(k, r)
    /\ login' = [login EXCEPT ![r] = [pc |-> "allow", by |-> k, limiter |-> LimiterOf(k, r),
                                     read |-> now]]
    /\ UNCHANGED <<bucket, now, born, window>>

Elapsed(last, t) == IF t < last THEN 0 ELSE t - last

(* Tokens at time t; a time before the last one adds none. *)
Filled(b, t) ==
    LET tokens == b.tokens + Rate * Elapsed(b.last, t)
    IN  IF tokens < Burst THEN tokens ELSE Burst

(* A token is lent. *)
BugHasToken(b, t) == Filled(b, t) >= 0

HasToken(b, t) == Filled(b, t) >= 1

Recorded(t, last) ==
    IF window.open
    THEN [window EXCEPT !.spent = @ + 1,
                        !.admitted = @ + (IF t >= window.from THEN 1 ELSE 0),
                        !.rewound = @ + Elapsed(t, last)]
    ELSE [window EXCEPT !.spent = @ + 1]

(* Allow, at the time that was read.  An admission takes a token and sets  *)
(* the bucket's time, also when that goes back.                            *)
Admit(r) ==
    LET l == login[r].limiter
        t == login[r].read
    IN  /\ login[r].pc = "allow"
        /\ HasToken(bucket[l], t)
        /\ bucket' = [bucket EXCEPT ![l] = [tokens |-> Filled(@, t) - 1, last |-> t]]
        /\ login' = [login EXCEPT ![r] = Done]
        /\ window' = IF login[r].by = Watched THEN Recorded(t, bucket[l].last) ELSE window
        /\ UNCHANGED <<visitors, now, born>>

(* The answer is 429; the bucket stays as it is. *)
Refuse(r) ==
    /\ login[r].pc = "allow"
    /\ ~HasToken(bucket[login[r].limiter], login[r].read)
    /\ login' = [login EXCEPT ![r] = Refused]
    /\ UNCHANGED <<visitors, bucket, now, born, window>>

Tick ==
    /\ now < MaxTime
    /\ now' = now + 1
    /\ UNCHANGED <<visitors, bucket, login, born, window>>

OpenWindow ==
    /\ ~window.open
    /\ window' = [window EXCEPT !.open = TRUE, !.from = now]
    /\ UNCHANGED <<visitors, bucket, login, now, born>>

LoginStep(r) == (\E k \in Clients : GetLimiter(r, k)) \/ Admit(r) \/ Refuse(r)

-----------------------------------------------------------------------------
(* Properties *)

(* In any window an address is admitted no more often than its bucket held *)
(* and its rate gave: one bucket more for each restart, and again the rate *)
(* for the time by which logins came to the bucket out of order.           *)
AdmissionsBounded ==
    window.open =>
        window.admitted <= (1 + window.restarts) * Burst
                           + Rate * (now - window.from + window.rewound)

(* A login is refused only after its address took a whole bucket from the  *)
(* same process: what other addresses do costs it nothing.                 *)
RefusedAfterBurst ==
    [][\A r \in Logins :
          login'[r] = Refused /\ login[r] # Refused /\ login[r].by = Watched
             => window.spent >= Burst]_limiterVars
=============================================================================
