------------------------------ MODULE Sessions ------------------------------
(***************************************************************************)
(* Sessions (internal/auth): login, refresh of either token, logout.  A    *)
(* request verifies its token with one read of Redis, generates a token    *)
(* and runs one script: other requests run in between, a script is atomic. *)
(* A session is named by the login that opened it and a token by the       *)
(* request that generated it, at most one of each kind.  The Redis client  *)
(* sends a script again when it has no answer, so a script may run twice,  *)
(* but never after its request was answered.  Redis keeps what it did.     *)
(* Operators named Bug... are plausible mistakes in the definition that    *)
(* follows them; the specification uses none, each breaks a property.      *)
(***************************************************************************)
EXTENDS Integers, FiniteSets

CONSTANTS
    Calls,             \* requests to /auth
    Users,
    NoCall,            \* no token
    AccessLife,        \* auth.access_token_expire, in seconds
    RefreshLife,       \* auth.refresh_token_expire, in seconds
    PruneAbove,        \* size of a user's list that a login leaves alone
    MaxTime,           \* bound of the clock
    MaxRedisFaults     \* bound of the environment

ASSUME CallsAssumption == IsFiniteSet(Calls) /\ NoCall \notin Calls

ASSUME LivesAssumption ==
    AccessLife \in Nat /\ RefreshLife \in Nat /\ PruneAbove \in Nat

VARIABLES
    call,              \* progress and reply of each request
    session,           \* hash ident:sess:<sid>, by login: tokens and time to live
    listed,            \* set ident:u_sess:<user>
    now, faults

redis == <<session, listed>>
vars == <<call, session, listed, now, faults>>

-----------------------------------------------------------------------------
Ops == {"login", "fetchAccess", "fetchRefresh", "logout"}

(* made: when the request generated its tokens.                            *)
CallState ==
    [pc : {"idle", "script", "done"}, op : Ops, user : Users, sid : Calls,
     made : Nat, reply : {"none", "ok", "userNotFound", "expired", "invalid",
                          "revoked", "error"}]

Absent == [at |-> NoCall, rt |-> NoCall, until |-> 0]
Hash == [at : Calls, rt : Calls, until : Nat]

(* A hash holds a token of each kind or is not there.                      *)
TypeOK ==
    /\ call \in [Calls -> CallState]
    /\ session \in [Calls -> Hash \cup {Absent}]
    /\ listed \in [Users -> SUBSET Calls]
    /\ now \in Nat /\ faults \in Nat

Init ==
    /\ call \in [Calls -> [pc : {"idle"}, op : {"login"}, user : Users, sid : Calls,
                           made : {0}, reply : {"none"}]]
    /\ \A c \in Calls : call[c].sid = c
    /\ session = [c \in Calls |-> Absent]
    /\ listed = [u \in Users |-> {}]
    /\ now = 0 /\ faults = 0

-----------------------------------------------------------------------------
Finish(c, reply) ==
    call' = [call EXCEPT ![c] = [@ EXCEPT !.pc = "done", !.reply = reply]]

(* Service.Login up to the script.  An unknown address, a wrong password   *)
(* and a failed query are answered alike.                                  *)
Login(c) ==
    /\ call[c].pc = "idle"
    /\ \/ Finish(c, "userNotFound")
       \/ call' = [call EXCEPT ![c] = [@ EXCEPT !.pc = "script", !.made = now]]
    /\ UNCHANGED <<redis, now, faults>>

(* A client holds the tokens it was answered with.                         *)
HoldsAccess(t) == call[t].reply = "ok" /\ call[t].op \in {"login", "fetchAccess"}
HoldsRefresh(t) == call[t].reply = "ok" /\ call[t].op \in {"login", "fetchRefresh"}

Exists(s) == session[s] # Absent /\ now <= session[s].until

(* VerifyToken: signature and expiry, then the token Redis has.            *)
Verify(c, op, t, life, stored) ==
    LET s == call[t].sid
    IN  /\ call[c].pc = "idle"
        /\ \/ now >= call[t].made + life /\ Finish(c, "expired")
           \/ /\ now < call[t].made + life
              /\ \/ ~Exists(s) /\ Finish(c, "invalid")
                 \/ Exists(s) /\ stored # t /\ Finish(c, "revoked")
                 \/ /\ Exists(s) /\ stored = t
                    /\ call' = [call EXCEPT ![c] =
                          [pc |-> "script", op |-> op, user |-> call[t].user,
                           sid |-> s, made |-> now, reply |-> "none"]]
        /\ UNCHANGED <<redis, now, faults>>

(* The routes: an access token is fetched with the refresh token, a        *)
(* refresh token and a logout with the access token.                       *)
PresentRefresh(c, t) ==
    /\ HoldsRefresh(t)
    /\ Verify(c, "fetchAccess", t, RefreshLife, session[call[t].sid].rt)

PresentAccess(c, t) ==
    /\ HoldsAccess(t)
    /\ \E op \in {"fetchRefresh", "logout"} :
          Verify(c, op, t, AccessLife, session[call[t].sid].at)

-----------------------------------------------------------------------------
(* The scripts.  Each is a change of Redis and the reply it leads to. *)

(* The sessions that are alive are removed, not those that are gone. *)
BugPruneInverted(sids, s, alive) ==
    IF Cardinality(sids) > PruneAbove THEN sids \ alive ELSE sids

(* More than PruneAbove sids: those whose hash is gone are removed.        *)
Prune(sids, s, alive) ==
    IF Cardinality(sids) > PruneAbove THEN sids \cap (alive \cup {s}) ELSE sids

(* HSET of one field. *)
BugCreateAccessOnly(c) ==
    /\ call[c].op = "login"
    /\ session' = [session EXCEPT ![c].at = c, ![c].until = now + RefreshLife]
    /\ listed' = [listed EXCEPT ![call[c].user] = @ \cup {c}]

CreateSession(c) ==
    /\ call[c].op = "login"
    /\ session' = [session EXCEPT ![c] =
                      [at |-> c, rt |-> c, until |-> now + RefreshLife]]
    /\ listed' = [listed EXCEPT ![call[c].user] =
                      Prune(@ \cup {c}, c, {s \in Calls : Exists(s)})]

(* The refresh token is written too, and not as Redis has it by now. *)
BugSetAccessBoth(c) ==
    /\ call[c].op = "fetchAccess"
    /\ Exists(call[c].sid)
    /\ session' = [session EXCEPT ![call[c].sid].at = c,
                                  ![call[c].sid].rt = call[c].sid]
    /\ UNCHANGED listed

SetAccessToken(c) ==
    /\ call[c].op = "fetchAccess"
    /\ Exists(call[c].sid)
    /\ session' = [session EXCEPT ![call[c].sid].at = c]
    /\ UNCHANGED listed

(* EXPIRE reads its argument as seconds and is given a time.Duration,      *)
(* which the client writes in nanoseconds.                                 *)
NanosPerSecond == 1000000000

(* HSET without EXISTS. *)
BugSetRefreshUnchecked(c) ==
    /\ call[c].op = "fetchRefresh"
    /\ session' = [session EXCEPT ![call[c].sid].rt = c,
                                  ![call[c].sid].until = now + RefreshLife * NanosPerSecond]
    /\ UNCHANGED listed

(* HSET without EXPIRE. *)
BugSetRefreshNoExpire(c) ==
    /\ call[c].op = "fetchRefresh"
    /\ Exists(call[c].sid)
    /\ session' = [session EXCEPT ![call[c].sid].rt = c]
    /\ UNCHANGED listed

SetRefreshToken(c) ==
    /\ call[c].op = "fetchRefresh"
    /\ Exists(call[c].sid)
    /\ session' = [session EXCEPT ![call[c].sid].rt = c,
                                  ![call[c].sid].until = now + RefreshLife * NanosPerSecond]
    /\ UNCHANGED listed

DelSession(c) ==
    /\ call[c].op = "logout"
    /\ session' = [session EXCEPT ![call[c].sid] = Absent]
    /\ listed' = [listed EXCEPT ![call[c].user] = @ \ {call[c].sid}]

Changes(c) == CreateSession(c) \/ SetAccessToken(c) \/ SetRefreshToken(c) \/ DelSession(c)

RunScript(c) ==
    /\ call[c].pc = "script"
    /\ \/ Changes(c) /\ Finish(c, "ok")
       \/ /\ call[c].op \in {"fetchAccess", "fetchRefresh"} /\ ~Exists(call[c].sid)
          /\ Finish(c, "invalid")
          /\ UNCHANGED redis
    /\ UNCHANGED <<now, faults>>

(* No answer: the script ran or not, and is sent again or given up.        *)
ScriptUnanswered(c) ==
    /\ call[c].pc = "script" /\ faults < MaxRedisFaults
    /\ Changes(c) \/ UNCHANGED redis
    /\ UNCHANGED call \/ Finish(c, "error")
    /\ faults' = faults + 1
    /\ UNCHANGED now

(* The read of VerifyToken fails. *)
VerifyFails(c) ==
    /\ call[c].pc = "idle" /\ faults < MaxRedisFaults
    /\ Finish(c, "error")
    /\ faults' = faults + 1
    /\ UNCHANGED <<redis, now>>

Tick ==
    /\ now < MaxTime
    /\ now' = now + 1
    /\ UNCHANGED <<call, redis, faults>>

Quiescent ==
    /\ \A c \in Calls : call[c].pc = "done"
    /\ now = MaxTime
    /\ UNCHANGED vars

Request(c) == Login(c) \/ \E t \in Calls : PresentRefresh(c, t) \/ PresentAccess(c, t)

Next ==
    \/ \E c \in Calls : Request(c) \/ RunScript(c) \/ ScriptUnanswered(c) \/ VerifyFails(c)
    \/ Tick
    \/ Quiescent

Spec == Init /\ [][Next]_vars

-----------------------------------------------------------------------------
(* Properties *)

(* Once a logout is answered with success its session is gone for good: no *)
(* refresh that verified its token before, and no script sent again,       *)
(* brings the hash or its list entry back (setAccessTokenScript,           *)
(* setRefreshTokenScript, createSessionScript).                            *)
LoggedOutStaysOut ==
    \A c \in Calls : call[c].op = "logout" /\ call[c].reply = "ok" =>
        /\ session[call[c].sid] = Absent
        /\ \A u \in Users : call[c].sid \notin listed[u]

(* A session that exists is in the list of its user, whatever logins prune *)
(* and whenever sessions expire.                                           *)
SessionsListed ==
    \A s \in Calls : Exists(s) => s \in listed[call[s].user]

(* A hash lives as long as the refresh token in it: the token is generated *)
(* before the script that sets the time to live runs.                      *)
KeyOutlivesRefresh ==
    \A s \in Calls : session[s] # Absent =>
        session[s].until >= call[session[s].rt].made + RefreshLife

(* A token that was answered and then replaced, or whose session is gone,  *)
(* never verifies again.                                                   *)
RevokedStaysRevoked ==
    [][\A t \in Calls :
         /\ HoldsAccess(t) /\ session[call[t].sid].at # t => session'[call[t].sid].at # t
         /\ HoldsRefresh(t) /\ session[call[t].sid].rt # t => session'[call[t].sid].rt # t]_vars

(* The tokens that verify, and the requests whose tokens were answered. *)
CurrentAccess == [s \in Calls |-> IF Exists(s) THEN session[s].at ELSE NoCall]
CurrentRefresh == [s \in Calls |-> IF Exists(s) THEN session[s].rt ELSE NoCall]
Answered == {t \in Calls : HoldsAccess(t) \/ HoldsRefresh(t)}

(* The steps of requests, scripts sent twice, and time amount to those of  *)
(* SessionBook: tokens that are current, and answers.                       *)
Book == INSTANCE SessionBook
          WITH access <- CurrentAccess, refresh <- CurrentRefresh, given <- Answered
TokensAreFinal == Book!Spec
=============================================================================
