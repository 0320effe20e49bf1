---------------------------- MODULE ServerProofs ----------------------------
(* Proofs about Server, for every number of addresses, logins, restarts,    *)
(* signals and failures, every rate, burst and run of the clock: types, how  *)
(* the process stops, what readiness means, and what the limiter admits.     *)
EXTENDS Server, TLAPS

-----------------------------------------------------------------------------
(* The process. *)

(* A provider is registered until it is shut down, and then not again; the   *)
(* list is empty once stop has run; a provider is built by its own step.     *)
OtelOK ==
    /\ otel.funcs \subseteq otel.built
    /\ \A p \in Providers : otel.downs[p] = IF p \in otel.built \ otel.funcs THEN 1 ELSE 0
    /\ main \in {"load", "tracer"} => otel.built = {}
    /\ main = "meter" => "meter" \notin otel.built
    /\ main \in {"cancel", "exited"} => otel.funcs = {}

(* The consumer begins after the channel and ends for a reason.              *)
ConsumerOK ==
    /\ main \in {"load", "tracer", "meter", "logger"} => run = "none"
    /\ run = "returned" => channel # "open"
    /\ consumer # "none" => run \in {"router", "listen", "serve", "failing", "returned"}
    /\ run \in {"router", "listen", "serve"} => consumer # "none"
    /\ consumer = "stopped" => cancelled
    /\ consumer = "drained" => channel = "closed"

ProcessInv == ProcessType /\ OtelOK /\ ConsumerOK

ProcessNext == MainStep \/ RunStep \/ Outside \/ Restart \/ UNCHANGED processVars

LEMMA ProcessStarts == ProcessInit => ProcessInv
BY DEF ProcessInit, ProcessInv, Fresh, ProcessType, OtelOK, ConsumerOK, Providers, Ends

(* shutdown keeps the counts right, whatever was registered. *)
LEMMA ShutdownFacts ==
    ASSUME ProcessType, OtelOK
    PROVE  LET o == Shutdown(otel) IN
           /\ o \in [built : SUBSET Providers, funcs : SUBSET Providers, downs : [Providers -> Nat]]
           /\ o.built = otel.built /\ o.funcs = {}
           /\ \A p \in Providers : o.downs[p] = IF p \in o.built THEN 1 ELSE 0
<1> DEFINE D == [p \in Providers |-> otel.downs[p] + (IF p \in otel.funcs THEN 1 ELSE 0)]
<1>1. D \in [Providers -> Nat]
  BY DEF ProcessType
<1>2. Shutdown(otel) = [otel EXCEPT !.downs = D, !.funcs = {}]
  BY DEF Shutdown, ProcessType
<1>3. \A p \in Providers : D[p] = IF p \in otel.built THEN 1 ELSE 0
  BY DEF OtelOK, ProcessType
<1> HIDE DEF D
<1> QED BY <1>1, <1>2, <1>3 DEF ProcessType

LEMMA ProvideKeeps ==
    ASSUME ProcessInv, NEW p \in Providers, NEW next \in {"meter", "logger"}, Provide(p, next),
           next = "meter" => p = "tracer"
    PROVE  ProcessInv'
<1>1. /\ UNCHANGED <<run, signalled, cancelled, channel, consumer, starts, signals>>
      /\ main = p /\ main' \in {"meter", "logger"}
      /\ faults' \in Nat
  BY DEF Provide, Fault, ProcessInv, ProcessType
<1>2. p \notin otel.built /\ p \notin otel.funcs
  BY <1>1 DEF ProcessInv, OtelOK, Providers
<1>3. /\ otel' \in [built : SUBSET Providers, funcs : SUBSET Providers, downs : [Providers -> Nat]]
      /\ otel'.funcs \subseteq otel'.built
      /\ \A q \in Providers : otel'.downs[q] = IF q \in otel'.built \ otel'.funcs THEN 1 ELSE 0
      /\ main' = "meter" => "meter" \notin otel'.built
  <2>1. CASE otel' = [otel EXCEPT !.built = @ \cup {p}, !.funcs = @ \cup {p}] /\ main' = next
    <3>1. /\ otel'.built = otel.built \cup {p} /\ otel'.funcs = otel.funcs \cup {p}
          /\ otel'.downs = otel.downs
      BY <2>1 DEF ProcessInv, ProcessType
    <3>2. otel' \in [built : SUBSET Providers, funcs : SUBSET Providers, downs : [Providers -> Nat]]
      BY <2>1 DEF ProcessInv, ProcessType
    <3>3. main' = "meter" => otel.built = {} /\ p = "tracer"
      BY <1>1, <2>1 DEF ProcessInv, OtelOK
    <3> QED BY <1>2, <3>1, <3>2, <3>3 DEF ProcessInv, OtelOK
  <2>2. CASE otel' = Shutdown(otel) /\ main' = "logger"
    BY <2>2, ShutdownFacts DEF ProcessInv
  <2> QED BY <2>1, <2>2 DEF Provide
<1>4. ProcessType'
  BY <1>1, <1>3 DEF ProcessInv, ProcessType
<1>5. OtelOK'
  BY <1>1, <1>3 DEF OtelOK
<1>6. ConsumerOK'
  BY <1>1 DEF ProcessInv, ConsumerOK, Providers
<1> QED BY <1>4, <1>5, <1>6 DEF ProcessInv

LEMMA ProcessKeeps == ProcessInv /\ ProcessNext => ProcessInv'
<1> SUFFICES ASSUME ProcessInv, ProcessNext PROVE ProcessInv'
  OBVIOUS
<1> USE DEF ProcessInv
<1>0. ASSUME Fault PROVE faults' \in Nat
  BY <1>0 DEF Fault, ProcessType
<1>1. CASE MainStep
  <2>1. CASE LoadConfig
    BY <1>0, <2>1 DEF LoadConfig, ProcessType, OtelOK, ConsumerOK, Ends
  <2>2. CASE NewTracerProvider
    BY <2>2, ProvideKeeps DEF NewTracerProvider, Providers
  <2>3. CASE NewMeterProvider
    BY <2>3, ProvideKeeps DEF NewMeterProvider, Providers
  <2>4. CASE StartRun
    BY <2>4 DEF StartRun, ProcessType, OtelOK, ConsumerOK, Ends
  <2>5. CASE Leave \/ RestoreSignals
    BY <2>5 DEF Leave, RestoreSignals, ProcessType, OtelOK, ConsumerOK, Ends
  <2>6. CASE StopProviders
    BY <2>6, ShutdownFacts DEF StopProviders, ProcessType, OtelOK, ConsumerOK, Ends
  <2>7. CASE Cancel
    BY <2>7 DEF Cancel, ProcessType, OtelOK, ConsumerOK, Ends
  <2>8. CASE Exit
    BY <2>8 DEF Exit, ProcessType, OtelOK, ConsumerOK, Ends
  <2> QED BY <1>1, <2>1, <2>2, <2>3, <2>4, <2>5, <2>6, <2>7, <2>8 DEF MainStep
<1>2. CASE RunStep
  <2>1. OtelOK'
    BY <1>2 DEF RunStep, OpenDatabase, AutoMigrate, OpenRedis, InitMq, OpenSearch, SetupMQ,
         ListenTimeout, SetupRouter, Listen, ServerFails, RunReturns, OtelOK
  <2>2. CASE OpenDatabase \/ AutoMigrate \/ OpenRedis \/ OpenSearch
    BY <1>0, <2>1, <2>2 DEF OpenDatabase, AutoMigrate, OpenRedis, OpenSearch, Try, Fault,
         ProcessType, ConsumerOK
  <2>3. CASE InitMq
    BY <1>0, <2>1, <2>3 DEF InitMq, Try, ProcessType, ConsumerOK
  <2>4. CASE SetupMQ \/ SetupRouter \/ Listen \/ ServerFails
    BY <1>0, <2>1, <2>4 DEF SetupMQ, SetupRouter, Listen, ServerFails, OnChannel, Try, ProcessType,
         ConsumerOK
  <2>5. CASE ListenTimeout
    BY <1>0, <2>1, <2>5 DEF ListenTimeout, OnChannel, Try, ProcessType, ConsumerOK
  <2>6. CASE RunReturns
    BY <2>1, <2>6 DEF RunReturns, Cleanup, ProcessType, ConsumerOK
  <2> QED BY <1>2, <2>2, <2>3, <2>4, <2>5, <2>6 DEF RunStep
<1>3. CASE Outside
  <2>1. CASE Signal
    <3>1. /\ UNCHANGED <<run, cancelled, otel, channel, consumer, starts, faults>>
          /\ signals' = signals + 1
          /\ IF main \in {"select", "leaving"} THEN signalled' = TRUE /\ main' = main
             ELSE main' = "killed" /\ signalled' = signalled
      BY <2>1 DEF Signal
    <3>2. ProcessType'
      <4>1. signalled' \in BOOLEAN /\ main' \in {main, "killed"}
        BY <3>1 DEF ProcessType
      <4> QED BY <3>1, <4>1 DEF ProcessType, Ends
    <3>3. OtelOK' /\ ConsumerOK'
      BY <3>1 DEF OtelOK, ConsumerOK
    <3> QED BY <3>2, <3>3
  <2>2. CASE Crash
    BY <1>0, <2>2 DEF Crash, ProcessType, OtelOK, ConsumerOK, Ends
  <2>3. CASE ChannelCloses
    BY <1>0, <2>3 DEF ChannelCloses, ProcessType, OtelOK, ConsumerOK
  <2>4. CASE ConsumerEnds
    BY <1>0, <2>4 DEF ConsumerEnds, ProcessType, OtelOK, ConsumerOK
  <2> QED BY <1>3, <2>1, <2>2, <2>3, <2>4 DEF Outside
<1>4. CASE Restart
  BY <1>4 DEF Restart, Fresh, ProcessType, OtelOK, ConsumerOK, Providers, Ends
<1>5. CASE UNCHANGED processVars
  BY <1>5 DEF processVars, ProcessType, OtelOK, ConsumerOK
<1> QED BY <1>1, <1>2, <1>3, <1>4, <1>5 DEF ProcessNext

-----------------------------------------------------------------------------
(* The limiter. *)

Unused(l) == bucket[l].tokens = Burst /\ bucket[l].last = 0

(* Each address has a limiter of its own, made by a login that has begun; a  *)
(* bucket no login has found is full; one that was used has lost a token.    *)
BucketsOK ==
    /\ \A r \in Logins : login[r].pc = "allow" =>
          /\ login[r].limiter = visitors[login[r].by]
          /\ born <= login[r].read /\ login[r].read <= now
    /\ \A k \in Clients : visitors[k] # NoLimiter => login[visitors[k]] # Idle
    /\ \A j, k \in Clients : visitors[j] = visitors[k] /\ visitors[j] # NoLimiter => j = k
    /\ \A r \in Logins : login[r] = Idle => Unused(r)
    /\ \A r \in Logins :
          \/ Unused(r)
          \/ bucket[r].tokens < Burst /\ born <= bucket[r].last /\ bucket[r].last <= now
    /\ born <= now

Mine == visitors[Watched]

Untouched == Mine = NoLimiter \/ Unused(Mine)

(* What the watched address has left and what it took, by this process and   *)
(* in the window: the credit of a used bucket is that of its last admission, *)
(* of an unused one that of the beginning of the process.                    *)
WindowOK ==
    /\ Mine # NoLimiter => bucket[Mine].tokens >= Burst - window.spent
    /\ ~window.open => window.admitted = 0 /\ window.rewound = 0 /\ window.restarts = 0
    /\ window.open => window.from <= now
    /\ \/ window.admitted = 0
       \/ /\ Untouched
          /\ window.admitted <= window.restarts * Burst
                                + Rate * (born - window.from + window.rewound)
       \/ /\ ~Untouched
          /\ window.admitted + bucket[Mine].tokens
                <= (1 + window.restarts) * Burst
                   + Rate * (bucket[Mine].last - window.from + window.rewound)

LimiterInv == LimiterType /\ BucketsOK /\ WindowOK

LimiterNext ==
    \/ \E r \in Logins : LoginStep(r)
    \/ Tick \/ OpenWindow \/ Forget \/ UNCHANGED limiterVars

LEMMA LimiterStarts == LimiterInit => LimiterInv
<1> SUFFICES ASSUME LimiterInit PROVE LimiterInv
  OBVIOUS
<1>1. LimiterType
  BY LimiterAssumption DEF LimiterInit, FullBuckets, LimiterType, Window
<1>2. BucketsOK
  BY LimiterAssumption DEF LimiterInit, FullBuckets, BucketsOK, Unused, Idle
<1>3. WindowOK
  BY LimiterAssumption DEF LimiterInit, WindowOK, Mine
<1> QED BY <1>1, <1>2, <1>3 DEF LimiterInv

LEMMA ElapsedFacts ==
    ASSUME NEW s \in Nat, NEW t \in Nat
    PROVE  /\ Elapsed(s, t) \in Nat /\ Elapsed(t, s) \in Nat
           /\ s <= t => Elapsed(s, t) = t - s /\ Elapsed(t, s) = 0
           /\ t + Elapsed(t, s) = s + Elapsed(s, t)
BY DEF Elapsed

LEMMA FilledFacts ==
    ASSUME NEW b \in [tokens : 0 .. Burst, last : Nat], NEW t \in Nat
    PROVE  /\ Filled(b, t) \in Nat /\ b.tokens <= Filled(b, t) /\ Filled(b, t) <= Burst
           /\ Rate * Elapsed(b.last, t) \in Nat
           /\ Filled(b, t) <= b.tokens + Rate * Elapsed(b.last, t)
<1>0. b.last \in Nat /\ b.tokens \in Nat /\ b.tokens <= Burst
  BY LimiterAssumption
<1>1. Elapsed(b.last, t) \in Nat
  BY <1>0, ElapsedFacts
<1>2. \A m, n \in Nat : m * n \in Nat
  OBVIOUS
<1>3. Rate * Elapsed(b.last, t) \in Nat
  BY <1>1, <1>2, LimiterAssumption
<1> QED BY <1>0, <1>3, LimiterAssumption DEF Filled

(* What an admission gains by its rate is the time it puts the bucket on. *)
LEMMA RateGained ==
    ASSUME NEW d \in Int, NEW e \in Int
    PROVE  /\ Rate * d \in Int /\ Rate * e \in Int /\ Rate * (d + e) \in Int
           /\ Rate * (d + e) = Rate * d + Rate * e
BY LimiterAssumption

LEMMA LimiterTypeStep == LimiterInv /\ LimiterNext => LimiterType'
<1> SUFFICES ASSUME LimiterInv, LimiterNext PROVE LimiterType'
  OBVIOUS
<1> USE DEF LimiterInv, LimiterType
<1>1. ASSUME NEW r \in Logins, NEW k \in Clients, GetLimiter(r, k) PROVE LimiterType'
  <2>1. LimiterOf(k, r) \in Logins /\ visitors' \in [Clients -> Logins \cup {NoLimiter}]
    BY <1>1 DEF GetLimiter, LimiterOf, Kept
  <2> QED BY <1>1, <2>1 DEF GetLimiter
<1>2. ASSUME NEW r \in Logins, Admit(r) PROVE LimiterType'
  <2> DEFINE l == login[r].limiter
             t == login[r].read
  <2>1. l \in Logins /\ t \in Nat /\ bucket[l] \in [tokens : 0 .. Burst, last : Nat]
    BY <1>2 DEF Admit, Idle, Done, Refused
  <2>2. /\ bucket' = [bucket EXCEPT ![l] = [tokens |-> Filled(bucket[l], t) - 1, last |-> t]]
        /\ login' = [login EXCEPT ![r] = Done]
        /\ window' = window \/ window' = Recorded(t, bucket[l].last)
        /\ Filled(bucket[l], t) >= 1 /\ UNCHANGED <<visitors, now, born>>
    BY <1>2 DEF Admit, HasToken
  <2>3. Filled(bucket[l], t) - 1 \in 0 .. Burst
    BY <2>1, <2>2, FilledFacts, LimiterAssumption
  <2>4. bucket' \in [Logins -> [tokens : 0 .. Burst, last : Nat]]
    BY <2>1, <2>2, <2>3
  <2>5. Elapsed(t, bucket[l].last) \in Nat
    BY <2>1, ElapsedFacts
  <2>6. Recorded(t, bucket[l].last) \in Window
    <3>1. /\ window.spent + 1 \in Nat
          /\ window.admitted + (IF t >= window.from THEN 1 ELSE 0) \in Nat
          /\ window.rewound + Elapsed(t, bucket[l].last) \in Nat
      BY <2>5 DEF Window
    <3>2. \A x, y, z \in Nat :
            /\ [window EXCEPT !.spent = x, !.admitted = y, !.rewound = z] \in Window
            /\ [window EXCEPT !.spent = x] \in Window
      BY DEF Window
    <3> QED BY <3>1, <3>2 DEF Recorded
  <2> QED BY <2>2, <2>4, <2>6
<1>3. ASSUME NEW r \in Logins, Refuse(r) PROVE LimiterType'
  BY <1>3 DEF Refuse
<1>4. CASE Tick \/ UNCHANGED limiterVars
  BY <1>4 DEF Tick, limiterVars
<1>5. CASE OpenWindow
  <2>1. window' \in Window
    BY <1>5 DEF OpenWindow, Window
  <2> QED BY <1>5, <2>1 DEF OpenWindow
<1>6. CASE Forget
  <2>1. window' \in Window
    <3>1. \A n \in Nat : [window EXCEPT !.spent = 0, !.restarts = n] \in Window
      BY DEF Window
    <3>2. window.restarts \in Nat /\ window.restarts + 1 \in Nat
      BY DEF Window
    <3> QED BY <1>6, <3>1, <3>2 DEF Forget
  <2>2. bucket' \in [Logins -> [tokens : 0 .. Burst, last : Nat]]
    BY <1>6, LimiterAssumption DEF Forget, FullBuckets
  <2> QED BY <1>6, <2>1, <2>2 DEF Forget
<1> QED BY <1>1, <1>2, <1>3, <1>4, <1>5, <1>6 DEF LimiterNext, LoginStep

(* How the buckets go through a login and its steps. *)
LEMMA BucketsStep == LimiterInv /\ LimiterNext => BucketsOK'
<1> SUFFICES ASSUME LimiterInv, LimiterNext PROVE BucketsOK'
  OBVIOUS
<1> USE DEF LimiterInv
<1>0. NoLimiter \notin Logins /\ Burst \in Nat
  BY LimiterAssumption
<1>1. ASSUME NEW r \in Logins, NEW k \in Clients, GetLimiter(r, k) PROVE BucketsOK'
  <2>1. /\ UNCHANGED <<bucket, now, born>>
        /\ login[r] = Idle
        /\ visitors' = IF visitors[k] = NoLimiter THEN [visitors EXCEPT ![k] = r] ELSE visitors
        /\ login' = [login EXCEPT ![r] = [pc |-> "allow", by |-> k,
                                         limiter |-> LimiterOf(k, r), read |-> now]]
    BY <1>1 DEF GetLimiter, Kept
  <2>2. LimiterOf(k, r) = visitors'[k] /\ visitors'[k] \in Logins
    BY <2>1 DEF LimiterOf, LimiterType
  <2>3. /\ login'[r] = [pc |-> "allow", by |-> k, limiter |-> visitors'[k], read |-> now]
        /\ \A q \in Logins : q # r => login'[q] = login[q]
    BY <2>1, <2>2 DEF LimiterType
  <2>4. login'[r] # Idle
    BY <2>3 DEF Idle
  <2>5. \A j \in Clients : visitors[j] # NoLimiter => visitors'[j] = visitors[j]
    BY <2>1 DEF LimiterType
  <2>6. \A j \in Clients : visitors'[j] # NoLimiter =>
           visitors'[j] = visitors[j] \/ (j = k /\ visitors[k] = NoLimiter /\ visitors'[j] = r)
    BY <2>1 DEF LimiterType
  <2>7. \A j \in Clients : visitors[j] # r
    BY <1>0, <2>1 DEF BucketsOK
  <2>8. \A q \in Logins : login'[q].pc = "allow" =>
           /\ login'[q].limiter = visitors'[login'[q].by]
           /\ born' <= login'[q].read /\ login'[q].read <= now'
    <3> SUFFICES ASSUME NEW q \in Logins, login'[q].pc = "allow"
                 PROVE  /\ login'[q].limiter = visitors'[login'[q].by]
                        /\ born' <= login'[q].read /\ login'[q].read <= now'
      OBVIOUS
    <3>1. CASE q = r
      BY <2>1, <2>3, <3>1 DEF LimiterType, BucketsOK
    <3>2. CASE q # r
      <4>1. login'[q] = login[q] /\ login[q].limiter \in Logins /\ login[q].by \in Clients
        BY <2>3, <3>2 DEF LimiterType, Idle, Done, Refused
      <4> QED BY <1>0, <2>1, <2>5, <4>1 DEF BucketsOK
    <3> QED BY <3>1, <3>2
  <2>9. \A j \in Clients : visitors'[j] # NoLimiter => login'[visitors'[j]] # Idle
    BY <2>3, <2>4, <2>6 DEF BucketsOK, LimiterType
  <2>10. \A i, j \in Clients : visitors'[i] = visitors'[j] /\ visitors'[i] # NoLimiter => i = j
    BY <2>6, <2>7 DEF BucketsOK
  <2>11. \A q \in Logins : login'[q] = Idle => login[q] = Idle
    BY <2>3, <2>4
  <2> QED BY <2>1, <2>8, <2>9, <2>10, <2>11 DEF BucketsOK, Unused
<1>2. ASSUME NEW r \in Logins, Admit(r) PROVE BucketsOK'
  <2> DEFINE l == login[r].limiter
             t == login[r].read
  <2>1. /\ l \in Logins /\ t \in Nat /\ bucket[l] \in [tokens : 0 .. Burst, last : Nat]
        /\ login[r].by \in Clients /\ l = visitors[login[r].by] /\ born <= t /\ t <= now
    BY <1>2 DEF Admit, Idle, Done, Refused, LimiterType, BucketsOK
  <2>2. /\ bucket' = [bucket EXCEPT ![l] = [tokens |-> Filled(bucket[l], t) - 1, last |-> t]]
        /\ login' = [login EXCEPT ![r] = Done]
        /\ UNCHANGED <<visitors, now, born>>
    BY <1>2 DEF Admit
  <2>3. bucket'[l].tokens < Burst /\ bucket'[l].last = t
    BY <1>0, <2>1, <2>2, FilledFacts DEF LimiterType
  <2>4. \A q \in Logins : q # l => bucket'[q] = bucket[q]
    BY <2>2 DEF LimiterType
  <2>5. \A q \in Logins : login'[q] = IF q = r THEN Done ELSE login[q]
    BY <2>2 DEF LimiterType
  <2>6. login[l] # Idle
    BY <1>0, <2>1 DEF BucketsOK
  <2>7. \A q \in Logins : login'[q].pc = "allow" => q # r /\ login'[q] = login[q]
    BY <2>5 DEF Done
  <2>8. Done # Idle
    BY DEF Done, Idle
  <2>9. \A q \in Logins : login'[q] = Idle => q # l /\ login[q] = Idle
    BY <2>5, <2>6, <2>8
  <2>10. \A q \in Logins :
            \/ Unused(q)'
            \/ bucket'[q].tokens < Burst /\ born' <= bucket'[q].last /\ bucket'[q].last <= now'
    BY <2>1, <2>2, <2>3, <2>4 DEF BucketsOK, Unused
  <2>11. \A q \in Logins : login'[q] = Idle => Unused(q)'
    BY <2>4, <2>9 DEF BucketsOK, Unused
  <2>12. \A k \in Clients : visitors[k] # NoLimiter => login'[visitors[k]] # Idle
    BY <2>5, <2>8 DEF BucketsOK, LimiterType
  <2> QED BY <2>2, <2>7, <2>10, <2>11, <2>12 DEF BucketsOK
<1>3. ASSUME NEW r \in Logins, Refuse(r) PROVE BucketsOK'
  <2>1. /\ \A q \in Logins : login'[q] = IF q = r THEN Refused ELSE login[q]
        /\ UNCHANGED <<visitors, bucket, now, born>>
        /\ Refused # Idle /\ Refused.pc # "allow"
    BY <1>3 DEF Refuse, LimiterType, Refused, Idle
  <2>2. \A k \in Clients : visitors[k] # NoLimiter => login'[visitors[k]] # Idle
    BY <2>1 DEF BucketsOK, LimiterType
  <2> QED BY <2>1, <2>2 DEF BucketsOK, Unused
<1>4. CASE Tick
  BY <1>4 DEF Tick, BucketsOK, Unused, LimiterType, Idle, Done, Refused
<1>5. CASE OpenWindow \/ UNCHANGED limiterVars
  BY <1>5 DEF OpenWindow, limiterVars, BucketsOK, Unused
<1>6. CASE Forget
  <2>1. /\ \A k \in Clients : visitors'[k] = NoLimiter
        /\ \A r \in Logins : bucket'[r].tokens = Burst /\ bucket'[r].last = 0
        /\ \A r \in Logins : login'[r].pc # "allow"
        /\ born' = now /\ now' = now
    BY <1>6 DEF Forget, FullBuckets, Done
  <2> QED BY <2>1 DEF BucketsOK, Unused, LimiterType
<1> QED BY <1>1, <1>2, <1>3, <1>4, <1>5, <1>6 DEF LimiterNext, LoginStep

(* The credit of the watched address before and after an admission. *)
Credited ==
    \/ window.admitted = 0
    \/ /\ Untouched
       /\ window.admitted <= window.restarts * Burst
                             + Rate * (born - window.from + window.rewound)
    \/ /\ ~Untouched
       /\ window.admitted + bucket[Mine].tokens
             <= (1 + window.restarts) * Burst
                + Rate * (bucket[Mine].last - window.from + window.rewound)

LEMMA ProductFacts ==
    /\ \A n \in Nat : n * Burst \in Nat /\ (1 + n) * Burst = Burst + n * Burst
    /\ \A n \in Nat : Rate * n \in Nat
BY LimiterAssumption

LEMMA LaterIsMore ==
    ASSUME NEW x \in Int, NEW y \in Int, x <= y
    PROVE  Rate * x \in Int /\ Rate * y \in Int /\ Rate * x <= Rate * y
<1>1. y - x \in Nat /\ Rate * (y - x) \in Nat
  BY LimiterAssumption
<1>2. Rate * (y - x) = Rate * y - Rate * x
  BY LimiterAssumption
<1> QED BY <1>1, <1>2, LimiterAssumption

(* An admission of the watched address by its own limiter. *)
LEMMA AdmitsWatched ==
    ASSUME LimiterInv, NEW r \in Logins, Admit(r), login[r].by = Watched
    PROVE  WindowOK'
<1> DEFINE b == bucket[Mine]
           t == login[r].read
<1>1. /\ login[r].limiter = Mine /\ Mine \in Logins /\ Mine # NoLimiter /\ t \in Nat
      /\ b \in [tokens : 0 .. Burst, last : Nat] /\ born <= t /\ t <= now
  <2>1. login[r].pc = "allow"
    BY DEF Admit
  <2>2. login[r].limiter = Mine /\ born <= t /\ t <= now
    BY <2>1 DEF LimiterInv, BucketsOK, Mine
  <2>3. login[r].limiter \in Logins /\ t \in Nat
    BY <2>1 DEF LimiterInv, LimiterType, Idle, Done, Refused
  <2> QED BY <2>2, <2>3, LimiterAssumption DEF LimiterInv, LimiterType
<1>2. /\ b.tokens \in Nat /\ b.tokens <= Burst /\ b.last \in Nat
      /\ born \in Nat /\ now \in Nat /\ Burst \in Nat
  BY <1>1, LimiterAssumption DEF LimiterInv, LimiterType
<1>3. /\ bucket'[Mine].tokens = Filled(b, t) - 1 /\ bucket'[Mine].last = t
      /\ window' = Recorded(t, b.last) /\ Filled(b, t) >= 1
      /\ UNCHANGED <<visitors, now, born>> /\ Mine' = Mine
  BY <1>1 DEF Admit, HasToken, LimiterInv, LimiterType, Mine
<1>4. /\ Filled(b, t) \in Nat /\ b.tokens <= Filled(b, t) /\ Filled(b, t) <= Burst
      /\ Filled(b, t) <= b.tokens + Rate * Elapsed(b.last, t)
      /\ Rate * Elapsed(b.last, t) \in Nat
  BY <1>1, FilledFacts
<1>5. window \in Window /\ Elapsed(t, b.last) \in Nat
  BY <1>1, <1>2, ElapsedFacts DEF LimiterInv, LimiterType
<1>6. /\ window'.spent = window.spent + 1 /\ window'.open = window.open
      /\ window'.from = window.from /\ window'.restarts = window.restarts
      /\ ~window.open => window'.admitted = window.admitted /\ window'.rewound = window.rewound
      /\ window.open =>
           /\ window'.admitted = window.admitted + (IF t >= window.from THEN 1 ELSE 0)
           /\ window'.rewound = window.rewound + Elapsed(t, b.last)
  BY <1>3, <1>5 DEF Recorded, Window
<1>7. bucket'[Mine'].tokens >= Burst - window'.spent
  BY <1>1, <1>2, <1>3, <1>4, <1>5, <1>6 DEF LimiterInv, WindowOK, Window
<1>8. ~Untouched'
  BY <1>1, <1>2, <1>3, <1>4 DEF Untouched, Unused
<1>9. Credited'
  <2>1. CASE ~window.open
    BY <1>6, <2>1 DEF Credited, LimiterInv, WindowOK
  <2>2. CASE window.open
    <3> DEFINE n == window.restarts
               a == window.admitted
               w == window.rewound
               from == window.from
               tok2 == Filled(b, t) - 1
               w2 == w + Elapsed(t, b.last)
               a2 == a + (IF t >= from THEN 1 ELSE 0)
    <3>1. /\ n \in Nat /\ a \in Nat /\ w \in Nat /\ from \in Nat
          /\ tok2 \in Nat /\ w2 \in Nat /\ a2 \in Nat /\ a2 <= a + 1
      BY <1>1, <1>3, <1>4, <1>5 DEF Window
    <3>2. SUFFICES a2 = 0 \/ a2 + tok2 <= (1 + n) * Burst + Rate * (t - from + w2)
      BY <1>3, <1>6, <1>8, <2>2 DEF Credited
    <3>3. CASE a = 0
      <4>1. CASE t >= from
        <5>1. t - from + w2 \in Nat /\ Rate * (t - from + w2) \in Nat
          BY <1>1, <3>1, <4>1, ProductFacts, LimiterAssumption
        <5>2. (1 + n) * Burst = Burst + n * Burst /\ n * Burst \in Nat
          BY <3>1, ProductFacts
        <5>3. a2 + tok2 <= Burst
          BY <1>2, <1>4, <3>1, <3>3
        <5> HIDE DEF n, a2, tok2, w2, t
        <5> QED BY <1>2, <3>1, <5>1, <5>2, <5>3
      <4>2. CASE ~(t >= from)
        BY <3>3, <4>2
      <4> QED BY <4>1, <4>2
    <3>4. CASE a # 0 /\ Untouched
      <4>1. b.tokens = Burst /\ b.last = 0 /\ a <= n * Burst + Rate * (born - from + w)
        BY <1>1, <3>4 DEF LimiterInv, WindowOK, Untouched, Unused
      <4>2. /\ born - from + w <= t - from + w2
            /\ born - from + w \in Int /\ t - from + w2 \in Int
        BY <1>1, <1>2, <1>5, <3>1
      <4>3. /\ Rate * (born - from + w) <= Rate * (t - from + w2)
            /\ Rate * (born - from + w) \in Int /\ Rate * (t - from + w2) \in Int
        BY <4>2, LaterIsMore
      <4>4. (1 + n) * Burst = Burst + n * Burst /\ n * Burst \in Nat
        BY <3>1, ProductFacts
      <4>5. tok2 + 1 <= Burst
        BY <1>2, <1>4
      <4> HIDE DEF n, a, w, a2, tok2, w2, t
      <4> QED BY <1>2, <3>1, <4>1, <4>3, <4>4, <4>5
    <3>5. CASE a # 0 /\ ~Untouched
      <4>1. a + b.tokens <= (1 + n) * Burst + Rate * (b.last - from + w)
        BY <3>5 DEF LimiterInv, WindowOK
      <4>2. tok2 + 1 <= b.tokens + Rate * Elapsed(b.last, t)
        BY <1>2, <1>4
      <4>3. w2 = w + Elapsed(t, b.last) /\ t \in Nat
        BY <1>1
      <4> DEFINE e == Elapsed(b.last, t)
                 d == b.last - from + w
                 before == Rate * d
                 gained == Rate * e
                 after == Rate * (t - from + w2)
                 base == (1 + n) * Burst
      <4>4. e \in Nat /\ d \in Int /\ t - from + w2 = d + e
        <5> DEFINE back == Elapsed(t, b.last)
                   last == b.last
        <5>1. e \in Nat /\ back \in Nat /\ t + back = last + e
          BY <1>2, <4>3, ElapsedFacts
        <5>2. d = last - from + w /\ w2 = w + back /\ last \in Nat
          BY <1>2, <4>3
        <5> HIDE DEF b, w, from, w2, t, e, d, back, last
        <5> QED BY <3>1, <4>3, <5>1, <5>2
      <4>5. /\ before \in Int /\ gained \in Int /\ after \in Int
            /\ after = before + gained
        BY <4>4, RateGained
      <4>6. base \in Int
        BY <3>1, LimiterAssumption
      <4>7. a + b.tokens <= base + before /\ tok2 + 1 <= b.tokens + gained
        BY <4>1, <4>2
      <4>8. a2 + tok2 <= base + after
        <5> HIDE DEF b, n, a, w, from, a2, tok2, w2, t, e, d, before, gained, after, base
        <5> QED BY <1>2, <3>1, <4>5, <4>6, <4>7
      <4> QED BY <4>8
    <3> QED BY <3>3, <3>4, <3>5
  <2> QED BY <2>1, <2>2
<1> QED BY <1>3, <1>6, <1>7, <1>9 DEF Credited, LimiterInv, WindowOK

LEMMA WindowStep == LimiterInv /\ LimiterNext => WindowOK'
<1> SUFFICES ASSUME LimiterInv, LimiterNext PROVE WindowOK'
  OBVIOUS
<1> USE DEF LimiterInv
<1>0. NoLimiter \notin Logins /\ Burst \in Nat /\ Rate \in Nat /\ Watched \in Clients
  BY LimiterAssumption
<1>1. ASSUME NEW r \in Logins, NEW k \in Clients, GetLimiter(r, k) PROVE WindowOK'
  <2>1. UNCHANGED <<bucket, now, born, window>> /\ visitors' = Kept(k, r) /\ login[r] = Idle
    BY <1>1 DEF GetLimiter
  <2>2. CASE Mine' = Mine
    BY <2>1, <2>2 DEF WindowOK, Untouched, Unused
  <2>3. CASE Mine' # Mine
    <3>1. Mine = NoLimiter /\ Mine' = r /\ r # NoLimiter
      BY <1>0, <2>1, <2>3 DEF Kept, Mine, LimiterType
    <3>2. Unused(r) /\ Untouched /\ Untouched'
      BY <2>1, <3>1 DEF BucketsOK, Untouched, Unused
    <3>3. bucket[r].tokens >= Burst - window.spent
      BY <1>0, <3>2 DEF Unused, LimiterType, Window
    <3> QED BY <2>1, <3>1, <3>2, <3>3 DEF WindowOK
  <2> QED BY <2>2, <2>3
<1>2. ASSUME NEW r \in Logins, Admit(r) PROVE WindowOK'
  <2>1. CASE login[r].by = Watched
    BY <1>2, <2>1, AdmitsWatched
  <2>2. CASE login[r].by # Watched
    <3>1. /\ login[r].limiter = visitors[login[r].by] /\ login[r].by \in Clients
          /\ login[r].limiter \in Logins
      BY <1>2 DEF Admit, LimiterType, BucketsOK, Idle, Done, Refused
    <3>2. login[r].limiter # Mine
      BY <1>0, <2>2, <3>1 DEF BucketsOK, Mine
    <3>3. UNCHANGED <<visitors, now, born, window>> /\ Mine' = Mine
      BY <1>2, <2>2 DEF Admit, Mine
    <3>4. Mine # NoLimiter => bucket'[Mine] = bucket[Mine]
      BY <1>0, <1>2, <3>2 DEF Admit, Mine, LimiterType
    <3>5. Untouched' = Untouched
      BY <3>3, <3>4 DEF Untouched, Unused
    <3> QED BY <3>3, <3>4, <3>5 DEF WindowOK, Untouched
  <2> QED BY <2>1, <2>2
<1>3. ASSUME NEW r \in Logins, Refuse(r) PROVE WindowOK'
  BY <1>3 DEF Refuse, WindowOK, Mine, Untouched, Unused
<1>4. CASE Tick
  BY <1>4 DEF Tick, WindowOK, Mine, Untouched, Unused, LimiterType, Window
<1>5. CASE OpenWindow
  <2>1. /\ window'.open /\ window'.from = now /\ window'.admitted = window.admitted
        /\ window'.spent = window.spent
        /\ UNCHANGED <<visitors, bucket, now, born>>
    BY <1>5 DEF OpenWindow, LimiterType, Window
  <2> QED BY <1>5, <2>1 DEF OpenWindow, WindowOK, Mine, LimiterType
<1>6. CASE Forget
  <2>1. /\ Mine' = NoLimiter /\ born' = now /\ now' = now
        /\ window'.open = window.open /\ window'.from = window.from
        /\ window'.admitted = window.admitted /\ window'.rewound = window.rewound
        /\ window'.restarts = IF window.open THEN window.restarts + 1 ELSE window.restarts
    BY <1>0, <1>6 DEF Forget, Mine, LimiterType, Window
  <2>2. Untouched'
    BY <2>1 DEF Untouched
  <2>3. CASE window.admitted = 0
    BY <2>1, <2>3 DEF WindowOK
  <2>4. CASE window.admitted # 0
    <3> DEFINE n == window.restarts
               a == window.admitted
               w == window.rewound
               from == window.from
    <3>1. window.open /\ window'.restarts = n + 1
      BY <2>1, <2>4 DEF WindowOK
    <3>2. n \in Nat /\ a \in Nat /\ w \in Nat /\ from \in Nat /\ born \in Nat /\ now \in Nat
      BY DEF LimiterType, Window
    <3>3. /\ (1 + n) * Burst = Burst + n * Burst /\ n * Burst \in Nat
          /\ (n + 1) * Burst = Burst + n * Burst
      BY <1>0, <3>2, ProductFacts
    <3>4. a <= (n + 1) * Burst + Rate * (now - from + w)
      <4>1. CASE Untouched
        <5>1. a <= n * Burst + Rate * (born - from + w)
          BY <2>4, <4>1 DEF WindowOK
        <5>2. /\ born - from + w <= now - from + w
              /\ born - from + w \in Int /\ now - from + w \in Int
          BY <3>2 DEF BucketsOK
        <5>3. /\ Rate * (born - from + w) <= Rate * (now - from + w)
              /\ Rate * (born - from + w) \in Int /\ Rate * (now - from + w) \in Int
          BY <5>2, LaterIsMore
        <5> HIDE DEF n, a, w, from
        <5> QED BY <1>0, <3>2, <3>3, <5>1, <5>3
      <4>2. CASE ~Untouched
        <5>1. /\ Mine \in Logins /\ bucket[Mine].tokens \in Nat /\ bucket[Mine].last \in Nat
              /\ bucket[Mine].last <= now
          BY <1>0, <4>2 DEF Untouched, Mine, LimiterType, BucketsOK
        <5>2. a + bucket[Mine].tokens <= (1 + n) * Burst + Rate * (bucket[Mine].last - from + w)
          BY <2>4, <4>2 DEF WindowOK
        <5>3. /\ bucket[Mine].last - from + w <= now - from + w
              /\ bucket[Mine].last - from + w \in Int /\ now - from + w \in Int
          BY <3>2, <5>1
        <5>4. /\ Rate * (bucket[Mine].last - from + w) <= Rate * (now - from + w)
              /\ Rate * (bucket[Mine].last - from + w) \in Int /\ Rate * (now - from + w) \in Int
          BY <5>3, LaterIsMore
        <5> HIDE DEF n, a, w, from
        <5> QED BY <1>0, <3>2, <3>3, <5>1, <5>2, <5>4
      <4> QED BY <4>1, <4>2
    <3> QED BY <2>1, <2>2, <3>1, <3>4 DEF WindowOK
  <2> QED BY <2>3, <2>4
<1>7. CASE UNCHANGED limiterVars
  BY <1>7 DEF limiterVars, WindowOK, Mine, Untouched, Unused
<1> QED BY <1>1, <1>2, <1>3, <1>4, <1>5, <1>6, <1>7 DEF LimiterNext, LoginStep

-----------------------------------------------------------------------------
(* The server. *)

ServerInv == ProcessInv /\ LimiterInv

LEMMA Invariant == Spec => []ServerInv
<1>1. Init => ServerInv
  BY ProcessStarts, LimiterStarts DEF Init, ServerInv
<1>2. ServerInv /\ [Next]_vars => ServerInv'
  <2> SUFFICES ASSUME ServerInv, [Next]_vars PROVE ServerInv'
    OBVIOUS
  <2>1. ProcessNext /\ LimiterNext
    BY DEF Next, vars, StartAgain, ServeLogin, Time, Quiescent, ProcessNext, LimiterNext
  <2> QED BY <2>1, ProcessKeeps, LimiterTypeStep, BucketsStep, WindowStep DEF ServerInv, LimiterInv
<1> QED BY <1>1, <1>2, PTL DEF Spec

(* The process and its limiter stay of their types, for every rate, burst    *)
(* and number of logins, signals, failures and restarts.                     *)
THEOREM TypeCorrect == Spec => []TypeOK
<1>1. ServerInv => TypeOK
  BY DEF ServerInv, ProcessInv, LimiterInv, TypeOK
<1> QED BY <1>1, Invariant, PTL

(* No exporter is shut down twice, though the set-up that fails and stop     *)
(* both do it; when main has returned each that was built has been, and the  *)
(* channel is closed if Run returned (bootstrap.go 64-70, otel.go 21-65).    *)
THEOREM ProvidersStopOnce == Spec => []StopsCleanly
<1>1. ServerInv => StopsCleanly
  BY DEF ServerInv, ProcessInv, ProcessType, OtelOK, ConsumerOK, StopsCleanly
<1> QED BY <1>1, Invariant, PTL

(* A pod that answers its readiness probe has a consumer of timeouts as long *)
(* as the channel it found open gave it no reason to end (health.go 26-73).  *)
THEOREM ReadinessMeansListening == Spec => []ReadyIsListening
<1>1. ServerInv => ReadyIsListening
  BY DEF ServerInv, ProcessInv, ProcessType, OtelOK, ConsumerOK, ReadyIsListening, Ready, Serving
<1> QED BY <1>1, Invariant, PTL

(* No window of time sees more admissions of an address than its bucket, its *)
(* rate, the restarts and the late logins allow (ratelimit.go 31-64).        *)
THEOREM AdmissionsAreBounded == Spec => []AdmissionsBounded
<1>1. ASSUME LimiterInv, window.open
      PROVE  window.admitted <= (1 + window.restarts) * Burst
                                + Rate * (now - window.from + window.rewound)
  <2> DEFINE n == window.restarts
             a == window.admitted
             w == window.rewound
             from == window.from
  <2>1. /\ n \in Nat /\ a \in Nat /\ w \in Nat /\ from \in Nat /\ born \in Nat /\ now \in Nat
        /\ from <= now /\ born <= now /\ Burst \in Nat
    BY <1>1, LimiterAssumption DEF LimiterInv, LimiterType, Window, BucketsOK, WindowOK
  <2>2. (1 + n) * Burst = Burst + n * Burst /\ n * Burst \in Nat
    BY <2>1, ProductFacts
  <2>3. a <= (1 + n) * Burst + Rate * (now - from + w)
    <3>3. CASE a = 0
      <4>1. now - from + w \in Nat
        BY <2>1
      <4>2. Rate * (now - from + w) \in Nat
        BY <4>1, ProductFacts
      <4> QED BY <2>1, <2>2, <3>3, <4>2
    <3>4. CASE a # 0 /\ Untouched
      <4>1. a <= n * Burst + Rate * (born - from + w)
        BY <1>1, <3>4 DEF LimiterInv, WindowOK
      <4>2. /\ born - from + w <= now - from + w
            /\ born - from + w \in Int /\ now - from + w \in Int
        BY <2>1
      <4>3. /\ Rate * (born - from + w) <= Rate * (now - from + w)
            /\ Rate * (born - from + w) \in Int /\ Rate * (now - from + w) \in Int
        BY <4>2, LaterIsMore
      <4> HIDE DEF n, a, w, from
      <4> QED BY <2>1, <2>2, <4>1, <4>3
    <3>5. CASE a # 0 /\ ~Untouched
      <4> DEFINE b == bucket[Mine]
      <4>0. Mine \in Logins /\ ~Unused(Mine)
        BY <1>1, <3>5, LimiterAssumption DEF LimiterInv, LimiterType, Untouched, Mine
      <4>1. b.tokens \in Nat /\ b.last \in Nat /\ b.last <= now
        BY <1>1, <4>0, LimiterAssumption DEF LimiterInv, LimiterType, BucketsOK
      <4>2. a + b.tokens <= (1 + n) * Burst + Rate * (b.last - from + w)
        BY <1>1, <3>5 DEF LimiterInv, WindowOK
      <4>3. /\ b.last - from + w <= now - from + w
            /\ b.last - from + w \in Int /\ now - from + w \in Int
        BY <2>1, <4>1
      <4>4. /\ Rate * (b.last - from + w) <= Rate * (now - from + w)
            /\ Rate * (b.last - from + w) \in Int /\ Rate * (now - from + w) \in Int
        BY <4>3, LaterIsMore
      <4> HIDE DEF n, a, w, from, b
      <4> QED BY <2>1, <2>2, <4>1, <4>2, <4>4
    <3> QED BY <3>3, <3>4, <3>5
  <2> QED BY <2>3
<1>2. ServerInv => AdmissionsBounded
  BY <1>1 DEF ServerInv, AdmissionsBounded
<1> QED BY <1>2, Invariant, PTL

(* A refused login's address has had a whole bucket of this process's tokens *)
(* (ratelimit.go 54-58): others' logins and late ones cost it none.          *)
THEOREM RefusalsAreEarned == Spec => RefusedAfterBurst
<1>1. ASSUME LimiterInv, LimiterNext, NEW r \in Logins,
             login'[r] = Refused, login[r] # Refused, login[r].by = Watched
      PROVE  window.spent >= Burst
  <2>1. Refused # Done /\ Refused.pc # "allow"
    BY DEF Refused, Done
  <2>2. \A q \in Logins, k \in Clients : ~GetLimiter(q, k)
    <3> SUFFICES ASSUME NEW q \in Logins, NEW k \in Clients, GetLimiter(q, k) PROVE FALSE
      OBVIOUS
    <3>1. login' = [login EXCEPT ![q] = [pc |-> "allow", by |-> k,
                                         limiter |-> LimiterOf(k, q), read |-> now]]
      BY DEF GetLimiter
    <3>2. login'[r] = login[r] \/ login'[r].pc = "allow"
      BY <3>1 DEF LimiterInv, LimiterType
    <3> QED BY <1>1, <2>1, <3>2
  <2>3. PICK q \in Logins : Refuse(q)
    <3>1. \A q \in Logins : ~Admit(q)
      BY <1>1, <2>1 DEF Admit, LimiterInv, LimiterType
    <3>2. ~Tick /\ ~OpenWindow /\ ~UNCHANGED limiterVars
      BY <1>1 DEF Tick, OpenWindow, limiterVars
    <3>3. ~Forget
      BY <1>1, <2>1 DEF Forget
    <3> QED BY <1>1, <2>2, <3>1, <3>2, <3>3 DEF LimiterNext, LoginStep
  <2>4. q = r
    BY <1>1, <2>3 DEF Refuse, LimiterInv, LimiterType
  <2> DEFINE b == bucket[Mine]
             t == login[r].read
  <2>5. login[r].pc = "allow" /\ login[r].limiter = Mine
    BY <1>1, <2>3, <2>4 DEF Refuse, LimiterInv, BucketsOK, Mine
  <2>6. Mine \in Logins /\ Mine # NoLimiter /\ t \in Nat
    BY <1>1, <2>5, LimiterAssumption DEF LimiterInv, LimiterType, Idle, Done, Refused
  <2>7. b \in [tokens : 0 .. Burst, last : Nat] /\ ~HasToken(b, t)
    BY <1>1, <2>3, <2>4, <2>5, <2>6 DEF Refuse, LimiterInv, LimiterType
  <2>8. b.tokens = 0
    BY <2>6, <2>7, FilledFacts, LimiterAssumption DEF HasToken
  <2> QED BY <1>1, <2>6, <2>8, LimiterAssumption
          DEF LimiterInv, WindowOK, LimiterType, Window
<1>2. ServerInv /\ [Next]_vars =>
        [\A r \in Logins :
           login'[r] = Refused /\ login[r] # Refused /\ login[r].by = Watched
              => window.spent >= Burst]_limiterVars
  <2> SUFFICES ASSUME ServerInv, [Next]_vars, NEW r \in Logins,
                      login'[r] = Refused, login[r] # Refused, login[r].by = Watched
               PROVE  window.spent >= Burst
    OBVIOUS
  <2>1. LimiterNext
    BY DEF Next, vars, StartAgain, ServeLogin, Time, Quiescent, LimiterNext
  <2> QED BY <1>1, <2>1 DEF ServerInv
<1> QED BY <1>2, Invariant, PTL DEF Spec, RefusedAfterBurst
=============================================================================
