--------------------------- MODULE SessionsProofs ---------------------------
(* Proofs about Sessions for every set of requests and users and every life *)
(* of the tokens: types, the list of a user's sessions, the finality of a    *)
(* logout and of a token's replacement, and the time to live of the hashes.  *)
EXTENDS Sessions, TLAPS

(* How a request ended tells whether it did, and a request that is not a    *)
(* login is of a session whose login was answered with success.             *)
RequestsWellFormed ==
    \A c \in Calls :
        /\ call[c].reply = "ok" => call[c].pc = "done"
        /\ call[c].pc = "idle" => call[c].op = "login"
        /\ call[c].op = "login" => call[c].sid = c
        /\ call[c].op # "login" =>
              /\ call[call[c].sid].op = "login"
              /\ call[call[c].sid].reply = "ok"
              /\ call[call[c].sid].user = call[c].user
        /\ call[c].made <= now

(* What Redis holds was made by requests of that session and that user.     *)
RedisWellFormed ==
    /\ \A s \in Calls : session[s] # Absent =>
          /\ call[s].pc # "idle" /\ call[s].op = "login"
          /\ call[session[s].at].pc # "idle" /\ call[session[s].at].sid = s
          /\ call[session[s].rt].pc # "idle" /\ call[session[s].rt].sid = s
    /\ \A u \in Users : \A s \in listed[u] :
          call[s].pc # "idle" /\ call[s].user = u

IInv ==
    /\ TypeOK /\ RequestsWellFormed /\ RedisWellFormed
    /\ LoggedOutStaysOut /\ SessionsListed /\ KeyOutlivesRefresh

-----------------------------------------------------------------------------
LEMMA HashType ==
    /\ Absent = [at |-> NoCall, rt |-> NoCall, until |-> 0]
    /\ \A h \in Hash : h # Absent /\ h.at \in Calls /\ h.rt \in Calls /\ h.until \in Nat
BY CallsAssumption DEF Absent, Hash

LEMMA InitInv == Init => IInv
<1> SUFFICES ASSUME Init PROVE IInv
  OBVIOUS
<1>1. TypeOK
  BY DEF Init, TypeOK, CallState, Ops
<1>2. RequestsWellFormed /\ RedisWellFormed
  BY DEF Init, RequestsWellFormed, RedisWellFormed
<1>3. LoggedOutStaysOut /\ SessionsListed /\ KeyOutlivesRefresh
  BY DEF Init, LoggedOutStaysOut, SessionsListed, KeyOutlivesRefresh, Exists
<1> QED BY <1>1, <1>2, <1>3 DEF IInv

OthersStay(c) ==
    /\ call' \in [Calls -> CallState]
    /\ \A d \in Calls : d # c => call'[d] = call[d]

(* A request begins: it is refused, goes on as a login, or is verified.     *)
Begins(c) ==
    /\ call[c].pc = "idle" /\ UNCHANGED <<session, listed, now>>
    /\ faults' \in Nat
    /\ OthersStay(c)
    /\ call'[c].pc # "idle" /\ call'[c].reply # "ok" /\ call'[c].made <= now
    /\ call'[c].op = "login" => call'[c].sid = c
    /\ call'[c].op # "login" =>
          /\ call[call'[c].sid].op = "login" /\ call[call'[c].sid].reply = "ok"
          /\ call[call'[c].sid].user = call'[c].user

(* A script runs or not, and its request ends or not.                       *)
Runs(c) ==
    /\ call[c].pc = "script" /\ UNCHANGED now /\ faults' \in Nat
    /\ Changes(c) \/ UNCHANGED redis
    /\ OthersStay(c)
    /\ call'[c].pc \in {"script", "done"}
    /\ call'[c].op = call[c].op /\ call'[c].user = call[c].user
    /\ call'[c].sid = call[c].sid /\ call'[c].made = call[c].made
    /\ call'[c].reply = "ok" => Changes(c) /\ call'[c].pc = "done"

LEMMA FinishedCall ==
    ASSUME call \in [Calls -> CallState], NEW c \in Calls,
           NEW reply \in {"ok", "userNotFound", "expired", "invalid", "revoked", "error"},
           Finish(c, reply)
    PROVE  /\ call' \in [Calls -> CallState]
           /\ \A d \in Calls : d # c => call'[d] = call[d]
           /\ call'[c].pc = "done" /\ call'[c].reply = reply
           /\ call'[c].op = call[c].op /\ call'[c].user = call[c].user
           /\ call'[c].sid = call[c].sid /\ call'[c].made = call[c].made
<1>1. call[c] \in CallState
  OBVIOUS
<1>2. [call[c] EXCEPT !.pc = "done", !.reply = reply] \in CallState
  BY <1>1 DEF CallState
<1>3. /\ [call[c] EXCEPT !.pc = "done", !.reply = reply].pc = "done"
      /\ [call[c] EXCEPT !.pc = "done", !.reply = reply].reply = reply
      /\ [call[c] EXCEPT !.pc = "done", !.reply = reply].op = call[c].op
      /\ [call[c] EXCEPT !.pc = "done", !.reply = reply].user = call[c].user
      /\ [call[c] EXCEPT !.pc = "done", !.reply = reply].sid = call[c].sid
      /\ [call[c] EXCEPT !.pc = "done", !.reply = reply].made = call[c].made
  BY <1>1 DEF CallState
<1>4. /\ call' \in [Calls -> CallState]
      /\ \A d \in Calls : d # c => call'[d] = call[d]
      /\ call'[c] = [call[c] EXCEPT !.pc = "done", !.reply = reply]
  BY <1>2 DEF Finish
<1> QED BY <1>3, <1>4

LEMMA StepBegins ==
    ASSUME IInv, NEW c \in Calls, Request(c) \/ VerifyFails(c)
    PROVE  Begins(c)
<1>0. /\ call \in [Calls -> CallState] /\ now \in Nat /\ faults \in Nat
      /\ \A d \in Calls : call[d] \in CallState
  BY DEF IInv, TypeOK
<1>1. ASSUME NEW reply \in {"userNotFound", "expired", "invalid", "revoked", "error"},
             Finish(c, reply), call[c].pc = "idle",
             UNCHANGED <<redis, now>>, faults' \in Nat
      PROVE  Begins(c)
  <2>1. /\ OthersStay(c) /\ call'[c].pc = "done" /\ call'[c].reply = reply
        /\ call'[c].made = call[c].made /\ call'[c].op = call[c].op
        /\ call'[c].sid = call[c].sid
    BY <1>0, <1>1, FinishedCall DEF OthersStay
  <2>2. call[c].made <= now /\ call[c].op = "login" /\ call[c].sid = c
    BY <1>1 DEF IInv, RequestsWellFormed
  <2> QED BY <1>1, <2>1, <2>2 DEF Begins, redis
<1>2. CASE Login(c)
  <2>1. CASE Finish(c, "userNotFound")
    BY <1>0, <1>1, <1>2, <2>1 DEF Login
  <2>2. CASE call' = [call EXCEPT ![c] = [@ EXCEPT !.pc = "script", !.made = now]]
    <3>1. /\ OthersStay(c) /\ call'[c].pc = "script" /\ call'[c].reply = call[c].reply
          /\ call'[c].made = now /\ call'[c].op = call[c].op
          /\ call'[c].sid = call[c].sid
      <4> DEFINE r == [call[c] EXCEPT !.pc = "script", !.made = now]
      <4>1. call[c] \in CallState /\ now \in Nat
        BY <1>0
      <4>2. r \in CallState
        BY <4>1 DEF CallState
      <4>3. /\ r.pc = "script" /\ r.made = now /\ r.reply = call[c].reply
            /\ r.op = call[c].op /\ r.sid = call[c].sid
        BY <4>1 DEF CallState
      <4>4. /\ call' \in [Calls -> CallState]
            /\ \A d \in Calls : d # c => call'[d] = call[d]
            /\ call'[c] = r
        BY <1>0, <2>2, <4>2
      <4> QED BY <4>3, <4>4 DEF OthersStay
    <3>2. call[c].pc = "idle" /\ call[c].op = "login" /\ call[c].sid = c
          /\ call[c].reply # "ok"
      BY <1>0, <1>2 DEF IInv, RequestsWellFormed, Login
    <3> QED BY <1>0, <1>2, <3>1, <3>2 DEF Begins, Login, redis
  <2> QED BY <1>2, <2>1, <2>2 DEF Login
<1>3. ASSUME NEW t \in Calls, NEW op \in Ops \ {"login"}, NEW life, NEW stored,
             call[t].reply = "ok", Verify(c, op, t, life, stored)
      PROVE  Begins(c)
  <2> DEFINE s == call[t].sid
             r == [pc |-> "script", op |-> op, user |-> call[t].user,
                   sid |-> s, made |-> now, reply |-> "none"]
  <2>1. CASE call' = [call EXCEPT ![c] = r]
    <3>1. r \in CallState /\ OthersStay(c) /\ call'[c] = r
      BY <1>0, <2>1 DEF CallState, OthersStay
    <3>2. s \in Calls /\ call[s].op = "login" /\ call[s].reply = "ok"
          /\ call[s].user = call[t].user
      BY <1>0, <1>3 DEF IInv, RequestsWellFormed, CallState
    <3>3. call'[c].op = op /\ call'[c].made = now /\ call'[c].sid = s
          /\ call'[c].user = call[t].user /\ call'[c].pc = "script"
          /\ call'[c].reply = "none" /\ op # "login"
      BY <3>1
    <3> QED BY <1>0, <1>3, <3>1, <3>2, <3>3 DEF Begins, Verify, redis
  <2>2. CASE Finish(c, "expired") \/ Finish(c, "invalid") \/ Finish(c, "revoked")
    BY <1>0, <1>1, <1>3, <2>2 DEF Verify
  <2> QED BY <1>3, <2>1, <2>2 DEF Verify
<1>4. CASE \E t \in Calls : PresentRefresh(c, t) \/ PresentAccess(c, t)
  BY <1>3, <1>4 DEF PresentRefresh, PresentAccess, HoldsAccess, HoldsRefresh, Ops
<1>5. CASE VerifyFails(c)
  BY <1>0, <1>1, <1>5 DEF VerifyFails
<1> QED BY <1>2, <1>4, <1>5 DEF Request

LEMMA StepRuns ==
    ASSUME IInv, NEW c \in Calls, RunScript(c) \/ ScriptUnanswered(c)
    PROVE  Runs(c)
<1>0. /\ call \in [Calls -> CallState] /\ faults \in Nat
      /\ call[c].pc = "script" => call[c].reply # "ok"
  BY DEF IInv, TypeOK, RequestsWellFormed
<1>1. CASE UNCHANGED call
  BY <1>0, <1>1 DEF RunScript, ScriptUnanswered, Runs, OthersStay, Finish
<1>2. ASSUME NEW reply \in {"ok", "invalid", "error"}, Finish(c, reply)
      PROVE  /\ OthersStay(c) /\ call'[c].pc = "done" /\ call'[c].reply = reply
             /\ call'[c].op = call[c].op /\ call'[c].user = call[c].user
             /\ call'[c].sid = call[c].sid /\ call'[c].made = call[c].made
  BY <1>0, <1>2, FinishedCall DEF OthersStay
<1>3. CASE RunScript(c)
  BY <1>0, <1>2, <1>3 DEF RunScript, Runs
<1>4. CASE ScriptUnanswered(c) /\ Finish(c, "error")
  BY <1>0, <1>2, <1>4 DEF ScriptUnanswered, Runs
<1> QED BY <1>1, <1>3, <1>4 DEF ScriptUnanswered

-----------------------------------------------------------------------------
(* What a script does to Redis. *)

LEMMA CreateEffect ==
    ASSUME IInv, NEW c \in Calls, call[c].pc = "script", CreateSession(c)
    PROVE  /\ call[c].op = "login" /\ call[c].sid = c
           /\ session' \in [Calls -> Hash \cup {Absent}]
           /\ session'[c].at = c /\ session'[c].rt = c
           /\ session'[c].until = now + RefreshLife
           /\ session'[c] # Absent
           /\ \A s \in Calls : s # c => session'[s] = session[s]
           /\ listed' \in [Users -> SUBSET Calls]
           /\ c \in listed'[call[c].user]
           /\ \A u \in Users : \A s \in Calls :
                 /\ s \in listed'[u] => s \in listed[u] \/ (s = c /\ u = call[c].user)
                 /\ s \in listed[u] /\ Exists(s) => s \in listed'[u]
<1>1. /\ session \in [Calls -> Hash \cup {Absent}] /\ listed \in [Users -> SUBSET Calls]
      /\ now + RefreshLife \in Nat /\ call[c].user \in Users
  BY LivesAssumption DEF IInv, TypeOK, CallState
<1>2. call[c].op = "login" /\ call[c].sid = c
  BY DEF IInv, RequestsWellFormed, CreateSession
<1>3. [at |-> c, rt |-> c, until |-> now + RefreshLife] \in Hash
  BY <1>1 DEF Hash
<1>4. /\ session' \in [Calls -> Hash \cup {Absent}]
      /\ session'[c] = [at |-> c, rt |-> c, until |-> now + RefreshLife]
      /\ \A s \in Calls : s # c => session'[s] = session[s]
  BY <1>1, <1>3 DEF CreateSession
<1> DEFINE alive == {s \in Calls : Exists(s)}
           L == Prune(listed[call[c].user] \cup {c}, c, alive)
<1>5. /\ L \subseteq Calls /\ c \in L
      /\ \A s \in Calls : /\ s \in L => s \in listed[call[c].user] \/ s = c
                          /\ s \in listed[call[c].user] /\ Exists(s) => s \in L
  BY <1>1 DEF Prune
<1>6. /\ listed' \in [Users -> SUBSET Calls] /\ listed'[call[c].user] = L
      /\ \A u \in Users : u # call[c].user => listed'[u] = listed[u]
  BY <1>1, <1>5 DEF CreateSession
<1>7. /\ session'[c].at = c /\ session'[c].rt = c
      /\ session'[c].until = now + RefreshLife
      /\ session'[c] # Absent
  BY <1>3, <1>4, HashType
<1> QED BY ZenonT(30), <1>1, <1>2, <1>4, <1>5, <1>6, <1>7

LEMMA SetEffect ==
    ASSUME IInv, NEW c \in Calls, call[c].pc = "script",
           SetAccessToken(c) \/ SetRefreshToken(c)
    PROVE  LET s == call[c].sid
           IN  /\ s \in Calls /\ s # c /\ session[s] # Absent /\ session[s] \in Hash
               /\ UNCHANGED listed
               /\ session' \in [Calls -> Hash \cup {Absent}]
               /\ \A q \in Calls : q # s => session'[q] = session[q]
               /\ session'[s] \in Hash /\ session'[s] # Absent /\ Exists(s)
               /\ \/ /\ SetAccessToken(c) /\ session'[s].at = c
                     /\ session'[s].rt = session[s].rt
                     /\ session'[s].until = session[s].until
                  \/ /\ SetRefreshToken(c) /\ session'[s].rt = c
                     /\ session'[s].at = session[s].at
                     /\ session'[s].until = now + RefreshLife * NanosPerSecond
<1> DEFINE s == call[c].sid
<1>1. /\ session \in [Calls -> Hash \cup {Absent}]
      /\ now + RefreshLife * NanosPerSecond \in Nat /\ s \in Calls
  BY LivesAssumption DEF IInv, TypeOK, CallState, NanosPerSecond
<1>2. s # c
  BY DEF IInv, RequestsWellFormed, SetAccessToken, SetRefreshToken
<1>3. session[s] # Absent /\ session[s] \in Hash /\ Exists(s) /\ UNCHANGED listed
  BY <1>1 DEF SetAccessToken, SetRefreshToken, Exists
<1>4. CASE SetAccessToken(c)
  <2> DEFINE h == [session[s] EXCEPT !.at = c]
  <2>1. h \in Hash /\ h.at = c /\ h.rt = session[s].rt /\ h.until = session[s].until
    BY <1>3 DEF Hash
  <2>2. session' = [session EXCEPT ![s] = h]
    BY <1>4 DEF SetAccessToken
  <2>3. session'[s] = h /\ \A q \in Calls : q # s => session'[q] = session[q]
    BY <1>1, <2>2
  <2>4. session' \in [Calls -> Hash \cup {Absent}]
    BY <1>1, <2>1, <2>2
  <2> QED BY <1>1, <1>2, <1>3, <1>4, <2>1, <2>3, <2>4, HashType
<1>5. CASE SetRefreshToken(c)
  <2> DEFINE h == [at |-> session[s].at, rt |-> c,
                   until |-> now + RefreshLife * NanosPerSecond]
  <2>1. h \in Hash
    BY <1>1, <1>3 DEF Hash
  <2>2. session'[s] = h /\ \A q \in Calls : q # s => session'[q] = session[q]
    BY <1>1, <1>3, <1>5 DEF SetRefreshToken, Hash
  <2>3. session' \in [Calls -> Hash \cup {Absent}]
    BY <1>1, <1>5, <2>1, <2>2 DEF SetRefreshToken
  <2> QED BY <1>1, <1>2, <1>3, <1>5, <2>1, <2>2, <2>3, HashType
<1> QED BY <1>4, <1>5

LEMMA DeleteEffect ==
    ASSUME IInv, NEW c \in Calls, call[c].pc = "script", DelSession(c)
    PROVE  LET s == call[c].sid
           IN  /\ s \in Calls /\ call[s].user = call[c].user /\ call[c].op = "logout"
               /\ session' \in [Calls -> Hash \cup {Absent}]
               /\ session'[s] = Absent
               /\ \A q \in Calls : q # s => session'[q] = session[q]
               /\ listed' \in [Users -> SUBSET Calls]
               /\ \A u \in Users : \A q \in Calls :
                     /\ q \in listed'[u] => q \in listed[u]
                     /\ q \in listed[u] /\ q # s => q \in listed'[u]
               /\ s \notin listed'[call[c].user]
<1>1. /\ session \in [Calls -> Hash \cup {Absent}] /\ listed \in [Users -> SUBSET Calls]
      /\ call[c].sid \in Calls /\ call[c].user \in Users
  BY DEF IInv, TypeOK, CallState
<1>2. call[call[c].sid].user = call[c].user /\ call[c].op = "logout"
  BY DEF IInv, RequestsWellFormed, DelSession
<1> QED BY <1>1, <1>2 DEF DelSession

-----------------------------------------------------------------------------
(* A request that begins touches nothing that was there. *)
LEMMA BeginKeeps ==
    ASSUME IInv, NEW c \in Calls, Begins(c)
    PROVE  IInv'
<1>1. /\ session' = session /\ listed' = listed /\ now' = now
      /\ \A d \in Calls : call[d].pc # "idle" => call'[d] = call[d]
      /\ call[c].pc = "idle" /\ call[c].op = "login" /\ call[c].sid = c
      /\ call[c].reply # "ok" /\ call'[c].reply # "ok"
  BY DEF Begins, OthersStay, IInv, RequestsWellFormed
<1>2. TypeOK'
  BY DEF Begins, OthersStay, IInv, TypeOK
<1>3. RequestsWellFormed'
  <2> SUFFICES ASSUME NEW d \in Calls
               PROVE  /\ call'[d].reply = "ok" => call'[d].pc = "done"
                      /\ call'[d].pc = "idle" => call'[d].op = "login"
                      /\ call'[d].op = "login" => call'[d].sid = d
                      /\ call'[d].op # "login" =>
                            /\ call'[call'[d].sid].op = "login"
                            /\ call'[call'[d].sid].reply = "ok"
                            /\ call'[call'[d].sid].user = call'[d].user
                      /\ call'[d].made <= now'
    BY DEF RequestsWellFormed
  <2>1. \A s \in Calls : call[s].reply = "ok" => call'[s] = call[s]
    BY <1>1 DEF Begins, OthersStay
  <2>2. call'[d].sid \in Calls /\ call[d].sid \in Calls
    BY <1>2 DEF IInv, TypeOK, CallState
  <2>3. CASE d = c
    BY <1>1, <2>1, <2>2, <2>3 DEF Begins
  <2>4. CASE d # c
    BY <1>1, <2>1, <2>2, <2>4 DEF Begins, OthersStay, IInv, RequestsWellFormed
  <2> QED BY <2>3, <2>4
<1>4. RedisWellFormed'
  <2>1. \A s \in Calls : session[s] # Absent =>
           session[s].at \in Calls /\ session[s].rt \in Calls
    BY HashType DEF IInv, TypeOK
  <2>2. \A u \in Users : listed[u] \subseteq Calls
    BY DEF IInv, TypeOK
  <2> QED BY <1>1, <2>1, <2>2 DEF IInv, RedisWellFormed
<1>5. LoggedOutStaysOut'
  BY <1>1 DEF IInv, LoggedOutStaysOut, Begins, OthersStay
<1>6. SessionsListed'
  BY <1>1 DEF IInv, SessionsListed, RedisWellFormed, Exists
<1>7. KeyOutlivesRefresh'
  <2>1. \A s \in Calls : session[s] # Absent =>
           session[s].rt \in Calls /\ call'[session[s].rt] = call[session[s].rt]
    BY <1>1, HashType DEF IInv, TypeOK, RedisWellFormed
  <2> QED BY <1>1, <2>1 DEF IInv, KeyOutlivesRefresh
<1> QED BY <1>2, <1>3, <1>4, <1>5, <1>6, <1>7 DEF IInv

(* What a request is does not change when its script runs. *)
LEMMA RunFrame ==
    ASSUME IInv, NEW c \in Calls, Runs(c)
    PROVE  /\ now' = now
           /\ \A d \in Calls :
                 /\ call'[d].op = call[d].op /\ call'[d].user = call[d].user
                 /\ call'[d].sid = call[d].sid /\ call'[d].made = call[d].made
                 /\ call'[d].pc = "idle" <=> call[d].pc = "idle"
                 /\ call[d].reply = "ok" => call'[d] = call[d] /\ d # c
                 /\ call'[d].reply = "ok" => call'[d].pc = "done"
BY DEF Runs, OthersStay, IInv, RequestsWellFormed

LEMMA RunKeepsShape ==
    ASSUME IInv, NEW c \in Calls, Runs(c)
    PROVE  TypeOK' /\ RequestsWellFormed' /\ RedisWellFormed'
<1>1. TypeOK'
  <2>1. call' \in [Calls -> CallState] /\ now' \in Nat /\ faults' \in Nat
        /\ call[c].pc = "script"
    BY DEF Runs, OthersStay, IInv, TypeOK
  <2>2. session' \in [Calls -> Hash \cup {Absent}] /\ listed' \in [Users -> SUBSET Calls]
    BY <2>1, CreateEffect, SetEffect, DeleteEffect
       DEF Runs, Changes, redis, IInv, TypeOK
  <2> QED BY <2>1, <2>2 DEF TypeOK
<1>2. RequestsWellFormed'
  <2>1. \A d \in Calls : call[d].sid \in Calls
    BY DEF IInv, TypeOK, CallState
  <2> QED BY <2>1, RunFrame DEF IInv, RequestsWellFormed
<1>3. RedisWellFormed'
  <2>0. /\ call[c].pc = "script"
        /\ \A s \in Calls : session[s] # Absent =>
              session[s].at \in Calls /\ session[s].rt \in Calls
        /\ \A u \in Users : listed[u] \subseteq Calls
    BY HashType DEF Runs, IInv, TypeOK
  <2>1. CASE UNCHANGED redis
    BY <2>0, <2>1, RunFrame DEF IInv, RedisWellFormed, redis
  <2>2. CASE CreateSession(c)
    <3>2. \A s \in Calls : session'[s] # Absent =>
            /\ call[s].pc # "idle" /\ call[s].op = "login"
            /\ session'[s].at \in Calls /\ call[session'[s].at].pc # "idle"
            /\ call[session'[s].at].sid = s
            /\ session'[s].rt \in Calls /\ call[session'[s].rt].pc # "idle"
            /\ call[session'[s].rt].sid = s
      BY <2>0, <2>2, CreateEffect DEF IInv, RedisWellFormed
    <3>3. \A u \in Users : \A s \in listed'[u] :
            s \in Calls /\ call[s].pc # "idle" /\ call[s].user = u
      BY <2>0, <2>2, CreateEffect DEF IInv, RedisWellFormed
    <3> QED BY <3>2, <3>3, RunFrame DEF RedisWellFormed
  <2>3. CASE SetAccessToken(c) \/ SetRefreshToken(c)
    <3>2. \A s \in Calls : session'[s] # Absent =>
            /\ call[s].pc # "idle" /\ call[s].op = "login"
            /\ session'[s].at \in Calls /\ call[session'[s].at].pc # "idle"
            /\ call[session'[s].at].sid = s
            /\ session'[s].rt \in Calls /\ call[session'[s].rt].pc # "idle"
            /\ call[session'[s].rt].sid = s
      BY <2>0, <2>3, SetEffect DEF IInv, RedisWellFormed
    <3>3. \A u \in Users : \A s \in listed'[u] :
            s \in Calls /\ call[s].pc # "idle" /\ call[s].user = u
      BY <2>0, <2>3, SetEffect DEF IInv, RedisWellFormed
    <3> QED BY <3>2, <3>3, RunFrame DEF RedisWellFormed
  <2>4. CASE DelSession(c)
    <3>2. \A s \in Calls : session'[s] # Absent => session'[s] = session[s]
      BY <2>0, <2>4, DeleteEffect
    <3>3. \A u \in Users : listed'[u] \subseteq listed[u]
      BY <2>0, <2>4, DeleteEffect
    <3> QED BY <2>0, <3>2, <3>3, RunFrame DEF IInv, RedisWellFormed
  <2> QED BY <2>1, <2>2, <2>3, <2>4 DEF Runs, Changes
<1> QED BY <1>1, <1>2, <1>3

(* No script makes anything of a session that was logged out. *)
LEMMA RunKeepsLogout ==
    ASSUME IInv, NEW c \in Calls, Runs(c)
    PROVE  LoggedOutStaysOut'
<1> SUFFICES ASSUME NEW d \in Calls, call[d].op = "logout", call'[d].reply = "ok"
             PROVE  /\ session'[call[d].sid] = Absent
                    /\ \A u \in Users : call[d].sid \notin listed'[u]
  BY RunFrame DEF LoggedOutStaysOut
<1> DEFINE s == call[d].sid
<1>1. /\ s \in Calls /\ call[s].op = "login" /\ call[s].reply = "ok" /\ s # c
      /\ call[c].pc = "script" /\ call[s].user = call[d].user
  BY RunFrame DEF IInv, TypeOK, CallState, RequestsWellFormed, Runs
<1>2. CASE d = c
  <2>1. DelSession(c)
    BY <1>2 DEF Runs, Changes, CreateSession, SetAccessToken, SetRefreshToken
  <2>2. \A u \in Users : s \in listed[u] => u = call[c].user
    BY <1>1, <1>2 DEF IInv, RedisWellFormed
  <2> QED BY <1>1, <1>2, <2>1, <2>2, DeleteEffect
<1>3. CASE d # c
  <2>1. /\ session[s] = Absent
        /\ \A u \in Users : s \notin listed[u]
    BY <1>3 DEF IInv, LoggedOutStaysOut, Runs, OthersStay
  <2>2. CASE UNCHANGED redis
    BY <2>1, <2>2 DEF redis
  <2>3. CASE CreateSession(c)
    BY <1>1, <2>1, <2>3, CreateEffect
  <2>4. CASE SetAccessToken(c) \/ SetRefreshToken(c)
    BY <1>1, <2>1, <2>4, SetEffect
  <2>5. CASE DelSession(c)
    BY <1>1, <2>1, <2>5, DeleteEffect
  <2> QED BY <2>2, <2>3, <2>4, <2>5 DEF Runs, Changes
<1> QED BY <1>2, <1>3

LEMMA RunKeepsList ==
    ASSUME IInv, NEW c \in Calls, Runs(c)
    PROVE  SessionsListed'
<1> SUFFICES ASSUME NEW s \in Calls, Exists(s)' PROVE s \in listed'[call[s].user]
  BY RunFrame DEF SessionsListed
<1>0. call[c].pc = "script" /\ now' = now /\ call[s].user \in Users
  BY DEF Runs, IInv, TypeOK, CallState
<1>1. Exists(s) => s \in listed[call[s].user]
  BY DEF IInv, SessionsListed
<1>2. CASE UNCHANGED redis
  BY <1>0, <1>1, <1>2 DEF redis, Exists
<1>3. CASE CreateSession(c)
  BY <1>0, <1>1, <1>3, CreateEffect DEF Exists
<1>4. CASE SetAccessToken(c) \/ SetRefreshToken(c)
  BY <1>0, <1>1, <1>4, SetEffect DEF Exists
<1>5. CASE DelSession(c)
  BY <1>0, <1>1, <1>5, DeleteEffect DEF Exists
<1> QED BY <1>2, <1>3, <1>4, <1>5 DEF Runs, Changes

LEMMA RunKeepsLife ==
    ASSUME IInv, NEW c \in Calls, Runs(c)
    PROVE  KeyOutlivesRefresh'
<1>a. \A s \in Calls : session'[s] # Absent => session'[s].rt \in Calls
  BY RunKeepsShape, HashType DEF TypeOK
<1> SUFFICES ASSUME NEW s \in Calls, session'[s] # Absent
             PROVE  session'[s].until >= call[session'[s].rt].made + RefreshLife
  BY <1>a, RunFrame DEF KeyOutlivesRefresh
<1>0. /\ call[c].pc = "script" /\ call[c].made <= now
      /\ call[c].made \in Nat /\ now \in Nat /\ RefreshLife \in Nat
  BY LivesAssumption DEF Runs, IInv, TypeOK, CallState, RequestsWellFormed
<1>1. session[s] # Absent => session[s].until >= call[session[s].rt].made + RefreshLife
  BY DEF IInv, KeyOutlivesRefresh
<1>2. CASE UNCHANGED redis
  BY <1>1, <1>2 DEF redis
<1>3. CASE CreateSession(c)
  BY <1>0, <1>1, <1>3, CreateEffect
<1>4. CASE SetAccessToken(c) \/ SetRefreshToken(c)
  <2>1. now + RefreshLife * NanosPerSecond >= call[c].made + RefreshLife
    BY <1>0 DEF NanosPerSecond
  <2> QED BY <1>0, <1>1, <1>4, <2>1, SetEffect
<1>5. CASE DelSession(c)
  BY <1>0, <1>1, <1>5, DeleteEffect
<1> QED BY <1>2, <1>3, <1>4, <1>5 DEF Runs, Changes

-----------------------------------------------------------------------------
LEMMA InductiveStep == IInv /\ [Next]_vars => IInv'
<1> SUFFICES ASSUME IInv, [Next]_vars PROVE IInv'
  OBVIOUS
<1>1. ASSUME NEW c \in Calls, Request(c) \/ VerifyFails(c) PROVE IInv'
  BY <1>1, StepBegins, BeginKeeps
<1>2. ASSUME NEW c \in Calls, RunScript(c) \/ ScriptUnanswered(c) PROVE IInv'
  BY <1>2, StepRuns, RunKeepsShape, RunKeepsLogout, RunKeepsList, RunKeepsLife DEF IInv
<1>3. CASE Tick
  <2>1. UNCHANGED <<call, session, listed, faults>> /\ now' = now + 1 /\ now \in Nat
    BY <1>3 DEF Tick, redis, IInv, TypeOK
  <2>2. TypeOK' /\ RedisWellFormed' /\ LoggedOutStaysOut' /\ KeyOutlivesRefresh'
    BY <2>1 DEF IInv, TypeOK, RedisWellFormed, LoggedOutStaysOut, KeyOutlivesRefresh
  <2>3. RequestsWellFormed'
    BY <2>1 DEF IInv, TypeOK, CallState, RequestsWellFormed
  <2>4. SessionsListed'
    <3>1. \A s \in Calls : session[s] # Absent => session[s].until \in Nat
      BY HashType DEF IInv, TypeOK
    <3> QED BY <2>1, <3>1 DEF IInv, SessionsListed, Exists
  <2> QED BY <2>2, <2>3, <2>4 DEF IInv
<1>4. CASE UNCHANGED vars
  BY <1>4 DEF vars, IInv, TypeOK, RequestsWellFormed, RedisWellFormed,
              LoggedOutStaysOut, SessionsListed, KeyOutlivesRefresh, Exists
<1> QED BY <1>1, <1>2, <1>3, <1>4 DEF Next, Quiescent

THEOREM Invariant == Spec => []IInv
BY InitInv, InductiveStep, PTL DEF Spec

(* Every variable keeps its type; a hash is never left with one token.      *)
THEOREM TypeCorrect == Spec => []TypeOK
BY Invariant, PTL DEF IInv

(* A logout answered with success is final, whatever refreshes had verified *)
(* their tokens before it (the EXISTS of both set scripts, DelSession).     *)
THEOREM LogoutIsFinal == Spec => []LoggedOutStaysOut
BY Invariant, PTL DEF IInv

(* No login prunes a session that lives (createSessionScript).              *)
THEOREM LiveSessionsAreListed == Spec => []SessionsListed
BY Invariant, PTL DEF IInv

(* A hash never expires before the refresh token it holds (createSession,   *)
(* setRefreshTokenScript).                                                  *)
THEOREM HashesLiveLongEnough == Spec => []KeyOutlivesRefresh
BY Invariant, PTL DEF IInv

(* A token that was answered and replaced stays replaced: only the request  *)
(* that generated it writes it, and that request is over.                   *)
THEOREM RevocationIsFinal == Spec => RevokedStaysRevoked
<1>1. IInv /\ [Next]_vars =>
        [\A t \in Calls :
           /\ HoldsAccess(t) /\ session[call[t].sid].at # t
                 => session'[call[t].sid].at # t
           /\ HoldsRefresh(t) /\ session[call[t].sid].rt # t
                 => session'[call[t].sid].rt # t]_vars
  <2> SUFFICES ASSUME IInv, Next, NEW t \in Calls, call[t].reply = "ok"
               PROVE  LET s == call[t].sid
                      IN  /\ session[s].at # t => session'[s].at # t
                          /\ session[s].rt # t => session'[s].rt # t
    BY DEF HoldsAccess, HoldsRefresh
  <2>0. /\ call[t].pc = "done" /\ call[t].sid \in Calls
        /\ Absent.at # t /\ Absent.rt # t
    BY CallsAssumption DEF IInv, RequestsWellFormed, TypeOK, CallState, Absent
  <2>1. CASE UNCHANGED session
    BY <2>1
  <2>2. ASSUME NEW c \in Calls, Runs(c), ~UNCHANGED session
        PROVE  LET s == call[t].sid
               IN  /\ session[s].at # t => session'[s].at # t
                   /\ session[s].rt # t => session'[s].rt # t
    <3>1. call[c].pc = "script" /\ c # t
      BY <2>0, <2>2 DEF Runs
    <3>2. CASE CreateSession(c)
      BY <2>0, <3>1, <3>2, CreateEffect
    <3>3. CASE SetAccessToken(c) \/ SetRefreshToken(c)
      BY <2>0, <3>1, <3>3, SetEffect
    <3>4. CASE DelSession(c)
      BY <2>0, <3>1, <3>4, DeleteEffect
    <3> QED BY <2>2, <3>2, <3>3, <3>4 DEF Runs, Changes, redis
  <2>3. UNCHANGED session \/ \E c \in Calls : Runs(c)
    <3>1. ASSUME NEW c \in Calls, Request(c) \/ VerifyFails(c) PROVE UNCHANGED session
      BY <3>1, StepBegins DEF Begins
    <3>2. CASE Tick \/ Quiescent
      BY <3>2 DEF Tick, Quiescent, redis, vars
    <3> QED BY <3>1, <3>2, StepRuns DEF Next
  <2> QED BY <2>1, <2>2, <2>3
<1> QED BY <1>1, Invariant, PTL DEF Spec, RevokedStaysRevoked

-----------------------------------------------------------------------------
(* SessionBook.  That a token of one kind is never stored as the other is   *)
(* what its two renewals need beyond IInv.                                  *)

TokensByKind ==
    \A s \in Calls : session[s] # Absent =>
        /\ call[session[s].at].op \in {"login", "fetchAccess"}
        /\ call[session[s].rt].op \in {"login", "fetchRefresh"}

LEMMA KindsInvariant == Spec => []TokensByKind
<1>1. Init => TokensByKind
  BY DEF Init, TokensByKind
<1>2. IInv /\ TokensByKind /\ [Next]_vars => TokensByKind'
  <2> SUFFICES ASSUME IInv, TokensByKind, [Next]_vars, NEW s \in Calls,
                      session'[s] # Absent
               PROVE  /\ call'[session'[s].at].op \in {"login", "fetchAccess"}
                      /\ call'[session'[s].rt].op \in {"login", "fetchRefresh"}
    BY DEF TokensByKind
  <2>0. session[s] # Absent =>
           /\ session[s].at \in Calls /\ call[session[s].at].pc # "idle"
           /\ session[s].rt \in Calls /\ call[session[s].rt].pc # "idle"
           /\ call[session[s].at].op \in {"login", "fetchAccess"}
           /\ call[session[s].rt].op \in {"login", "fetchRefresh"}
    BY HashType DEF IInv, TypeOK, RedisWellFormed, TokensByKind
  <2>1. CASE UNCHANGED <<call, session>>
    BY <2>0, <2>1
  <2>2. ASSUME NEW c \in Calls, Begins(c)
        PROVE  /\ call'[session'[s].at].op \in {"login", "fetchAccess"}
               /\ call'[session'[s].rt].op \in {"login", "fetchRefresh"}
    BY <2>0, <2>2 DEF Begins, OthersStay
  <2>3. ASSUME NEW c \in Calls, Runs(c)
        PROVE  /\ call'[session'[s].at].op \in {"login", "fetchAccess"}
               /\ call'[session'[s].rt].op \in {"login", "fetchRefresh"}
    <3>1. /\ session'[s].at \in Calls /\ session'[s].rt \in Calls
          /\ \A d \in Calls : call'[d].op = call[d].op
          /\ call[c].pc = "script"
      BY <2>3, RunKeepsShape, RunFrame, HashType DEF TypeOK, Runs
    <3>2. CASE UNCHANGED redis
      BY <2>0, <3>1, <3>2 DEF redis
    <3>3. CASE CreateSession(c)
      BY <2>0, <3>1, <3>3, CreateEffect
    <3>4. CASE SetAccessToken(c) \/ SetRefreshToken(c)
      <4>1. /\ SetAccessToken(c) => call[c].op = "fetchAccess"
            /\ SetRefreshToken(c) => call[c].op = "fetchRefresh"
        BY DEF SetAccessToken, SetRefreshToken
      <4> QED BY <2>0, <3>1, <3>4, <4>1, SetEffect
    <3>5. CASE DelSession(c)
      BY <2>0, <3>1, <3>5, DeleteEffect
    <3> QED BY <2>3, <3>2, <3>3, <3>4, <3>5 DEF Runs, Changes
  <2> QED BY <2>1, <2>2, <2>3, StepBegins, StepRuns
          DEF Next, Tick, Quiescent, vars, redis
<1> QED BY <1>1, <1>2, Invariant, PTL DEF Spec

(* The tokens Redis holds of a session that lives are its own, one of each  *)
(* kind.                                                                    *)
LEMMA OwnTokens ==
    ASSUME IInv, TokensByKind, NEW s \in Calls, Exists(s)
    PROVE  /\ session[s].at \in Calls /\ call[session[s].at].sid = s
           /\ call[session[s].at].op \in {"login", "fetchAccess"}
           /\ session[s].rt \in Calls /\ call[session[s].rt].sid = s
           /\ call[session[s].rt].op \in {"login", "fetchRefresh"}
           /\ session[s].at # NoCall /\ session[s].rt # NoCall
BY HashType, CallsAssumption DEF Exists, IInv, TypeOK, RedisWellFormed, TokensByKind

(* A token is current in its own session only. *)
LEMMA CurrentElsewhere ==
    ASSUME IInv, TokensByKind, NEW c \in Calls, NEW r \in Calls, r # call[c].sid
    PROVE  CurrentAccess[r] # c /\ CurrentRefresh[r] # c
BY OwnTokens, CallsAssumption DEF CurrentAccess, CurrentRefresh

(* A request whose script runs was not answered: it may be with this step.  *)
LEMMA AnswerEffect ==
    ASSUME IInv, NEW c \in Calls, Runs(c)
    PROVE  c \notin Answered /\ (Answered' = Answered \/ Answered' = Answered \cup {c})
<1>1. c \notin Answered
  BY RunFrame DEF Answered, HoldsAccess, HoldsRefresh
<1>2. \A t \in Calls : t # c => call'[t] = call[t]
  BY DEF Runs, OthersStay
<1>3. \A t \in Calls : t # c => (t \in Answered' <=> t \in Answered)
  BY <1>2 DEF Answered, HoldsAccess, HoldsRefresh
<1>4. Answered \subseteq Calls /\ Answered' \subseteq Calls
  BY DEF Answered
<1> QED BY <1>1, <1>3, <1>4

LEMMA CreateBegins ==
    ASSUME IInv, TokensByKind, NEW c \in Calls, Runs(c), CreateSession(c)
    PROVE  Book!Begin(c)
<1>1. /\ call[c].sid = c /\ now' = now /\ Exists(c)'
      /\ session'[c].at = c /\ session'[c].rt = c
      /\ \A s \in Calls : s # c => session'[s] = session[s]
  <2>1. now \in Nat /\ RefreshLife \in Nat /\ call[c].pc = "script" /\ now' = now
    BY LivesAssumption DEF IInv, TypeOK, Runs
  <2> QED BY <2>1, CreateEffect DEF Exists
<1>2. \A s \in Calls : s # c => (Exists(s)' <=> Exists(s))
  BY <1>1 DEF Exists
<1>3. /\ CurrentAccess' = [CurrentAccess EXCEPT ![c] = c]
      /\ CurrentRefresh' = [CurrentRefresh EXCEPT ![c] = c]
  BY <1>1, <1>2 DEF CurrentAccess, CurrentRefresh
<1> QED BY <1>1, <1>3, CurrentElsewhere, AnswerEffect DEF Book!Begin, Book!Answer

LEMMA SetRenews ==
    ASSUME IInv, TokensByKind, NEW c \in Calls, Runs(c),
           SetAccessToken(c) \/ SetRefreshToken(c)
    PROVE  Book!RenewAccess(call[c].sid, c) \/ Book!RenewRefresh(call[c].sid, c)
<1>0. PICK s \in Calls : s = call[c].sid
  BY DEF IInv, TypeOK, CallState
<1>1. /\ s # c /\ Exists(s) /\ now' = now /\ call[c].pc = "script"
      /\ \A q \in Calls : q # s => session'[q] = session[q]
      /\ session'[s] # Absent
  BY <1>0, SetEffect DEF Runs
<1>2. Exists(s)'
  <2>1. now \in Nat /\ RefreshLife * NanosPerSecond \in Nat
        /\ now <= now + RefreshLife * NanosPerSecond
    BY LivesAssumption DEF IInv, TypeOK, NanosPerSecond
  <2>2. now <= session[s].until
    BY <1>1 DEF Exists
  <2>3. \/ session'[s].until = session[s].until
        \/ session'[s].until = now + RefreshLife * NanosPerSecond
    BY <1>0, <1>1, SetEffect
  <2>4. now <= session'[s].until
    BY <2>1, <2>2, <2>3
  <2> QED BY <1>1, <2>4 DEF Exists
<1>3. \A q \in Calls : q # s => (Exists(q)' <=> Exists(q))
  BY <1>1 DEF Exists
<1>4. Book!Renewable(s, c)
  <2>1. s \in Answered
    BY <1>0, <1>1 DEF IInv, RequestsWellFormed, SetAccessToken, SetRefreshToken,
                Answered, HoldsAccess, HoldsRefresh
  <2>2. CurrentAccess[s] # NoCall
    BY <1>1, OwnTokens DEF CurrentAccess
  <2> QED BY <1>0, <2>1, <2>2, CurrentElsewhere, AnswerEffect DEF Book!Renewable, Book!Open
<1>5. CASE SetAccessToken(c)
  <2>1. /\ session'[s].at = c /\ session'[s].rt = session[s].rt
        /\ call[c].op = "fetchAccess"
    <3>1. call[c].op = "fetchAccess" /\ ~SetRefreshToken(c)
      BY <1>5 DEF SetAccessToken, SetRefreshToken
    <3> QED BY <1>0, <1>1, <3>1, SetEffect
  <2>2. /\ CurrentAccess' = [CurrentAccess EXCEPT ![s] = c]
        /\ CurrentRefresh' = CurrentRefresh
    <3>1. \A q \in Calls : CurrentRefresh'[q] = CurrentRefresh[q]
      BY <1>1, <1>2, <1>3, <2>1 DEF CurrentRefresh
    <3>2. \A q \in Calls : CurrentAccess'[q] = IF q = s THEN c ELSE CurrentAccess[q]
      BY <1>1, <1>2, <1>3, <2>1 DEF CurrentAccess
    <3> QED BY <1>1, <3>1, <3>2 DEF CurrentAccess, CurrentRefresh
  <2>3. CurrentRefresh[s] # c
    BY <1>1, <2>1, OwnTokens DEF CurrentRefresh
  <2> QED BY <1>0, <1>4, <2>2, <2>3, AnswerEffect DEF Book!RenewAccess, Book!Answer
<1>6. CASE SetRefreshToken(c)
  <2>1. /\ session'[s].rt = c /\ session'[s].at = session[s].at
        /\ call[c].op = "fetchRefresh"
    <3>1. call[c].op = "fetchRefresh" /\ ~SetAccessToken(c)
      BY <1>6 DEF SetAccessToken, SetRefreshToken
    <3> QED BY <1>0, <1>1, <3>1, SetEffect
  <2>2. /\ CurrentRefresh' = [CurrentRefresh EXCEPT ![s] = c]
        /\ CurrentAccess' = CurrentAccess
    <3>1. \A q \in Calls : CurrentAccess'[q] = CurrentAccess[q]
      BY <1>1, <1>2, <1>3, <2>1 DEF CurrentAccess
    <3>2. \A q \in Calls : CurrentRefresh'[q] = IF q = s THEN c ELSE CurrentRefresh[q]
      BY <1>1, <1>2, <1>3, <2>1 DEF CurrentRefresh
    <3> QED BY <1>1, <3>1, <3>2 DEF CurrentAccess, CurrentRefresh
  <2>3. CurrentAccess[s] # c
    BY <1>1, <2>1, OwnTokens DEF CurrentAccess
  <2> QED BY <1>0, <1>4, <2>2, <2>3, AnswerEffect DEF Book!RenewRefresh, Book!Answer
<1> QED BY <1>0, <1>5, <1>6

(* Whatever only makes sessions cease to exist ends them. *)
LEMMA CeasingEnds ==
    ASSUME Answered' = Answered,
           \A s \in Calls : Exists(s)' => Exists(s) /\ session'[s] = session[s]
    PROVE  \E S \in SUBSET Calls : Book!End(S)
<1> DEFINE S == {s \in Calls : ~Exists(s)'}
<1>1. \A s \in Calls : Exists(s) /\ s \notin S => session'[s] = session[s]
  OBVIOUS
<1>2. /\ CurrentAccess' = [s \in Calls |-> IF s \in S THEN NoCall ELSE CurrentAccess[s]]
      /\ CurrentRefresh' = [s \in Calls |-> IF s \in S THEN NoCall ELSE CurrentRefresh[s]]
  BY DEF CurrentAccess, CurrentRefresh
<1> QED BY <1>2 DEF Book!End

LEMMA RunIsBookStep ==
    ASSUME IInv, TokensByKind, NEW c \in Calls, Runs(c)
    PROVE  [Book!Next]_(Book!vars)
<1>0. call[c].pc = "script" /\ now' = now
  BY DEF Runs
<1>1. CASE CreateSession(c)
  BY <1>1, CreateBegins DEF Book!Next
<1>2. CASE SetAccessToken(c) \/ SetRefreshToken(c)
  <2>1. call[c].sid \in Calls
    BY DEF IInv, TypeOK, CallState
  <2> QED BY <1>2, <2>1, SetRenews DEF Book!Next
<1>3. CASE DelSession(c)
  <2>1. call[c].op = "logout"
    BY <1>3 DEF DelSession
  <2>2. c \notin Answered'
    BY <2>1, RunFrame DEF Answered, HoldsAccess, HoldsRefresh
  <2>3. Answered' = Answered
    BY <2>2, AnswerEffect
  <2>4. \A s \in Calls : Exists(s)' => Exists(s) /\ session'[s] = session[s]
    BY <1>0, <1>3, DeleteEffect DEF Exists
  <2> QED BY <2>3, <2>4, CeasingEnds DEF Book!Next
<1>4. CASE ~Changes(c)
  <2>1. session' = session /\ call'[c].reply # "ok"
    BY <1>4 DEF Runs, redis
  <2>2. Answered' = Answered
    BY <2>1, AnswerEffect DEF Answered, HoldsAccess, HoldsRefresh
  <2> QED BY <1>0, <2>1, <2>2, CeasingEnds DEF Book!Next, Exists
<1> QED BY <1>1, <1>2, <1>3, <1>4 DEF Changes

(* Requests, scripts sent again, lost answers and time do to the tokens     *)
(* what SessionBook says: a session opens with both, is renewed by a token  *)
(* nobody had, and once answered and ended never opens again.               *)
THEOREM ImplementsSessionBook == Spec => TokensAreFinal
<1>1. Init => Book!Init
  <2> SUFFICES ASSUME Init PROVE Book!Init
    OBVIOUS
  <2>1. \A s \in Calls : ~Exists(s)
    BY DEF Init, Exists
  <2>2. \A t \in Calls : call[t].reply # "ok"
    BY DEF Init
  <2> QED BY <2>1, <2>2 DEF Book!Init, CurrentAccess, CurrentRefresh, Answered,
                            HoldsAccess, HoldsRefresh
<1>2. IInv /\ TokensByKind /\ [Next]_vars => [Book!Next]_(Book!vars)
  <2> SUFFICES ASSUME IInv, TokensByKind, [Next]_vars PROVE [Book!Next]_(Book!vars)
    OBVIOUS
  <2>1. ASSUME NEW c \in Calls, Begins(c) PROVE [Book!Next]_(Book!vars)
    <3>1. \A t \in Calls : \/ call'[t] = call[t]
                           \/ call[t].reply # "ok" /\ call'[t].reply # "ok"
      <4>1. call[c].reply # "ok" /\ call'[c].reply # "ok"
        BY <2>1 DEF Begins, IInv, RequestsWellFormed
      <4> QED BY <2>1, <4>1 DEF Begins, OthersStay
    <3>2. Answered' = Answered
      BY <3>1 DEF Answered, HoldsAccess, HoldsRefresh
    <3> QED BY <2>1, <3>2, CeasingEnds DEF Begins, Exists, Book!Next
  <2>2. CASE Tick
    <3>1. now' = now + 1 /\ session' = session /\ call' = call /\ now \in Nat
          /\ \A s \in Calls : session[s] # Absent => session[s].until \in Nat
      BY <2>2, HashType DEF Tick, redis, IInv, TypeOK
    <3>2. \A s \in Calls : Exists(s)' => Exists(s) /\ session'[s] = session[s]
      BY <3>1 DEF Exists
    <3>3. Answered' = Answered
      BY <3>1 DEF Answered, HoldsAccess, HoldsRefresh
    <3> QED BY <3>2, <3>3, CeasingEnds DEF Book!Next
  <2>3. CASE UNCHANGED vars
    BY <2>3 DEF vars, Book!vars, CurrentAccess, CurrentRefresh, Answered,
                HoldsAccess, HoldsRefresh, Exists
  <2> QED BY <2>1, <2>2, <2>3, StepBegins, StepRuns, RunIsBookStep DEF Next, Quiescent
<1> QED BY <1>1, <1>2, Invariant, KindsInvariant, PTL DEF Spec, TokensAreFinal, Book!Spec
=============================================================================
