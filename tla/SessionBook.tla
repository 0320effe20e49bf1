----------------------------- MODULE SessionBook -----------------------------
(***************************************************************************)
(* What sessions promise: a session opens with both its tokens at once;    *)
(* while it is open either token may be replaced by a new one; once it has *)
(* ended, by logout or by time, it is over.  A token becomes current only  *)
(* before or when its client receives it, so one that was replaced, or     *)
(* whose session ended, is good for nothing any more.  No clocks, scripts  *)
(* or retries appear here.  Sessions implements this specification.        *)
(***************************************************************************)
CONSTANTS Calls, NoCall

VARIABLES
    access, refresh,   \* the current tokens of each session, or NoCall
    given              \* requests whose tokens their clients have received

vars == <<access, refresh, given>>

Open(s) == access[s] # NoCall

Init ==
    /\ access = [s \in Calls |-> NoCall]
    /\ refresh = [s \in Calls |-> NoCall]
    /\ given = {}

(* The client receives the token with this change, or it never learns of it. *)
Answer(t) == given' = given \/ given' = given \cup {t}

(* Of a session that was not answered, nobody has a token yet. *)
Begin(s) ==
    /\ s \notin given
    /\ \A r \in Calls \ {s} : access[r] # s /\ refresh[r] # s
    /\ access' = [access EXCEPT ![s] = s]
    /\ refresh' = [refresh EXCEPT ![s] = s]
    /\ Answer(s)

(* A new token belongs to one session, of which a client has the tokens. *)
Renewable(s, t) ==
    /\ Open(s) /\ s \in given /\ t \notin given
    /\ \A r \in Calls \ {s} : access[r] # t /\ refresh[r] # t

RenewAccess(s, t) ==
    /\ Renewable(s, t) /\ refresh[s] # t
    /\ access' = [access EXCEPT ![s] = t]
    /\ Answer(t)
    /\ UNCHANGED refresh

RenewRefresh(s, t) ==
    /\ Renewable(s, t) /\ access[s] # t
    /\ refresh' = [refresh EXCEPT ![s] = t]
    /\ Answer(t)
    /\ UNCHANGED access

(* A logout ends one session, time any of them. *)
End(S) ==
    /\ access' = [s \in Calls |-> IF s \in S THEN NoCall ELSE access[s]]
    /\ refresh' = [s \in Calls |-> IF s \in S THEN NoCall ELSE refresh[s]]
    /\ UNCHANGED given

Next ==
    \/ \E s \in Calls : Begin(s)
    \/ \E s, t \in Calls : RenewAccess(s, t) \/ RenewRefresh(s, t)
    \/ \E S \in SUBSET Calls : End(S)

Spec == Init /\ [][Next]_vars
=============================================================================
