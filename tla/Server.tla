------------------------------- MODULE Server -------------------------------
(***************************************************************************)
(* The process and the limiter it holds: logins are served while Run is in *)
(* its last call, the limiter is made with the router, and all of it is    *)
(* forgotten with the process.                                             *)
(***************************************************************************)
EXTENDS Lifecycle, RateLimiter

vars == <<processVars, limiterVars>>

TypeOK == ProcessType /\ LimiterType

Init == ProcessInit /\ LimiterInit

StartAgain == Restart /\ Forget

ServeLogin(r) == Serving /\ LoginStep(r) /\ UNCHANGED processVars

Time == (Tick \/ OpenWindow) /\ UNCHANGED processVars

(* A server may have nothing to do, and an ended one may stay so.          *)
Quiescent == (Serving \/ ~Alive) /\ UNCHANGED vars

Next ==
    \/ MainStep /\ UNCHANGED limiterVars
    \/ RunStep /\ UNCHANGED limiterVars
    \/ Outside /\ UNCHANGED limiterVars
    \/ StartAgain
    \/ \E r \in Logins : ServeLogin(r)
    \/ Time
    \/ Quiescent

Spec == Init /\ [][Next]_vars

(* The main goroutine is scheduled. *)
LiveSpec == Spec /\ WF_vars(MainStep /\ UNCHANGED limiterVars)
=============================================================================
