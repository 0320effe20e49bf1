------------------------------- MODULE Ledger -------------------------------
(***************************************************************************)
(* What accounts and wallets promise: an account appears together with its *)
(* empty wallet and shares neither name nor email with another; a deposit  *)
(* is entered in the log and credited in one step, once per key.  Accounts *)
(* implements this specification.                                          *)
(***************************************************************************)
EXTENDS Integers

CONSTANTS Registrations, Deposits, Profiles, DepositBodies, MaxBalance,
          Stored(_)     \* the amount a deposit adds to a balance

VARIABLES profile, body, accounts, balance, entries

vars == <<profile, body, accounts, balance, entries>>

Init ==
    /\ profile \in [Registrations -> Profiles]
    /\ body \in [Deposits -> DepositBodies]
    /\ accounts = {}
    /\ balance = [r \in Registrations |-> 0]
    /\ entries = {}

Open(r) ==
    /\ r \notin accounts
    /\ \A q \in accounts : /\ profile[q].name # profile[r].name
                           /\ profile[q].email # profile[r].email
    /\ accounts' = accounts \cup {r}
    /\ UNCHANGED <<profile, body, balance, entries>>

Credit(d) ==
    LET b == body[d]
    IN  /\ d \notin entries
        /\ \A e \in entries : body[e].key # b.key
        /\ b.user \in accounts
        /\ b.amount > 0
        /\ balance[b.user] + Stored(b.amount) <= MaxBalance
        /\ balance' = [balance EXCEPT ![b.user] = @ + Stored(b.amount)]
        /\ entries' = entries \cup {d}
        /\ UNCHANGED <<profile, body, accounts>>

Next ==
    \/ \E r \in Registrations : Open(r)
    \/ \E d \in Deposits : Credit(d)

Spec == Init /\ [][Next]_vars
=============================================================================
