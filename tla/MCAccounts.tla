----------------------------- MODULE MCAccounts -----------------------------
(* Instances of Accounts for TLC: registrations that collide by name and by  *)
(* email, deposits that collide by key and by wallet.                        *)
EXTENDS Accounts, TLC

CONSTANTS r1, r2, n1, n2, long, e1, e2, k1, k2

Profile(n, e) == [name |-> n, email |-> e]
Deposit(u, a, k) == [user |-> u, amount |-> a, key |-> k]

(* Two names, two emails and a name longer than the column.                 *)
Colliding == {Profile(n1, e1), Profile(n1, e2), Profile(n2, e1), Profile(long, e2)}

(* Amounts that round up, round down to nothing, are refused, or together   *)
(* exceed the column; one key used by two users and for several amounts.    *)
Contending == {Deposit(r1, 15, k1), Deposit(r1, 30, k2), Deposit(r1, 4, k2),
               Deposit(r1, -10, k2), Deposit(r2, 20, k1)}
=============================================================================
