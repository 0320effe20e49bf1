------------------------------ MODULE Accounts ------------------------------
(***************************************************************************)
(* Registration (internal/user) and the wallet (internal/wallet): two      *)
(* kinds of transactions over users, user_wallets and wallet_logs.  A user *)
(* is named by the registration that inserted it, a log row by its         *)
(* deposit.  As in Orders, a lock is a call being between two statements.  *)
(* A killed process is, for each of its calls, a failing statement.        *)
(* Operators named Bug... are plausible mistakes in the definition that    *)
(* follows them; the specification uses none, each breaks a property.      *)
(***************************************************************************)
EXTENDS Integers, Functions

CONSTANTS
    Registrations,    \* POST /user/register requests
    Deposits,         \* POST /wallet/deposit requests
    Names, Emails, Keys,
    LongNames,        \* names the handler lets pass and varchar(30) does not
    Profiles,         \* what a registration may ask for
    DepositBodies,    \* user, amount in tenths of a cent, and key of a deposit
    MaxBalance,       \* the largest decimal(16,2), in cents
    MaxDbFaults       \* bound of the environment

ASSUME InputsAssumption ==
    /\ LongNames \subseteq Names
    /\ Profiles \subseteq [name : Names, email : Emails]
    /\ DepositBodies \subseteq [user : Registrations, amount : Int, key : Keys]

ASSUME BoundsAssumption == MaxBalance \in Nat /\ MaxDbFaults \in Nat

VARIABLES
    profile,          \* name and email of each registration
    body,             \* what each deposit asks for
    reg,              \* progress and reply of each registration
    dep,              \* progress, new balance and reply of each deposit
    users,            \* committed users rows
    wallets,          \* committed user_wallets rows, by user
    balance,          \* their balance column, in cents
    logged,           \* deposits whose wallet_logs row is committed
    faults

rows == <<users, wallets, balance, logged>>
vars == <<profile, body, reg, dep, users, wallets, balance, logged, faults>>

-----------------------------------------------------------------------------
RegState == [pc : {"idle", "wallet", "commit", "done"},
             reply : {"none", "ok", "nameExisted", "emailExisted", "error"}]
DepState == [pc : {"idle", "credit", "commit", "done"},
             reply : {"none", "ok", "invalid", "error"}, balance : Nat]

TypeOK ==
    /\ profile \in [Registrations -> Profiles]
    /\ body \in [Deposits -> DepositBodies]
    /\ reg \in [Registrations -> RegState]
    /\ dep \in [Deposits -> DepState]
    /\ users \subseteq Registrations /\ wallets \subseteq Registrations
    /\ balance \in [Registrations -> 0 .. MaxBalance]
    /\ logged \subseteq Deposits
    /\ faults \in Nat

Init ==
    /\ profile \in [Registrations -> Profiles]
    /\ body \in [Deposits -> DepositBodies]
    /\ reg = [r \in Registrations |-> [pc |-> "idle", reply |-> "none"]]
    /\ dep = [d \in Deposits |-> [pc |-> "idle", reply |-> "none", balance |-> 0]]
    /\ users = {} /\ wallets = {}
    /\ balance = [r \in Registrations |-> 0]
    /\ logged = {}
    /\ faults = 0

-----------------------------------------------------------------------------
(* Service.Register *)

RegGoto(r, pc) == reg' = [reg EXCEPT ![r].pc = pc]
RegFinish(r, reply) == reg' = [reg EXCEPT ![r].pc = "done", ![r].reply = reply]

NameTaken(r) == \E q \in users : profile[q].name = profile[r].name
EmailTaken(r) == \E q \in users : profile[q].email = profile[r].email

(* An uncommitted users row blocks a row with its name or its email. *)
HoldsIndexKey(q, r) ==
    /\ reg[q].pc \in {"wallet", "commit"}
    /\ profile[q].name = profile[r].name \/ profile[q].email = profile[r].email

(* CreateUser: the conflict is answered by the index that reports it. *)
InsertUser(r) ==
    /\ reg[r].pc = "idle"
    /\ \/ profile[r].name \in LongNames /\ RegFinish(r, "error")
       \/ /\ profile[r].name \notin LongNames
          /\ \/ NameTaken(r) /\ RegFinish(r, "nameExisted")
             \/ EmailTaken(r) /\ RegFinish(r, "emailExisted")
             \/ /\ ~NameTaken(r) /\ ~EmailTaken(r)
                /\ \A q \in Registrations \ {r} : ~HoldsIndexKey(q, r)
                /\ RegGoto(r, "wallet")
    /\ UNCHANGED <<profile, body, dep, rows, faults>>

(* The user's row committed on its own, before its wallet. *)
BugWalletOutsideTx(r) ==
    /\ reg[r].pc = "wallet"
    /\ RegGoto(r, "commit")
    /\ users' = users \cup {r}
    /\ UNCHANGED <<profile, body, dep, wallets, balance, logged, faults>>

(* CreateDefaultAccount, in the transaction of CreateUser. *)
InsertWallet(r) ==
    /\ reg[r].pc = "wallet"
    /\ RegGoto(r, "commit")
    /\ UNCHANGED <<profile, body, dep, rows, faults>>

ApplyRegistration(r) ==
    /\ users' = users \cup {r}
    /\ wallets' = wallets \cup {r}
    /\ balance' = [balance EXCEPT ![r] = 0]
    /\ UNCHANGED logged

CommitRegistration(r) ==
    /\ reg[r].pc = "commit"
    /\ ApplyRegistration(r)
    /\ RegFinish(r, "ok")
    /\ UNCHANGED <<profile, body, dep, faults>>

-----------------------------------------------------------------------------
(* Service.Deposit *)

DepGoto(d, pc) == dep' = [dep EXCEPT ![d].pc = pc]
DepFinish(d, reply) == dep' = [dep EXCEPT ![d].pc = "done", ![d].reply = reply]

(* decimal(16,2) rounds half up: tenths of a cent to cents. *)
Stored(amount) == (amount + 5) \div 10

KeyLogged(k) == \E e \in logged : body[e].key = k

BugNoKeyWait(d, k) == FALSE
HoldsKey(d, k) == dep[d].pc \in {"credit", "commit"} /\ body[d].key = k

BugNoRowLock(d, u) == FALSE
LocksWallet(d, u) == dep[d].pc = "commit" /\ body[d].user = u

(* An uncommitted row of the same key is taken for a logged deposit. *)
BugLogNoWait(d) ==
    /\ dep[d].pc = "idle" /\ body[d].user \in users
    /\ LET b == body[d]
           known == KeyLogged(b.key) \/ \E e \in Deposits \ {d} : HoldsKey(e, b.key)
       IN  \/ b.amount <= 0 /\ DepFinish(d, "invalid")
           \/ b.amount > 0 /\ known /\ DepFinish(d, "ok")
           \/ b.amount > 0 /\ ~known /\ DepGoto(d, "credit")
    /\ UNCHANGED <<profile, body, reg, rows, faults>>

(* The service's check of the amount is missing. *)
BugAmountUnchecked(d) ==
    /\ dep[d].pc = "idle" /\ body[d].user \in users
    /\ \A e \in Deposits \ {d} : ~HoldsKey(e, body[d].key)
    /\ \/ KeyLogged(body[d].key) /\ DepFinish(d, "ok")
       \/ ~KeyLogged(body[d].key) /\ DepGoto(d, "credit")
    /\ UNCHANGED <<profile, body, reg, rows, faults>>

(* The checks of the service and the insert of the log row; only a user   *)
(* that exists holds the access token a deposit needs.                    *)
InsertLog(d) ==
    /\ dep[d].pc = "idle"
    /\ body[d].user \in users
    /\ LET b == body[d]
       IN  \/ b.amount <= 0 /\ DepFinish(d, "invalid")
           \/ /\ b.amount > 0
              /\ \A e \in Deposits \ {d} : ~HoldsKey(e, b.key)
              /\ \/ Stored(b.amount) > MaxBalance /\ DepFinish(d, "error")
                 \/ /\ Stored(b.amount) <= MaxBalance
                    /\ \/ KeyLogged(b.key) /\ DepFinish(d, "ok")
                       \/ ~KeyLogged(b.key) /\ DepGoto(d, "credit")
    /\ UNCHANGED <<profile, body, reg, rows, faults>>

(* INSERT ... ON CONFLICT (user_id) DO UPDATE SET balance = balance + ?:   *)
(* waits for the row's lock; a sum beyond the column's range is an error.  *)
NewBalance(b) ==
    IF b.user \in wallets THEN balance[b.user] + Stored(b.amount)
                          ELSE Stored(b.amount)

(* A refused credit is tried again from the start. *)
BugCreditRetries(d) ==
    /\ dep[d].pc = "credit"
    /\ LET b == body[d]
       IN  /\ \A e \in Deposits \ {d} : ~LocksWallet(e, b.user)
           /\ \/ NewBalance(b) > MaxBalance /\ DepGoto(d, "idle")
              \/ /\ NewBalance(b) <= MaxBalance
                 /\ dep' = [dep EXCEPT ![d].pc = "commit",
                                       ![d].balance = NewBalance(b)]
    /\ UNCHANGED <<profile, body, reg, rows, faults>>

CreditWallet(d) ==
    /\ dep[d].pc = "credit"
    /\ LET b == body[d]
       IN  /\ \A e \in Deposits \ {d} : ~LocksWallet(e, b.user)
           /\ \/ NewBalance(b) > MaxBalance /\ DepFinish(d, "error")
              \/ /\ NewBalance(b) <= MaxBalance
                 /\ dep' = [dep EXCEPT ![d].pc = "commit",
                                       ![d].balance = NewBalance(b)]
    /\ UNCHANGED <<profile, body, reg, rows, faults>>

ApplyDeposit(d) ==
    /\ wallets' = wallets \cup {body[d].user}
    /\ balance' = [balance EXCEPT ![body[d].user] = dep[d].balance]
    /\ logged' = logged \cup {d}
    /\ UNCHANGED users

CommitDeposit(d) ==
    /\ dep[d].pc = "commit"
    /\ ApplyDeposit(d)
    /\ DepFinish(d, "ok")
    /\ UNCHANGED <<profile, body, reg, faults>>

-----------------------------------------------------------------------------
(* A statement fails and the transaction rolls back, or the connection is  *)
(* lost after the server committed: both are answered with an error.       *)
RegistrationFails(r) ==
    /\ reg[r].pc # "done" /\ faults < MaxDbFaults
    /\ RegFinish(r, "error")
    /\ \/ UNCHANGED rows
       \/ reg[r].pc = "commit" /\ ApplyRegistration(r)
    /\ faults' = faults + 1
    /\ UNCHANGED <<profile, body, dep>>

DepositFails(d) ==
    /\ dep[d].pc # "done" /\ body[d].user \in users /\ faults < MaxDbFaults
    /\ DepFinish(d, "error")
    /\ \/ UNCHANGED rows
       \/ dep[d].pc = "commit" /\ ApplyDeposit(d)
    /\ faults' = faults + 1
    /\ UNCHANGED <<profile, body, reg>>

(* Nothing is left to do; a deposit of a user never registered never comes. *)
Quiescent ==
    /\ \A r \in Registrations : reg[r].pc = "done"
    /\ \A d \in Deposits : dep[d].pc = "done" \/ body[d].user \notin users
    /\ UNCHANGED vars

RegisterStep(r) == InsertUser(r) \/ InsertWallet(r) \/ CommitRegistration(r)
DepositStep(d) == InsertLog(d) \/ CreditWallet(d) \/ CommitDeposit(d)

Next ==
    \/ \E r \in Registrations : RegisterStep(r) \/ RegistrationFails(r)
    \/ \E d \in Deposits : DepositStep(d) \/ DepositFails(d)
    \/ Quiescent

Spec == Init /\ [][Next]_vars

(* Every request that arrived runs on. *)
Fairness ==
    /\ \A r \in Registrations : WF_vars(RegisterStep(r))
    /\ \A d \in Deposits : WF_vars(DepositStep(d))

FairSpec == Spec /\ Fairness

-----------------------------------------------------------------------------
(* Properties *)

(* No two users share a name or an email, whatever registrations ran at    *)
(* once: the unique indexes and the wait on uncommitted rows.              *)
IdentitiesUnique ==
    \A q, r \in users :
        profile[q].name = profile[r].name \/ profile[q].email = profile[r].email
        => q = r

(* A user has a wallet from the moment it exists, and no wallet belongs to *)
(* nobody: Register commits both rows or none.                             *)
WalletPerUser == wallets = users

(* At most one deposit per idempotency key is in the log.                  *)
OneCreditPerKey ==
    \A d, e \in logged : body[d].key = body[e].key => d = e

(* A deposit answered with success has its key in the log, by its own row  *)
(* or by the one it conflicted with, which cannot be rolled back any more. *)
AckedIsLogged ==
    \A d \in Deposits : dep[d].reply = "ok" => KeyLogged(body[d].key)

(* A balance is the sum of the logged deposits of its wallet: no credit is  *)
(* lost or repeated (wallet/repository.go Deposit).                         *)
CreditsOf(u) == {d \in logged : body[d].user = u}

BalanceIsLogged ==
    \A u \in users :
        balance[u] = SumFunctionOnSet([d \in Deposits |-> Stored(body[d].amount)],
                                      CreditsOf(u))

(* The steps of all transactions amount to the atomic ones of Ledger.      *)
Book == INSTANCE Ledger WITH accounts <- users, entries <- logged
CreditsAtomically == Book!Spec

(* Every request that began is answered: the waits for index keys and      *)
(* wallet rows never form a cycle.                                         *)
RequestsAnswered ==
    /\ \A r \in Registrations : (reg[r].pc # "idle") ~> (reg[r].pc = "done")
    /\ \A d \in Deposits : (dep[d].pc # "idle") ~> (dep[d].pc = "done")
=============================================================================
