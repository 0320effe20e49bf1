--------------------------- MODULE AccountsProofs ---------------------------
(* Proofs about Accounts for every set of requests and every request body:   *)
(* types, the waits on index keys and wallet rows, the safety properties     *)
(* they yield, and that Accounts implements Ledger.                          *)
EXTENDS Accounts, SumTheorems

Held(r) == reg[r].pc \in {"wallet", "commit"}
Shares(q, r) == profile[q].name = profile[r].name \/ profile[q].email = profile[r].email

(* An open registration is of a user that does not exist and whose name and *)
(* email no user and no other open registration has.                        *)
IndexKeysHeld ==
    /\ \A r \in Registrations : reg[r].pc # "done" => r \notin users
    /\ \A r \in Registrations : Held(r) => ~NameTaken(r) /\ ~EmailTaken(r)
    /\ \A q, r \in Registrations : Held(q) /\ Held(r) /\ Shares(q, r) => q = r

WalletsOpened ==
    /\ IdentitiesUnique /\ WalletPerUser
    /\ \A r \in Registrations : r \notin users => balance[r] = 0

Logging(d) == dep[d].pc \in {"credit", "commit"}

(* A deposit with an uncommitted log row is the only one of its key. *)
KeysHeld ==
    /\ \A d \in Deposits : Logging(d) =>
          /\ d \notin logged /\ body[d].user \in users /\ body[d].amount > 0
          /\ ~KeyLogged(body[d].key)
    /\ \A d, e \in Deposits : Logging(d) /\ Logging(e)
                              /\ body[d].key = body[e].key => d = e
    /\ OneCreditPerKey /\ AckedIsLogged

(* A deposit that updated a wallet is the only one, so its sum stays right. *)
RowsHeld ==
    /\ \A d \in Deposits : dep[d].pc = "commit" =>
          /\ dep[d].balance = balance[body[d].user] + Stored(body[d].amount)
          /\ dep[d].balance <= MaxBalance
    /\ \A d, e \in Deposits : LocksWallet(d, body[e].user) /\ LocksWallet(e, body[e].user)
                              => d = e

IInv == TypeOK /\ IndexKeysHeld /\ WalletsOpened /\ KeysHeld /\ RowsHeld

-----------------------------------------------------------------------------
LEMMA InitInv == Init => IInv
<1> SUFFICES ASSUME Init PROVE IInv
  OBVIOUS
<1>1. TypeOK
  BY BoundsAssumption DEF Init, TypeOK, RegState, DepState
<1>2. IndexKeysHeld /\ WalletsOpened
  BY DEF Init, IndexKeysHeld, WalletsOpened, IdentitiesUnique, WalletPerUser, Held
<1>3. KeysHeld /\ RowsHeld
  BY DEF Init, KeysHeld, RowsHeld, Logging, LocksWallet, OneCreditPerKey, AckedIsLogged
<1> QED BY <1>1, <1>2, <1>3 DEF IInv

(* What moving one request on does to all of them. *)
LEMMA RegMoves ==
    ASSUME reg \in [Registrations -> RegState], NEW r \in Registrations,
           NEW pc \in {"idle", "wallet", "commit", "done"},
           NEW reply \in {"none", "ok", "nameExisted", "emailExisted", "error"},
           \/ pc # "done" /\ RegGoto(r, pc)
           \/ pc = "done" /\ RegFinish(r, reply)
    PROVE  /\ reg' \in [Registrations -> RegState]
           /\ \A q \in Registrations : q # r => reg'[q] = reg[q]
           /\ reg'[r].pc = pc
BY DEF RegGoto, RegFinish, RegState

LEMMA DepMoves ==
    ASSUME dep \in [Deposits -> DepState], NEW d \in Deposits,
           NEW pc \in {"idle", "credit", "commit", "done"},
           NEW reply \in {"none", "ok", "invalid", "error"},
           \/ pc # "done" /\ DepGoto(d, pc)
           \/ pc = "done" /\ DepFinish(d, reply)
    PROVE  /\ dep' \in [Deposits -> DepState]
           /\ \A e \in Deposits : e # d => dep'[e] = dep[e]
           /\ dep'[d].pc = pc
           /\ dep'[d].reply = IF pc = "done" THEN reply ELSE dep[d].reply
BY DEF DepGoto, DepFinish, DepState

LEMMA StoredNat ==
    ASSUME NEW a \in Int, a > 0
    PROVE  Stored(a) \in Nat
BY DEF Stored

-----------------------------------------------------------------------------
(* A registration that writes nothing: it moves on, or ends. *)
LEMMA RegistrationQuiet ==
    ASSUME IInv, NEW r \in Registrations,
           InsertUser(r) \/ InsertWallet(r) \/ (RegistrationFails(r) /\ UNCHANGED rows)
    PROVE  IInv'
<1>1. /\ TypeOK /\ reg \in [Registrations -> RegState]
      /\ UNCHANGED <<profile, body, dep, users, wallets, balance, logged>>
      /\ faults' \in Nat
  BY DEF IInv, TypeOK, InsertUser, InsertWallet, RegistrationFails, rows
<1>2. PICK pc \in {"wallet", "commit", "done"} :
        /\ reg' \in [Registrations -> RegState]
        /\ \A q \in Registrations : q # r => reg'[q] = reg[q]
        /\ reg'[r].pc = pc
        /\ pc # "done" => reg[r].pc # "done"
        /\ pc = "commit" => reg[r].pc = "wallet"
        /\ pc = "wallet" => /\ ~NameTaken(r) /\ ~EmailTaken(r)
                            /\ \A q \in Registrations \ {r} : ~HoldsIndexKey(q, r)
  <2>1. CASE InsertUser(r)
    BY <1>1, <2>1, RegMoves DEF InsertUser
  <2>2. CASE InsertWallet(r)
    BY <1>1, <2>2, RegMoves DEF InsertWallet
  <2>3. CASE RegistrationFails(r)
    BY <1>1, <2>3, RegMoves DEF RegistrationFails
  <2> QED BY <2>1, <2>2, <2>3
<1>3. TypeOK'
  BY <1>1, <1>2 DEF TypeOK
<1>4. IndexKeysHeld'
  <2>1. \A q \in Registrations : reg'[q].pc # "done" => q \notin users'
    BY <1>1, <1>2 DEF IInv, IndexKeysHeld
  <2>2. \A q \in Registrations : Held(q)' => ~NameTaken(q)' /\ ~EmailTaken(q)'
    BY <1>1, <1>2 DEF IInv, IndexKeysHeld, Held, NameTaken, EmailTaken
  <2>3. \A p, q \in Registrations : Held(p)' /\ Held(q)' /\ Shares(p, q)' => p = q
    BY <1>1, <1>2 DEF IInv, IndexKeysHeld, Held, Shares, HoldsIndexKey
  <2> QED BY <2>1, <2>2, <2>3 DEF IndexKeysHeld
<1>5. WalletsOpened' /\ KeysHeld' /\ RowsHeld'
  BY <1>1 DEF IInv, WalletsOpened, KeysHeld, RowsHeld, IdentitiesUnique, WalletPerUser,
     Logging, KeyLogged, OneCreditPerKey, AckedIsLogged, LocksWallet
<1> QED BY <1>3, <1>4, <1>5 DEF IInv

(* A registration that commits its user and its wallet. *)
LEMMA RegistrationCommits ==
    ASSUME IInv, NEW r \in Registrations, reg[r].pc = "commit", ApplyRegistration(r),
           NEW reply \in {"ok", "error"}, RegFinish(r, reply), faults' \in Nat,
           UNCHANGED <<profile, body, dep>>
    PROVE  IInv'
<1>1. /\ TypeOK /\ reg' \in [Registrations -> RegState]
      /\ \A q \in Registrations : q # r => reg'[q] = reg[q]
      /\ reg'[r].pc = "done"
  BY RegMoves DEF IInv, TypeOK
<1>2. /\ users' = users \cup {r} /\ wallets' = wallets \cup {r} /\ logged' = logged
      /\ balance' = [balance EXCEPT ![r] = 0]
      /\ balance \in [Registrations -> 0 .. MaxBalance] /\ users \subseteq Registrations
  BY DEF ApplyRegistration, IInv, TypeOK
<1>3. r \notin users /\ ~NameTaken(r) /\ ~EmailTaken(r) /\ balance[r] = 0
  BY DEF IInv, IndexKeysHeld, WalletsOpened, Held
<1>4. balance' = balance
  BY <1>2, <1>3
<1>5. TypeOK'
  BY <1>1, <1>2, <1>4 DEF TypeOK
<1>6. IndexKeysHeld'
  <2>1. \A q \in Registrations : reg'[q].pc # "done" => q \notin users'
    BY <1>1, <1>2 DEF IInv, IndexKeysHeld
  <2>2. \A q \in Registrations : Held(q)' => Held(q) /\ q # r
    BY <1>1 DEF Held
  <2>3. \A q \in Registrations : Held(q)' => ~Shares(q, r)
    BY <2>2 DEF IInv, IndexKeysHeld, Held
  <2>4. \A q \in Registrations : Held(q)' => ~NameTaken(q)' /\ ~EmailTaken(q)'
    BY <1>2, <2>2, <2>3 DEF IInv, IndexKeysHeld, NameTaken, EmailTaken, Shares
  <2>5. \A p, q \in Registrations : Held(p)' /\ Held(q)' /\ Shares(p, q)' => p = q
    BY <2>2 DEF IInv, IndexKeysHeld, Shares
  <2> QED BY <2>1, <2>4, <2>5 DEF IndexKeysHeld
<1>7. WalletsOpened'
  <2>1. IdentitiesUnique'
    BY <1>2, <1>3 DEF IInv, WalletsOpened, IdentitiesUnique, NameTaken, EmailTaken
  <2> QED BY <1>2, <1>4, <2>1 DEF IInv, WalletsOpened, WalletPerUser
<1>8. KeysHeld' /\ RowsHeld'
  BY <1>2, <1>4 DEF IInv, KeysHeld, RowsHeld, Logging, KeyLogged, OneCreditPerKey,
     AckedIsLogged, LocksWallet
<1> QED BY <1>5, <1>6, <1>7, <1>8 DEF IInv

-----------------------------------------------------------------------------
(* A deposit that writes nothing yet, or gives up. *)
LEMMA DepositQuiet ==
    ASSUME IInv, NEW d \in Deposits,
           InsertLog(d) \/ CreditWallet(d) \/ (DepositFails(d) /\ UNCHANGED rows)
    PROVE  IInv'
<1>1. /\ TypeOK /\ dep \in [Deposits -> DepState]
      /\ UNCHANGED <<profile, body, reg, users, wallets, balance, logged>>
      /\ faults' \in Nat
      /\ body[d].amount \in Int
  BY InputsAssumption DEF IInv, TypeOK, InsertLog, CreditWallet, DepositFails, rows
<1> DEFINE Moved(pc) ==
        /\ dep' \in [Deposits -> DepState]
        /\ \A e \in Deposits : e # d => dep'[e] = dep[e]
        /\ dep'[d].pc = pc
        /\ pc = "credit" => /\ dep[d].pc = "idle"
                            /\ body[d].user \in users /\ body[d].amount > 0
                            /\ \A e \in Deposits \ {d} : ~HoldsKey(e, body[d].key)
                            /\ ~KeyLogged(body[d].key)
        /\ pc = "commit" => /\ dep[d].pc = "credit"
                            /\ dep'[d].balance = NewBalance(body[d])
                            /\ NewBalance(body[d]) <= MaxBalance
                            /\ \A e \in Deposits \ {d} : ~LocksWallet(e, body[d].user)
        /\ dep'[d].reply = "ok" => dep[d].reply = "ok" \/ KeyLogged(body[d].key)
<1>2. PICK pc \in {"credit", "commit", "done"} : Moved(pc)
  <2>1. CASE InsertLog(d)
    <3>1. CASE DepGoto(d, "credit") /\ body[d].amount > 0 /\ ~KeyLogged(body[d].key)
      BY <1>1, <2>1, <3>1, DepMoves DEF InsertLog
    <3>2. ASSUME NEW reply \in {"invalid", "error", "ok"}, DepFinish(d, reply),
                 reply = "ok" => KeyLogged(body[d].key)
          PROVE  Moved("done")
      BY <1>1, <3>2, DepMoves
    <3> QED BY <2>1, <3>1, <3>2 DEF InsertLog
  <2>2. CASE CreditWallet(d)
    <3>1. body[d].user \in users /\ body[d].amount > 0
      BY <2>2 DEF CreditWallet, IInv, KeysHeld, Logging
    <3>2. NewBalance(body[d]) \in Nat
      BY <1>1, <3>1, StoredNat DEF NewBalance, TypeOK
    <3>3. CASE NewBalance(body[d]) <= MaxBalance
      BY <1>1, <2>2, <3>2, <3>3, BoundsAssumption DEF CreditWallet, DepState
    <3>4. CASE ~(NewBalance(body[d]) <= MaxBalance)
      <4>1. DepFinish(d, "error")
        BY <2>2, <3>4 DEF CreditWallet
      <4> QED BY <1>1, <4>1, DepMoves
    <3> QED BY <3>3, <3>4
  <2>3. CASE DepositFails(d)
    BY <1>1, <2>3, DepMoves DEF DepositFails
  <2> QED BY <2>1, <2>2, <2>3
<1>3. TypeOK'
  BY <1>1, <1>2 DEF TypeOK
<1>4. IndexKeysHeld' /\ WalletsOpened'
  BY <1>1 DEF IInv, IndexKeysHeld, WalletsOpened, IdentitiesUnique, WalletPerUser,
     Held, NameTaken, EmailTaken, Shares
<1>5. KeysHeld'
  <2>1. \A e \in Deposits : Logging(e)' =>
          /\ e \notin logged' /\ (body[e].user \in users)' /\ body'[e].amount > 0
          /\ ~KeyLogged(body[e].key)'
    <3>1. pc = "credit" => d \notin logged
      BY <1>2 DEF KeyLogged
    <3> QED BY <1>1, <1>2, <3>1 DEF IInv, KeysHeld, Logging, KeyLogged
  <2>2. \A e, f \in Deposits : Logging(e)' /\ Logging(f)'
          /\ body'[e].key = body'[f].key => e = f
    BY <1>1, <1>2 DEF IInv, KeysHeld, Logging, HoldsKey
  <2>3. OneCreditPerKey'
    BY <1>1 DEF IInv, KeysHeld, OneCreditPerKey
  <2>4. AckedIsLogged'
    BY <1>1, <1>2 DEF IInv, KeysHeld, AckedIsLogged, KeyLogged
  <2> QED BY <2>1, <2>2, <2>3, <2>4 DEF KeysHeld
<1>6. RowsHeld'
  <2>1. pc = "commit" => NewBalance(body[d]) = balance[body[d].user] + Stored(body[d].amount)
    BY <1>2 DEF NewBalance, IInv, KeysHeld, Logging, WalletsOpened, WalletPerUser
  <2>2. \A e \in Deposits : dep'[e].pc = "commit" =>
          /\ dep'[e].balance = balance'[body'[e].user] + Stored(body'[e].amount)
          /\ dep'[e].balance <= MaxBalance
    BY <1>1, <1>2, <2>1 DEF IInv, RowsHeld
  <2>3. \A e, f \in Deposits : LocksWallet(e, body[f].user)' /\ LocksWallet(f, body[f].user)'
          => e = f
    BY <1>1, <1>2 DEF IInv, RowsHeld, LocksWallet
  <2> QED BY <2>2, <2>3 DEF RowsHeld
<1> QED BY <1>3, <1>4, <1>5, <1>6 DEF IInv

(* A deposit that commits its log row and its credit. *)
LEMMA DepositCommits ==
    ASSUME IInv, NEW d \in Deposits, dep[d].pc = "commit", ApplyDeposit(d),
           NEW reply \in {"ok", "error"}, DepFinish(d, reply), faults' \in Nat,
           UNCHANGED <<profile, body, reg>>
    PROVE  IInv'
<1>1. /\ TypeOK /\ dep' \in [Deposits -> DepState]
      /\ \A e \in Deposits : e # d => dep'[e] = dep[e]
      /\ dep'[d].pc = "done"
  BY DepMoves DEF IInv, TypeOK
<1> DEFINE u == body[d].user
<1>2. /\ u \in users /\ wallets = users /\ d \notin logged /\ ~KeyLogged(body[d].key)
      /\ dep[d].balance = balance[u] + Stored(body[d].amount)
      /\ dep[d].balance \in 0 .. MaxBalance
  BY BoundsAssumption DEF IInv, KeysHeld, RowsHeld, Logging, WalletsOpened, WalletPerUser,
     TypeOK, DepState
<1>3. /\ users' = users /\ wallets' = users /\ logged' = logged \cup {d}
      /\ balance' = [balance EXCEPT ![u] = dep[d].balance]
      /\ balance \in [Registrations -> 0 .. MaxBalance] /\ users \subseteq Registrations
  BY <1>2 DEF ApplyDeposit, IInv, TypeOK
<1>4. TypeOK'
  BY <1>1, <1>2, <1>3 DEF TypeOK
<1>5. IndexKeysHeld' /\ WalletsOpened'
  BY <1>2, <1>3 DEF IInv, IndexKeysHeld, WalletsOpened, IdentitiesUnique, WalletPerUser,
     Held, NameTaken, EmailTaken, Shares
<1>6. \A e \in Deposits : Logging(e)' => Logging(e) /\ e # d
  BY <1>1 DEF Logging
<1>7. \A k : KeyLogged(k)' <=> KeyLogged(k) \/ k = body[d].key
  BY <1>3 DEF KeyLogged
<1>8. KeysHeld'
  <2>1. \A e \in Deposits : Logging(e)' => body[e].key # body[d].key
    BY <1>6 DEF IInv, KeysHeld, Logging
  <2>2. \A e \in Deposits : Logging(e)' =>
          /\ e \notin logged' /\ body'[e].user \in users' /\ body'[e].amount > 0
          /\ ~KeyLogged(body[e].key)'
    BY <1>3, <1>6, <2>1 DEF IInv, KeysHeld, KeyLogged
  <2>3. \A e, f \in Deposits : Logging(e)' /\ Logging(f)'
          /\ body'[e].key = body'[f].key => e = f
    BY <1>6 DEF IInv, KeysHeld
  <2>4. OneCreditPerKey'
    BY <1>2, <1>3 DEF IInv, KeysHeld, OneCreditPerKey, KeyLogged
  <2>5. AckedIsLogged'
    BY <1>1, <1>7 DEF IInv, KeysHeld, AckedIsLogged
  <2> QED BY <2>2, <2>3, <2>4, <2>5 DEF KeysHeld
<1>9. RowsHeld'
  <2>1. \A e \in Deposits : dep'[e].pc = "commit" =>
          dep[e].pc = "commit" /\ e # d /\ dep'[e] = dep[e] /\ body[e].user # u
    BY <1>1 DEF IInv, RowsHeld, LocksWallet
  <2>2. \A e \in Deposits : dep'[e].pc = "commit" =>
          /\ dep'[e].balance = balance'[body'[e].user] + Stored(body'[e].amount)
          /\ dep'[e].balance <= MaxBalance
    BY <1>3, <2>1 DEF IInv, RowsHeld
  <2>3. \A e, f \in Deposits : LocksWallet(e, body[f].user)' /\ LocksWallet(f, body[f].user)'
          => e = f
    BY <2>1 DEF IInv, RowsHeld, LocksWallet
  <2> QED BY <2>2, <2>3 DEF RowsHeld
<1> QED BY <1>4, <1>5, <1>8, <1>9 DEF IInv

-----------------------------------------------------------------------------
LEMMA FaultCounted ==
    ASSUME IInv
    PROVE  faults \in Nat /\ faults + 1 \in Nat
BY DEF IInv, TypeOK

THEOREM InductiveStep == IInv /\ [Next]_vars => IInv'
<1> SUFFICES ASSUME IInv, [Next]_vars PROVE IInv'
  OBVIOUS
<1>1. ASSUME NEW r \in Registrations, RegisterStep(r) \/ RegistrationFails(r)
      PROVE  IInv'
  <2>1. CASE CommitRegistration(r)
    BY <2>1, RegistrationCommits, FaultCounted DEF CommitRegistration
  <2>2. CASE RegistrationFails(r) /\ ~UNCHANGED rows
    BY <2>2, RegistrationCommits, FaultCounted DEF RegistrationFails
  <2> QED BY <1>1, <2>1, <2>2, RegistrationQuiet DEF RegisterStep
<1>2. ASSUME NEW d \in Deposits, DepositStep(d) \/ DepositFails(d)
      PROVE  IInv'
  <2>1. CASE CommitDeposit(d)
    BY <2>1, DepositCommits, FaultCounted DEF CommitDeposit
  <2>2. CASE DepositFails(d) /\ ~UNCHANGED rows
    BY <2>2, DepositCommits, FaultCounted DEF DepositFails
  <2> QED BY <1>2, <2>1, <2>2, DepositQuiet DEF DepositStep
<1>3. CASE UNCHANGED vars
  BY <1>3 DEF vars, IInv, TypeOK, IndexKeysHeld, WalletsOpened, KeysHeld, RowsHeld,
     IdentitiesUnique, WalletPerUser, OneCreditPerKey, AckedIsLogged, Held, Shares,
     NameTaken, EmailTaken, Logging, KeyLogged, LocksWallet
<1> QED BY <1>1, <1>2, <1>3 DEF Next, Quiescent

LEMMA Disciplined == Spec => []IInv
BY InitInv, InductiveStep, PTL DEF Spec

(* Every variable keeps its type; in particular no balance leaves the range *)
(* of its column and no credit makes one negative.                          *)
THEOREM TypeCorrect == Spec => []TypeOK
BY Disciplined, PTL DEF IInv

(* However many registrations run at once, users differ in name and email  *)
(* and each has its wallet.                                                 *)
THEOREM UsersAreDistinct == Spec => [](IdentitiesUnique /\ WalletPerUser)
BY Disciplined, PTL DEF IInv, WalletsOpened

(* A key is logged at most once, and an answer of success is never taken   *)
(* back by a rollback.                                                      *)
THEOREM KeysAreUnique == Spec => [](OneCreditPerKey /\ AckedIsLogged)
BY Disciplined, PTL DEF IInv, KeysHeld

(* User rows and wallet rows appear together: a committed registration has  *)
(* its wallet and no deposit opens one for nobody.                          *)
THEOREM WalletsComeWithUsers == Spec => []WalletPerUser
BY UsersAreDistinct, PTL

(* A deposit answered with success is in the log, by its own row or by the  *)
(* one its key conflicted with.                                             *)
THEOREM AnswersAreTrue == Spec => []AckedIsLogged
BY KeysAreUnique, PTL

-----------------------------------------------------------------------------
(* Balances. *)

Credits == [d \in Deposits |-> Stored(body[d].amount)]

(* The log is finite and nobody's deposits are in it before their user is.  *)
LogCounted ==
    /\ IsFiniteSet(logged)
    /\ \A d \in logged : body[d].user \in users /\ body[d].amount > 0
    /\ BalanceIsLogged

LEMMA LogFinite ==
    ASSUME TypeOK, IsFiniteSet(logged), \A d \in logged : body[d].amount > 0, NEW u
    PROVE  IsFiniteSet(CreditsOf(u)) /\ \A d \in CreditsOf(u) : Credits[d] \in Int
<1>1. \A d \in logged : d \in Deposits /\ body[d].amount \in Int
  BY InputsAssumption DEF TypeOK
<1> QED BY <1>1, StoredNat, FS_Subset DEF CreditsOf, Credits

(* A registration opens with no balance and no deposit. *)
LEMMA OpeningKeepsCount ==
    ASSUME IInv, LogCounted, NEW r \in Registrations, reg[r].pc = "commit",
           ApplyRegistration(r), UNCHANGED body
    PROVE  LogCounted'
<1>1. r \notin users /\ balance[r] = 0
  BY DEF IInv, IndexKeysHeld, WalletsOpened
<1>2. users' = users \cup {r} /\ logged' = logged /\ balance' = balance
  BY <1>1 DEF ApplyRegistration, IInv, TypeOK
<1>3. \A u : CreditsOf(u)' = CreditsOf(u)
  BY <1>2 DEF CreditsOf
<1>4. CreditsOf(r) = {}
  BY <1>1 DEF CreditsOf, LogCounted
<1>5. ASSUME NEW u \in users'
      PROVE  balance'[u] = SumFunctionOnSet(Credits, CreditsOf(u))
  BY <1>1, <1>2, <1>4, SumOverEmptySet DEF LogCounted, BalanceIsLogged, Credits
<1>6. BalanceIsLogged'
  BY <1>3, <1>5 DEF BalanceIsLogged, Credits
<1> QED BY <1>2, <1>6 DEF LogCounted

(* A deposit adds its amount to one sum and its row to the log. *)
LEMMA CreditKeepsCount ==
    ASSUME IInv, LogCounted, NEW d \in Deposits, dep[d].pc = "commit",
           ApplyDeposit(d), UNCHANGED body
    PROVE  LogCounted'
<1> DEFINE w == body[d].user
<1>1. /\ w \in users /\ users \subseteq Registrations /\ d \notin logged
      /\ body[d].amount \in Int /\ body[d].amount > 0
      /\ dep[d].balance = balance[w] + Stored(body[d].amount)
  BY InputsAssumption DEF IInv, KeysHeld, RowsHeld, Logging, TypeOK
<1>2. /\ users' = users /\ logged' = logged \cup {d}
      /\ balance' = [balance EXCEPT ![w] = dep[d].balance]
      /\ balance \in [Registrations -> 0 .. MaxBalance]
  BY DEF ApplyDeposit, IInv, TypeOK
<1>3. IsFiniteSet(logged') /\ \A e \in logged' : body'[e].user \in users' /\ body'[e].amount > 0
  BY <1>1, <1>2, FS_AddElement DEF LogCounted
<1>4. \A u : CreditsOf(u)' = IF u = w THEN CreditsOf(u) \cup {d} ELSE CreditsOf(u)
  BY <1>2 DEF CreditsOf
<1>5. SumFunctionOnSet(Credits, CreditsOf(w) \cup {d})
        = SumFunctionOnSet(Credits, CreditsOf(w)) + Stored(body[d].amount)
  <2>1. IsFiniteSet(CreditsOf(w)) /\ \A e \in CreditsOf(w) : Credits[e] \in Int
    BY LogFinite DEF IInv, LogCounted
  <2>2. d \notin CreditsOf(w) /\ Credits[d] = Stored(body[d].amount) /\ Credits[d] \in Int
    BY <1>1, StoredNat DEF CreditsOf, Credits
  <2> QED BY <2>1, <2>2, SumWithElement
<1>6. ASSUME NEW u \in users'
      PROVE  balance'[u] = SumFunctionOnSet(Credits, CreditsOf(u)')
  <2>1. u \in users /\ balance[u] = SumFunctionOnSet(Credits, CreditsOf(u))
    BY <1>2 DEF LogCounted, BalanceIsLogged, Credits
  <2>2. CASE u = w
    BY <1>1, <1>2, <1>4, <1>5, <2>1, <2>2
  <2>3. CASE u # w
    BY <1>1, <1>2, <1>4, <2>1, <2>3
  <2> QED BY <2>2, <2>3
<1>7. BalanceIsLogged'
  BY <1>6 DEF BalanceIsLogged, Credits
<1> QED BY <1>3, <1>7 DEF LogCounted

LEMMA CountStep == IInv /\ LogCounted /\ [Next]_vars => LogCounted'
<1> SUFFICES ASSUME IInv, LogCounted, [Next]_vars PROVE LogCounted'
  OBVIOUS
<1>1. ASSUME NEW r \in Registrations, reg[r].pc = "commit", ApplyRegistration(r),
             UNCHANGED body
      PROVE  LogCounted'
  BY <1>1, OpeningKeepsCount
<1>2. ASSUME NEW d \in Deposits, dep[d].pc = "commit", ApplyDeposit(d), UNCHANGED body
      PROVE  LogCounted'
  BY <1>2, CreditKeepsCount
<1>3. CASE UNCHANGED <<body, rows>>
  BY <1>3 DEF rows, LogCounted, BalanceIsLogged, CreditsOf
<1> QED
  BY <1>1, <1>2, <1>3 DEF Next, RegisterStep, InsertUser, InsertWallet,
     CommitRegistration, RegistrationFails, DepositStep, InsertLog, CreditWallet,
     CommitDeposit, DepositFails, Quiescent, vars, rows

(* The balance of every wallet is the sum of its logged deposits, as stored *)
(* amounts: no interleaving, failure or lost answer of a commit loses a     *)
(* credit or repeats one.                                                   *)
THEOREM BalancesAreSums == Spec => []BalanceIsLogged
<1>1. Init => LogCounted
  BY FS_EmptySet DEF Init, LogCounted, BalanceIsLogged
<1> QED BY <1>1, CountStep, Disciplined, PTL DEF Spec, LogCounted

-----------------------------------------------------------------------------
(* Accounts implements Ledger. *)

LEMMA RegistrationOpens ==
    ASSUME IInv, NEW r \in Registrations, reg[r].pc = "commit", ApplyRegistration(r),
           UNCHANGED <<profile, body>>
    PROVE  Book!Open(r)
<1>1. r \notin users /\ ~NameTaken(r) /\ ~EmailTaken(r) /\ balance[r] = 0
  BY DEF IInv, IndexKeysHeld, WalletsOpened, Held
<1>2. balance' = balance
  BY <1>1 DEF ApplyRegistration, IInv, TypeOK
<1> QED BY <1>1, <1>2 DEF Book!Open, ApplyRegistration, NameTaken, EmailTaken

LEMMA DepositCredits ==
    ASSUME IInv, NEW d \in Deposits, dep[d].pc = "commit", ApplyDeposit(d),
           UNCHANGED <<profile, body>>
    PROVE  Book!Credit(d)
<1>1. /\ d \notin logged /\ body[d].user \in users /\ body[d].amount > 0
      /\ ~KeyLogged(body[d].key)
      /\ dep[d].balance = balance[body[d].user] + Stored(body[d].amount)
      /\ dep[d].balance <= MaxBalance
  BY DEF IInv, KeysHeld, RowsHeld, Logging
<1> QED BY <1>1 DEF Book!Credit, ApplyDeposit, KeyLogged

LEMMA BookStep == IInv /\ [Next]_vars => [Book!Next]_(Book!vars)
<1> SUFFICES ASSUME IInv, [Next]_vars PROVE [Book!Next]_(Book!vars)
  OBVIOUS
<1>1. ASSUME NEW r \in Registrations, reg[r].pc = "commit", ApplyRegistration(r),
             UNCHANGED <<profile, body>>
      PROVE  Book!Next
  BY <1>1, RegistrationOpens DEF Book!Next
<1>2. ASSUME NEW d \in Deposits, dep[d].pc = "commit", ApplyDeposit(d),
             UNCHANGED <<profile, body>>
      PROVE  Book!Next
  BY <1>2, DepositCredits DEF Book!Next
<1>3. CASE UNCHANGED <<profile, body, rows>>
  BY <1>3 DEF Book!vars, rows
<1> QED
  BY <1>1, <1>2, <1>3 DEF Next, RegisterStep, InsertUser, InsertWallet,
     CommitRegistration, RegistrationFails, DepositStep, InsertLog, CreditWallet,
     CommitDeposit, DepositFails, Quiescent, vars, rows

(* Opening an account and crediting a deposit are atomic, whatever the      *)
(* interleaving and the failures.                                            *)
THEOREM ImplementsLedger == Spec => CreditsAtomically
<1>1. Init => Book!Init
  BY DEF Init, Book!Init
<1> QED BY <1>1, BookStep, Disciplined, PTL DEF Spec, Book!Spec, CreditsAtomically
=============================================================================
