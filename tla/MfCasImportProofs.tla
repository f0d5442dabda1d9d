------------------------- MODULE MfCasImportProofs -------------------------
(***************************************************************************)
(* Proofs about MfCasImport, for every history, every set of statement     *)
(* periods and requests and every number of faults.  What the importer     *)
(* does with a row needs no arithmetic; that statements converge to one    *)
(* true ledger rests on what sums of daily changes do (SumTheorems).       *)
(***************************************************************************)
EXTENDS MfCasImport, SumTheorems

Flags    == {"absent", "complete", "partial"}
Accounts == [rows : [Days -> Flags], snapshot : [Days -> Balances \union {NoUnits}],
             block : Blocks \union {NoBlock}]

LEMMA StatementDays ==
  ASSUME NEW s \in Statements
  PROVE  /\ From(s) \in Days /\ To(s) \in Days
         /\ Opening(s) \in Balances /\ Closing(s) \in Balances
<1>1. s.period \in Windows
  BY DEF Statements
<1>2. From(s) \in Days /\ To(s) \in Days
  BY <1>1, ImportAssumption DEF From, To, Days
<1>3. To(s) \in 0..LastDay /\ From(s) - 1 \in 0..LastDay
  BY <1>2, ImportAssumption DEF Days
<1>. QED
  BY <1>2, <1>3 DEF Opening, Closing, Balances

LEMMA AddRowsType ==
  ASSUME NEW rows \in [Days -> Flags], NEW days, NEW flag \in Flags
  PROVE  AddRows(rows, days, flag) \in [Days -> Flags]
BY DEF AddRows

(* Storing a statement and re-evaluating the partial rows keep the shape   *)
(* of the account.                                                         *)
LEMMA PersistSchemeType ==
  ASSUME NEW a \in Accounts, NEW s \in Statements
  PROVE  PersistScheme(a, s) \in Accounts
<1>1. a.rows \in [Days -> Flags] /\ a.snapshot \in [Days -> Balances \union {NoUnits}]
  BY DEF Accounts
<1>2. CASE ~HistoryGap(s, PriorBalance(a, From(s)))
  <2>1. AddRows(a.rows, Lines(s), "complete") \in [Days -> Flags]
    BY <1>1, AddRowsType DEF Flags
  <2>. QED
    BY <1>2, <2>1 DEF PersistScheme, Accounts
<1>3. CASE HistoryGap(s, PriorBalance(a, From(s)))
  <2>1. AddRows(a.rows, Lines(s), "partial") \in [Days -> Flags]
    BY <1>1, AddRowsType DEF Flags
  <2>2. [a.snapshot EXCEPT ![To(s)] = Closing(s)] \in [Days -> Balances \union {NoUnits}]
    BY <1>1, StatementDays
  <2>3. [opening |-> Opening(s), closing |-> Closing(s), from |-> From(s)] \in Blocks
    BY StatementDays DEF Blocks
  <2>. QED
    BY <1>3, <2>1, <2>2, <2>3 DEF PersistScheme, Accounts
<1>. QED
  BY <1>2, <1>3

LEMMA UpgradeType ==
  ASSUME NEW a \in Accounts
  PROVE  UpgradeChainedPartials(a) \in Accounts
<1>1. a.rows \in [Days -> Flags]
  BY DEF Accounts
<1>2. [a EXCEPT !.block = NoBlock] \in Accounts
  BY DEF Accounts
<1>3. [d \in Days |-> IF a.rows[d] = "partial" THEN "complete" ELSE a.rows[d]]
        \in [Days -> Flags]
  BY <1>1 DEF Flags
<1>4. NoSnapshots \in [Days -> Balances \union {NoUnits}]
  BY DEF NoSnapshots
<1>. QED
  BY <1>2, <1>3, <1>4 DEF UpgradeChainedPartials, Accounts

LEMMA ReconcileType ==
  ASSUME NEW a
  PROVE  Reconcile(a) \in Statuses
BY DEF Reconcile, Statuses

LEMMA TypeInit == Init => TypeOK
<1>. SUFFICES ASSUME Init PROVE TypeOK
  OBVIOUS
<1>1. account \in Accounts
  BY DEF Init, Accounts, Flags, NoSnapshots
<1>. QED
  BY <1>1, ImportAssumption DEF Init, TypeOK, Accounts, Flags, Statuses

LEMMA TypeNext == TypeOK /\ [Next]_vars => TypeOK'
<1>. SUFFICES ASSUME TypeOK, [Next]_vars PROVE TypeOK'
  OBVIOUS
<1>0. account \in Accounts
  BY DEF TypeOK, Accounts, Flags
<1>1. ASSUME NEW r \in Requests, NEW s \in Statements, PersistStatement(r, s)
      PROVE  TypeOK'
  <2>1. account' \in Accounts
    BY <1>0, <1>1, PersistSchemeType, UpgradeType DEF PersistStatement
  <2>2. history' = history
    BY <1>1 DEF PersistStatement
  <2>3. Balances' = Balances
    BY <2>2 DEF Balances, Balance, Net
  <2>4. Blocks' = Blocks
    BY <2>3 DEF Blocks
  <2>5. uploads' \subseteq Windows /\ lossless' \in BOOLEAN
    BY <1>1 DEF PersistStatement, TypeOK, Statements
  <2>6. req' \in [Requests -> [pc : {"idle", "reconcile", "write"}, result : Statuses]]
    BY <1>1 DEF PersistStatement, TypeOK
  <2>. QED
    BY <1>1, <2>1, <2>3, <2>4, <2>5, <2>6 DEF TypeOK, PersistStatement, Accounts, Flags
<1>2. ASSUME UNCHANGED <<history, account>>
      PROVE  /\ Balances' = Balances /\ Blocks' = Blocks
             /\ account' \in [rows : [Days -> Flags],
                              snapshot : [Days -> Balances' \union {NoUnits}],
                              block : Blocks' \union {NoBlock}]
  <2>1. Balances' = Balances
    BY <1>2 DEF Balances, Balance, Net
  <2>2. Blocks' = Blocks
    BY <2>1 DEF Blocks
  <2>. QED
    BY <1>0, <1>2, <2>1, <2>2 DEF Accounts
<1>3. ASSUME NEW r \in Requests, ReconcileSecurity(r) PROVE TypeOK'
  BY <1>2, <1>3, ReconcileType DEF ReconcileSecurity, TypeOK, Flags
<1>4. ASSUME NEW r \in Requests, WriteStatus(r) PROVE TypeOK'
  BY <1>2, <1>4 DEF WriteStatus, TypeOK, Flags, Statuses
<1>5. ASSUME NEW r \in Requests, ReconcileFails(r) PROVE TypeOK'
  BY <1>2, <1>5, ImportAssumption DEF ReconcileFails, TypeOK, Flags, Statuses
<1>6. CASE UNCHANGED vars
  BY <1>2, <1>6 DEF vars, TypeOK, Flags
<1>. QED
  BY <1>1, <1>3, <1>4, <1>5, <1>6 DEF Next

(* Rows, snapshots and the block keep their types, and every number on     *)
(* file is a balance the fund really had: no import computes one of its    *)
(* own (_persist_block, _snapshot_incomplete_block).                       *)
THEOREM TypeCorrect == Spec => []TypeOK
BY TypeInit, TypeNext, PTL DEF Spec

-----------------------------------------------------------------------------
(* What an import does to the rows: it fills in absent ones and promotes   *)
(* partial ones, in the two passes of one transaction.                     *)
Kept(old, new) ==
  \A d \in Days : /\ old[d] # "absent" => new[d] # "absent"
                  /\ old[d] = "complete" => new[d] = "complete"

LEMMA PersistSchemeKeeps ==
  ASSUME NEW a \in Accounts, NEW s \in Statements
  PROVE  Kept(a.rows, PersistScheme(a, s).rows)
<1>1. a.rows \in [Days -> Flags]
  BY DEF Accounts
<1>2. ASSUME NEW flag \in {"partial", "complete"}
      PROVE  Kept(a.rows, AddRows(a.rows, Lines(s), flag))
  BY DEF Kept, AddRows
<1>3. PersistScheme(a, s).rows \in {AddRows(a.rows, Lines(s), "partial"),
                                   AddRows(a.rows, Lines(s), "complete")}
  BY DEF PersistScheme, Accounts
<1>. QED
  BY <1>2, <1>3

LEMMA UpgradeKeeps ==
  ASSUME NEW a \in Accounts
  PROVE  Kept(a.rows, UpgradeChainedPartials(a).rows)
<1>1. a.rows \in [Days -> Flags]
  BY DEF Accounts
<1>2. Kept(a.rows, [d \in Days |-> IF a.rows[d] = "partial" THEN "complete" ELSE a.rows[d]])
  BY <1>1 DEF Kept
<1>3. Kept(a.rows, a.rows)
  BY DEF Kept
<1>4. UpgradeChainedPartials(a).rows
        \in {a.rows, [d \in Days |-> IF a.rows[d] = "partial" THEN "complete" ELSE a.rows[d]]}
  BY DEF UpgradeChainedPartials, Accounts
<1>. QED
  BY <1>2, <1>3, <1>4

(* Importing is additive: whatever statement comes, in whatever order, and *)
(* whatever the parser has lost of it, a row on file stays and a verified  *)
(* one stays verified (_persist_block, upgrade_chained_partials).          *)
THEOREM ImportsAreAdditive == Spec => NeverDowngraded
<1>1. TypeOK /\ [Next]_vars => [Kept(account.rows, account'.rows)]_vars
  <2>. SUFFICES ASSUME TypeOK, Next PROVE Kept(account.rows, account'.rows)
    OBVIOUS
  <2>1. ASSUME NEW r \in Requests, NEW s \in Statements, PersistStatement(r, s)
        PROVE  Kept(account.rows, account'.rows)
    <3>1. account \in Accounts
      BY DEF TypeOK, Accounts, Flags
    <3>2. PersistScheme(account, s) \in Accounts
      BY <3>1, PersistSchemeType
    <3>3. Kept(account.rows, PersistScheme(account, s).rows)
      BY <3>1, PersistSchemeKeeps
    <3>4. Kept(PersistScheme(account, s).rows, account'.rows)
      BY <2>1, <3>2, UpgradeKeeps DEF PersistStatement
    <3>. QED
      BY <3>3, <3>4 DEF Kept
  <2>2. ASSUME account' = account PROVE Kept(account.rows, account'.rows)
    BY <2>2 DEF Kept
  <2>. QED
    BY <2>1, <2>2 DEF Next, ReconcileSecurity, WriteStatus, ReconcileFails
<1>2. [Kept(account.rows, account'.rows)]_vars
        => [\A d \in Days :
              /\ account.rows[d] # "absent" => account'.rows[d] # "absent"
              /\ account.rows[d] = "complete" => account'.rows[d] = "complete"]_vars
  BY DEF Kept
<1>. QED
  BY <1>1, <1>2, TypeCorrect, PTL DEF Spec, NeverDowngraded

-----------------------------------------------------------------------------
(* The fund never goes below zero, so no closing balance can be taken for  *)
(* the mark of a day without a snapshot.                                   *)
Covered(a) == Partial(a) # {} => a.block # NoBlock /\ Snapshots(a) # {}
SnapshotInv ==
  /\ TypeOK
  /\ \A d \in Days : Balance(d) >= 0
  /\ PartialKeepsSnapshot

LEMMA PersistSchemeCovers ==
  ASSUME NEW a \in Accounts, NEW s \in Statements, Covered(a),
         \A d \in Days : Balance(d) >= 0
  PROVE  Covered(PersistScheme(a, s))
<1>1. a.rows \in [Days -> Flags] /\ a.snapshot \in [Days -> Balances \union {NoUnits}]
  BY DEF Accounts
<1>2. CASE ~HistoryGap(s, PriorBalance(a, From(s)))
  <2>. DEFINE b == PersistScheme(a, s)
  <2>1. /\ b.rows = AddRows(a.rows, Lines(s), "complete")
        /\ b.snapshot = a.snapshot /\ b.block = a.block
    BY <1>2 DEF PersistScheme, Accounts
  <2>2. Partial(b) \subseteq Partial(a)
    BY <1>1, <2>1 DEF Partial, AddRows
  <2>3. Snapshots(b) = Snapshots(a)
    BY <2>1 DEF Snapshots
  <2>. QED
    BY <2>1, <2>2, <2>3 DEF Covered
<1>3. CASE HistoryGap(s, PriorBalance(a, From(s)))
  <2>. DEFINE b == PersistScheme(a, s)
  <2>1. /\ b.snapshot = [a.snapshot EXCEPT ![To(s)] = Closing(s)]
        /\ b.block = [opening |-> Opening(s), closing |-> Closing(s), from |-> From(s)]
    BY <1>3 DEF PersistScheme
  <2>2. From(s) \in Days /\ To(s) \in Days
    BY StatementDays
  <2>3. b.block # NoBlock
    BY <2>1, <2>2, ImportAssumption DEF NoBlock, Days
  <2>4. Closing(s) # NoUnits
    BY <2>2 DEF Closing, NoUnits
  <2>5. To(s) \in Snapshots(b)
    BY <1>1, <2>1, <2>2, <2>4 DEF Snapshots
  <2>. QED
    BY <2>3, <2>5 DEF Covered
<1>. QED
  BY <1>2, <1>3

LEMMA UpgradeCovers ==
  ASSUME NEW a \in Accounts, Covered(a)
  PROVE  Covered(UpgradeChainedPartials(a))
<1>. DEFINE b == UpgradeChainedPartials(a)
<1>1. CASE b = a
  BY <1>1
<1>2. CASE Partial(a) = {} /\ b = [a EXCEPT !.block = NoBlock]
  <2>1. b.rows = a.rows
    BY <1>2 DEF Accounts
  <2>. QED
    BY <1>2, <2>1 DEF Covered, Partial
<1>3. CASE b.rows = [d \in Days |-> IF a.rows[d] = "partial" THEN "complete" ELSE a.rows[d]]
  <2>1. Partial(b) = {}
    BY <1>3 DEF Partial
  <2>. QED
    BY <2>1 DEF Covered
<1>. QED
  BY <1>1, <1>2, <1>3 DEF UpgradeChainedPartials

(* Units without cost basis stay in the net worth: while there are partial *)
(* rows, there is a closing snapshot to count them by and a block that can *)
(* still promote them (_snapshot_incomplete_block, _resolve_partial_block).*)
THEOREM PartialsStayCounted == Spec => []PartialKeepsSnapshot
<1>1. Init => SnapshotInv
  <2>. SUFFICES ASSUME Init PROVE SnapshotInv
    OBVIOUS
  <2>1. Partial(account) = {}
    BY DEF Init, Partial
  <2>. QED
    BY <2>1, TypeInit DEF Init, SnapshotInv, PartialKeepsSnapshot, Balance, Net
<1>2. SnapshotInv /\ [Next]_vars => SnapshotInv'
  <2>. SUFFICES ASSUME SnapshotInv, [Next]_vars PROVE SnapshotInv'
    OBVIOUS
  <2>1. TypeOK'
    BY TypeNext DEF SnapshotInv
  <2>2. history' = history
    BY DEF Next, PersistStatement, ReconcileSecurity, WriteStatus, ReconcileFails, vars
  <2>3. \A d \in Days : Balance(d)' >= 0
    BY <2>2 DEF SnapshotInv, Balance, Net
  <2>4. ASSUME NEW r \in Requests, NEW s \in Statements, PersistStatement(r, s)
        PROVE  PartialKeepsSnapshot'
    <3>1. account \in Accounts /\ Covered(account)
      BY DEF SnapshotInv, TypeOK, Accounts, Flags, PartialKeepsSnapshot, Covered
    <3>2. PersistScheme(account, s) \in Accounts /\ Covered(PersistScheme(account, s))
      BY <3>1, PersistSchemeType, PersistSchemeCovers DEF SnapshotInv
    <3>3. Covered(account')
      BY <2>4, <3>2, UpgradeCovers DEF PersistStatement
    <3>. QED
      BY <3>3 DEF Covered, PartialKeepsSnapshot, Partial, Snapshots
  <2>5. ASSUME account' = account PROVE PartialKeepsSnapshot'
    BY <2>5 DEF SnapshotInv, PartialKeepsSnapshot, Partial, Snapshots
  <2>6. PartialKeepsSnapshot'
    BY <2>4, <2>5 DEF Next, ReconcileSecurity, WriteStatus, ReconcileFails, vars
  <2>. QED
    BY <2>1, <2>3, <2>6 DEF SnapshotInv
<1>3. SnapshotInv => PartialKeepsSnapshot
  BY DEF SnapshotInv
<1>. QED
  BY <1>1, <1>2, <1>3, PTL DEF Spec

-----------------------------------------------------------------------------
(* The step from the ledger to the stored status.                          *)
StatusInv ==
  /\ TypeOK /\ faults = 0
  /\ \A r \in Requests :
       /\ req[r].pc = "idle"  => integrity = Reconcile(account)
       /\ req[r].pc = "write" => req[r].result = Reconcile(account)

LEMMA SameLedgerSameStatus ==
  ASSUME history' = history, account' = account
  PROVE  Reconcile(account)' = Reconcile(account)
BY DEF Reconcile, Relevant, Complete, Partial, Snapshots, Latest, Net

(* reconcile_after_import: when statements are imported one at a time and  *)
(* no reconcile raises, a stored status describes the ledger it stands     *)
(* for.  Both conditions are needed: mf_cas_fail_closed drops the second.  *)
THEOREM StatusDescribesLedger ==
  ASSUME MaxFaults = 0, NEW only, Requests = {only}
  PROVE  Spec => []StaleIsNotTaxSafe
<1>1. Init => StatusInv
  <2>. SUFFICES ASSUME Init PROVE StatusInv
    OBVIOUS
  <2>1. Complete(account) = {} /\ Partial(account) = {} /\ Snapshots(account) = {}
    BY DEF Init, Complete, Partial, Snapshots, NoSnapshots
  <2>2. Reconcile(account) = "none"
    BY <2>1 DEF Reconcile, Relevant
  <2>. QED
    BY <2>2, TypeInit DEF Init, StatusInv
<1>2. StatusInv /\ [Next]_vars => StatusInv'
  <2>. SUFFICES ASSUME StatusInv, [Next]_vars PROVE StatusInv'
    OBVIOUS
  <2>0. TypeOK' /\ TypeOK
    BY TypeNext DEF StatusInv
  <2>1. ASSUME NEW r \in Requests, NEW s \in Statements, PersistStatement(r, s)
        PROVE  StatusInv'
    <3>1. req'[only].pc = "reconcile"
      BY <2>0, <2>1 DEF PersistStatement, TypeOK
    <3>. QED
      BY <2>0, <2>1, <3>1 DEF StatusInv, PersistStatement
  <2>2. ASSUME NEW r \in Requests, ReconcileSecurity(r) PROVE StatusInv'
    <3>1. Reconcile(account)' = Reconcile(account)
      BY <2>2, SameLedgerSameStatus DEF ReconcileSecurity
    <3>2. req'[only] = [pc |-> "write", result |-> Reconcile(account)]
      BY <2>0, <2>2 DEF ReconcileSecurity, TypeOK
    <3>. QED
      BY <2>0, <2>2, <3>1, <3>2 DEF StatusInv, ReconcileSecurity
  <2>3. ASSUME NEW r \in Requests, WriteStatus(r) PROVE StatusInv'
    <3>1. Reconcile(account)' = Reconcile(account)
      BY <2>3, SameLedgerSameStatus DEF WriteStatus
    <3>2. req'[only].pc = "idle" /\ integrity' = Reconcile(account)
      BY <2>0, <2>3 DEF WriteStatus, TypeOK, StatusInv
    <3>. QED
      BY <2>0, <2>3, <3>1, <3>2 DEF StatusInv, WriteStatus
  <2>4. ASSUME NEW r \in Requests, ReconcileFails(r) PROVE FALSE
    BY <2>4 DEF ReconcileFails, StatusInv
  <2>5. CASE UNCHANGED vars
    <3>1. Reconcile(account)' = Reconcile(account)
      BY <2>5, SameLedgerSameStatus DEF vars
    <3>. QED
      BY <2>0, <2>5, <3>1 DEF StatusInv, vars
  <2>. QED
    BY <2>1, <2>2, <2>3, <2>4, <2>5 DEF Next
<1>3. StatusInv => StaleIsNotTaxSafe
  BY DEF StatusInv, StaleIsNotTaxSafe, AtRest
<1>. QED
  BY <1>1, <1>2, <1>3, PTL DEF Spec
-----------------------------------------------------------------------------
(* Convergence.  The days that moved units are what a statement can bring; *)
(* what the ledger should hold is a range of them.                         *)
MovesIn(lo, hi) == {d \in Days : lo <= d /\ d <= hi /\ history[d] # 0}
OnFile(a) == Complete(a) \cup Partial(a)
Whole(s)  == s.lost \in From(s)..To(s) => history[s.lost] = 0

(* Sums over days are sums of integers over a finite set.                  *)
LEMMA NetType ==
  ASSUME history \in [Days -> Deltas], NEW S \in SUBSET Days
  PROVE  IsFiniteSet(S) /\ Net(S) \in Int
<1>1. IsFiniteSet(Days)
  BY ImportAssumption, FS_Interval DEF Days
<1>2. IsFiniteSet(S)
  BY <1>1, FS_Subset
<1>3. \A d \in S : history[d] \in Int
  BY ImportAssumption
<1>. QED
  BY <1>2, <1>3, SumType DEF Net, UnitsOf

(* Disjoint sets of days add up, and no days add nothing.                  *)
LEMMA NetUnion ==
  ASSUME history \in [Days -> Deltas], NEW S \in SUBSET Days, NEW R \in SUBSET Days,
         S \cap R = {}
  PROVE  Net(S \cup R) = Net(S) + Net(R)
<1>1. \A d \in S \cup R : history[d] \in Int
  BY ImportAssumption
<1>. QED
  BY <1>1, NetType, SumUnion DEF Net, UnitsOf

LEMMA NetEmpty == Net({}) = 0
BY SumEmpty DEF Net, UnitsOf

(* Between two days the balance changes by what the days with a move add.  *)
LEMMA BalanceChange ==
  ASSUME history \in [Days -> Deltas],
         NEW lo \in 1..(LastDay + 1), NEW hi \in 0..LastDay, lo <= hi + 1
  PROVE  /\ Balance(lo - 1) + Net(MovesIn(lo, hi)) = Balance(hi)
         /\ Balance(lo - 1) \in Int /\ Net(MovesIn(lo, hi)) \in Int
<1>. DEFINE still == {d \in Days : lo <= d /\ d <= hi /\ history[d] = 0}
<1>1. MovesIn(lo, hi) \in SUBSET Days /\ still \in SUBSET Days
      /\ 1..(lo - 1) \in SUBSET Days /\ lo..hi \in SUBSET Days
  BY ImportAssumption DEF MovesIn, Days
<1>2. Net(still) = 0
  BY <1>1, NetType, SumZero DEF Net, UnitsOf
<1>3. lo..hi = MovesIn(lo, hi) \cup still /\ MovesIn(lo, hi) \cap still = {}
  BY ImportAssumption DEF MovesIn, Days
<1>4. Net(lo..hi) = Net(MovesIn(lo, hi)) + Net(still)
  <2>. HIDE DEF still
  <2>. QED BY <1>1, <1>3, NetUnion
<1>5. 1..hi = (1..(lo - 1)) \cup (lo..hi) /\ (1..(lo - 1)) \cap (lo..hi) = {}
  BY ImportAssumption
<1>6. Net(1..hi) = Net(1..(lo - 1)) + Net(lo..hi)
  BY <1>1, <1>5, NetUnion
<1>7. Net(1..(lo - 1)) \in Int /\ Net(MovesIn(lo, hi)) \in Int
  BY <1>1, NetType
<1>. QED
  BY <1>2, <1>4, <1>6, <1>7 DEF Balance

(* A statement that lost no row adds up: only its opening can miss.        *)
LEMMA WholeStatement ==
  ASSUME history \in [Days -> Deltas], NEW s \in Statements, Whole(s)
  PROVE  /\ From(s) \in Days /\ To(s) \in Days /\ From(s) <= To(s)
         /\ Lines(s) = MovesIn(From(s), To(s))
         /\ \A prior : HistoryGap(s, prior) <=> Opening(s) # prior
<1>1. s.period \in Windows
  BY DEF Statements
<1>2. From(s) \in Days /\ To(s) \in Days /\ From(s) <= To(s)
  BY <1>1, ImportAssumption DEF From, To, Days
<1>3. Lines(s) = MovesIn(From(s), To(s))
  BY <1>2, ImportAssumption DEF Lines, MovesIn, Whole, Days
<1>4. /\ From(s) \in 1..(LastDay + 1) /\ To(s) \in 0..LastDay /\ From(s) <= To(s) + 1
  BY <1>2, ImportAssumption DEF Days
<1>5. Balance(From(s) - 1) + Net(MovesIn(From(s), To(s))) = Balance(To(s))
  BY <1>4, BalanceChange
<1>. QED
  BY <1>2, <1>3, <1>5 DEF HistoryGap, Opening, Closing

-----------------------------------------------------------------------------
(* The rows of one import.  A statement that chains adds complete rows; a  *)
(* gap adds partial rows and replaces the block.                           *)
NewRows(a, s) == Lines(s) \ OnFile(a)

LEMMA PersistedRows ==
  ASSUME NEW a \in Accounts, NEW s \in Statements
  PROVE  /\ ~HistoryGap(s, PriorBalance(a, From(s))) =>
              /\ Complete(PersistScheme(a, s)) = Complete(a) \cup NewRows(a, s)
              /\ Partial(PersistScheme(a, s)) = Partial(a)
              /\ PersistScheme(a, s).block = a.block
         /\ HistoryGap(s, PriorBalance(a, From(s))) =>
              /\ Complete(PersistScheme(a, s)) = Complete(a)
              /\ Partial(PersistScheme(a, s)) = Partial(a) \cup NewRows(a, s)
              /\ PersistScheme(a, s).block
                   = [opening |-> Opening(s), closing |-> Closing(s), from |-> From(s)]
<1>. DEFINE b == PersistScheme(a, s)
<1>1. a.rows \in [Days -> Flags]
  BY DEF Accounts
<1>2. Lines(s) \subseteq Days
  BY StatementDays, ImportAssumption DEF Lines, Days
<1>3. ASSUME NEW flag \in {"partial", "complete"}
      PROVE  \A d \in Days : AddRows(a.rows, Lines(s), flag)[d] =
                IF d \in NewRows(a, s) THEN flag ELSE a.rows[d]
  BY <1>1 DEF AddRows, NewRows, OnFile, Complete, Partial, Flags
<1>4. CASE ~HistoryGap(s, PriorBalance(a, From(s)))
  <2>1. b.rows = AddRows(a.rows, Lines(s), "complete") /\ b.block = a.block
    BY <1>4 DEF PersistScheme, Accounts
  <2>2. \A d \in Days : b.rows[d] = IF d \in NewRows(a, s) THEN "complete" ELSE a.rows[d]
    BY <1>3, <2>1
  <2>3. \A d \in NewRows(a, s) : d \in Days /\ d \notin Partial(a)
    BY <1>2 DEF NewRows, OnFile
  <2>4. Complete(b) = Complete(a) \cup NewRows(a, s) /\ Partial(b) = Partial(a)
    BY <2>2, <2>3 DEF Complete, Partial
  <2>. QED BY <1>4, <2>1, <2>4
<1>5. CASE HistoryGap(s, PriorBalance(a, From(s)))
  <2>1. /\ b.rows = AddRows(a.rows, Lines(s), "partial")
        /\ b.block = [opening |-> Opening(s), closing |-> Closing(s), from |-> From(s)]
    BY <1>5 DEF PersistScheme
  <2>2. \A d \in Days : b.rows[d] = IF d \in NewRows(a, s) THEN "partial" ELSE a.rows[d]
    BY <1>3, <2>1
  <2>3. \A d \in NewRows(a, s) : d \in Days /\ d \notin Complete(a)
    BY <1>2 DEF NewRows, OnFile
  <2>4. Partial(b) = Partial(a) \cup NewRows(a, s) /\ Complete(b) = Complete(a)
    BY <2>2, <2>3 DEF Complete, Partial
  <2>. QED BY <1>5, <2>1, <2>4
<1>. QED BY <1>4, <1>5

(* The upgrade pass promotes all partial rows, when their block chains, or *)
(* none.                                                                   *)
LEMMA UpgradedRows ==
  ASSUME NEW b \in Accounts, Partial(b) # {} => b.block # NoBlock
  PROVE  /\ BlockChains(b) /\ Partial(b) # {} =>
              /\ Complete(UpgradeChainedPartials(b)) = OnFile(b)
              /\ Partial(UpgradeChainedPartials(b)) = {}
         /\ ~BlockChains(b) \/ Partial(b) = {} =>
              /\ Complete(UpgradeChainedPartials(b)) = Complete(b)
              /\ Partial(UpgradeChainedPartials(b)) = Partial(b)
              /\ Partial(b) # {} => UpgradeChainedPartials(b).block = b.block
<1>. DEFINE c == UpgradeChainedPartials(b)
<1>1. b.rows \in [Days -> Flags]
  BY DEF Accounts
<1>2. CASE BlockChains(b) /\ Partial(b) # {}
  <2>1. c.rows = [d \in Days |-> IF b.rows[d] = "partial" THEN "complete" ELSE b.rows[d]]
    BY <1>2 DEF UpgradeChainedPartials
  <2>2. \A d \in Days : c.rows[d] = IF b.rows[d] = "partial" THEN "complete" ELSE b.rows[d]
    BY <2>1
  <2>. QED BY <1>2, <2>2 DEF Complete, Partial, OnFile
<1>3. CASE ~BlockChains(b) \/ Partial(b) = {}
  <2>1. c.rows = b.rows /\ (Partial(b) # {} => c.block = b.block)
    BY <1>3 DEF UpgradeChainedPartials, Accounts
  <2>. QED BY <1>2, <1>3, <2>1 DEF Complete, Partial
<1>. QED BY <1>2, <1>3

(* A ledger that holds every move before a day, and nothing else before    *)
(* it, has the balance of that day.                                        *)
LEMMA PriorOfWhole ==
  ASSUME history \in [Days -> Deltas], NEW a \in Accounts,
         Complete(a) \subseteq MovesIn(1, LastDay), NEW day \in 1..(LastDay + 1),
         MovesIn(1, day - 1) \subseteq Complete(a)
  PROVE  PriorBalance(a, day) = Balance(day - 1)
<1>1. {d \in Complete(a) : d < day} = MovesIn(1, day - 1)
  BY ImportAssumption DEF MovesIn, Days
<1>2. 1 \in 1..(LastDay + 1) /\ day - 1 \in 0..LastDay /\ 1 <= (day - 1) + 1
  BY ImportAssumption
<1>3. /\ Balance(1 - 1) + Net(MovesIn(1, day - 1)) = Balance(day - 1)
      /\ Net(MovesIn(1, day - 1)) \in Int
  BY <1>2, BalanceChange
<1>4. Balance(1 - 1) = 0
  <2>1. 1..(1 - 1) = {}
    OBVIOUS
  <2>. QED BY <2>1, NetEmpty DEF Balance
<1>. QED BY <1>1, <1>3, <1>4 DEF PriorBalance

(* A statement that starts at inception and lost no row always chains.     *)
LEMMA InceptionChains ==
  ASSUME history \in [Days -> Deltas], NEW a \in Accounts,
         NEW s \in Statements, Whole(s), From(s) = 1
  PROVE  ~HistoryGap(s, PriorBalance(a, From(s)))
<1>1. {d \in Complete(a) : d < 1} = {}
  BY DEF Complete, Days
<1>2. PriorBalance(a, From(s)) = 0
  BY <1>1, NetEmpty DEF PriorBalance
<1>3. 1..(1 - 1) = {}
  OBVIOUS
<1>4. Opening(s) = 0
  BY <1>3, NetEmpty DEF Opening, Balance
<1>. QED BY <1>2, <1>4, WholeStatement

-----------------------------------------------------------------------------
(* At most one of the uploaded periods starts later than at inception.     *)
OneOff(first, last) ==
  /\ first \in 2..(LastDay + 1) /\ last \in 0..LastDay
  /\ \A w \in Windows : w[1] = 1 \/ w = <<first, last>>

(* Then the partial rows are exactly that period's, under its block; once  *)
(* some of it is complete, all of it is on file or all before it is        *)
(* complete.                                                               *)
Shape(first, last, a) ==
  /\ OnFile(a) \subseteq MovesIn(1, LastDay)
  /\ Partial(a) # {} =>
       /\ Partial(a) = MovesIn(first, last)
       /\ a.block = [opening |-> Balance(first - 1), closing |-> Balance(last),
                     from |-> first]
  /\ Complete(a) \cap (first..last) # {} =>
       MovesIn(first, last) \subseteq OnFile(a) \/ MovesIn(1, first - 1) \subseteq Complete(a)

(* Rows stay partial only while something before them is missing.          *)
Waiting(first, a) ==
  Partial(a) # {} => ~(MovesIn(1, first - 1) \subseteq Complete(a))

LEMMA StatementKinds ==
  ASSUME NEW first, NEW last, OneOff(first, last), NEW s \in Statements
  PROVE  From(s) = 1 \/ (From(s) = first /\ To(s) = last)
BY DEF OneOff, Statements, From, To

(* Storing a statement keeps the shape.                                    *)
LEMMA PersistShape ==
  ASSUME history \in [Days -> Deltas], NEW first, NEW last, OneOff(first, last),
         NEW a \in Accounts, Shape(first, last, a), NEW s \in Statements, Whole(s)
  PROVE  /\ Shape(first, last, PersistScheme(a, s))
         /\ OnFile(PersistScheme(a, s)) = OnFile(a) \cup Lines(s)
         /\ Complete(a) \subseteq Complete(PersistScheme(a, s))
<1>. DEFINE b == PersistScheme(a, s)
<1>1. /\ From(s) \in Days /\ To(s) \in Days
      /\ Lines(s) = MovesIn(From(s), To(s))
  BY WholeStatement
<1>2. NewRows(a, s) \subseteq MovesIn(From(s), To(s))
      /\ MovesIn(From(s), To(s)) \subseteq MovesIn(1, LastDay)
  BY <1>1, ImportAssumption DEF NewRows, MovesIn, Days
<1>3. OnFile(b) = OnFile(a) \cup Lines(s) /\ Complete(a) \subseteq Complete(b)
  <2>1. \/ Complete(b) = Complete(a) \cup NewRows(a, s) /\ Partial(b) = Partial(a)
        \/ Complete(b) = Complete(a) /\ Partial(b) = Partial(a) \cup NewRows(a, s)
    BY PersistedRows
  <2>. HIDE DEF b
  <2>. QED BY <2>1 DEF OnFile, NewRows
<1>4. OnFile(b) \subseteq MovesIn(1, LastDay)
  BY <1>1, <1>2, <1>3 DEF Shape
<1>5. first \in 2..(LastDay + 1) /\ last \in 0..LastDay /\ LastDay \in Nat
  BY ImportAssumption DEF OneOff
<1>6. Complete(a) \cap Partial(a) = {}
  BY DEF Complete, Partial
<1>7. CASE From(s) = 1
  <2>1. /\ Complete(b) = Complete(a) \cup NewRows(a, s)
        /\ Partial(b) = Partial(a) /\ b.block = a.block
    BY <1>7, InceptionChains, PersistedRows
  <2>2. ASSUME Complete(b) \cap (first..last) # {}
        PROVE  MovesIn(first, last) \subseteq OnFile(b)
               \/ MovesIn(1, first - 1) \subseteq Complete(b)
    <3>1. CASE Partial(a) # {}
      BY <2>1, <3>1 DEF Shape, OnFile
    <3>2. CASE Partial(a) = {} /\ To(s) >= first - 1
      <4>1. MovesIn(1, first - 1) \subseteq Lines(s)
        BY <1>1, <1>5, <1>7, <3>2 DEF MovesIn, Days
      <4>2. Complete(b) = OnFile(b)
        BY <2>1, <3>2 DEF OnFile
      <4>. QED BY <4>1, <4>2, <1>3
    <3>3. CASE To(s) < first - 1
      <4>1. NewRows(a, s) \cap (first..last) = {}
        BY <1>1, <1>2, <1>5, <3>3 DEF MovesIn, Days
      <4>2. Complete(a) \cap (first..last) # {}
        BY <2>1, <2>2, <4>1
      <4>. QED BY <1>3, <4>2 DEF Shape
    <3>. QED BY <1>1, <1>5, <3>1, <3>2, <3>3 DEF Days
  <2>. QED BY <1>3, <1>4, <2>1, <2>2 DEF Shape
<1>8. CASE From(s) = first /\ To(s) = last
  <2>1. MovesIn(first, last) \subseteq OnFile(b)
    BY <1>1, <1>3, <1>8
  <2>2. CASE ~HistoryGap(s, PriorBalance(a, From(s)))
    <3>1. Partial(b) = Partial(a) /\ b.block = a.block
      BY <2>2, PersistedRows
    <3>. QED BY <1>3, <1>4, <2>1, <3>1 DEF Shape
  <2>3. CASE HistoryGap(s, PriorBalance(a, From(s)))
    <3>1. /\ Complete(b) = Complete(a) /\ Partial(b) = Partial(a) \cup NewRows(a, s)
          /\ b.block = [opening |-> Opening(s), closing |-> Closing(s), from |-> From(s)]
      BY <2>3, PersistedRows
    <3>2. Opening(s) # PriorBalance(a, first)
      BY <1>8, <2>3, WholeStatement
    <3>3. Opening(s) = Balance(first - 1) /\ Closing(s) = Balance(last)
      BY <1>8 DEF Opening, Closing
    <3>4. ~(MovesIn(1, first - 1) \subseteq Complete(a))
      <4>1. Complete(a) \subseteq MovesIn(1, LastDay)
        BY DEF Shape, OnFile
      <4>2. first \in 1..(LastDay + 1)
        BY <1>5
      <4>. QED BY <3>2, <3>3, <4>1, <4>2, PriorOfWhole
    <3>5. ASSUME Partial(b) # {} PROVE Partial(b) = MovesIn(first, last)
      <4>1. CASE Complete(a) \cap (first..last) # {}
        <5>1. MovesIn(first, last) \subseteq OnFile(a)
          BY <4>1, <3>4 DEF Shape
        <5>2. NewRows(a, s) = {}
          BY <5>1, <1>1, <1>8 DEF NewRows
        <5>. QED BY <3>1, <3>5, <5>2 DEF Shape
      <4>2. CASE Complete(a) \cap (first..last) = {}
        <5>1. MovesIn(first, last) \subseteq first..last
          BY <1>5 DEF MovesIn, Days
        <5>2. NewRows(a, s) = MovesIn(first, last) \ Partial(a)
          BY <5>1, <4>2, <1>1, <1>8 DEF NewRows, OnFile
        <5>. QED BY <3>1, <3>5, <5>2 DEF Shape
      <4>. QED BY <4>1, <4>2
    <3>. QED BY <1>3, <1>4, <1>8, <2>1, <3>1, <3>3, <3>5 DEF Shape
  <2>. QED BY <2>2, <2>3
<1>. QED BY <1>7, <1>8, StatementKinds

(* Re-evaluating the partial rows keeps it too, and leaves none that could *)
(* have been promoted.                                                     *)
LEMMA UpgradeShape ==
  ASSUME history \in [Days -> Deltas], NEW first, NEW last, OneOff(first, last),
         NEW b \in Accounts, Shape(first, last, b)
  PROVE  /\ Shape(first, last, UpgradeChainedPartials(b))
         /\ Waiting(first, UpgradeChainedPartials(b))
         /\ OnFile(UpgradeChainedPartials(b)) = OnFile(b)
         /\ Complete(b) \subseteq Complete(UpgradeChainedPartials(b))
<1>. DEFINE c == UpgradeChainedPartials(b)
<1>1. first \in 2..(LastDay + 1) /\ last \in 0..LastDay /\ LastDay \in Nat
  BY ImportAssumption DEF OneOff
<1>2. Partial(b) # {} => b.block # NoBlock
  BY <1>1 DEF Shape, NoBlock
<1>3. CASE BlockChains(b) /\ Partial(b) # {}
  <2>1. Complete(c) = OnFile(b) /\ Partial(c) = {}
    BY <1>2, <1>3, UpgradedRows
  <2>2. MovesIn(first, last) \subseteq OnFile(b)
    BY <1>3 DEF Shape, OnFile
  <2>3. OnFile(c) = OnFile(b) /\ Complete(b) \subseteq Complete(c)
    BY <2>1 DEF OnFile
  <2>. QED BY <2>1, <2>2, <2>3 DEF Shape, Waiting
<1>4. CASE ~BlockChains(b) \/ Partial(b) = {}
  <2>1. /\ Complete(c) = Complete(b) /\ Partial(c) = Partial(b)
        /\ Partial(b) # {} => c.block = b.block
    BY <1>2, <1>4, UpgradedRows
  <2>2. OnFile(c) = OnFile(b)
    BY <2>1 DEF OnFile
  <2>3. Shape(first, last, c)
    BY <2>1, <2>2 DEF Shape
  <2>4. ASSUME Partial(b) # {}, MovesIn(1, first - 1) \subseteq Complete(b) PROVE FALSE
    <3>1. first \in 1..(LastDay + 1) /\ first <= last + 1
      BY <1>1, <2>4 DEF Shape, MovesIn, Days
    <3>2. Complete(b) \subseteq MovesIn(1, LastDay)
      BY DEF Shape, OnFile
    <3>3. PriorBalance(b, first) = Balance(first - 1)
      BY <2>4, <3>1, <3>2, PriorOfWhole
    <3>4. Balance(first - 1) + Net(MovesIn(first, last)) = Balance(last)
      BY <1>1, <3>1, BalanceChange
    <3>5. BlockChains(b)
      BY <2>4, <3>3, <3>4 DEF BlockChains, Shape
    <3>. QED BY <1>4, <2>4, <3>5
  <2>. QED BY <2>1, <2>2, <2>3, <2>4 DEF Waiting
<1>. QED BY <1>3, <1>4

ConvergeInv(first, last) ==
  /\ TypeOK
  /\ lossless =>
       /\ Shape(first, last, account) /\ Waiting(first, account)
       /\ \A w \in uploads : w[1] = 1 => MovesIn(1, w[2]) \subseteq OnFile(account)

(* What does not depend on the step: the true history never changes.       *)
LEMMA SameHistory ==
  ASSUME history' = history
  PROVE  /\ \A lo, hi : MovesIn(lo, hi)' = MovesIn(lo, hi)
         /\ \A d : Balance(d)' = Balance(d)
BY DEF MovesIn, Balance, Net

LEMMA ConvergeNext ==
  ASSUME NEW first, NEW last, OneOff(first, last), ConvergeInv(first, last), [Next]_vars
  PROVE  ConvergeInv(first, last)'
<1>1. TypeOK'
  BY TypeNext DEF ConvergeInv
<1>2. history' = history /\ history \in [Days -> Deltas] /\ account \in Accounts
  BY DEF ConvergeInv, TypeOK, Accounts, Flags, Next, PersistStatement, ReconcileSecurity,
         WriteStatus, ReconcileFails, vars
<1>3. /\ \A lo, hi : MovesIn(lo, hi)' = MovesIn(lo, hi)
      /\ \A d : Balance(d)' = Balance(d)
  BY <1>2, SameHistory
<1>4. SUFFICES ASSUME lossless'
      PROVE  /\ Shape(first, last, account') /\ Waiting(first, account')
             /\ \A w \in uploads' : w[1] = 1 => MovesIn(1, w[2]) \subseteq OnFile(account')
  BY <1>1, <1>3 DEF ConvergeInv, Shape, Waiting, OnFile, Complete, Partial
<1>5. ASSUME NEW r \in Requests, NEW s \in Statements, PersistStatement(r, s)
      PROVE  /\ Shape(first, last, account') /\ Waiting(first, account')
             /\ \A w \in uploads' : w[1] = 1 => MovesIn(1, w[2]) \subseteq OnFile(account')
  <2>. DEFINE b == PersistScheme(account, s)
  <2>1. lossless /\ Whole(s) /\ uploads' = uploads \cup {s.period}
    BY <1>4, <1>5 DEF PersistStatement, Whole
  <2>2. Shape(first, last, account)
    BY <2>1 DEF ConvergeInv
  <2>3. b \in Accounts /\ Shape(first, last, b) /\ OnFile(b) = OnFile(account) \cup Lines(s)
    BY <1>2, <2>1, <2>2, PersistSchemeType, PersistShape
  <2>4. account' = UpgradeChainedPartials(b)
    BY <1>5 DEF PersistStatement
  <2>5. /\ Shape(first, last, account') /\ Waiting(first, account')
        /\ OnFile(account') = OnFile(account) \cup Lines(s)
    <3>. HIDE DEF b
    <3>. QED BY <1>2, <2>3, <2>4, UpgradeShape
  <2>6. Lines(s) = MovesIn(s.period[1], s.period[2])
    BY <1>2, <2>1, WholeStatement DEF From, To
  <2>. QED BY <2>1, <2>5, <2>6 DEF ConvergeInv
<1>6. CASE UNCHANGED <<account, uploads, lossless>>
  BY <1>4, <1>6 DEF ConvergeInv
<1>. QED BY <1>5, <1>6 DEF Next, ReconcileSecurity, WriteStatus, ReconcileFails, vars

LEMMA ConvergeInit ==
  ASSUME NEW first, NEW last, Init
  PROVE  ConvergeInv(first, last)
<1>1. Complete(account) = {} /\ Partial(account) = {} /\ uploads = {}
  BY DEF Init, Complete, Partial
<1>. QED BY <1>1, TypeInit DEF ConvergeInv, Shape, Waiting, OnFile

(* Whatever the order of the uploads, a day whose whole past has been      *)
(* uploaded has cost basis (_resolve_partial_block,                        *)
(* upgrade_chained_partials), when at most one period starts later than at *)
(* inception: the pass keeps one block for the pair.                       *)
THEOREM ConvergesInAnyOrder ==
  ASSUME NEW first, NEW last, OneOff(first, last)
  PROVE  Spec => []AnyOrderConverges
<1>1. Init => ConvergeInv(first, last)
  BY ConvergeInit
<1>2. ConvergeInv(first, last) /\ [Next]_vars => ConvergeInv(first, last)'
  BY ConvergeNext
<1>3. ConvergeInv(first, last) => AnyOrderConverges
  <2>. SUFFICES ASSUME ConvergeInv(first, last), lossless,
                       NEW d \in Days, Reached(d), account.rows[d] = "partial"
                PROVE  FALSE
    BY DEF AnyOrderConverges
  <2>1. /\ first \in 2..(LastDay + 1) /\ last \in 0..LastDay /\ LastDay \in Nat
        /\ uploads \subseteq Windows
    BY ImportAssumption DEF OneOff, ConvergeInv, TypeOK
  <2>2. d \in Partial(account) /\ Partial(account) = MovesIn(first, last)
    BY DEF ConvergeInv, Shape, Partial
  <2>3. first - 1 \in 1..d
    BY <2>1, <2>2 DEF MovesIn, Days
  <2>4. PICK w \in uploads : w[1] <= first - 1 /\ first - 1 <= w[2]
    BY <2>3 DEF Reached
  <2>5. w[1] = 1
    BY <2>1, <2>4 DEF OneOff
  <2>6. MovesIn(1, w[2]) \subseteq OnFile(account)
    BY <2>4, <2>5 DEF ConvergeInv
  <2>7. w[2] \in Int
    BY <2>1, <2>4, ImportAssumption
  <2>8. MovesIn(1, first - 1) \subseteq Complete(account)
    <3>1. MovesIn(1, first - 1) \subseteq MovesIn(1, w[2])
      BY <2>1, <2>4, <2>7 DEF MovesIn, Days
    <3>2. MovesIn(1, first - 1) \cap Partial(account) = {}
      BY <2>1, <2>2 DEF MovesIn, Days
    <3>. QED BY <2>6, <3>1, <3>2 DEF OnFile
  <2>. QED BY <2>2, <2>8 DEF ConvergeInv, Waiting
<1>. QED BY <1>1, <1>2, <1>3, PTL DEF Spec

-----------------------------------------------------------------------------
(* The cost basis.  Every statement from inception reaches the one period  *)
(* that starts later.                                                      *)
Reaching(first) == \A w \in Windows : w[1] = 1 => w[2] >= first - 1

(* Then the complete rows are every move from inception, or from that      *)
(* period's start when the fund was empty before it, with no hole.         *)
Seamless(first, a) ==
  /\ \A d \in Complete(a) : \E start \in {1, first} :
       Balance(start - 1) = 0 /\ {e \in Complete(a) : e <= d} = MovesIn(start, d)
  /\ Complete(a) \cap (1..(first - 1)) # {} => MovesIn(1, first - 1) \subseteq Complete(a)

LEMMA NothingBefore == Balance(1 - 1) = 0
<1>1. 1..(1 - 1) = {}
  OBVIOUS
<1>. QED BY <1>1, NetEmpty DEF Balance

(* A statement from inception fills every hole before its end.             *)
LEMMA SeamlessFromInception ==
  ASSUME NEW first, NEW last, OneOff(first, last), NEW a \in Accounts,
         Shape(first, last, a), Seamless(first, a), NEW c \in Accounts,
         OnFile(c) \subseteq MovesIn(1, LastDay),
         NEW to \in Days, first - 1 <= to, Complete(c) = OnFile(a) \cup MovesIn(1, to)
  PROVE  Seamless(first, c)
<1>1. first \in 2..(LastDay + 1) /\ last \in 0..LastDay /\ LastDay \in Nat /\ Days = 1..LastDay
  BY ImportAssumption DEF OneOff, Days
<1>2. MovesIn(1, first - 1) \subseteq Complete(c)
  BY <1>1 DEF MovesIn
<1>3. ASSUME NEW d \in Complete(c)
      PROVE  {e \in Complete(c) : e <= d} = MovesIn(1, d)
  <2>1. d \in Days /\ {e \in Complete(c) : e <= d} \subseteq MovesIn(1, d)
    BY <1>1 DEF OnFile, MovesIn
  <2>2. CASE d <= to
    <3>1. MovesIn(1, d) \subseteq MovesIn(1, to)
      BY <1>1, <2>1, <2>2 DEF MovesIn
    <3>2. \A e \in MovesIn(1, d) : e <= d
      BY DEF MovesIn
    <3>. QED BY <2>1, <3>1, <3>2
  <2>3. CASE d \in Partial(a)
    <3>1. MovesIn(first, last) \subseteq OnFile(a) /\ d <= last
      BY <2>3 DEF Shape, OnFile, MovesIn
    <3>2. MovesIn(1, d) \subseteq MovesIn(1, first - 1) \cup MovesIn(first, last)
      BY <1>1, <2>1, <3>1 DEF MovesIn
    <3>3. \A e \in MovesIn(1, d) : e <= d
      BY DEF MovesIn
    <3>. QED BY <1>2, <2>1, <3>1, <3>2, <3>3
  <2>4. CASE d \in Complete(a)
    <3>1. PICK start \in {1, first} : {e \in Complete(a) : e <= d} = MovesIn(start, d)
      BY <2>4 DEF Seamless
    <3>2. MovesIn(1, d) \subseteq MovesIn(1, first - 1) \cup MovesIn(start, d)
      BY <1>1, <2>1, <3>1 DEF MovesIn
    <3>3. MovesIn(start, d) \subseteq Complete(c)
      BY <3>1 DEF OnFile
    <3>4. \A e \in MovesIn(1, d) : e <= d
      BY DEF MovesIn
    <3>. QED BY <1>2, <2>1, <3>2, <3>3, <3>4
  <2>5. CASE d \in MovesIn(1, to)
    BY <2>2, <2>5 DEF MovesIn
  <2>. QED BY <2>3, <2>4, <2>5 DEF OnFile
<1>. QED BY <1>2, <1>3, NothingBefore DEF Seamless

(* The later period chains only onto everything before it, or onto nothing *)
(* when the fund was empty.                                                *)
LEMMA SeamlessSuffix ==
  ASSUME history \in [Days -> Deltas], NEW first, NEW last, OneOff(first, last),
         NEW a \in Accounts, Shape(first, last, a), Seamless(first, a),
         PriorBalance(a, first) = Balance(first - 1), NEW c \in Accounts,
         OnFile(c) \subseteq MovesIn(1, LastDay),
         Complete(c) = Complete(a) \cup MovesIn(first, last)
  PROVE  Seamless(first, c)
<1>1. first \in 2..(LastDay + 1) /\ last \in 0..LastDay /\ LastDay \in Nat /\ Days = 1..LastDay
  BY ImportAssumption DEF OneOff, Days
<1>2. ASSUME Complete(c) \cap (1..(first - 1)) # {}
      PROVE  MovesIn(1, first - 1) \subseteq Complete(a)
  <2>1. Complete(a) \cap (1..(first - 1)) # {}
    BY <1>1, <1>2 DEF MovesIn
  <2>. QED BY <2>1 DEF Seamless
<1>3. ASSUME NEW d \in Complete(c)
      PROVE  \E start \in {1, first} :
               Balance(start - 1) = 0 /\ {e \in Complete(c) : e <= d} = MovesIn(start, d)
  <2>1. d \in MovesIn(1, LastDay) /\ d \in Days
        /\ {e \in Complete(c) : e <= d} \subseteq MovesIn(1, d)
    BY <1>1 DEF OnFile, MovesIn
  <2>2. MovesIn(first, d) \subseteq Complete(c)
    <3>1. CASE d \in MovesIn(first, last)
      BY <1>1, <2>1, <3>1 DEF MovesIn
    <3>2. CASE d \in Complete(a)
      <4>1. PICK start \in {1, first} : {e \in Complete(a) : e <= d} = MovesIn(start, d)
        BY <3>2 DEF Seamless
      <4>2. MovesIn(first, d) \subseteq MovesIn(start, d)
        BY <1>1, <4>1 DEF MovesIn
      <4>. QED BY <4>1, <4>2
    <3>. QED BY <3>1, <3>2
  <2>3. CASE Complete(c) \cap (1..(first - 1)) # {}
    <3>1. MovesIn(1, d) \subseteq Complete(c)
      BY <1>1, <1>2, <2>1, <2>2, <2>3 DEF MovesIn
    <3>2. \A e \in MovesIn(1, d) : e <= d
      BY DEF MovesIn
    <3>3. {e \in Complete(c) : e <= d} = MovesIn(1, d)
      BY <2>1, <3>1, <3>2
    <3>. QED BY <3>3, NothingBefore
  <2>4. CASE Complete(c) \cap (1..(first - 1)) = {}
    <3>1. {e \in Complete(a) : e < first} = {}
      BY <1>1, <2>4 DEF Complete
    <3>2. Balance(first - 1) = 0
      BY <3>1, NetEmpty DEF PriorBalance
    <3>3. \A e \in Complete(c) : e \in Days /\ history[e] # 0 /\ first <= e
      BY <1>1, <2>4 DEF OnFile, MovesIn
    <3>4. \A e \in MovesIn(first, d) : e <= d
      BY DEF MovesIn
    <3>5. {e \in Complete(c) : e <= d} = MovesIn(first, d)
      BY <2>2, <3>3, <3>4 DEF MovesIn
    <3>. QED BY <3>2, <3>5
  <2>. QED BY <2>3, <2>4
<1>. QED BY <1>2, <1>3 DEF Seamless

LEMMA ImportSeamless ==
  ASSUME history \in [Days -> Deltas], NEW first, NEW last, OneOff(first, last),
         Reaching(first), NEW a \in Accounts, Shape(first, last, a), Seamless(first, a),
         NEW s \in Statements, Whole(s)
  PROVE  Seamless(first, UpgradeChainedPartials(PersistScheme(a, s)))
<1>. DEFINE b == PersistScheme(a, s)
            c == UpgradeChainedPartials(b)
<1>1. /\ From(s) \in Days /\ To(s) \in Days /\ s.period \in Windows
      /\ Lines(s) = MovesIn(From(s), To(s))
  BY WholeStatement DEF Statements
<1>2. /\ b \in Accounts /\ Shape(first, last, b)
      /\ OnFile(b) = OnFile(a) \cup Lines(s)
  BY PersistSchemeType, PersistShape
<1>3. /\ c \in Accounts /\ OnFile(c) \subseteq MovesIn(1, LastDay) /\ Waiting(first, c)
      /\ OnFile(c) = OnFile(b) /\ Complete(b) \subseteq Complete(c)
  <2>. HIDE DEF b
  <2>1. Shape(first, last, c) /\ Waiting(first, c)
        /\ OnFile(c) = OnFile(b) /\ Complete(b) \subseteq Complete(c)
    BY <1>2, UpgradeShape
  <2>. QED BY <1>2, <2>1, UpgradeType DEF Shape
<1>4. first \in 2..(LastDay + 1) /\ last \in 0..LastDay /\ LastDay \in Nat /\ Days = 1..LastDay
  BY ImportAssumption DEF OneOff, Days
<1>5. CASE From(s) = 1
  <2>. HIDE DEF b, c
  <2>1. first - 1 <= To(s)
    BY <1>1, <1>5 DEF Reaching, From, To
  <2>2. MovesIn(1, first - 1) \subseteq OnFile(b)
    BY <1>1, <1>2, <1>4, <1>5, <2>1 DEF MovesIn
  <2>3. MovesIn(1, first - 1) \cap Partial(b) = {}
    BY <1>2, <1>4 DEF Shape, MovesIn
  <2>4. Partial(c) = {}
    BY <1>3, <2>2, <2>3 DEF Waiting, OnFile
  <2>5. Complete(c) = OnFile(a) \cup MovesIn(1, To(s))
    BY <1>1, <1>2, <1>3, <1>5, <2>4 DEF OnFile
  <2>6. Seamless(first, c)
    BY <1>1, <1>3, <2>1, <2>5, SeamlessFromInception
  <2>. QED BY <2>6 DEF b, c
<1>6. CASE From(s) = first /\ To(s) = last
  <2>1. Opening(s) = Balance(first - 1)
    BY <1>6 DEF Opening
  <2>2. ASSUME Complete(c) = Complete(a) PROVE Seamless(first, c)
    BY <2>2 DEF Seamless
  <2>3. CASE ~HistoryGap(s, PriorBalance(a, From(s)))
    <3>1. PriorBalance(a, first) = Balance(first - 1)
      BY <1>6, <2>1, <2>3, WholeStatement
    <3>2. Complete(b) = Complete(a) \cup NewRows(a, s) /\ Partial(b) = Partial(a)
      BY <2>3, PersistedRows
    <3>3. Complete(c) = Complete(a) \/ Complete(c) = Complete(a) \cup MovesIn(first, last)
      <4>1. Complete(c) = Complete(b) \/ Complete(c) = OnFile(b)
        <5>1. Partial(b) # {} => b.block # NoBlock
          BY <1>2, <1>4 DEF Shape, NoBlock
        <5>. HIDE DEF b
        <5>. QED BY <1>2, <5>1, UpgradedRows
      <4>. HIDE DEF b, c
      <4>2. CASE Partial(a) = {}
        BY <1>1, <1>2, <1>6, <3>2, <4>1, <4>2 DEF NewRows, OnFile
      <4>3. CASE Partial(a) # {}
        <5>1. Partial(a) = MovesIn(first, last)
          BY <4>3 DEF Shape
        <5>2. NewRows(a, s) = {}
          BY <1>1, <1>6, <5>1 DEF NewRows, OnFile
        <5>. QED BY <3>2, <4>1, <5>1, <5>2 DEF OnFile
      <4>. QED BY <4>2, <4>3
    <3>. HIDE DEF b, c
    <3>4. ASSUME Complete(c) = Complete(a) \cup MovesIn(first, last)
          PROVE  Seamless(first, c)
      BY <1>3, <3>1, <3>4, SeamlessSuffix
    <3>5. Seamless(first, c)
      BY <2>2, <3>3, <3>4
    <3>. QED BY <3>5 DEF b, c
  <2>4. CASE HistoryGap(s, PriorBalance(a, From(s)))
    <3>1. /\ Complete(b) = Complete(a)
          /\ b.block = [opening |-> Opening(s), closing |-> Closing(s), from |-> From(s)]
      BY <2>4, PersistedRows
    <3>2. Opening(s) # PriorBalance(a, From(s))
      BY <2>4, WholeStatement
    <3>3. PriorBalance(b, From(s)) = PriorBalance(a, From(s))
      BY <3>1 DEF PriorBalance
    <3>4. ~BlockChains(b)
      BY <3>1, <3>2, <3>3 DEF BlockChains
    <3>5. Partial(b) # {} => b.block # NoBlock
      BY <1>2, <1>4 DEF Shape, NoBlock
    <3>6. Complete(c) = Complete(b)
      <4>. HIDE DEF b
      <4>. QED BY <1>2, <3>4, <3>5, UpgradedRows
    <3>. QED BY <2>2, <3>1, <3>6
  <2>. QED BY <2>3, <2>4
<1>. QED BY <1>5, <1>6, StatementKinds

CostInv(first, last) ==
  ConvergeInv(first, last) /\ (lossless => Seamless(first, account))

LEMMA CostNext ==
  ASSUME NEW first, NEW last, OneOff(first, last), Reaching(first),
         CostInv(first, last), [Next]_vars
  PROVE  CostInv(first, last)'
<1>1. ConvergeInv(first, last)'
  BY ConvergeNext DEF CostInv
<1>2. history' = history /\ history \in [Days -> Deltas] /\ account \in Accounts
  BY DEF CostInv, ConvergeInv, TypeOK, Accounts, Flags, Next, PersistStatement,
         ReconcileSecurity, WriteStatus, ReconcileFails, vars
<1>3. /\ \A lo, hi : MovesIn(lo, hi)' = MovesIn(lo, hi)
      /\ \A d : Balance(d)' = Balance(d)
  BY <1>2, SameHistory
<1>4. SUFFICES ASSUME lossless' PROVE Seamless(first, account')
  BY <1>1, <1>3 DEF CostInv, Seamless, Complete
<1>5. ASSUME NEW r \in Requests, NEW s \in Statements, PersistStatement(r, s)
      PROVE  Seamless(first, account')
  <2>1. lossless /\ Whole(s)
    BY <1>4, <1>5 DEF PersistStatement, Whole
  <2>2. Shape(first, last, account) /\ Seamless(first, account)
    BY <2>1 DEF CostInv, ConvergeInv
  <2>3. account' = UpgradeChainedPartials(PersistScheme(account, s))
    BY <1>5 DEF PersistStatement
  <2>. QED BY <1>2, <2>1, <2>2, <2>3, ImportSeamless
<1>6. CASE UNCHANGED <<account, uploads, lossless>>
  BY <1>4, <1>6 DEF CostInv
<1>. QED BY <1>5, <1>6 DEF Next, ReconcileSecurity, WriteStatus, ReconcileFails, vars

(* No row with cost basis ever misstates the fund: up to each of them the  *)
(* complete ledger sums to the true balance (_persist_block,               *)
(* upgrade_chained_partials), when at most one period starts later than at *)
(* inception and every statement from inception reaches it.                *)
THEOREM CostBasisSumsTrue ==
  ASSUME NEW first, NEW last, OneOff(first, last), Reaching(first)
  PROVE  Spec => []CostBasisIsTrue
<1>1. Init => CostInv(first, last)
  <2>. SUFFICES ASSUME Init PROVE CostInv(first, last)
    OBVIOUS
  <2>1. Complete(account) = {}
    BY DEF Init, Complete
  <2>. QED BY <2>1, ConvergeInit DEF CostInv, Seamless
<1>2. CostInv(first, last) /\ [Next]_vars => CostInv(first, last)'
  BY CostNext
<1>3. CostInv(first, last) => CostBasisIsTrue
  <2>. SUFFICES ASSUME CostInv(first, last), lossless, NEW d \in Complete(account)
                PROVE  Net({e \in Complete(account) : e <= d}) = Balance(d)
    BY DEF CostBasisIsTrue
  <2>1. history \in [Days -> Deltas] /\ d \in Days
    BY DEF CostInv, ConvergeInv, TypeOK, Complete
  <2>2. PICK start \in {1, first} :
          Balance(start - 1) = 0 /\ {e \in Complete(account) : e <= d} = MovesIn(start, d)
    BY DEF CostInv, Seamless
  <2>3. start <= d
    BY <2>1, <2>2, ImportAssumption DEF MovesIn, Days
  <2>4. start \in 1..(LastDay + 1) /\ d \in 0..LastDay /\ start <= d + 1
    BY <2>1, <2>2, <2>3, ImportAssumption DEF OneOff, Days
  <2>5. /\ Balance(start - 1) + Net(MovesIn(start, d)) = Balance(d)
        /\ Net(MovesIn(start, d)) \in Int
    BY <2>1, <2>4, BalanceChange
  <2>6. Net(MovesIn(start, d)) = Balance(d)
    BY <2>2, <2>5
  <2>. QED BY <2>2, <2>6
<1>. QED BY <1>1, <1>2, <1>3, PTL DEF Spec
=============================================================================
