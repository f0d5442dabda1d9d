----------------------- MODULE TradebookImportProofs -----------------------
(***************************************************************************)
(* Proofs about TradebookImport, for every sequence of trades, every set   *)
(* of opening lots, any number of imports and of requests.  The ledger is  *)
(* judged by sums over rows (SumTheorems).                                 *)
(***************************************************************************)
EXTENDS TradebookImport, SumTheorems

(* A finite set of integers has a least and a greatest element.            *)
LEMMA MaxOfFinite ==
  ASSUME NEW S \in SUBSET Int, IsFiniteSet(S), S # {}
  PROVE  Max(S) \in S /\ \A x \in S : x <= Max(S)
<1>. DEFINE Good == {T \in SUBSET S : T = {} \/ \E m \in T : \A x \in T : x <= m}
<1>1. ASSUME NEW T \in SUBSET S, \A U \in SUBSET T : U # T => U \in Good
      PROVE  T \in Good
  <2>. SUFFICES ASSUME NEW c \in T PROVE \E m \in T : \A x \in T : x <= m
    OBVIOUS
  <2>1. T \ {c} \in Good
    BY <1>1
  <2>2. CASE T \ {c} = {}
    BY <2>2
  <2>3. CASE T \ {c} # {}
    <3>1. PICK m \in T \ {c} : \A x \in T \ {c} : x <= m
      BY <2>1, <2>3
    <3>. QED BY <3>1
  <2>. QED BY <2>2, <2>3
<1>2. S \in Good
  <2>. HIDE DEF Good
  <2>. QED BY <1>1, SubsetInduction
<1>3. \E m \in S : \A x \in S : m >= x
  BY <1>2
<1>4. Max(S) \in S /\ \A x \in S : Max(S) >= x
  BY <1>3 DEF Max
<1>5. \A x \in S : x <= Max(S)
  <2>. DEFINE m == Max(S)
  <2>1. m \in S /\ \A x \in S : m >= x
    BY <1>4
  <2>. HIDE DEF m
  <2>2. \A x \in S : x <= m
    BY <2>1
  <2>. QED BY <2>2 DEF m
<1>. QED BY <1>4, <1>5

LEMMA MinOfFinite ==
  ASSUME NEW S \in SUBSET Int, IsFiniteSet(S), S # {}
  PROVE  Min(S) \in S /\ \A x \in S : Min(S) <= x
<1>. DEFINE Good == {T \in SUBSET S : T = {} \/ \E m \in T : \A x \in T : m <= x}
<1>1. ASSUME NEW T \in SUBSET S, \A U \in SUBSET T : U # T => U \in Good
      PROVE  T \in Good
  <2>. SUFFICES ASSUME NEW c \in T PROVE \E m \in T : \A x \in T : m <= x
    OBVIOUS
  <2>1. T \ {c} \in Good
    BY <1>1
  <2>2. CASE T \ {c} = {}
    BY <2>2
  <2>3. CASE T \ {c} # {}
    <3>1. PICK m \in T \ {c} : \A x \in T \ {c} : m <= x
      BY <2>1, <2>3
    <3>. QED BY <3>1
  <2>. QED BY <2>2, <2>3
<1>2. S \in Good
  <2>. HIDE DEF Good
  <2>. QED BY <1>1, SubsetInduction
<1>3. \E m \in S : \A x \in S : m <= x
  BY <1>2
<1>. QED BY <1>3 DEF Min

LEMMA FiniteImage ==
  ASSUME NEW S, IsFiniteSet(S), NEW f
  PROVE  IsFiniteSet({f[x] : x \in S})
<1>1. [x \in S |-> f[x]] \in Surjection(S, {f[x] : x \in S})
  BY DEF Surjection
<1>. QED BY <1>1, FS_Surjection

-----------------------------------------------------------------------------
(* Stored ledgers, and what the operations do to them.                     *)
IsLedger(b) ==
  /\ DOMAIN b \subseteq Nat \ {0} /\ IsFiniteSet(DOMAIN b)
  /\ b \in [DOMAIN b -> Row]

LEMMA NewIdIsNew ==
  ASSUME NEW b, IsLedger(b)
  PROVE  NewId(b) \in Nat \ {0} /\ \A k \in DOMAIN b : k < NewId(b)
<1>. DEFINE ids == DOMAIN b \cup {0}
<1>1. ids \in SUBSET Int /\ IsFiniteSet(ids) /\ ids # {} /\ ids \subseteq Nat
  BY FS_AddElement DEF IsLedger
<1>2. Max(ids) \in ids /\ \A x \in ids : x <= Max(ids)
  <2>. HIDE DEF ids
  <2>. QED BY <1>1, MaxOfFinite
<1>. QED BY <1>1, <1>2 DEF NewId

LEMMA AddedLedger ==
  ASSUME NEW b, IsLedger(b), NEW stored \in Row
  PROVE  /\ IsLedger(Added(b, stored))
         /\ DOMAIN Added(b, stored) = DOMAIN b \cup {NewId(b)}
         /\ \A k \in DOMAIN b : Added(b, stored)[k] = b[k]
         /\ Added(b, stored)[NewId(b)] = stored
<1>1. NewId(b) \in Nat \ {0} /\ NewId(b) \notin DOMAIN b
  BY NewIdIsNew DEF IsLedger
<1>2. IsFiniteSet(DOMAIN b \cup {NewId(b)})
  BY FS_AddElement DEF IsLedger
<1>. QED BY <1>1, <1>2 DEF Added, IsLedger

LEMMA RestrictedLedger ==
  ASSUME NEW b, IsLedger(b), NEW S \in SUBSET DOMAIN b
  PROVE  /\ IsLedger(Restrict(b, S)) /\ DOMAIN Restrict(b, S) = S
         /\ \A k \in S : Restrict(b, S)[k] = b[k]
<1>1. IsFiniteSet(S)
  BY FS_Subset DEF IsLedger
<1>. QED BY <1>1 DEF IsLedger, Restrict

LEMMA MarkedLedger ==
  ASSUME NEW b, IsLedger(b), NEW flag \in BOOLEAN
  PROVE  /\ IsLedger(Marked(b, flag)) /\ DOMAIN Marked(b, flag) = DOMAIN b
         /\ \A k \in DOMAIN b :
              /\ Marked(b, flag)[k].n = b[k].n /\ Marked(b, flag)[k].day = b[k].day
              /\ Marked(b, flag)[k].units = b[k].units
              /\ Marked(b, flag)[k].complete = flag
BY DEF IsLedger, Marked, Row

(* Balances of a ledger are integers, and there are finitely many.         *)
LEMMA BalanceType ==
  ASSUME NEW b, IsLedger(b), NEW S \in SUBSET DOMAIN b
  PROVE  IsFiniteSet(S) /\ SumFunctionOnSet(UnitsOf(b), S) \in Int
<1>1. IsFiniteSet(S)
  BY FS_Subset DEF IsLedger
<1>2. \A k \in S : UnitsOf(b)[k] \in Int
  BY DEF IsLedger, UnitsOf, Row
<1>. QED BY <1>1, <1>2, SumType

LEMMA JudgedType ==
  ASSUME NEW b, IsLedger(b)
  PROVE  Judged(b) \in Verdict /\ BlockOf(Judged(b)) \in [opening : Nat, closing : Int]
<1>. DEFINE balances == Running(b) \cup {0}
            at == [k \in DOMAIN b |-> SumFunctionOnSet(UnitsOf(b), UpTo(b, k))]
<1>1. \A k \in DOMAIN b : UpTo(b, k) \in SUBSET DOMAIN b
  BY DEF UpTo
<1>2. \A k \in DOMAIN b : at[k] \in Int
  BY <1>1, BalanceType
<1>3. Running(b) = {at[k] : k \in DOMAIN b}
  BY DEF Running
<1>4. IsFiniteSet(Running(b))
  <2>. HIDE DEF at
  <2>. QED BY <1>3, FiniteImage DEF IsLedger
<1>5. balances \in SUBSET Int /\ IsFiniteSet(balances) /\ balances # {} /\ 0 \in balances
  <2>1. Running(b) \subseteq Int
    BY <1>2, <1>3
  <2>. QED BY <2>1, <1>4, FS_AddElement
<1>6. Min(balances) \in Int /\ Min(balances) <= 0
  <2>. HIDE DEF balances
  <2>. QED BY <1>5, MinOfFinite
<1>7. Overhang(b) \in Nat
  BY <1>6 DEF Overhang
<1>8. NetUnits(b) \in Int
  <2>1. SumFunctionOnSet(UnitsOf(b), DOMAIN b) \in Int
    BY BalanceType
  <2>2. DOMAIN UnitsOf(b) = DOMAIN b
    BY DEF UnitsOf
  <2>. QED BY <2>1, <2>2 DEF NetUnits, SumFunction
<1>9. Solvent(b) \in BOOLEAN
  BY DEF Solvent
<1>. QED BY <1>7, <1>8, <1>9 DEF Judged, Verdict, BlockOf, NoBlock

-----------------------------------------------------------------------------
(* What is stored is what happened: a trade's row has its day and units,   *)
(* no trade has two rows, and lots bring units.                            *)
Faithful(b) ==
  /\ \A k \in DOMAIN b : b[k].n \in Numbers =>
       b[k].day = history[b[k].n].day /\ b[k].units = history[b[k].n].units
  /\ \A k \in DOMAIN b : IsLot(b[k]) => b[k].units > 0
  /\ \A j, k \in DOMAIN b : j # k /\ ~IsLot(b[j]) => b[j].n # b[k].n

IsPart(c, b) ==
  /\ IsLedger(c) /\ DOMAIN c \subseteq DOMAIN b
  /\ \A k \in DOMAIN c : c[k].n = b[k].n /\ c[k].day = b[k].day /\ c[k].units = b[k].units

LEMMA PartIsFaithful ==
  ASSUME NEW b, NEW c, Faithful(b), IsPart(c, b)
  PROVE  Faithful(c)
BY DEF Faithful, IsPart, IsLot

LEMMA MarkedIsPart ==
  ASSUME NEW b, IsLedger(b), NEW flag \in BOOLEAN
  PROVE  IsPart(Marked(b, flag), b)
BY MarkedLedger DEF IsPart

LEMMA WithoutLotsIsPart ==
  ASSUME NEW b, IsLedger(b)
  PROVE  /\ IsPart(WithoutLots(b), b)
         /\ DOMAIN WithoutLots(b) = {k \in DOMAIN b : ~IsLot(b[k])}
         /\ \A k \in DOMAIN WithoutLots(b) : WithoutLots(b)[k] = b[k]
<1>1. {k \in DOMAIN b : ~IsLot(b[k])} \in SUBSET DOMAIN b
  OBVIOUS
<1>. QED BY <1>1, RestrictedLedger DEF IsPart, WithoutLots

LEMMA RowTypes ==
  ASSUME TypeOK
  PROVE  /\ IsLedger(rows)
         /\ \A n \in Numbers : TradeRow(n) \in Row
         /\ \A kind \in {SingleLot, ReceiptLot}, lot \in Lots : LotRow(kind, lot) \in Row
<1>1. IsLedger(rows)
  BY DEF TypeOK, IsLedger
<1>2. \A n \in Numbers : TradeRow(n) \in Row
  BY TradebookAssumption DEF TypeOK, TradeRow, Row
<1>3. \A kind \in {SingleLot, ReceiptLot}, lot \in Lots : LotRow(kind, lot) \in Row
  BY TradebookAssumption DEF LotRow, Row, Days
<1>. QED BY <1>1, <1>2, <1>3

LEMMA AddedTrade ==
  ASSUME TypeOK, Faithful(rows), NEW n \in Numbers, n \notin Stored
  PROVE  Faithful(Added(rows, TradeRow(n)))
<1>. DEFINE c == Added(rows, TradeRow(n))
<1>1. /\ DOMAIN c = DOMAIN rows \cup {NewId(rows)}
      /\ \A k \in DOMAIN rows : c[k] = rows[k]
      /\ c[NewId(rows)] = TradeRow(n)
  BY RowTypes, AddedLedger
<1>2. \A k \in DOMAIN rows : rows[k].n # n
  BY DEF Stored
<1>3. /\ TradeRow(n).n = n /\ TradeRow(n).day = history[n].day
      /\ TradeRow(n).units = history[n].units
  BY DEF TradeRow
<1>4. Faithful(c)
  <2>. HIDE DEF c
  <2>. QED BY <1>1, <1>2, <1>3 DEF Faithful, IsLot
<1>. QED BY <1>4

LEMMA AddedLot ==
  ASSUME TypeOK, Faithful(rows), NEW kind \in {SingleLot, ReceiptLot}, NEW lot \in Lots
  PROVE  Faithful(Added(rows, LotRow(kind, lot)))
<1>. DEFINE c == Added(rows, LotRow(kind, lot))
<1>1. /\ DOMAIN c = DOMAIN rows \cup {NewId(rows)}
      /\ \A k \in DOMAIN rows : c[k] = rows[k]
      /\ c[NewId(rows)] = LotRow(kind, lot)
  BY RowTypes, AddedLedger
<1>2. /\ LotRow(kind, lot).n = kind /\ LotRow(kind, lot).units = lot.units
      /\ lot.units > 0 /\ kind \notin Numbers
  BY TradebookAssumption DEF LotRow, Numbers, SingleLot, ReceiptLot
<1>3. Faithful(c)
  <2>. HIDE DEF c
  <2>. QED BY <1>1, <1>2 DEF Faithful, IsLot
<1>. QED BY <1>3

-----------------------------------------------------------------------------
(* The invariant everything else rests on.  Unless requests have           *)
(* overlapped, at most one is at work.                                     *)
Alone == "overlap" \notin disturbed =>
  \A q, r \in Requests : req[q].pc # "idle" /\ req[r].pc # "idle" => q = r
LedgerInv == TypeOK /\ Faithful(rows) /\ Alone

LEMMA LedgerInit == Init => LedgerInv
<1>. SUFFICES ASSUME Init PROVE LedgerInv
  OBVIOUS
<1>1. DOMAIN rows = {} /\ rows \in [{} -> Row]
  BY DEF Init, NoRows
<1>2. IsFiniteSet(DOMAIN rows)
  BY <1>1, FS_EmptySet
<1>3. req \in [Requests -> [pc : Steps, todo : Seq(Numbers), verdict : Verdict]]
  BY DEF Init, Idle, NoVerdict, Verdict, Steps
<1>4. TypeOK
  BY <1>1, <1>2, <1>3, TradebookAssumption DEF Init, TypeOK, NoBlock
<1>. QED BY <1>1, <1>4 DEF Init, LedgerInv, Faithful, Alone, Idle

Reqs == [Requests -> [pc : Steps, todo : Seq(Numbers), verdict : Verdict]]

LEMMA PeriodType ==
  ASSUME NEW lo \in Numbers, NEW hi \in lo..Trades, NEW newestFirst \in BOOLEAN
  PROVE  Period(lo, hi, newestFirst) \in Seq(Numbers)
<1>1. hi - lo + 1 \in Nat
  BY TradebookAssumption DEF Numbers
<1>2. Period(lo, hi, newestFirst) \in [1..(hi - lo + 1) -> Numbers]
  BY <1>1, TradebookAssumption DEF Period, Numbers
<1>. QED BY <1>1, <1>2

LEMMA LedgerNext == LedgerInv /\ [Next]_vars => LedgerInv'
<1>. SUFFICES ASSUME LedgerInv, [Next]_vars PROVE LedgerInv'
  OBVIOUS
<1>0. TypeOK /\ IsLedger(rows) /\ Faithful(rows) /\ req \in Reqs
  BY RowTypes DEF LedgerInv, TypeOK, Reqs
<1>a. ASSUME history' = history, NEW c, rows' = c, IsLedger(c), Faithful(c)
      PROVE  /\ DOMAIN rows' \subseteq Nat \ {0} /\ IsFiniteSet(DOMAIN rows')
             /\ rows' \in [DOMAIN rows' -> Row] /\ Faithful(rows)'
  BY <1>a DEF IsLedger, Faithful, IsLot
<1>1. ASSUME NEW r \in Requests, NEW lo \in Numbers, NEW hi \in lo..Trades,
             NEW newestFirst \in BOOLEAN, StartImport(r, lo, hi, newestFirst)
      PROVE  LedgerInv'
  <2>1. req' \in Reqs
    <3>1. NoVerdict \in Verdict /\ "rows" \in Steps
      BY DEF NoVerdict, Verdict, Steps
    <3>. QED BY <1>0, <1>1, <3>1, PeriodType DEF StartImport, Reqs
  <2>2. imports' \in 0..MaxImports /\ disturbed' \subseteq {"overlap", "death", "lot"}
    BY <1>0, <1>1, TradebookAssumption DEF StartImport, TypeOK, Meanwhile
  <2>3. Alone'
    BY <1>0, <1>1 DEF StartImport, Meanwhile, AtRest, Alone, Reqs
  <2>. QED BY <1>0, <1>1, <1>a, <2>1, <2>2, <2>3 DEF StartImport, LedgerInv, TypeOK, Reqs
<1>2. ASSUME NEW r \in Requests, ProcessRow(r) PROVE LedgerInv'
  <2>. DEFINE n == Head(req[r].todo)
  <2>1. n \in Numbers /\ Tail(req[r].todo) \in Seq(Numbers)
    BY <1>0, <1>2 DEF ProcessRow, Reqs
  <2>2. req' \in Reqs
    BY <1>0, <1>2, <2>1 DEF ProcessRow, Reqs, Steps
  <2>3. rows' = IF n \in Stored THEN rows ELSE Added(rows, TradeRow(n))
    BY <1>2 DEF ProcessRow, StoreRow
  <2>4. history' = history /\ disturbed' = disturbed
        /\ uncovered' \subseteq uncovered \cup {history[n].day}
    BY <1>2 DEF ProcessRow
  <2>5. history[n].day \in Days
    BY <1>0, <2>1 DEF TypeOK
  <2>6. \A q \in Requests : req'[q].pc # "idle" => req[q].pc # "idle"
    BY <1>0, <1>2 DEF ProcessRow, Reqs
  <2>7. IsLedger(rows') /\ Faithful(rows')
    BY <1>0, <2>1, <2>3, RowTypes, AddedLedger, AddedTrade
  <2>. HIDE DEF n
  <2>8. Alone'
    BY <2>4, <2>6 DEF Alone, LedgerInv
  <2>. QED BY <1>0, <1>2, <1>a, <2>2, <2>4, <2>5, <2>7, <2>8
           DEF ProcessRow, budget, LedgerInv, TypeOK, Reqs
<1>3. ASSUME NEW r \in Requests, SupersedeOpeningLots(r) PROVE LedgerInv'
  <2>1. IsLedger(rows') /\ Faithful(rows')
    BY <1>0, <1>3, WithoutLotsIsPart, PartIsFaithful DEF SupersedeOpeningLots, IsPart
  <2>2. CostBasisDays(rows) \subseteq Days
    BY <1>0 DEF CostBasisDays, IsLedger, Row
  <2>3. req' \in Reqs /\ \A q \in Requests : req'[q].pc # "idle" => req[q].pc # "idle"
    BY <1>0, <1>3 DEF SupersedeOpeningLots, Reqs, Steps
  <2>. QED BY <1>0, <1>3, <1>a, <2>1, <2>2, <2>3
           DEF SupersedeOpeningLots, budget, LedgerInv, TypeOK, Reqs, Alone
<1>4. ASSUME NEW r \in Requests, JudgeCompleteness(r) PROVE LedgerInv'
  <2>1. req' \in Reqs /\ \A q \in Requests : req'[q].pc # "idle" => req[q].pc # "idle"
    BY <1>0, <1>4, JudgedType DEF JudgeCompleteness, Reqs, Steps
  <2>. QED BY <1>0, <1>4, <1>a, <2>1
           DEF JudgeCompleteness, budget, LedgerInv, TypeOK, Reqs, Alone
<1>5. ASSUME NEW r \in Requests, MarkCompleteness(r) PROVE LedgerInv'
  <2>1. req[r].verdict \in Verdict /\ req[r].verdict.solvent \in BOOLEAN
    BY <1>0 DEF Reqs, Verdict
  <2>2. IsLedger(rows') /\ Faithful(rows')
    BY <1>0, <1>5, <2>1, MarkedLedger, MarkedIsPart, PartIsFaithful DEF MarkCompleteness
  <2>3. block' \in [opening : Nat, closing : Int]
    BY <1>5, <2>1 DEF MarkCompleteness, BlockOf, NoBlock, Verdict
  <2>4. req' \in Reqs /\ \A q \in Requests : req'[q].pc # "idle" => req[q].pc # "idle"
    <3>1. [Idle EXCEPT !.pc = "queue"]
            \in [pc : Steps, todo : Seq(Numbers), verdict : Verdict]
      <4>1. [Idle EXCEPT !.pc = "queue"]
              = [pc |-> "queue", todo |-> <<>>, verdict |-> NoVerdict]
        BY DEF Idle
      <4>2. NoVerdict \in Verdict /\ "queue" \in Steps /\ <<>> \in Seq(Numbers)
        BY DEF NoVerdict, Verdict, Steps
      <4>. QED BY <4>1, <4>2
    <3>. QED BY <1>0, <1>5, <3>1 DEF MarkCompleteness, Reqs
  <2>5. \A k \in DOMAIN rows : rows[k].day \in Days
    BY <1>0 DEF IsLedger, Row
  <2>6. uncovered' \subseteq Days
    BY <1>0, <1>5, <2>5 DEF MarkCompleteness, TypeOK
  <2>. QED BY <1>0, <1>5, <1>a, <2>2, <2>3, <2>4, <2>6
           DEF MarkCompleteness, budget, LedgerInv, TypeOK, Reqs, Alone
<1>6. ASSUME NEW r \in Requests, QueueRecompute(r) PROVE LedgerInv'
  <2>1. req' \in Reqs /\ \A q \in Requests : req'[q].pc # "idle" => req[q].pc # "idle"
    BY <1>0, <1>6 DEF QueueRecompute, Reqs, Steps, Idle, NoVerdict, Verdict
  <2>. QED BY <1>0, <1>6, <1>a, <2>1
           DEF QueueRecompute, budget, LedgerInv, TypeOK, Reqs, Alone
<1>7. ASSUME NEW r \in Requests, RequestDies(r) PROVE LedgerInv'
  <2>1. req' \in Reqs /\ \A q \in Requests : req'[q].pc # "idle" => req[q].pc # "idle"
    BY <1>0, <1>7 DEF RequestDies, Reqs, Steps, Idle, NoVerdict, Verdict
  <2>2. faults' \in 0..MaxFaults /\ disturbed' \subseteq {"overlap", "death", "lot"}
        /\ ("overlap" \in disturbed => "overlap" \in disturbed')
    BY <1>0, <1>7, TradebookAssumption DEF RequestDies, TypeOK
  <2>. QED BY <1>0, <1>7, <1>a, <2>1, <2>2
           DEF RequestDies, LedgerInv, TypeOK, Reqs, Alone
<1>8. ASSUME disturbed' = Meanwhile(disturbed \cup {"lot"}),
             UNCHANGED <<history, req, uncovered, budget>>,
             IsLedger(rows'), Faithful(rows'), block' \in [opening : Nat, closing : Int]
      PROVE  LedgerInv'
  <2>1. disturbed' \subseteq {"overlap", "death", "lot"} /\ Alone'
    BY <1>0, <1>8 DEF LedgerInv, TypeOK, Meanwhile, Alone
  <2>. QED BY <1>0, <1>8, <1>a, <2>1 DEF LedgerInv, TypeOK, budget
<1>9. ASSUME NEW lot \in Lots, RecordOpeningLot(lot) PROVE LedgerInv'
  <2>1. IsLedger(rows') /\ Faithful(rows')
    BY <1>0, <1>9, RowTypes, AddedLedger, AddedLot DEF RecordOpeningLot
  <2>. QED BY <1>0, <1>8, <1>9, <2>1 DEF RecordOpeningLot, TypeOK
<1>10. ASSUME NEW b, IsLedger(b), Faithful(b), Rederive(b)
       PROVE  /\ IsLedger(rows') /\ Faithful(rows')
              /\ block' \in [opening : Nat, closing : Int]
  <2>1. Solvent(b) \in BOOLEAN
    BY DEF Solvent
  <2>. QED BY <1>0, <1>10, <2>1, MarkedLedger, MarkedIsPart, PartIsFaithful, JudgedType
           DEF Rederive, TypeOK
<1>11. ASSUME NEW lot \in Lots, RecordOpeningLots(lot) PROVE LedgerInv'
  <2>. DEFINE b == Added(rows, LotRow(ReceiptLot, lot))
  <2>1. IsLedger(b) /\ Faithful(b)
    BY <1>0, RowTypes, AddedLedger, AddedLot
  <2>2. Rederive(b)
    BY <1>11 DEF RecordOpeningLots
  <2>. HIDE DEF b
  <2>. QED BY <1>8, <1>10, <1>11, <2>1, <2>2 DEF RecordOpeningLots
<1>12. CASE RemoveOpeningLots
  <2>1. IsLedger(WithoutLots(rows)) /\ Faithful(WithoutLots(rows))
    BY <1>0, WithoutLotsIsPart, PartIsFaithful DEF IsPart
  <2>. QED BY <1>8, <1>10, <1>12, <2>1 DEF RemoveOpeningLots
<1>13. CASE UNCHANGED vars
  BY <1>0, <1>13, <1>a DEF vars, LedgerInv, TypeOK, Alone
<1>. QED
  BY <1>1, <1>2, <1>3, <1>4, <1>5, <1>6, <1>7, <1>9, <1>11, <1>12, <1>13 DEF Next

LEMMA LedgerAlways == Spec => []LedgerInv
BY LedgerInit, LedgerNext, PTL DEF Spec

(* Rows, verdicts, blocks and steps keep their types.                      *)
THEOREM TypeCorrect == Spec => []TypeOK
<1>1. LedgerInv => TypeOK
  BY DEF LedgerInv
<1>. QED BY <1>1, LedgerAlways, PTL

(* Uploading a period again, whole or in part, alone or beside another     *)
(* upload, before or after a request died half way, never stores a trade   *)
(* twice (_dedup_key, _process_row): each row is looked up and stored in   *)
(* one transaction.                                                        *)
THEOREM TradesAreStoredOnce == Spec => []TradesStoredOnce
<1>1. LedgerInv => TradesStoredOnce
  BY DEF LedgerInv, Faithful, TradesStoredOnce, Trade
<1>. QED BY <1>1, LedgerAlways, PTL

-----------------------------------------------------------------------------
(* The recompute.  As long as imports come one after another, there are no *)
(* lots and what is not covered yet is on days of stored trades.           *)
StoredDays == {rows[k].day : k \in DOMAIN rows}
RecomputeInv ==
  /\ LedgerInv
  /\ disturbed = {} =>
       /\ \A k \in DOMAIN rows : ~IsLot(rows[k])
       /\ uncovered \subseteq StoredDays
       /\ AtRest => uncovered = {}

LEMMA EarliestIsFirst ==
  ASSUME TypeOK
  PROVE  \A d \in StoredDays : d \in Int /\ EarliestDay \in Int /\ EarliestDay <= d
<1>. DEFINE dayOf == [k \in DOMAIN rows |-> rows[k].day]
<1>1. StoredDays \in SUBSET Int /\ StoredDays = {dayOf[k] : k \in DOMAIN rows}
  BY DEF TypeOK, Row, Days, StoredDays
<1>2. IsFiniteSet(StoredDays)
  <2>. HIDE DEF dayOf
  <2>1. IsFiniteSet(DOMAIN rows)
    BY DEF TypeOK
  <2>2. IsFiniteSet({dayOf[k] : k \in DOMAIN rows})
    BY <2>1, FiniteImage
  <2>. QED BY <1>1, <2>2
<1>3. EarliestDay = Min(StoredDays)
  BY DEF EarliestDay, StoredDays
<1>. QED BY <1>1, <1>2, <1>3, MinOfFinite

LEMMA RecomputeNext == RecomputeInv /\ [Next]_vars => RecomputeInv'
<1>. SUFFICES ASSUME RecomputeInv, [Next]_vars PROVE RecomputeInv'
  OBVIOUS
<1>0. LedgerInv' /\ TypeOK /\ IsLedger(rows)
  BY LedgerNext, RowTypes DEF RecomputeInv, LedgerInv
<1>. SUFFICES ASSUME disturbed' = {}
              PROVE  /\ \A k \in DOMAIN rows' : ~IsLot(rows'[k])
                     /\ uncovered' \subseteq StoredDays'
                     /\ AtRest' => uncovered' = {}
  BY <1>0 DEF RecomputeInv, IsLot
<1>1. ASSUME NEW r \in Requests, NEW lo \in Numbers, NEW hi \in lo..Trades,
             NEW newestFirst \in BOOLEAN, StartImport(r, lo, hi, newestFirst)
      PROVE  /\ \A k \in DOMAIN rows' : ~IsLot(rows'[k])
             /\ uncovered' \subseteq StoredDays'
             /\ AtRest' => uncovered' = {}
  <2>1. AtRest /\ disturbed = {}
    BY <1>1 DEF StartImport, Meanwhile
  <2>. QED BY <1>1, <2>1 DEF StartImport, RecomputeInv, StoredDays
<1>2. ASSUME NEW r \in Requests, ProcessRow(r)
      PROVE  /\ \A k \in DOMAIN rows' : ~IsLot(rows'[k])
             /\ uncovered' \subseteq StoredDays'
             /\ AtRest' => uncovered' = {}
  <2>. DEFINE n == Head(req[r].todo)
  <2>1. n \in Numbers
    BY <1>0, <1>2 DEF ProcessRow, TypeOK
  <2>2. disturbed = {} /\ req'[r].pc # "idle"
    BY <1>0, <1>2 DEF ProcessRow, TypeOK
  <2>3. ~AtRest'
    BY <2>2 DEF AtRest
  <2>4. CASE rows' = rows
    BY <1>2, <2>2, <2>3, <2>4 DEF ProcessRow, RecomputeInv, StoredDays
  <2>5. CASE rows' # rows
    <3>1. rows' = Added(rows, TradeRow(n))
      BY <1>2, <2>5 DEF ProcessRow, StoreRow
    <3>2. uncovered' = uncovered \cup {history[n].day}
      BY <1>2, <2>5 DEF ProcessRow
    <3>. HIDE DEF n
    <3>3. /\ DOMAIN rows' = DOMAIN rows \cup {NewId(rows)}
          /\ \A k \in DOMAIN rows : rows'[k] = rows[k]
          /\ rows'[NewId(rows)] = TradeRow(n)
      BY <1>0, <2>1, <3>1, RowTypes, AddedLedger
    <3>4. TradeRow(n).day = history[n].day /\ ~IsLot(TradeRow(n))
      BY <2>1 DEF TradeRow, IsLot
    <3>5. StoredDays' = StoredDays \cup {history[n].day}
      BY <3>3, <3>4 DEF StoredDays
    <3>. QED BY <2>2, <2>3, <3>2, <3>3, <3>4, <3>5 DEF RecomputeInv
  <2>. QED BY <2>4, <2>5
<1>3. ASSUME NEW r \in Requests, SupersedeOpeningLots(r)
      PROVE  /\ \A k \in DOMAIN rows' : ~IsLot(rows'[k])
             /\ uncovered' \subseteq StoredDays'
             /\ AtRest' => uncovered' = {}
  <2>1. disturbed = {} /\ req'[r].pc # "idle"
    BY <1>0, <1>3 DEF SupersedeOpeningLots, TypeOK
  <2>2. ~AtRest'
    BY <2>1 DEF AtRest
  <2>3. DOMAIN rows' = DOMAIN rows /\ \A k \in DOMAIN rows : rows'[k] = rows[k]
    BY <1>0, <1>3, <2>1, WithoutLotsIsPart DEF SupersedeOpeningLots, RecomputeInv
  <2>4. CostBasisDays(rows') = CostBasisDays(rows) /\ StoredDays' = StoredDays
    BY <2>3 DEF CostBasisDays, StoredDays
  <2>5. uncovered' = uncovered
    BY <1>3, <2>4 DEF SupersedeOpeningLots
  <2>. QED BY <2>1, <2>2, <2>3, <2>4, <2>5 DEF RecomputeInv
<1>4. ASSUME NEW r \in Requests, JudgeCompleteness(r)
      PROVE  /\ \A k \in DOMAIN rows' : ~IsLot(rows'[k])
             /\ uncovered' \subseteq StoredDays'
             /\ AtRest' => uncovered' = {}
  <2>1. disturbed = {} /\ req'[r].pc # "idle"
    BY <1>0, <1>4 DEF JudgeCompleteness, TypeOK
  <2>. QED BY <1>4, <2>1 DEF JudgeCompleteness, RecomputeInv, StoredDays, AtRest
<1>5. ASSUME NEW r \in Requests, MarkCompleteness(r)
      PROVE  /\ \A k \in DOMAIN rows' : ~IsLot(rows'[k])
             /\ uncovered' \subseteq StoredDays'
             /\ AtRest' => uncovered' = {}
  <2>1. disturbed = {} /\ req'[r].pc # "idle"
    BY <1>0, <1>5 DEF MarkCompleteness, TypeOK
  <2>2. req[r].verdict.solvent \in BOOLEAN
    BY <1>0 DEF TypeOK, Verdict
  <2>3. /\ DOMAIN rows' = DOMAIN rows
        /\ \A k \in DOMAIN rows : rows'[k].n = rows[k].n /\ rows'[k].day = rows[k].day
    BY <1>0, <1>5, <2>2, MarkedLedger DEF MarkCompleteness
  <2>4. StoredDays' = StoredDays
    BY <2>3 DEF StoredDays
  <2>5. uncovered' \subseteq uncovered \cup StoredDays
    BY <1>5 DEF MarkCompleteness, StoredDays
  <2>. QED BY <2>1, <2>3, <2>4, <2>5 DEF RecomputeInv, AtRest, IsLot
<1>6. ASSUME NEW r \in Requests, QueueRecompute(r)
      PROVE  /\ \A k \in DOMAIN rows' : ~IsLot(rows'[k])
             /\ uncovered' \subseteq StoredDays'
             /\ AtRest' => uncovered' = {}
  <2>1. disturbed = {} /\ uncovered \subseteq StoredDays
        /\ uncovered' = {d \in uncovered : d < EarliestDay}
    BY <1>6 DEF QueueRecompute, RecomputeInv
  <2>2. \A d \in uncovered : ~(d < EarliestDay)
    BY <1>0, <2>1, EarliestIsFirst
  <2>. QED BY <1>6, <2>1, <2>2 DEF QueueRecompute, RecomputeInv
<1>7. ASSUME NEW r \in Requests, RequestDies(r) PROVE FALSE
  BY <1>7 DEF RequestDies
<1>8. ASSUME disturbed' = Meanwhile(disturbed \cup {"lot"}) PROVE FALSE
  BY <1>8 DEF Meanwhile
<1>9. CASE UNCHANGED vars
  BY <1>9 DEF vars, RecomputeInv, StoredDays, AtRest
<1>. QED
  BY <1>1, <1>2, <1>3, <1>4, <1>5, <1>6, <1>7, <1>8, <1>9
  DEF Next, RecordOpeningLot, RecordOpeningLots, RemoveOpeningLots

(* When imports come one after another and no lot is entered by hand, the  *)
(* recompute an import queues reaches every day whose trades or            *)
(* completeness it changed (process_csv): it starts at the first stored    *)
(* trade, not at the first imported one.                                   *)
THEOREM RecomputeReaches == Spec => []RecomputeReachesChanges
<1>1. Init => RecomputeInv
  <2>. SUFFICES ASSUME Init PROVE RecomputeInv
    OBVIOUS
  <2>1. DOMAIN rows = {} /\ uncovered = {}
    BY DEF Init, NoRows
  <2>. QED BY <2>1, LedgerInit DEF RecomputeInv
<1>2. RecomputeInv => RecomputeReachesChanges
  BY DEF RecomputeInv, RecomputeReachesChanges
<1>. QED BY <1>1, <1>2, RecomputeNext, PTL DEF Spec

-----------------------------------------------------------------------------
(* Solvency.  It depends on the rows' days and units alone, ...            *)
SameTrades(c, b) ==
  /\ DOMAIN c = DOMAIN b
  /\ \A k \in DOMAIN b : c[k].day = b[k].day /\ c[k].units = b[k].units

LEMMA JudgedAlike ==
  ASSUME NEW b, NEW c, SameTrades(c, b)
  PROVE  Solvent(c) = Solvent(b) /\ Judged(c) = Judged(b)
<1>1. UnitsOf(c) = UnitsOf(b)
  BY DEF SameTrades, UnitsOf
<1>2. \A k \in DOMAIN b : UpTo(c, k) = UpTo(b, k)
  BY DEF SameTrades, UpTo
<1>3. Running(c) = Running(b)
  BY <1>1, <1>2 DEF SameTrades, Running
<1>. QED BY <1>1, <1>3 DEF Solvent, Judged, Overhang, NetUnits

(* ... and among finitely many rows one is replayed last.                  *)
LEMMA LastRow ==
  ASSUME NEW b, IsLedger(b), NEW S \in SUBSET DOMAIN b, S # {}
  PROVE  \E k \in S : \A j \in S :
           b[j].day < b[k].day \/ (b[j].day = b[k].day /\ j <= k)
<1>. DEFINE dayOf == [k \in S |-> b[k].day]
            days == {dayOf[k] : k \in S}
            last == Max(days)
            late == {k \in S : b[k].day = last}
<1>1. IsFiniteSet(S) /\ S \in SUBSET Int /\ \A k \in S : b[k].day \in Int
  BY FS_Subset DEF IsLedger, Row, Days
<1>2. IsFiniteSet(days) /\ days \in SUBSET Int /\ days # {}
  <2>1. days \in SUBSET Int /\ days # {}
    BY <1>1
  <2>2. IsFiniteSet(days)
    <3>. HIDE DEF dayOf
    <3>. QED BY <1>1, FiniteImage
  <2>. QED BY <2>1, <2>2
<1>3. last \in days /\ \A d \in days : d <= last
  <2>. HIDE DEF days
  <2>. QED BY <1>2, MaxOfFinite
<1>4. late # {} /\ late \in SUBSET Int /\ IsFiniteSet(late)
  <2>1. late \subseteq S /\ late # {}
    BY <1>3
  <2>. QED BY <1>1, <2>1, FS_Subset
<1>5. Max(late) \in late /\ \A k \in late : k <= Max(late)
  <2>. HIDE DEF late
  <2>. QED BY <1>4, MaxOfFinite
<1>6. ASSUME NEW j \in S
      PROVE  b[j].day < b[Max(late)].day \/ (b[j].day = b[Max(late)].day /\ j <= Max(late))
  <2>1. b[j].day \in days /\ b[Max(late)].day = last /\ b[j].day \in Int /\ last \in Int
    BY <1>1, <1>2, <1>3, <1>5
  <2>2. b[j].day <= last
    BY <1>3, <2>1
  <2>3. CASE b[j].day = last
    BY <1>5, <2>1, <2>3
  <2>4. CASE b[j].day # last
    BY <2>1, <2>2, <2>4
  <2>. QED BY <2>3, <2>4
<1>7. Max(late) \in S
  BY <1>5
<1>. HIDE DEF late
<1>. QED BY <1>6, <1>7

LEMMA SumAgrees ==
  ASSUME NEW S, IsFiniteSet(S), NEW f, NEW g, \A x \in S : f[x] \in Int /\ g[x] = f[x]
  PROVE  SumFunctionOnSet(g, S) = SumFunctionOnSet(f, S)
<1>1. SumFunctionOnSet(g, S) <= SumFunctionOnSet(f, S)
  BY SumMonotonic
<1>2. SumFunctionOnSet(f, S) <= SumFunctionOnSet(g, S)
  BY SumMonotonic
<1>3. SumFunctionOnSet(f, S) \in Int /\ SumFunctionOnSet(g, S) \in Int
  BY SumType
<1>. QED BY <1>1, <1>2, <1>3

(* A row that brings units, added under a new id, leaves a solvent ledger  *)
(* solvent, whatever its day.                                              *)
LEMMA LotKeepsSolvent ==
  ASSUME NEW b, IsLedger(b), Solvent(b), NEW c, IsLedger(c), NEW id,
         \A k \in DOMAIN b : k < id, DOMAIN c = DOMAIN b \cup {id},
         \A k \in DOMAIN b : c[k] = b[k], c[id].units > 0
  PROVE  Solvent(c)
<1>1. id \in Int /\ DOMAIN b \in SUBSET Int /\ id \notin DOMAIN b
  BY DEF IsLedger
<1>2. \A k \in DOMAIN c : UnitsOf(c)[k] = c[k].units /\ c[k].units \in Int
  BY DEF IsLedger, Row, UnitsOf
<1>3. \A k \in DOMAIN b : UnitsOf(b)[k] = b[k].units
  BY DEF UnitsOf
<1>4. ASSUME NEW S \in SUBSET DOMAIN b
      PROVE  /\ IsFiniteSet(S) /\ SumFunctionOnSet(UnitsOf(c), S) \in Int
             /\ SumFunctionOnSet(UnitsOf(c), S) = SumFunctionOnSet(UnitsOf(b), S)
             /\ SumFunctionOnSet(UnitsOf(c), S \cup {id})
                  = c[id].units + SumFunctionOnSet(UnitsOf(c), S)
  <2>1. IsFiniteSet(S) /\ SumFunctionOnSet(UnitsOf(b), S) \in Int
    BY BalanceType
  <2>2. \A k \in S : UnitsOf(b)[k] \in Int /\ UnitsOf(c)[k] = UnitsOf(b)[k]
    BY <1>2, <1>3
  <2>3. SumFunctionOnSet(UnitsOf(c), S) = SumFunctionOnSet(UnitsOf(b), S)
    BY <2>1, <2>2, SumAgrees
  <2>4. IsFiniteSet(S \cup {id}) /\ \A k \in S \cup {id} : UnitsOf(c)[k] \in Int
    BY <1>2, <2>1, FS_AddElement
  <2>5. (S \cup {id}) \ {id} = S
    BY <1>1
  <2>6. SumFunctionOnSet(UnitsOf(c), S \cup {id})
          = UnitsOf(c)[id] + SumFunctionOnSet(UnitsOf(c), (S \cup {id}) \ {id})
    BY <2>4, SumRemove
  <2>. QED BY <1>2, <2>1, <2>3, <2>5, <2>6
<1>5. \A k \in DOMAIN b : /\ UpTo(b, k) \in SUBSET DOMAIN b
                          /\ SumFunctionOnSet(UnitsOf(b), UpTo(b, k)) >= 0
  BY DEF Solvent, Running, UpTo
<1>6. ASSUME NEW k \in DOMAIN b
      PROVE  SumFunctionOnSet(UnitsOf(c), UpTo(c, k)) >= 0
  <2>1. UpTo(c, k) = UpTo(b, k) \/ UpTo(c, k) = UpTo(b, k) \cup {id}
    BY DEF UpTo
  <2>2. SumFunctionOnSet(UnitsOf(c), UpTo(b, k)) \in Int
        /\ SumFunctionOnSet(UnitsOf(c), UpTo(b, k)) >= 0
    BY <1>4, <1>5
  <2>3. /\ c[id].units \in Int
        /\ SumFunctionOnSet(UnitsOf(c), UpTo(b, k) \cup {id})
             = c[id].units + SumFunctionOnSet(UnitsOf(c), UpTo(b, k))
    BY <1>2, <1>4, <1>5
  <2>4. SumFunctionOnSet(UnitsOf(c), UpTo(b, k) \cup {id}) >= 0
    BY <2>2, <2>3
  <2>. QED BY <2>1, <2>2, <2>4
<1>7. SumFunctionOnSet(UnitsOf(c), UpTo(c, id)) >= 0
  <2>. DEFINE S == {j \in DOMAIN b : b[j].day <= c[id].day}
  <2>0. \A k \in DOMAIN c : c[k].day \in Int
    BY DEF IsLedger, Row, Days
  <2>1. UpTo(c, id) = S \cup {id}
    BY <1>1, <2>0 DEF UpTo
  <2>2. SumFunctionOnSet(UnitsOf(b), S) >= 0
    <3>1. CASE S = {}
      <4>1. SumFunctionOnSet(UnitsOf(b), {}) = 0
        BY SumEmpty
      <4>. HIDE DEF S
      <4>. QED BY <3>1, <4>1
    <3>2. CASE S # {}
      <4>1. PICK k \in S : \A j \in S :
               b[j].day < b[k].day \/ (b[j].day = b[k].day /\ j <= k)
        BY <3>2, LastRow
      <4>2. UpTo(b, k) = S
        BY <2>0, <4>1 DEF UpTo
      <4>. QED BY <1>5, <4>2
    <3>. QED BY <3>1, <3>2
  <2>3. S \in SUBSET DOMAIN b
    OBVIOUS
  <2>. HIDE DEF S
  <2>4. /\ SumFunctionOnSet(UnitsOf(c), S) \in Int
        /\ SumFunctionOnSet(UnitsOf(c), S) >= 0
        /\ SumFunctionOnSet(UnitsOf(c), S \cup {id})
             = c[id].units + SumFunctionOnSet(UnitsOf(c), S)
    BY <1>4, <2>2, <2>3
  <2>5. c[id].units \in Int
    BY <1>2
  <2>6. SumFunctionOnSet(UnitsOf(c), S \cup {id}) >= 0
    BY <2>4, <2>5
  <2>. QED BY <2>1, <2>6
<1>. QED BY <1>6, <1>7 DEF Solvent, Running

-----------------------------------------------------------------------------
(* Completeness.  The rows that carry cost basis, and the trades on file.  *)
CostBasisOf(b) == Restrict(b, {k \in DOMAIN b : b[k].complete})
StoredIn(b)    == {b[k].n : k \in DOMAIN b} \cap Numbers

LEMMA CostBasisLedger ==
  ASSUME NEW b, IsLedger(b)
  PROVE  /\ IsLedger(CostBasisOf(b))
         /\ DOMAIN CostBasisOf(b) = {k \in DOMAIN b : b[k].complete}
         /\ \A k \in DOMAIN CostBasisOf(b) : CostBasisOf(b)[k] = b[k]
<1>1. {k \in DOMAIN b : b[k].complete} \in SUBSET DOMAIN b
  OBVIOUS
<1>. QED BY <1>1, RestrictedLedger DEF CostBasisOf

LEMMA NothingIsSolvent ==
  ASSUME NEW b, DOMAIN b = {}
  PROVE  Solvent(b)
BY DEF Solvent, Running

(* Rows marked complete exactly when the ledger is solvent never oversell. *)
LEMMA MarkedSolvent ==
  ASSUME NEW b, IsLedger(b)
  PROVE  Solvent(CostBasisOf(Marked(b, Solvent(b))))
<1>. DEFINE c == Marked(b, Solvent(b))
            basis == CostBasisOf(c)
<1>1. Solvent(b) \in BOOLEAN
  BY DEF Solvent
<1>2. /\ IsLedger(c) /\ DOMAIN c = DOMAIN b
      /\ \A k \in DOMAIN b : c[k].day = b[k].day /\ c[k].units = b[k].units
                             /\ c[k].complete = Solvent(b)
  BY <1>1, MarkedLedger
<1>3. /\ DOMAIN basis = {k \in DOMAIN c : c[k].complete}
      /\ \A k \in DOMAIN basis : basis[k] = c[k]
  <2>. HIDE DEF c
  <2>. QED BY <1>2, CostBasisLedger
<1>. HIDE DEF c, basis
<1>4. CASE Solvent(b)
  <2>1. SameTrades(basis, b)
    BY <1>2, <1>3, <1>4 DEF SameTrades
  <2>2. Solvent(basis)
    BY <1>4, <2>1, JudgedAlike
  <2>. QED BY <2>2 DEF basis, c
<1>5. CASE ~Solvent(b)
  <2>1. DOMAIN basis = {}
    BY <1>2, <1>3, <1>5
  <2>2. Solvent(basis)
    BY <2>1, NothingIsSolvent
  <2>. QED BY <2>2 DEF basis, c
<1>. QED BY <1>4, <1>5

(* A lot that is not judged cannot make the cost basis oversell.           *)
LEMMA LotBasisSolvent ==
  ASSUME TypeOK, Solvent(CostBasisOf(rows)),
         NEW kind \in {SingleLot, ReceiptLot}, NEW lot \in Lots
  PROVE  Solvent(CostBasisOf(Added(rows, LotRow(kind, lot))))
<1>. DEFINE c == Added(rows, LotRow(kind, lot))
            id == NewId(rows)
            old == CostBasisOf(rows)
            new == CostBasisOf(c)
<1>1. /\ IsLedger(rows) /\ IsLedger(c) /\ DOMAIN c = DOMAIN rows \cup {id}
      /\ \A k \in DOMAIN rows : c[k] = rows[k] /\ k < id
      /\ c[id] = LotRow(kind, lot)
  <2>1. IsLedger(rows) /\ LotRow(kind, lot) \in Row
    BY RowTypes
  <2>2. \A k \in DOMAIN rows : k < id
    BY <2>1, NewIdIsNew
  <2>. QED BY <2>1, <2>2, AddedLedger
<1>2. LotRow(kind, lot).complete = lot.costKnown /\ LotRow(kind, lot).units > 0
  BY TradebookAssumption DEF LotRow
<1>3. /\ IsLedger(old) /\ DOMAIN old = {k \in DOMAIN rows : rows[k].complete}
      /\ \A k \in DOMAIN old : old[k] = rows[k]
  BY <1>1, CostBasisLedger
<1>4. /\ IsLedger(new) /\ DOMAIN new = {k \in DOMAIN c : c[k].complete}
      /\ \A k \in DOMAIN new : new[k] = c[k]
  <2>. HIDE DEF c
  <2>. QED BY <1>1, CostBasisLedger
<1>5. Solvent(old)
  OBVIOUS
<1>. HIDE DEF c, id, old, new
<1>6. CASE lot.costKnown
  <2>1. /\ DOMAIN new = DOMAIN old \cup {id}
        /\ \A k \in DOMAIN old : k < id /\ new[k] = old[k]
        /\ new[id].units > 0
    BY <1>1, <1>2, <1>3, <1>4, <1>6
  <2>2. Solvent(new)
    BY <1>3, <1>4, <1>5, <2>1, LotKeepsSolvent
  <2>. QED BY <2>2 DEF new, c
<1>7. CASE ~lot.costKnown
  <2>0. id \notin DOMAIN rows
    BY <1>1, NewIdIsNew DEF id, IsLedger
  <2>1. SameTrades(new, old)
    BY <1>1, <1>2, <1>3, <1>4, <1>7, <2>0 DEF SameTrades
  <2>2. Solvent(new)
    BY <1>5, <2>1, JudgedAlike
  <2>. QED BY <2>2 DEF new, c
<1>. QED BY <1>6, <1>7

(* Trades are only ever added.                                             *)
LEMMA StoredParts ==
  ASSUME TypeOK
  PROVE  /\ Stored = StoredIn(rows)
         /\ \A flag \in BOOLEAN : StoredIn(Marked(rows, flag)) = Stored
         /\ StoredIn(WithoutLots(rows)) = Stored
         /\ \A n \in Numbers : StoredIn(Added(rows, TradeRow(n))) = Stored \cup {n}
<1>0. IsLedger(rows) /\ Stored = StoredIn(rows)
  BY RowTypes DEF Stored, StoredIn
<1>1. ASSUME NEW flag \in BOOLEAN PROVE StoredIn(Marked(rows, flag)) = Stored
  <2>. DEFINE c == Marked(rows, flag)
  <2>1. DOMAIN c = DOMAIN rows /\ \A k \in DOMAIN rows : c[k].n = rows[k].n
    BY <1>0, MarkedLedger
  <2>2. StoredIn(c) = StoredIn(rows)
    <3>. HIDE DEF c
    <3>. QED BY <2>1 DEF StoredIn
  <2>. QED BY <1>0, <2>2
<1>2. StoredIn(WithoutLots(rows)) = Stored
  <2>. DEFINE c == WithoutLots(rows)
  <2>1. DOMAIN c = {k \in DOMAIN rows : ~IsLot(rows[k])} /\ \A k \in DOMAIN c : c[k] = rows[k]
    BY <1>0, WithoutLotsIsPart
  <2>2. StoredIn(c) = StoredIn(rows)
    <3>. HIDE DEF c
    <3>. QED BY <2>1 DEF StoredIn, IsLot
  <2>. QED BY <1>0, <2>2
<1>3. ASSUME NEW n \in Numbers PROVE StoredIn(Added(rows, TradeRow(n))) = Stored \cup {n}
  <2>. DEFINE c == Added(rows, TradeRow(n))
  <2>1. /\ DOMAIN c = DOMAIN rows \cup {NewId(rows)} /\ NewId(rows) \notin DOMAIN rows
        /\ \A k \in DOMAIN rows : c[k] = rows[k]
        /\ c[NewId(rows)].n = n
    BY <1>0, RowTypes, AddedLedger, NewIdIsNew DEF TradeRow, IsLedger
  <2>2. StoredIn(c) = StoredIn(rows) \cup {n}
    <3>. HIDE DEF c
    <3>. QED BY <2>1 DEF StoredIn
  <2>. QED BY <1>0, <2>2
<1>. QED BY <1>0, <1>1, <1>2, <1>3

LEMMA StoredBesideLot ==
  ASSUME TypeOK, NEW kind \in {SingleLot, ReceiptLot}, NEW lot \in Lots
  PROVE  StoredIn(Added(rows, LotRow(kind, lot))) = Stored
<1>. DEFINE c == Added(rows, LotRow(kind, lot))
<1>1. IsLedger(rows) /\ Stored = StoredIn(rows)
  BY RowTypes, StoredParts
<1>2. /\ DOMAIN c = DOMAIN rows \cup {NewId(rows)} /\ NewId(rows) \notin DOMAIN rows
      /\ \A k \in DOMAIN rows : c[k] = rows[k]
      /\ c[NewId(rows)].n = kind /\ kind \notin Numbers
  BY <1>1, RowTypes, AddedLedger, NewIdIsNew
  DEF LotRow, IsLedger, Numbers, SingleLot, ReceiptLot
<1>3. StoredIn(c) = StoredIn(rows)
  <2>. HIDE DEF c
  <2>. QED BY <1>2 DEF StoredIn
<1>. QED BY <1>1, <1>3

(* Re-deriving settles flags and block by the ledger that results.         *)
LEMMA Rederived ==
  ASSUME NEW b, IsLedger(b), Rederive(b)
  PROVE  /\ Solvent(CostBasisOf(rows')) /\ StoredIn(rows') = StoredIn(b)
         /\ DOMAIN b # {} =>
              /\ block' = BlockOf(Judged(rows'))
              /\ \A k \in DOMAIN rows' : rows'[k].complete = Solvent(rows')
         /\ DOMAIN b = {} => block' = block
<1>1. rows' = Marked(b, Solvent(b)) /\ Solvent(b) \in BOOLEAN
  BY DEF Rederive, Solvent
<1>2. /\ DOMAIN rows' = DOMAIN b
      /\ \A k \in DOMAIN b : /\ rows'[k].n = b[k].n /\ rows'[k].day = b[k].day
                             /\ rows'[k].units = b[k].units
                             /\ rows'[k].complete = Solvent(b)
  BY <1>1, MarkedLedger
<1>3. SameTrades(rows', b)
  BY <1>2 DEF SameTrades
<1>4. Solvent(rows') = Solvent(b) /\ Judged(rows') = Judged(b)
  BY <1>3, JudgedAlike
<1>5. Solvent(CostBasisOf(rows'))
  BY <1>1, MarkedSolvent
<1>6. StoredIn(rows') = StoredIn(b)
  BY <1>2 DEF StoredIn
<1>. QED BY <1>2, <1>4, <1>5, <1>6 DEF Rederive

-----------------------------------------------------------------------------
(* What holds unless imports have overlapped or died.  A request that has  *)
(* judged the bucket is the only one at work, so the verdict still fits    *)
(* when it is written; nothing else touches flags and block but the lots,  *)
(* which re-derive them or add one lot that brings units.                  *)
Settled == \A r \in Requests : req[r].pc \in {"idle", "queue"}
PastRows(r) == req[r].pc \in {"supersede", "judge", "mark", "queue"}

BucketInv ==
  /\ LedgerInv
  /\ \A r \in Requests : PastRows(r) => Stored # {}
  /\ disturbed \subseteq {"lot"} =>
       /\ \A r \in Requests : req[r].pc = "mark" => req[r].verdict = Judged(rows)
       /\ Stored = {} => block = NoBlock
       /\ Settled => Solvent(CostBasis)
       /\ Settled /\ Stored # {} /\ ~HasSingleLot =>
            /\ block = BlockOf(Judged(rows))
            /\ \A k \in DOMAIN rows : rows[k].complete = Solvent(rows)

LEMMA BucketInit == Init => BucketInv
<1>. SUFFICES ASSUME Init PROVE BucketInv
  OBVIOUS
<1>1. DOMAIN rows = {} /\ block = NoBlock /\ \A r \in Requests : req[r].pc = "idle"
  BY DEF Init, NoRows, Idle
<1>2. Stored = {} /\ DOMAIN CostBasis = {}
  BY <1>1 DEF Stored, CostBasis, Restrict
<1>. QED BY <1>1, <1>2, LedgerInit, NothingIsSolvent DEF BucketInv, PastRows

(* A lot recorded where no trade is stored leaves a solvent ledger.        *)
LEMMA LoneLotSolvent ==
  ASSUME TypeOK, ~HasLots, Stored = {}, NEW lot \in Lots
  PROVE  Solvent(Added(rows, LotRow(ReceiptLot, lot)))
<1>. DEFINE c == Added(rows, LotRow(ReceiptLot, lot))
<1>1. IsLedger(rows) /\ LotRow(ReceiptLot, lot) \in Row /\ LotRow(ReceiptLot, lot).units > 0
  BY RowTypes, TradebookAssumption DEF LotRow
<1>2. DOMAIN rows = {}
  BY <1>1 DEF HasLots, IsLot, Stored, IsLedger
<1>3. Solvent(rows)
  BY <1>2, NothingIsSolvent
<1>4. /\ IsLedger(c) /\ DOMAIN c = DOMAIN rows \cup {NewId(rows)}
      /\ \A k \in DOMAIN rows : c[k] = rows[k] /\ k < NewId(rows)
      /\ c[NewId(rows)].units > 0
  <2>1. \A k \in DOMAIN rows : k < NewId(rows)
    BY <1>2
  <2>. QED BY <1>1, <2>1, AddedLedger
<1>. HIDE DEF c
<1>5. Solvent(c)
  BY <1>1, <1>3, <1>4, LotKeepsSolvent
<1>. QED BY <1>5 DEF c

LEMMA BucketNext == BucketInv /\ [Next]_vars => BucketInv'
<1>. SUFFICES ASSUME BucketInv, [Next]_vars PROVE BucketInv'
  OBVIOUS
<1>0. LedgerInv' /\ TypeOK /\ TypeOK' /\ IsLedger(rows) /\ IsLedger(rows') /\ Alone
  BY LedgerNext, RowTypes DEF BucketInv, LedgerInv, TypeOK, IsLedger
<1>1. Stored = StoredIn(rows) /\ Stored' = StoredIn(rows')
  BY <1>0 DEF Stored, StoredIn
<1>. DEFINE Verdicts == \A r \in Requests : req[r].pc = "mark" => req[r].verdict = Judged(rows)
            Blocks   == Stored = {} => block = NoBlock
            Basis    == Settled => Solvent(CostBasis)
            Flags    == Settled /\ Stored # {} /\ ~HasSingleLot =>
                          /\ block = BlockOf(Judged(rows))
                          /\ \A k \in DOMAIN rows : rows[k].complete = Solvent(rows)
            Past     == \A r \in Requests : PastRows(r) => Stored # {}
            Rest     == disturbed \subseteq {"lot"} => Verdicts /\ Blocks /\ Basis /\ Flags
<1>2. Past /\ Rest
  BY DEF BucketInv
<1>3. SUFFICES Past' /\ Rest'
  BY <1>0 DEF BucketInv
<1>4. ASSUME NEW r \in Requests, NEW lo \in Numbers, NEW hi \in lo..Trades,
             NEW newestFirst \in BOOLEAN, StartImport(r, lo, hi, newestFirst)
      PROVE  Past' /\ Rest'
  <2>1. /\ req'[r].pc = "rows" /\ \A q \in Requests \ {r} : req'[q] = req[q]
        /\ UNCHANGED <<rows, block>> /\ disturbed \subseteq disturbed'
    BY <1>0, <1>4 DEF StartImport, TypeOK, Meanwhile
  <2>2. Stored' = Stored /\ Judged(rows') = Judged(rows) /\ ~Settled'
    BY <1>1, <2>1 DEF Settled
  <2>. QED BY <1>2, <2>1, <2>2 DEF PastRows
<1>5. ASSUME NEW r \in Requests, req[r].pc # "idle", disturbed' \subseteq {"lot"},
             disturbed \subseteq disturbed'
      PROVE  \A q \in Requests \ {r} : req[q].pc = "idle"
  BY <1>0, <1>5 DEF Alone
<1>6. ASSUME NEW r \in Requests, ProcessRow(r) PROVE Past' /\ Rest'
  <2>. DEFINE n == Head(req[r].todo)
  <2>1. /\ req[r].pc = "rows" /\ req'[r].pc \in {"rows", "supersede"}
        /\ \A q \in Requests \ {r} : req'[q] = req[q]
        /\ disturbed' = disturbed /\ n \in Numbers
    BY <1>0, <1>6 DEF ProcessRow, TypeOK
  <2>2. rows' = IF n \in Stored THEN rows ELSE Added(rows, TradeRow(n))
    BY <1>6 DEF ProcessRow, StoreRow
  <2>. HIDE DEF n
  <2>3. n \in Stored'
    BY <1>0, <1>1, <2>1, <2>2, StoredParts
  <2>4. Past'
    BY <2>3
  <2>5. ASSUME disturbed' \subseteq {"lot"}
        PROVE  Verdicts' /\ Blocks' /\ ~Settled'
    BY <1>5, <2>1, <2>3, <2>5 DEF Settled
  <2>. QED BY <2>4, <2>5
<1>7. ASSUME NEW r \in Requests, SupersedeOpeningLots(r) PROVE Past' /\ Rest'
  <2>1. /\ req[r].pc = "supersede" /\ req'[r].pc = "judge"
        /\ \A q \in Requests \ {r} : req'[q] = req[q]
        /\ disturbed' = disturbed
    BY <1>0, <1>7 DEF SupersedeOpeningLots, TypeOK
  <2>2. Stored' = Stored
    BY <1>0, <1>1, <1>7, StoredParts DEF SupersedeOpeningLots
  <2>3. Stored # {} /\ Past'
    BY <1>2, <2>1, <2>2 DEF PastRows
  <2>4. ASSUME disturbed' \subseteq {"lot"}
        PROVE  Verdicts' /\ Blocks' /\ ~Settled'
    BY <1>5, <2>1, <2>2, <2>3, <2>4 DEF Settled
  <2>. QED BY <2>3, <2>4
<1>8. ASSUME NEW r \in Requests, JudgeCompleteness(r) PROVE Past' /\ Rest'
  <2>1. /\ req[r].pc = "judge" /\ req'[r].pc = "mark" /\ req'[r].verdict = Judged(rows)
        /\ \A q \in Requests \ {r} : req'[q] = req[q]
        /\ disturbed' = disturbed /\ rows' = rows
    BY <1>0, <1>8 DEF JudgeCompleteness, TypeOK
  <2>2. Stored' = Stored /\ Judged(rows') = Judged(rows)
    BY <1>1, <2>1
  <2>3. Stored # {} /\ Past'
    BY <1>2, <2>1, <2>2 DEF PastRows
  <2>4. ASSUME disturbed' \subseteq {"lot"}
        PROVE  Verdicts' /\ Blocks' /\ ~Settled'
    BY <1>5, <2>1, <2>2, <2>3, <2>4 DEF Settled
  <2>. QED BY <2>3, <2>4
<1>9. ASSUME NEW r \in Requests, MarkCompleteness(r) PROVE Past' /\ Rest'
  <2>. DEFINE v == req[r].verdict
  <2>1. /\ req[r].pc = "mark" /\ req'[r].pc = "queue"
        /\ \A q \in Requests \ {r} : req'[q] = req[q]
        /\ disturbed' = disturbed
        /\ rows' = Marked(rows, v.solvent) /\ block' = BlockOf(v) /\ v.solvent \in BOOLEAN
    BY <1>0, <1>9 DEF MarkCompleteness, TypeOK, Idle, Verdict
  <2>2. Stored' = Stored
    BY <1>0, <1>1, <2>1, StoredParts
  <2>3. Stored # {} /\ Past'
    BY <1>2, <2>1, <2>2 DEF PastRows
  <2>4. ASSUME disturbed' \subseteq {"lot"} PROVE Verdicts' /\ Blocks' /\ Basis' /\ Flags'
    <3>1. v = Judged(rows) /\ v.solvent = Solvent(rows)
      BY <1>2, <2>1, <2>4 DEF Judged
    <3>2. SameTrades(rows', rows) /\ \A k \in DOMAIN rows' : rows'[k].complete = Solvent(rows)
      BY <1>0, <2>1, <3>1, MarkedLedger DEF SameTrades
    <3>3. Judged(rows') = Judged(rows) /\ Solvent(rows') = Solvent(rows)
      BY <3>2, JudgedAlike
    <3>4. Solvent(CostBasisOf(rows'))
      BY <1>0, <2>1, <3>1, MarkedSolvent
    <3>5. CostBasis' = CostBasisOf(rows')
      BY DEF CostBasis, CostBasisOf
    <3>6. Verdicts' /\ Blocks'
      BY <1>5, <2>1, <2>2, <2>3, <2>4
    <3>. QED BY <2>1, <3>1, <3>2, <3>3, <3>4, <3>5, <3>6
  <2>. QED BY <2>3, <2>4
<1>10. ASSUME NEW r \in Requests, QueueRecompute(r) PROVE Past' /\ Rest'
  <2>1. /\ req[r].pc = "queue" /\ req'[r].pc = "idle"
        /\ \A q \in Requests \ {r} : req'[q] = req[q]
        /\ disturbed' = disturbed /\ UNCHANGED <<rows, block>>
    BY <1>0, <1>10 DEF QueueRecompute, TypeOK, Idle
  <2>2. Stored' = Stored /\ CostBasis' = CostBasis /\ HasSingleLot' = HasSingleLot
        /\ Judged(rows') = Judged(rows) /\ Solvent(rows') = Solvent(rows)
    BY <1>1, <2>1 DEF CostBasis, HasSingleLot
  <2>3. Settled' = Settled
    BY <2>1 DEF Settled
  <2>4. Past'
    BY <1>2, <2>1, <2>2 DEF PastRows
  <2>5. Rest'
    BY <1>2, <2>1, <2>2, <2>3
  <2>. QED BY <2>4, <2>5
<1>11. ASSUME NEW r \in Requests, RequestDies(r) PROVE Past' /\ Rest'
  <2>1. /\ req'[r].pc = "idle" /\ \A q \in Requests \ {r} : req'[q] = req[q]
        /\ "death" \in disturbed' /\ rows' = rows
    BY <1>0, <1>11 DEF RequestDies, TypeOK, Idle
  <2>2. Stored' = Stored
    BY <1>1, <2>1
  <2>. QED BY <1>2, <2>1, <2>2 DEF PastRows
<1>12. ASSUME disturbed' = Meanwhile(disturbed \cup {"lot"}), req' = req,
              disturbed' \subseteq {"lot"}
       PROVE  /\ disturbed \subseteq {"lot"} /\ AtRest /\ Settled /\ Settled'
              /\ Verdicts' /\ ~\E r \in Requests : PastRows(r)
  BY <1>12 DEF Meanwhile, AtRest, Settled, PastRows
<1>13. CostBasis = CostBasisOf(rows) /\ CostBasis' = CostBasisOf(rows')
  BY DEF CostBasis, CostBasisOf
<1>14. ASSUME NEW lot \in Lots, RecordOpeningLot(lot) PROVE Past' /\ Rest'
  <2>1. /\ rows' = Added(rows, LotRow(SingleLot, lot)) /\ block' = block /\ req' = req
        /\ disturbed' = Meanwhile(disturbed \cup {"lot"})
    BY <1>14 DEF RecordOpeningLot
  <2>2. Stored' = Stored
    BY <1>0, <1>1, <2>1, StoredBesideLot
  <2>3. HasSingleLot'
    <3>1. LotRow(SingleLot, lot) \in Row
      BY <1>0, RowTypes
    <3>2. NewId(rows) \in DOMAIN rows' /\ rows'[NewId(rows)] = LotRow(SingleLot, lot)
      BY <1>0, <2>1, <3>1, AddedLedger
    <3>3. LotRow(SingleLot, lot).n = SingleLot
      BY DEF LotRow
    <3>. QED BY <3>2, <3>3 DEF HasSingleLot
  <2>4. Past'
    BY <1>2, <2>1, <2>2 DEF PastRows
  <2>5. ASSUME disturbed' \subseteq {"lot"} PROVE Verdicts' /\ Blocks' /\ Basis' /\ Flags'
    <3>1. /\ disturbed \subseteq {"lot"} /\ AtRest /\ Settled /\ Settled' /\ Verdicts'
      BY <1>12, <2>1, <2>5
    <3>2. Solvent(CostBasisOf(rows'))
      BY <1>0, <1>2, <1>13, <2>1, <3>1, LotBasisSolvent
    <3>. QED BY <1>2, <1>13, <2>1, <2>2, <2>3, <3>1, <3>2
  <2>. QED BY <2>4, <2>5
<1>15. ASSUME NEW b, IsLedger(b), Rederive(b), StoredIn(b) = Stored, req' = req,
              disturbed' = Meanwhile(disturbed \cup {"lot"}),
              Stored = {} => block' = NoBlock \/ block' = block
       PROVE  Past' /\ Rest'
  <2>1. Stored' = Stored
    BY <1>1, <1>15, Rederived
  <2>2. Past'
    BY <1>2, <1>15, <2>1 DEF PastRows
  <2>3. ASSUME disturbed' \subseteq {"lot"} PROVE Verdicts' /\ Blocks' /\ Basis' /\ Flags'
    <3>1. disturbed \subseteq {"lot"} /\ Verdicts'
      BY <1>12, <1>15, <2>3
    <3>2. Blocks'
      BY <1>2, <1>15, <2>1, <3>1
    <3>3. Basis'
      BY <1>13, <1>15, Rederived
    <3>4. Stored # {} => DOMAIN b # {}
      BY <1>15 DEF StoredIn
    <3>5. Flags'
      BY <1>15, <2>1, <3>4, Rederived
    <3>. QED BY <3>1, <3>2, <3>3, <3>5
  <2>. QED BY <2>2, <2>3
<1>16. ASSUME NEW lot \in Lots, RecordOpeningLots(lot) PROVE Past' /\ Rest'
  <2>. DEFINE b == Added(rows, LotRow(ReceiptLot, lot))
  <2>1. IsLedger(b) /\ StoredIn(b) = Stored /\ DOMAIN b # {}
    BY <1>0, RowTypes, AddedLedger, StoredBesideLot
  <2>2. /\ Rederive(b) /\ req' = req /\ ~HasLots
        /\ disturbed' = Meanwhile(disturbed \cup {"lot"})
    BY <1>16 DEF RecordOpeningLots
  <2>3. ASSUME Stored = {} PROVE block' = NoBlock
    <3>1. Solvent(b)
      BY <1>0, <2>2, <2>3, LoneLotSolvent
    <3>. HIDE DEF b
    <3>2. block' = BlockOf(Judged(b))
      BY <2>1, <2>2 DEF Rederive
    <3>. QED BY <3>1, <3>2 DEF Judged, BlockOf
  <2>. HIDE DEF b
  <2>. QED BY <1>15, <2>1, <2>2, <2>3
<1>17. CASE RemoveOpeningLots
  <2>. DEFINE b == WithoutLots(rows)
  <2>1. IsLedger(b) /\ StoredIn(b) = Stored /\ DOMAIN b = {k \in DOMAIN rows : ~IsLot(rows[k])}
    BY <1>0, WithoutLotsIsPart, StoredParts DEF IsPart
  <2>2. /\ Rederive(b) /\ req' = req
        /\ disturbed' = Meanwhile(disturbed \cup {"lot"})
    BY <1>17 DEF RemoveOpeningLots
  <2>. HIDE DEF b
  <2>3. ASSUME Stored = {} PROVE block' = block
    <3>1. DOMAIN b = {}
      BY <2>1, <2>3 DEF Stored, IsLot
    <3>. QED BY <2>1, <2>2, <3>1, Rederived
  <2>. QED BY <1>15, <2>1, <2>2, <2>3
<1>18. CASE UNCHANGED vars
  <2>1. UNCHANGED <<rows, block, req, disturbed>>
    BY <1>18 DEF vars
  <2>2. Stored' = Stored /\ CostBasis' = CostBasis /\ HasSingleLot' = HasSingleLot
        /\ Judged(rows') = Judged(rows) /\ Solvent(rows') = Solvent(rows)
        /\ Settled' = Settled
    BY <1>1, <2>1 DEF CostBasis, HasSingleLot, Settled
  <2>. QED BY <1>2, <2>1, <2>2 DEF PastRows
<1>. QED
  BY <1>4, <1>6, <1>7, <1>8, <1>9, <1>10, <1>11, <1>14, <1>16, <1>17, <1>18 DEF Next

LEMMA BucketAlways == Spec => []BucketInv
BY BucketInit, BucketNext, PTL DEF Spec

(* What feeds FIFO never oversells, once an import is over: not between    *)
(* two of its steps, and not when imports overlap or die                   *)
(* (_reconcile_cost_basis_completeness, _supersede_opening_lots,           *)
(* record_opening_lot, record_opening_lots, remove_opening_lots).          *)
THEOREM CostBasisNeverOversells == Spec => []CostBasisIsSolvent
<1>1. BucketInv => CostBasisIsSolvent
  BY DEF BucketInv, CostBasisIsSolvent, OneByOne, AtRest, Settled
<1>. QED BY <1>1, BucketAlways, PTL

-----------------------------------------------------------------------------
(* The account never sells what it does not hold, so every prefix of its   *)
(* trades is solvent; and when no two of them share a day, replay puts     *)
(* stored trades back in the order they were made.                         *)
HistoryInv ==
  /\ \A n \in Numbers : BalanceOf(history, n) >= 0
  /\ ~SameDay => \A n \in Numbers : history[n].day = n

LEMMA PrefixSolvent ==
  ASSUME TypeOK, Faithful(rows), HistoryInv, ~SameDay, ~HasLots, NothingMissing
  PROVE  Solvent(rows)
<1>1. /\ IsLedger(rows) /\ \A n \in Numbers : history[n].units \in Int
      /\ DOMAIN history = Numbers
  BY RowTypes, TradebookAssumption DEF TypeOK
<1>2. \A k \in DOMAIN rows : /\ rows[k].n \in Numbers /\ rows[k].n \in Nat \ {0}
                             /\ rows[k].day = rows[k].n
                             /\ rows[k].units = history[rows[k].n].units
  BY DEF HasLots, IsLot, Faithful, HistoryInv, Numbers
<1>3. \A j, k \in DOMAIN rows : rows[j].n = rows[k].n => j = k
  BY <1>2 DEF Faithful, IsLot
<1>4. Cardinality(Stored) \in Nat
  <2>1. Stored \subseteq 1..Trades /\ IsFiniteSet(1..Trades)
    BY TradebookAssumption, FS_Interval DEF Stored, Numbers
  <2>. QED BY <2>1, FS_Subset, FS_CardinalityType
<1>5. SUFFICES ASSUME NEW k \in DOMAIN rows
               PROVE  SumFunctionOnSet(UnitsOf(rows), UpTo(rows, k)) >= 0
  BY DEF Solvent, Running
<1>. DEFINE S == {j \in DOMAIN rows : rows[j].n <= rows[k].n}
            R == 1..rows[k].n
            tradeOf == [j \in S |-> rows[j].n]
<1>6. UpTo(rows, k) = S
  <2>1. \A j \in DOMAIN rows : (rows[j].n = rows[k].n) => j = k
    BY <1>3
  <2>2. DOMAIN rows \subseteq Nat
    BY <1>1 DEF IsLedger
  <2>. QED BY <1>2, <2>1, <2>2 DEF UpTo
<1>7. IsFiniteSet(S) /\ IsFiniteSet(R)
  <2>1. S \subseteq DOMAIN rows /\ IsFiniteSet(DOMAIN rows)
    BY <1>1 DEF IsLedger
  <2>2. IsFiniteSet(S)
    BY <2>1, FS_Subset
  <2>3. IsFiniteSet(R)
    <3>1. 1 \in Int /\ rows[k].n \in Int
      BY <1>2
    <3>. QED BY <3>1, FS_Interval
  <2>. QED BY <2>2, <2>3
<1>8. R \subseteq Stored
  <2>1. rows[k].n \in Stored
    BY <1>2 DEF Stored
  <2>2. Stored = 1..Cardinality(Stored)
    BY DEF NothingMissing
  <2>3. rows[k].n \in 1..Cardinality(Stored)
    BY <2>1, <2>2
  <2>. QED BY <1>2, <1>4, <2>2, <2>3
<1>9. \A j \in S : /\ UnitsOf(rows)[j] \in Int /\ tradeOf[j] \in R
                   /\ UnitsOf(history)[tradeOf[j]] = UnitsOf(rows)[j]
  BY <1>1, <1>2 DEF UnitsOf
<1>10. \A i, j \in S : tradeOf[i] = tradeOf[j] => i = j
  BY <1>3
<1>11. \A r \in R : \E j \in S : tradeOf[j] = r
  <2>. SUFFICES ASSUME NEW r \in R PROVE \E j \in S : tradeOf[j] = r
    OBVIOUS
  <2>1. PICK j \in DOMAIN rows : rows[j].n = r
    BY <1>8 DEF Stored
  <2>2. j \in S
    BY <1>2, <2>1
  <2>. QED BY <2>1, <2>2
<1>12. SumFunctionOnSet(UnitsOf(history), R) = SumFunctionOnSet(UnitsOf(rows), S)
  <2>. HIDE DEF S, R, tradeOf
  <2>. QED BY <1>7, <1>9, <1>10, <1>11, SumRename
<1>13. SumFunctionOnSet(UnitsOf(history), R) >= 0
  BY <1>2 DEF HistoryInv, BalanceOf
<1>. QED BY <1>6, <1>12, <1>13

LEMMA HistoryStays == HistoryInv /\ [Next]_vars => HistoryInv'
<1>. SUFFICES ASSUME HistoryInv, [Next]_vars PROVE HistoryInv'
  OBVIOUS
<1>1. history' = history
  BY DEF Next, vars, StartImport, ProcessRow, SupersedeOpeningLots, JudgeCompleteness,
         MarkCompleteness, QueueRecompute, RequestDies, RecordOpeningLot,
         RecordOpeningLots, RemoveOpeningLots
<1>. QED BY <1>1 DEF HistoryInv

(* When no two trades share a day, once an import is over and every trade  *)
(* up to the last stored one is on file, all of them carry cost basis and  *)
(* no partial block is left, whatever order they came in and whatever      *)
(* opening lots came and went (_reconcile_cost_basis_completeness).        *)
THEOREM OrderNeverMatters ==
  ASSUME ~SameDay
  PROVE  Spec => []OrderIndependent
<1>1. Init => HistoryInv
  BY DEF Init, HistoryInv
<1>2. BucketInv /\ HistoryInv => OrderIndependent
  <2>. SUFFICES ASSUME BucketInv, HistoryInv, OneByOne, ~HasLots, NothingMissing
                PROVE  block = NoBlock /\ \A k \in DOMAIN rows : rows[k].complete
    BY DEF OrderIndependent
  <2>1. TypeOK /\ Faithful(rows) /\ IsLedger(rows)
    BY RowTypes DEF BucketInv, LedgerInv
  <2>2. disturbed \subseteq {"lot"} /\ Settled
    BY DEF OneByOne, AtRest, Settled
  <2>3. CASE Stored = {}
    <3>1. DOMAIN rows = {}
      BY <2>3 DEF Stored, HasLots, IsLot
    <3>2. block = NoBlock
      BY <2>2, <2>3 DEF BucketInv
    <3>. QED BY <3>1, <3>2
  <2>4. CASE Stored # {}
    <3>1. ~HasSingleLot
      BY DEF HasLots, HasSingleLot, IsLot, SingleLot, Numbers
    <3>2. /\ block = BlockOf(Judged(rows))
          /\ \A k \in DOMAIN rows : rows[k].complete = Solvent(rows)
      BY <2>2, <2>4, <3>1 DEF BucketInv
    <3>3. Solvent(rows)
      BY <2>1, PrefixSolvent
    <3>. QED BY <3>2, <3>3 DEF BlockOf, Judged
  <2>. QED BY <2>3, <2>4
<1>. QED BY <1>1, <1>2, BucketAlways, HistoryStays, PTL DEF Spec
=============================================================================
