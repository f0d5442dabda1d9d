-------------------------- MODULE EcasImportProofs --------------------------
(***************************************************************************)
(* Proofs about EcasImport, for every set of securities, accounts and      *)
(* requests and every value of the bounds.                                 *)
(***************************************************************************)
EXTENDS EcasImport, FiniteSetTheorems, TLAPS

States == [pc : {"idle", "persist", "relink"},
           stmt : Statements \union {NoStatement}, confirm : BOOLEAN]

LEMMA StatementTypes ==
  /\ \A s \in Statements : s.date \in 1..LastDate /\ s.lines \subseteq Lines
  /\ \A s \in Statements \union {NoStatement} :
       s.date \in 0..LastDate /\ s.lines \subseteq Lines /\ Stored(s) \subseteq Lines
  /\ Idle \in States /\ Idle.pc = "idle"
BY EcasAssumption DEF Statements, NoStatement, NoDate, Stored, Idle, States

LEMMA TypeInit == Init => TypeOK
BY EcasAssumption, StatementTypes DEF Init, TypeOK, States, NoDate

(* The ledger after a re-linking: the same, or one account's securities    *)
(* added to another's.                                                     *)
LEMMA RelinkWriters ==
  ASSUME TypeOK, NEW r \in Requests, ReassociateDanglingFolios(r)
  PROVE  \/ ledger' = ledger
         \/ \E f, t \in Folios : /\ f # t
                                 /\ ledger' = [ledger EXCEPT ![f] = {}, ![t] = @ \union ledger[f]]
<1>. DEFINE f == CHOOSE d \in Dangling : TRUE
            t == CHOOSE u \in Candidates(f) : TRUE
<1>1. CASE ledger' = ledger
  BY <1>1
<1>2. CASE Cardinality(Dangling) = 1 /\ Cardinality(Candidates(f)) = 1
  <2>0. Cardinality({}) = 0
    BY FS_EmptySet
  <2>1. Dangling # {} /\ Candidates(f) # {}
    <3>. HIDE DEF f
    <3>. QED
      BY <1>2, <2>0
  <2>2. f \in Dangling /\ t \in Candidates(f)
    BY <2>1
  <2>3. f \in Folios /\ f \notin Listed /\ t \in Listed
    BY <2>2 DEF Dangling, Candidates
  <2>4. t \in Folios
    BY <2>3 DEF Listed, TypeOK, Lines, Folio
  <2>5. ledger' = Repoint(f, t)
    BY <1>2 DEF ReassociateDanglingFolios
  <2>. QED
    BY <2>3, <2>4, <2>5 DEF Repoint
<1>. QED
  BY <1>1, <1>2 DEF ReassociateDanglingFolios

LEMMA TypeNext == TypeOK /\ [Next]_vars => TypeOK'
<1>. SUFFICES ASSUME TypeOK, [Next]_vars PROVE TypeOK'
  OBVIOUS
<1>. USE EcasAssumption, StatementTypes
<1>1. ASSUME NEW r \in Requests, NEW s \in Statements, NEW confirm \in BOOLEAN,
             CheckStatement(r, s, confirm)
      PROVE  TypeOK'
  <2>1. [pc |-> "persist", stmt |-> s, confirm |-> confirm] \in States
    BY DEF States
  <2>2. req' \in [Requests -> States]
    BY <1>1, <2>1 DEF CheckStatement, TypeOK, States
  <2>. QED
    BY <1>1, <2>2 DEF CheckStatement, TypeOK, States
<1>2. ASSUME NEW r \in Requests, ReplaceHoldings(r) PROVE TypeOK'
  <2>. DEFINE s == req[r].stmt
  <2>1. req[r] \in States /\ s \in Statements \union {NoStatement}
    BY DEF TypeOK, States
  <2>2. s.date \in 0..LastDate /\ Stored(s) \subseteq Lines
    BY <2>1
  <2>3. Stored(s) # {} => s.date # NoDate
    <3>1. CASE s \in Statements
      BY <3>1 DEF NoDate
    <3>2. CASE s = NoStatement
      BY <3>2 DEF NoStatement, Stored
    <3>. QED
      BY <2>1, <3>1, <3>2
  <2>4. /\ asOf' \in 0..LastDate
        /\ holdings' = {} <=> asOf' = NoDate
    BY <1>2, <2>2, <2>3 DEF ReplaceHoldings, StoredDate, NoDate
  <2>5. holdings' \subseteq Lines /\ known' \subseteq Lines /\ newest' \in 0..LastDate
    BY <1>2, <2>2 DEF ReplaceHoldings, TypeOK
  <2>6. req' \in [Requests -> States]
    BY <1>2, <2>1 DEF ReplaceHoldings, TypeOK, States
  <2>. QED
    BY <1>2, <2>4, <2>5, <2>6 DEF ReplaceHoldings, TypeOK, States, budget
<1>3. ASSUME NEW r \in Requests, ReassociateDanglingFolios(r) PROVE TypeOK'
  <2>1. ledger' \in [Folios -> SUBSET Isins]
    BY <1>3, RelinkWriters DEF TypeOK
  <2>2. req' \in [Requests -> States]
    BY <1>3 DEF ReassociateDanglingFolios, TypeOK, States
  <2>. QED
    BY <1>3, <2>1, <2>2 DEF ReassociateDanglingFolios, TypeOK, States, budget
<1>4. ASSUME NEW r \in Requests, RequestDies(r) PROVE TypeOK'
  <2>1. req' \in [Requests -> States]
    BY <1>4 DEF RequestDies, TypeOK, States
  <2>. QED
    BY <1>4, <2>1 DEF RequestDies, TypeOK, States
<1>5. ASSUME NEW f \in Folios, NEW i \in Isins, ImportTradebook(f, i) PROVE TypeOK'
  <2>1. <<i, f>> \in Lines
    BY DEF Lines
  <2>. QED
    BY <1>5, <2>1 DEF ImportTradebook, TypeOK
<1>6. CASE UNCHANGED vars
  BY <1>6 DEF vars, TypeOK
<1>. QED
  BY <1>1, <1>2, <1>3, <1>4, <1>5, <1>6 DEF Next

(* Holdings, the date they share, ledgers and requests keep their types;   *)
(* there is a date on file exactly when there is a holding                 *)
(* (persist_ecas_statement).                                               *)
THEOREM TypeCorrect == Spec => []TypeOK
BY TypeInit, TypeNext, PTL DEF Spec

-----------------------------------------------------------------------------
(* Re-linking, importing a tradebook and replacing the snapshot lose no    *)
(* ledger, whatever overlaps and whatever dies (_repoint_folio).           *)
THEOREM LedgersAreKept == Spec => RelinkKeepsLedgers
<1>1. TypeOK /\ [Next]_vars => [Traded \subseteq Traded']_vars
  <2>. SUFFICES ASSUME TypeOK, Next PROVE Traded \subseteq Traded'
    OBVIOUS
  <2>1. ASSUME NEW r \in Requests, ReassociateDanglingFolios(r)
        PROVE  Traded \subseteq Traded'
    <3>1. CASE ledger' = ledger
      BY <3>1 DEF Traded
    <3>2. ASSUME NEW f \in Folios, NEW t \in Folios, f # t,
                 ledger' = [ledger EXCEPT ![f] = {}, ![t] = @ \union ledger[f]]
          PROVE  Traded \subseteq Traded'
      <4>1. ASSUME NEW u \in Folios, NEW i \in ledger[u] PROVE \E v \in Folios : i \in ledger'[v]
        <5>1. CASE u = f
          BY <3>2, <4>1, <5>1 DEF TypeOK
        <5>2. CASE u # f
          BY <3>2, <4>1, <5>2 DEF TypeOK
        <5>. QED
          BY <5>1, <5>2
      <4>. QED
        BY <4>1 DEF Traded
    <3>. QED
      BY <2>1, <3>1, <3>2, RelinkWriters
  <2>2. ASSUME NEW f \in Folios, NEW i \in Isins, ImportTradebook(f, i)
        PROVE  Traded \subseteq Traded'
    BY <2>2 DEF ImportTradebook, Traded, TypeOK
  <2>3. ASSUME ledger' = ledger PROVE Traded \subseteq Traded'
    BY <2>3 DEF Traded
  <2>. QED
    BY <2>1, <2>2, <2>3 DEF Next, CheckStatement, ReplaceHoldings, RequestDies
<1>. QED
  BY <1>1, TypeCorrect, PTL DEF Spec, RelinkKeepsLedgers

-----------------------------------------------------------------------------
(* The two checks, for imports of one investor that do not overlap: what a *)
(* request found when it checked still stands when it persists.            *)
CheckedInv ==
  /\ TypeOK
  /\ holdings # {} => asOf = newest
  /\ \A r \in Requests : req[r].pc = "persist" =>
       /\ ~TooOld(req[r].stmt)
       /\ Removed(req[r].stmt) # {} => req[r].confirm

LEMMA CheckedNext ==
  ASSUME NEW only, Requests = {only}, CheckedInv, [Next]_vars
  PROVE  CheckedInv'
<1>0. TypeOK /\ TypeOK'
  BY TypeNext DEF CheckedInv
<1>1. ASSUME holdings' = holdings, asOf' = asOf, newest' = newest,
             req'[only].pc = "persist" =>
               /\ ~TooOld(req'[only].stmt)
               /\ Removed(req'[only].stmt) # {} => req'[only].confirm
      PROVE  CheckedInv'
  BY <1>0, <1>1 DEF CheckedInv, TooOld, Removed
<1>2. ASSUME NEW r \in Requests, NEW s \in Statements, NEW confirm \in BOOLEAN,
             CheckStatement(r, s, confirm)
      PROVE  CheckedInv'
  <2>1. CASE req' = req
    BY <1>1, <1>2, <2>1 DEF CheckStatement, CheckedInv
  <2>2. CASE ~(TooOld(s) \/ (Removed(s) # {} /\ ~confirm))
    <3>1. req'[only] = [pc |-> "persist", stmt |-> s, confirm |-> confirm]
      BY <1>0, <1>2, <2>2 DEF CheckStatement, TypeOK
    <3>. QED
      BY <1>1, <1>2, <2>2, <3>1 DEF CheckStatement
  <2>. QED
    BY <1>2, <2>1, <2>2 DEF CheckStatement
<1>3. ASSUME NEW r \in Requests, ReplaceHoldings(r) PROVE CheckedInv'
  <2>1. req'[only].pc = "relink"
    BY <1>0, <1>3 DEF ReplaceHoldings, TypeOK
  <2>2. holdings' # {} => asOf' = newest'
    BY <1>3 DEF ReplaceHoldings, StoredDate
  <2>. QED
    BY <1>0, <2>1, <2>2 DEF CheckedInv
<1>4. ASSUME NEW r \in Requests, ReassociateDanglingFolios(r) \/ RequestDies(r)
      PROVE  CheckedInv'
  <2>1. req'[only].pc = "idle"
    BY <1>0, <1>4 DEF ReassociateDanglingFolios, RequestDies, TypeOK, Idle
  <2>. QED
    BY <1>1, <1>4, <2>1 DEF ReassociateDanglingFolios, RequestDies
<1>5. ASSUME NEW f \in Folios, NEW i \in Isins, ImportTradebook(f, i) PROVE CheckedInv'
  BY <1>1, <1>5 DEF ImportTradebook, CheckedInv
<1>6. CASE UNCHANGED vars
  BY <1>1, <1>6 DEF vars, CheckedInv
<1>. QED
  BY <1>2, <1>3, <1>4, <1>5, <1>6 DEF Next

LEMMA CheckedInit == Init => CheckedInv
<1>. SUFFICES ASSUME Init PROVE CheckedInv
  OBVIOUS
<1>1. \A r \in Requests : req[r].pc = "idle"
  BY DEF Init, Idle
<1>. QED
  BY <1>1, TypeInit DEF Init, CheckedInv

(* Only ReplaceHoldings changes the holdings.                              *)
LEMMA HoldingsWriter ==
  ASSUME [Next]_vars, holdings' # holdings \/ newest' # newest
  PROVE  \E r \in Requests : ReplaceHoldings(r)
BY DEF Next, vars, CheckStatement, ReassociateDanglingFolios, RequestDies, ImportTradebook

(* reject-older (persist_ecas_statement): one import after another, the    *)
(* holdings of a newer statement are never replaced by an older one's.     *)
THEOREM NewestStatementWins ==
  ASSUME NEW only, Requests = {only}
  PROVE  Spec => NewestWins
<1>1. CheckedInv /\ [Next]_vars => [holdings # {} => newest' >= newest]_vars
  <2>. SUFFICES ASSUME CheckedInv, [Next]_vars, holdings # {} PROVE newest' >= newest
    OBVIOUS
  <2>0. newest \in Nat
    BY EcasAssumption DEF CheckedInv, TypeOK
  <2>1. ASSUME NEW r \in Requests, ReplaceHoldings(r) PROVE newest' >= newest
    <3>1. ~TooOld(req[r].stmt) /\ asOf = newest /\ asOf # NoDate
      BY <2>1 DEF ReplaceHoldings, CheckedInv, TypeOK
    <3>2. req[r].stmt.date \in 0..LastDate
      BY StatementTypes DEF CheckedInv, TypeOK
    <3>. QED
      BY <2>0, <2>1, <3>1, <3>2, EcasAssumption DEF ReplaceHoldings, TooOld
  <2>2. CASE newest' = newest
    BY <2>0, <2>2
  <2>. QED
    BY <2>1, <2>2, HoldingsWriter
<1>2. Init => CheckedInv
  BY CheckedInit
<1>3. CheckedInv /\ [Next]_vars => CheckedInv'
  BY CheckedNext
<1>. QED
  BY <1>1, <1>2, <1>3, PTL DEF Spec, NewestWins

(* A statement of which every line can be stored.                          *)
LEMMA NothingBad ==
  ASSUME MaxBadLines = 0, NEW s \in Statements \union {NoStatement}
  PROVE  Stored(s) = s.lines
<1>1. CASE s = NoStatement
  BY <1>1 DEF NoStatement, Stored
<1>2. CASE s \in Statements
  <2>1. s.bad \subseteq Lines /\ Cardinality(s.bad) <= 0
    BY <1>2 DEF Statements
  <2>2. IsFiniteSet(Lines)
    BY EcasAssumption, FS_Product DEF Lines
  <2>3. IsFiniteSet(s.bad)
    BY <2>1, <2>2, FS_Subset
  <2>4. Cardinality(s.bad) \in Nat
    BY <2>3, FS_CardinalityType
  <2>5. s.bad = {}
    BY <2>1, <2>3, <2>4, FS_EmptySet
  <2>. QED
    BY <2>5 DEF Stored
<1>. QED
  BY <1>1, <1>2

(* confirm-before-removal (persist_ecas_statement): one import after       *)
(* another, and no line set aside, a security leaves only when the user    *)
(* has confirmed.  A line set aside does break it: README, section 5.      *)
THEOREM RemovalNeedsConfirmation ==
  ASSUME MaxBadLines = 0, NEW only, Requests = {only}
  PROVE  Spec => RemovalIsConfirmed
<1>1. CheckedInv /\ [Next]_vars
        => [\A i \in IsinsOf(holdings) \ IsinsOf(holdings)' :
              \E r \in Requests : req[r].pc = "persist" /\ req'[r].pc = "relink"
                                  /\ req[r].confirm]_vars
  <2>. SUFFICES ASSUME CheckedInv, [Next]_vars,
                       NEW i \in IsinsOf(holdings) \ IsinsOf(holdings')
                PROVE  \E r \in Requests : req[r].pc = "persist" /\ req'[r].pc = "relink"
                                           /\ req[r].confirm
    BY DEF IsinsOf
  <2>1. PICK r \in Requests : ReplaceHoldings(r)
    BY HoldingsWriter
  <2>2. req[r].stmt \in Statements \union {NoStatement}
    BY DEF CheckedInv, TypeOK
  <2>3. holdings' = req[r].stmt.lines
    BY <2>1, <2>2, NothingBad DEF ReplaceHoldings
  <2>4. i \in Removed(req[r].stmt)
    BY <2>3 DEF Removed
  <2>5. req[r].pc = "persist" /\ req[r].confirm
    BY <2>1, <2>4 DEF ReplaceHoldings, CheckedInv
  <2>6. req'[r].pc = "relink"
    BY <2>1 DEF ReplaceHoldings, CheckedInv, TypeOK
  <2>. QED
    BY <2>5, <2>6
<1>2. Init => CheckedInv
  BY CheckedInit
<1>3. CheckedInv /\ [Next]_vars => CheckedInv'
  BY CheckedNext
<1>. QED
  BY <1>1, <1>2, <1>3, PTL DEF Spec, RemovalIsConfirmed
=============================================================================
