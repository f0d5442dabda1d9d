----------------------------- MODULE EcasImport -----------------------------
(***************************************************************************)
(* Importing the depositories' consolidated statement (eCAS) of one        *)
(* investor (app/tasks/import_ecas.py).  A statement is the full snapshot  *)
(* of every demat account on one date: it replaces all prior eCAS          *)
(* holdings.  Checks that protect the data on file (reject-older,          *)
(* confirm-before-removal) run before the replacing transaction opens, a   *)
(* line that cannot be stored is set aside inside it, and ledgers of       *)
(* tradebooks stranded on an unknown account number are re-linked after it.*)
(***************************************************************************)
EXTENDS Naturals, FiniteSets

CONSTANTS
  Requests,    \* import requests that can run at the same time
  Isins,       \* the securities
  Folios,      \* demat account numbers, real or mistyped
  LastDate,    \* bound: statement dates are 1..LastDate
  MaxBadLines, \* bound: lines of one statement that cannot be stored
  MaxImports,  \* bound: eCAS uploads
  MaxTradebooks, \* bound: tradebook uploads
  MaxFaults    \* bound: requests that die between two steps

ASSUME EcasAssumption ==
  /\ IsFiniteSet(Isins) /\ IsFiniteSet(Folios)
  /\ LastDate \in Nat \ {0} /\ MaxBadLines \in Nat
  /\ MaxImports \in Nat /\ MaxTradebooks \in Nat /\ MaxFaults \in Nat

NoDate == 0
Lines  == Isins \X Folios        \* an eCAS holding: a security in an account
Isin(line)  == line[1]
Folio(line) == line[2]

VARIABLES
  holdings,  \* the eCAS Holding rows
  asOf,      \* their as_of_date (all rows of a statement share it)
  ledger,    \* per account number, the securities its CSV transactions are in
  known,     \* history: ledgers that an eCAS has matched, as <<isin, folio>>
  newest,    \* history: the date of the newest statement ever stored
  req,       \* per request: its step and its statement
  imports, tradebooks, faults

vars == <<holdings, asOf, ledger, known, newest, req, imports, tradebooks, faults>>
budget == <<imports, tradebooks, faults>>

Statements ==
  {s \in [date : 1..LastDate, lines : SUBSET Lines, bad : SUBSET Lines] :
     s.bad \subseteq s.lines /\ Cardinality(s.bad) <= MaxBadLines}
NoStatement == [date |-> NoDate, lines |-> {}, bad |-> {}]

IsinsOf(lines) == {Isin(line) : line \in lines}
At(lines, f)   == {Isin(line) : line \in {l \in lines : Folio(l) = f}}

TypeOK ==
  /\ holdings \subseteq Lines
  /\ asOf \in 0..LastDate /\ (holdings = {} <=> asOf = NoDate)
  /\ ledger \in [Folios -> SUBSET Isins]
  /\ known \subseteq Lines /\ newest \in 0..LastDate
  /\ req \in [Requests -> [pc : {"idle", "persist", "relink"},
                           stmt : Statements \union {NoStatement},
                           confirm : BOOLEAN]]
  /\ imports \in 0..MaxImports /\ tradebooks \in 0..MaxTradebooks
  /\ faults \in 0..MaxFaults

Idle == [pc |-> "idle", stmt |-> NoStatement, confirm |-> FALSE]

Init ==
  /\ holdings = {} /\ asOf = NoDate
  /\ ledger = [f \in Folios |-> {}]
  /\ known = {} /\ newest = NoDate
  /\ req = [r \in Requests |-> Idle]
  /\ imports = 0 /\ tradebooks = 0 /\ faults = 0

-----------------------------------------------------------------------------
(* The two checks.                                                         *)
NeverStale(s) == FALSE                            \* mistaken: accepts any date
TooOld(s) == asOf # NoDate /\ s.date < asOf

(* Securities on file that the statement does not list (in any account).   *)
RemovedFromFile(s) == {}                          \* mistaken: removes silently
Removed(s) == IsinsOf(holdings) \ IsinsOf(s.lines)

(* An older statement raises and a removal without confirm is only         *)
(* previewed: neither persists anything.                                   *)
CheckStatement(r, s, confirm) ==
  /\ req[r].pc = "idle"
  /\ imports < MaxImports
  /\ imports' = imports + 1
  /\ req' = IF TooOld(s) \/ (Removed(s) # {} /\ ~confirm) THEN req
            ELSE [req EXCEPT ![r] = [pc |-> "persist", stmt |-> s, confirm |-> confirm]]
  /\ UNCHANGED <<holdings, asOf, ledger, known, newest, tradebooks, faults>>

(* One transaction drops every prior eCAS holding and writes the lines     *)
(* that can be stored.                                                     *)
Stored(s) == s.lines \ s.bad

StoredDate(s) == IF Stored(s) = {} THEN NoDate ELSE s.date

ReplaceHoldings(r) ==
  LET s == req[r].stmt IN
  /\ req[r].pc = "persist"
  /\ holdings' = Stored(s)
  /\ asOf' = StoredDate(s)
  /\ newest' = s.date
  /\ known' = known \union {l \in Stored(s) : Isin(l) \in ledger[Folio(l)]}
  /\ req' = [req EXCEPT ![r].pc = "relink"]
  /\ UNCHANGED <<ledger, budget>>

-----------------------------------------------------------------------------
(* A demat account with tradebook rows and no eCAS holding is dangling; a  *)
(* single dangling one whose securities only one listed account shares is  *)
(* moved there.                                                            *)
Listed      == {Folio(l) : l \in holdings}
Dangling    == {f \in Folios : ledger[f] # {} /\ f \notin Listed}
Candidates(f) == {t \in Listed : At(holdings, t) \intersect ledger[f] # {}}

RepointOver(f, t) == [ledger EXCEPT ![f] = {}, ![t] = ledger[f]]  \* mistaken: replaces
Repoint(f, t) == [ledger EXCEPT ![f] = {}, ![t] = @ \union ledger[f]]

ReassociateDanglingFolios(r) ==
  /\ req[r].pc = "relink"
  /\ ledger' = IF Cardinality(Dangling) = 1
               THEN LET f == CHOOSE d \in Dangling : TRUE IN
                    IF Cardinality(Candidates(f)) = 1
                    THEN Repoint(f, CHOOSE t \in Candidates(f) : TRUE)
                    ELSE ledger
               ELSE ledger
  /\ req' = [req EXCEPT ![r] = Idle]
  /\ UNCHANGED <<holdings, asOf, known, newest, budget>>

(* A tradebook attributes its trades to the account number typed in.       *)
ImportTradebook(f, i) ==
  /\ tradebooks < MaxTradebooks
  /\ tradebooks' = tradebooks + 1
  /\ ledger' = [ledger EXCEPT ![f] = @ \union {i}]
  /\ known' = IF <<i, f>> \in holdings THEN known \union {<<i, f>>} ELSE known
  /\ UNCHANGED <<holdings, asOf, newest, req, imports, faults>>

RequestDies(r) ==
  /\ req[r].pc # "idle"
  /\ faults < MaxFaults
  /\ faults' = faults + 1
  /\ req' = [req EXCEPT ![r] = Idle]
  /\ UNCHANGED <<holdings, asOf, ledger, known, newest, imports, tradebooks>>

Next ==
  \/ \E r \in Requests :
       \/ \E s \in Statements, confirm \in BOOLEAN : CheckStatement(r, s, confirm)
       \/ ReplaceHoldings(r)
       \/ ReassociateDanglingFolios(r)
       \/ RequestDies(r)
  \/ \E f \in Folios, i \in Isins : ImportTradebook(f, i)

Spec == Init /\ [][Next]_vars
-----------------------------------------------------------------------------
(* Properties.                                                             *)

(* confirm-before-removal: a security on file disappears only in an import *)
(* whose user has confirmed removals.                                      *)
RemovalIsConfirmed ==
  [][\A i \in IsinsOf(holdings) \ IsinsOf(holdings)' :
       \E r \in Requests : req[r].pc = "persist" /\ req'[r].pc = "relink"
                           /\ req[r].confirm]_vars

(* reject-older: holdings from a newer statement are never replaced by an  *)
(* older one's.                                                            *)
NewestWins == [][holdings # {} => newest' >= newest]_vars

(* Re-linking moves ledgers and loses none: every security somebody        *)
(* imported trades of is still in some account's ledger.                   *)
Traded == UNION {ledger[f] : f \in Folios}
RelinkKeepsLedgers == [][Traded \subseteq Traded']_vars

(* Only a ledger whose account number never matched a depository account   *)
(* is moved (the docstring of _reassociate_dangling_folios).               *)
MatchedLedgerStays ==
  [][\A line \in known :
       Isin(line) \in ledger[Folio(line)] => Isin(line) \in ledger'[Folio(line)]]_vars
=============================================================================
