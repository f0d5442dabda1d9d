------------------------------ MODULE Workspace ------------------------------
(***************************************************************************)
(* One advisor's investors, the imports that create and fill them, the     *)
(* import jobs and the quarantine (app/api/imports.py, api/auth.py,        *)
(* api/investors.py, services/imports.py, models/jobs.py).                 *)
(*                                                                         *)
(* A CAS names its investor by PAN and the server finds or creates that    *)
(* investor; a tradebook is uploaded for an investor that is there.  Every *)
(* import is a job; lines that could not be stored are set aside in the    *)
(* quarantine and cleared when a later import has stored them.  A request  *)
(* is a sequence of statements with nothing that locks the investor, so    *)
(* imports, edits and deletions of one investor interleave.  How an        *)
(* importer stores its lines is in MfCasImport, EcasImport and             *)
(* TradebookImport; here it stores or sets aside each line.                *)
(***************************************************************************)
EXTENDS FiniteSets

CONSTANTS
  Imports,    \* the import requests, each with the job it creates
  Ids,        \* investor keys, never given out twice
  Pans,       \* the PANs of statements
  Lines,      \* a line: one security in one folio; no two share a security
  NoLine,     \* an entry of the quarantine that names no security
  Files,      \* the files that can be uploaded
  EditsAlone  \* whether edits of an investor are never overlapped by an import

NoPan == "no_pan"      \* the pan_hash of an investor without a PAN
NoInvestor == "none"   \* the lookup by PAN missed
Aside == Lines \union {NoLine}

Unused  == "unused"    \* no investor has had this key
Deleted == "deleted"

ASSUME FilesAssumption ==
  /\ {NoPan, Unused, Deleted} \intersect Pans = {} /\ NoLine \notin Lines
  /\ NoInvestor \notin Ids \union Imports
  /\ Files \subseteq [kind : {"mf_cas", "ecas", "csv"}, pan : Pans \union {NoPan},
                      good : SUBSET Lines, bad : SUBSET Aside, confirm : BOOLEAN]
  /\ \A f \in Files : /\ f.good \intersect f.bad = {}
                      /\ f.kind = "csv" <=> f.pan = NoPan
  /\ EditsAlone \in BOOLEAN

VARIABLES
  investor,   \* the Investor rows by key, by their PAN
  stored,     \* transactions and holdings: whose, from which file, which line
  imp,        \* per import: the step of its request and its job row
  quarantine, \* per job and line set aside: its row
  patch       \* an edit of an investor between its read and its save

vars == <<investor, stored, imp, quarantine, patch>>

Row(i)  == investor[i] \notin {Unused, Deleted}
With(p) == {i \in Ids : investor[i] = p}

(* resolved = FALSE is "open"; resolved = TRUE is "cleared" by an import or *)
(* "dismissed".  by and fixed are history: which import cleared the row,   *)
(* and whether the line has been stored since it was set aside.            *)
NoEntry   == [state |-> "none", by |-> NoInvestor, fixed |-> FALSE]
OpenEntry == [NoEntry EXCEPT !.state = "open"]

Statuses == {"none", "pending", "failed", "needs_confirmation",
             "completed_with_warnings", "success"}
Steps    == {"idle", "create", "job", "process", "save", "find", "resolve",
             "record", "done", "over"}
NoFile   == [kind |-> "csv", pan |-> NoPan, good |-> {}, bad |-> {}, confirm |-> FALSE]
NotYet   == [pc |-> "idle", file |-> NoFile, inv |-> NoInvestor, status |-> "none",
             outcome |-> "none", landed |-> FALSE, fixed |-> {}]
NoPatch  == [inv |-> NoInvestor, pan |-> NoPan]

Entries == Imports \X Aside

Jobs == [pc : Steps, file : Files \union {NoFile}, inv : Ids \union {NoInvestor},
         status : Statuses, outcome : Statuses, landed : BOOLEAN, fixed : SUBSET Entries]
Rejects == [state : {"none", "open", "cleared", "dismissed"},
            by : Imports \union {NoInvestor}, fixed : BOOLEAN]

TypeOK ==
  /\ investor \in [Ids -> Pans \union {NoPan, Unused, Deleted}]
  /\ stored \subseteq [inv : Ids, kind : {"mf_cas", "ecas", "csv"},
                       pan : Pans \union {NoPan}, line : Lines]
  /\ imp \in [Imports -> Jobs]
  /\ quarantine \in [Entries -> Rejects]
  /\ patch \in [inv : Ids \union {NoInvestor}, pan : Pans \union {NoPan}]
  /\ \A d \in stored : Row(d.inv)
  /\ \A j \in Imports : imp[j].status # "none" => imp[j].inv \in Ids /\ Row(imp[j].inv)
  /\ \A e \in Entries : quarantine[e].state # "none" => imp[e[1]].status # "none"

Init ==
  /\ investor = [i \in Ids |-> Unused]
  /\ stored = {}
  /\ imp = [j \in Imports |-> NotYet]
  /\ quarantine = [e \in Entries |-> NoEntry]
  /\ patch = NoPatch

-----------------------------------------------------------------------------
(* The request up to its job.  The database keeps PANs unique; an insert   *)
(* that would repeat one fails and takes its request with it.              *)
AnyPan(p)  == TRUE                       \* mistaken: no unique constraint
PanFree(p) == p = NoPan \/ With(p) = {}

Ends(j) == [imp EXCEPT ![j].pc = "over"]

NoEdit   == EditsAlone => patch = NoPatch
NoImport == EditsAlone => \A j \in Imports : imp[j].pc \in {"idle", "done", "over"}

(* resolve_or_create_investor, the lookup.                                 *)
FindInvestor(j, f) ==
  /\ imp[j].pc = "idle" /\ f.kind # "csv" /\ NoEdit
  /\ \/ /\ With(f.pan) = {}
        /\ imp' = [imp EXCEPT ![j] = [NotYet EXCEPT !.pc = "create", !.file = f]]
     \/ \E i \in With(f.pan) :
          imp' = [imp EXCEPT ![j] = [NotYet EXCEPT !.pc = "job", !.file = f, !.inv = i]]
  /\ UNCHANGED <<investor, stored, quarantine, patch>>

(* A CSV goes to the investor of its path, whatever PAN that one has.      *)
OpenInvestor(j, f, i) ==
  /\ imp[j].pc = "idle" /\ f.kind = "csv" /\ Row(i) /\ NoEdit
  /\ imp' = [imp EXCEPT ![j] = [NotYet EXCEPT !.pc = "job", !.file = f, !.inv = i]]
  /\ UNCHANGED <<investor, stored, quarantine, patch>>

CreateInvestor(j) ==
  /\ imp[j].pc = "create"
  /\ \/ /\ PanFree(imp[j].file.pan)
        /\ \E i \in With(Unused) :
             /\ investor' = [investor EXCEPT ![i] = imp[j].file.pan]
             /\ imp' = [imp EXCEPT ![j].pc = "job", ![j].inv = i]
     \/ /\ ~PanFree(imp[j].file.pan)
        /\ imp' = Ends(j) /\ UNCHANGED investor
  /\ UNCHANGED <<stored, quarantine, patch>>

CreateJob(j) ==
  /\ imp[j].pc = "job"
  /\ imp' = IF Row(imp[j].inv)
            THEN [imp EXCEPT ![j].pc = "process", ![j].status = "pending"]
            ELSE Ends(j)
  /\ UNCHANGED <<investor, stored, quarantine, patch>>

-----------------------------------------------------------------------------
(* The processor and the outcome run_import_job derives from it.           *)
LinesOf(i)     == {d.line : d \in {e \in stored : e.inv = i}}
EcasOf(i)      == {d \in stored : d.inv = i /\ d.kind = "ecas"}
Removals(i, f) == {d.line : d \in EcasOf(i)} \ (f.good \union f.bad)
Asks(i, f)     == f.kind = "ecas" /\ ~f.confirm /\ Removals(i, f) # {}

Data(i, f) == [inv : {i}, kind : {f.kind}, pan : {f.pan}, line : f.good]

(* An eCAS replaces every eCAS holding; the others only add.               *)
Persisted(i, f) ==
  (stored \ IF f.kind = "ecas" THEN EcasOf(i) ELSE {}) \union Data(i, f)

(* Row errors of a CSV are in its summary and set nothing aside.           *)
SetAside(f) == IF f.kind = "csv" THEN {} ELSE f.bad
Outcome(f)  == IF SetAside(f) # {} THEN "completed_with_warnings" ELSE "success"
OwnEntries(i) == {e \in Entries : imp[e[1]].inv = i /\ quarantine[e].state # "none"}

Preview(j) ==
  /\ imp[j].pc = "process" /\ Row(imp[j].inv)
  /\ Asks(imp[j].inv, imp[j].file)
  /\ imp' = [imp EXCEPT ![j].pc = "save", ![j].outcome = "needs_confirmation"]
  /\ UNCHANGED <<investor, stored, quarantine, patch>>

Persist(j) ==
  LET i == imp[j].inv
      f == imp[j].file IN
  /\ imp[j].pc = "process" /\ Row(i) /\ ~Asks(i, f)
  /\ stored' = Persisted(i, f)
  /\ imp' = [imp EXCEPT ![j].pc = "save", ![j].outcome = Outcome(f), ![j].landed = TRUE]
  /\ quarantine' = [e \in Entries |->
       IF e \in OwnEntries(i) /\ e[2] \in f.good
       THEN [quarantine[e] EXCEPT !.fixed = TRUE] ELSE quarantine[e]]
  /\ UNCHANGED <<investor, patch>>

(* Any exception fails the job: before the importer's transaction commits  *)
(* nothing is stored, after it (queueing the recompute) everything is.  A  *)
(* statement for an investor deleted meanwhile always raises.              *)
ProcessorRaises(j) ==
  /\ \/ imp[j].pc = "process"
     \/ imp[j].pc = "save" /\ imp[j].landed
  /\ imp' = [imp EXCEPT ![j].pc = "save", ![j].outcome = "failed"]
  /\ UNCHANGED <<investor, stored, quarantine, patch>>

-----------------------------------------------------------------------------
(* What run_import_job does after the processor: save the job, clear older *)
(* quarantine rows (a read, then an update), record the new ones.          *)
RecordFirst(step) ==                     \* mistaken: clears its own rejects
  [save |-> "record", record |-> "find", find |-> "resolve", resolve |-> "done"][step]
After(step) ==
  [save |-> "find", find |-> "resolve", resolve |-> "record", record |-> "done"][step]

RanThrough == {"success", "completed_with_warnings"}

SaveJob(j) ==
  /\ imp[j].pc = "save"
  /\ imp' = IF Row(imp[j].inv)
            THEN [imp EXCEPT ![j].status = imp[j].outcome,
                    ![j].pc = IF imp[j].outcome \in RanThrough THEN After("save") ELSE "done"]
            ELSE Ends(j)
  /\ UNCHANGED <<investor, stored, quarantine, patch>>

OpenRows(j) == {e \in OwnEntries(imp[j].inv) : quarantine[e].state = "open"}
SameKind(j) ==                           \* mistaken: rows of the job's own kind
  {e \in OpenRows(j) : imp[e[1]].file.kind = imp[j].file.kind}
Clearable(j) == OpenRows(j)

FindCorrected(j) ==
  /\ imp[j].pc = "find"
  /\ imp' = [imp EXCEPT ![j].pc = After("find"),
               ![j].fixed = {e \in Clearable(j) : e[2] \in LinesOf(imp[j].inv)}]
  /\ UNCHANGED <<investor, stored, quarantine, patch>>

ResolveQuarantine(j) ==
  /\ imp[j].pc = "resolve"
  /\ quarantine' = [e \in Entries |->
       IF e \in imp[j].fixed /\ quarantine[e].state = "open"
       THEN [quarantine[e] EXCEPT !.state = "cleared", !.by = j] ELSE quarantine[e]]
  /\ imp' = [imp EXCEPT ![j].pc = After("resolve"), ![j].fixed = {}]
  /\ UNCHANGED <<investor, stored, patch>>

RecordQuarantine(j) ==
  /\ imp[j].pc = "record"
  /\ IF imp[j].status # "none"
     THEN /\ quarantine' = [e \in Entries |->
               IF e[1] = j /\ e[2] \in SetAside(imp[j].file) THEN OpenEntry ELSE quarantine[e]]
          /\ imp' = [imp EXCEPT ![j].pc = After("record")]
     ELSE imp' = Ends(j) /\ UNCHANGED quarantine
  /\ UNCHANGED <<investor, stored, patch>>

(* The process ends, or the client's request is cut off by a restart.      *)
RequestDies(j) ==
  /\ imp[j].pc \notin {"idle", "done", "over"}
  /\ imp' = Ends(j)
  /\ UNCHANGED <<investor, stored, quarantine, patch>>

DismissQuarantine(e) ==
  /\ quarantine[e].state = "open"
  /\ quarantine' = [quarantine EXCEPT ![e].state = "dismissed"]
  /\ UNCHANGED <<investor, stored, imp, patch>>

-----------------------------------------------------------------------------
(* Investors by hand.                                                      *)
AddInvestor(i, p) ==
  /\ investor[i] = Unused /\ PanFree(p)
  /\ investor' = [investor EXCEPT ![i] = p]
  /\ UNCHANGED <<stored, imp, quarantine, patch>>

(* The foreign keys of jobs, data and quarantine cascade.                  *)
SparesHoldings(i) == EcasOf(i)           \* mistaken: holdings outlive the investor
Spared(i) == {}
DeleteInvestor(i) ==
  /\ Row(i)
  /\ investor' = [investor EXCEPT ![i] = Deleted]
  /\ stored' = {d \in stored : d.inv # i} \union Spared(i)
  /\ imp' = [j \in Imports |-> IF imp[j].inv = i THEN [imp[j] EXCEPT !.status = "none"]
                               ELSE imp[j]]
  /\ quarantine' = [e \in Entries |-> IF imp[e[1]].inv = i THEN NoEntry ELSE quarantine[e]]
  /\ UNCHANGED patch

(* A PATCH reads the row, refuses another PAN once there is data under the *)
(* one it has, and later saves every column of the object it read.         *)
PanLocked(i)   == investor[i] # NoPan /\ LinesOf(i) # {}

LoadPatch(i, p) ==
  /\ patch = NoPatch /\ Row(i) /\ NoImport
  /\ PanLocked(i) => p = investor[i]
  /\ patch' = [inv |-> i, pan |-> p]
  /\ UNCHANGED <<investor, stored, imp, quarantine>>

(* Saving a row that is gone inserts it again.                             *)
SavePatch ==
  /\ patch # NoPatch
  /\ investor' = IF patch.pan # NoPan /\ With(patch.pan) \ {patch.inv} # {}
                 THEN investor
                 ELSE [investor EXCEPT ![patch.inv] = patch.pan]
  /\ patch' = NoPatch
  /\ UNCHANGED <<stored, imp, quarantine>>

-----------------------------------------------------------------------------
Next ==
  \/ \E j \in Imports :
       \/ \E f \in Files : FindInvestor(j, f)
       \/ \E f \in Files, i \in Ids : OpenInvestor(j, f, i)
       \/ CreateInvestor(j)
       \/ CreateJob(j)
       \/ Preview(j)
       \/ Persist(j)
       \/ ProcessorRaises(j)
       \/ SaveJob(j)
       \/ FindCorrected(j)
       \/ ResolveQuarantine(j)
       \/ RecordQuarantine(j)
       \/ RequestDies(j)
  \/ \E e \in Entries : DismissQuarantine(e)
  \/ \E i \in Ids, p \in Pans \union {NoPan} : AddInvestor(i, p) \/ LoadPatch(i, p)
  \/ \E i \in Ids : DeleteInvestor(i)
  \/ SavePatch

Spec == Init /\ [][Next]_vars
-----------------------------------------------------------------------------
(* Properties.                                                             *)

(* The PAN is the join key of statements (pan_locked, update_investor):    *)
(* whatever uploads race for a new PAN, and whatever is created, edited or *)
(* deleted meanwhile, all data imported under one PAN is in one investor,  *)
(* and that investor still has this PAN.                                   *)
DataFollowsPan ==
  \A d \in stored : d.pan # NoPan =>
    /\ investor[d.inv] = d.pan
    /\ \A e \in stored : e.pan = d.pan => e.inv = d.inv

(* A corrected line needs no attention any more (resolve_quarantine): an   *)
(* open row whose line has been stored since and still is means that an    *)
(* import which stored it has not come to its own clearing: it is under    *)
(* way, has failed after its commit, or died.                              *)
CorrectedIsCleared ==
  \A e \in Entries :
    quarantine[e].state = "open" /\ quarantine[e].fixed
      /\ e[2] \in LinesOf(imp[e[1]].inv)
    => \E k \in Imports : /\ imp[k].inv = imp[e[1]].inv /\ imp[k].landed
                          /\ e[2] \in imp[k].file.good
                          /\ imp[k].pc # "done" \/ imp[k].status = "failed"

(* An import never clears what it has set aside itself (run_import_job:    *)
(* "clear those first, then record this run's new rejects"), also when the *)
(* line had data before.                                                   *)
RejectsOutliveTheirImport == \A e \in Entries : quarantine[e].by # e[1]

(* A reject stays listed until a re-import stores it or the user dismisses *)
(* it (the docstring of ImportQuarantine).                                 *)
RejectStaysUntilFixed ==
  \A e \in Entries : quarantine[e].state = "cleared" => quarantine[e].fixed
=============================================================================
