--------------------------- MODULE WorkspaceProofs ---------------------------
(***************************************************************************)
(* Proofs about Workspace, for every set of imports, investors, PANs,      *)
(* lines and files.                                                        *)
(*                                                                         *)
(* Inv carries what the code relies on without saying it: a request at     *)
(* work knows its investor (JobsKnown), only a finished import has rows in *)
(* the quarantine (RejectsAreLate), and what has been stored is told by    *)
(* the step of its request (LandedShape).                                  *)
(***************************************************************************)
EXTENDS Workspace, TLAPS

AtWork  == {"job", "process", "save", "find", "resolve", "record"}
Ended   == {"done", "over"}

JobsKnown == \A j \in Imports : imp[j].pc \in AtWork => imp[j].inv \in Ids

RejectsAreLate ==
  \A e \in Entries : quarantine[e].state # "none" => imp[e[1]].pc \in Ended

LandedShape ==
  \A j \in Imports : imp[j].landed =>
    /\ imp[j].pc \in {"save", "find", "resolve", "record"} \union Ended
    /\ imp[j].pc = "save" => imp[j].outcome \in RanThrough \union {"failed"}

Inv == TypeOK /\ JobsKnown /\ RejectsAreLate /\ LandedShape

LEMMA Constants ==
  /\ After("save") = "find" /\ After("find") = "resolve"
  /\ After("resolve") = "record" /\ After("record") = "done"
  /\ NotYet \in Jobs /\ NoEntry \in Rejects /\ OpenEntry \in Rejects
  /\ \A f \in Files \union {NoFile} :
       /\ f.kind \in {"mf_cas", "ecas", "csv"} /\ f.pan \in Pans \union {NoPan}
       /\ f.good \subseteq Lines /\ SetAside(f) \subseteq Aside
       /\ Outcome(f) \in RanThrough
<1>1. /\ After("save") = "find" /\ After("find") = "resolve"
      /\ After("resolve") = "record" /\ After("record") = "done"
  BY DEF After
<1>2. NotYet \in Jobs /\ NoEntry \in Rejects /\ OpenEntry \in Rejects
  BY DEF NotYet, Jobs, NoEntry, OpenEntry, Rejects, Statuses, Steps
<1>3. ASSUME NEW f \in Files \union {NoFile}
      PROVE  /\ f.kind \in {"mf_cas", "ecas", "csv"} /\ f.pan \in Pans \union {NoPan}
             /\ f.good \subseteq Lines /\ SetAside(f) \subseteq Aside
             /\ Outcome(f) \in RanThrough
  BY FilesAssumption DEF NoFile, SetAside, Outcome, RanThrough
<1>. QED
  BY <1>1, <1>2, <1>3

LEMMA InvInit == Init => Inv
BY FilesAssumption, Constants
   DEF Init, Inv, TypeOK, JobsKnown, RejectsAreLate, LandedShape, NotYet, NoEntry,
       NoPatch, AtWork, Entries

(* A step of a request that leaves the investors alone.  The premises say  *)
(* what its import record becomes, that data is of investors that are      *)
(* there, and that a row is set aside only by an import that ends with it. *)
LEMMA ImportSteps ==
  ASSUME Inv, NEW j \in Imports, NEW rec \in Jobs,
         imp' = [imp EXCEPT ![j] = rec], imp[j].pc \notin Ended,
         UNCHANGED <<investor, patch>>,
         rec.status # "none" => rec.inv \in Ids /\ Row(rec.inv),
         rec.pc \in AtWork => rec.inv \in Ids,
         rec.landed =>
           /\ rec.pc \in {"save", "find", "resolve", "record"} \union Ended
           /\ rec.pc = "save" => rec.outcome \in RanThrough \union {"failed"},
         stored' \subseteq [inv : Ids, kind : {"mf_cas", "ecas", "csv"},
                            pan : Pans \union {NoPan}, line : Lines],
         \A d \in stored' : Row(d.inv),
         quarantine' \in [Entries -> Rejects],
         \A e \in Entries : quarantine'[e].state # "none" =>
           \/ quarantine[e].state # "none"
           \/ e[1] = j /\ rec.pc \in Ended /\ rec.status # "none"
  PROVE  Inv'
<1>1. imp \in [Imports -> Jobs] /\ imp' \in [Imports -> Jobs]
  BY DEF Inv, TypeOK
<1>2. \A k \in Imports : imp'[k] = IF k = j THEN rec ELSE imp[k]
  BY <1>1
<1>3. \A e \in Entries : e[1] \in Imports /\ (quarantine[e].state # "none" => e[1] # j)
  BY DEF Inv, RejectsAreLate, Entries
<1>4. \A i : Row(i)' <=> Row(i)
  BY DEF Row
<1>5. \A k \in Imports : (imp[k].status # "none" => imp[k].inv \in Ids /\ Row(imp[k].inv))'
  BY <1>2, <1>4 DEF Inv, TypeOK
<1>6. \A e \in Entries : (quarantine[e].state # "none" => imp[e[1]].status # "none")'
  BY <1>2, <1>3 DEF Inv, TypeOK
<1>7. TypeOK'
  BY <1>1, <1>4, <1>5, <1>6 DEF Inv, TypeOK
<1>8. JobsKnown' /\ LandedShape'
  BY <1>2 DEF Inv, JobsKnown, LandedShape
<1>9. RejectsAreLate'
  BY <1>2, <1>3 DEF Inv, RejectsAreLate
<1>. QED
  BY <1>7, <1>8, <1>9 DEF Inv

LEMMA ImportMoves ==
  ASSUME Inv, NEW j \in Imports, NEW rec \in Jobs,
         imp' = [imp EXCEPT ![j] = rec], imp[j].pc \notin Ended,
         UNCHANGED <<investor, stored, quarantine, patch>>,
         rec.status # "none" => rec.inv \in Ids /\ Row(rec.inv),
         rec.pc \in AtWork => rec.inv \in Ids,
         rec.landed =>
           /\ rec.pc \in {"save", "find", "resolve", "record"} \union Ended
           /\ rec.pc = "save" => rec.outcome \in RanThrough \union {"failed"}
  PROVE  Inv'
BY ImportSteps DEF Inv, TypeOK

(* One step of a request from step to step, with what it records.          *)
LEMMA InvNext == Inv /\ [Next]_vars => Inv'
<1>. SUFFICES ASSUME Inv, [Next]_vars PROVE Inv'
  OBVIOUS
<1>. USE FilesAssumption, Constants
<1>0. /\ investor \in [Ids -> Pans \union {NoPan, Unused, Deleted}]
      /\ imp \in [Imports -> Jobs] /\ quarantine \in [Entries -> Rejects]
      /\ \A j \in Imports : imp[j] \in Jobs
  BY DEF Inv, TypeOK
<1>1. ASSUME NEW j \in Imports, NEW f \in Files, FindInvestor(j, f) PROVE Inv'
  <2>. DEFINE missed == [NotYet EXCEPT !.pc = "create", !.file = f]
              found(i) == [NotYet EXCEPT !.pc = "job", !.file = f, !.inv = i]
  <2>1. missed \in Jobs /\ \A i \in Ids : found(i) \in Jobs
    BY DEF NotYet, Jobs, Statuses, Steps
  <2>2. imp[j].pc \notin Ended /\ UNCHANGED <<investor, stored, quarantine, patch>>
    BY <1>1 DEF FindInvestor, Ended
  <2>3. /\ missed.status = "none" /\ missed.pc \notin AtWork /\ ~missed.landed
        /\ \A i \in Ids : found(i).status = "none" /\ found(i).inv \in Ids /\ ~found(i).landed
    BY DEF NotYet, AtWork
  <2>4. CASE imp' = [imp EXCEPT ![j] = missed]
    <3>. HIDE DEF missed
    <3>. QED BY <2>1, <2>2, <2>3, <2>4, ImportMoves
  <2>5. ASSUME NEW i \in Ids, imp' = [imp EXCEPT ![j] = found(i)] PROVE Inv'
    <3>. HIDE DEF found
    <3>. QED BY <2>1, <2>2, <2>3, <2>5, ImportMoves
  <2>. QED
    BY <1>1, <2>4, <2>5 DEF FindInvestor, With
<1>2. ASSUME NEW j \in Imports, NEW f \in Files, NEW i \in Ids, OpenInvestor(j, f, i)
      PROVE  Inv'
  <2>. DEFINE rec == [NotYet EXCEPT !.pc = "job", !.file = f, !.inv = i]
  <2>1. rec \in Jobs /\ rec.status = "none" /\ rec.inv \in Ids /\ ~rec.landed
    BY DEF NotYet, Jobs, Statuses, Steps
  <2>2. /\ imp' = [imp EXCEPT ![j] = rec] /\ imp[j].pc \notin Ended
        /\ UNCHANGED <<investor, stored, quarantine, patch>>
    BY <1>2 DEF OpenInvestor, Ended
  <2>. HIDE DEF rec
  <2>. QED BY <2>1, <2>2, ImportMoves
(* The requests that end, whatever they were doing.                        *)
<1>3. ASSUME NEW j \in Imports, imp' = Ends(j), imp[j].pc \notin Ended,
             UNCHANGED <<investor, stored, quarantine, patch>>
      PROVE  Inv'
  <2>. DEFINE rec == [imp[j] EXCEPT !.pc = "over"]
  <2>1. rec \in Jobs /\ rec.pc = "over" /\ rec.status = imp[j].status /\ rec.inv = imp[j].inv
    BY <1>0 DEF Jobs, Steps
  <2>2. imp' = [imp EXCEPT ![j] = rec]
    BY <1>3 DEF Ends
  <2>3. imp[j].status # "none" => imp[j].inv \in Ids /\ Row(imp[j].inv)
    BY DEF Inv, TypeOK
  <2>4. "over" \in Ended /\ "over" \notin AtWork
    BY DEF Ended, AtWork
  <2>. HIDE DEF rec
  <2>. QED BY <1>3, <2>1, <2>2, <2>3, <2>4, ImportMoves
<1>4. ASSUME NEW j \in Imports, CreateInvestor(j) PROVE Inv'
  <2>1. ASSUME NEW i \in With(Unused), investor' = [investor EXCEPT ![i] = imp[j].file.pan],
               imp' = [imp EXCEPT ![j].pc = "job", ![j].inv = i]
        PROVE  Inv'
    <3>. DEFINE rec == [imp[j] EXCEPT !.pc = "job", !.inv = i]
    <3>1. i \in Ids /\ investor[i] = Unused
      BY <2>1 DEF With
    <3>2. imp[j].file.pan \in Pans \union {NoPan} /\ imp[j].pc = "create"
      BY <1>0, <1>4 DEF Jobs, CreateInvestor
    <3>3. imp' = [imp EXCEPT ![j] = rec]
      BY <1>0, <2>1
    <3>4. rec \in Jobs /\ rec.pc = "job" /\ rec.inv = i /\ rec.status = imp[j].status
          /\ rec.landed = imp[j].landed
      BY <1>0, <3>1 DEF Jobs, Steps
    <3>. HIDE DEF rec
    <3>5. \A k \in Imports : imp'[k] = IF k = j THEN rec ELSE imp[k]
      BY <1>0, <3>3
    <3>6. /\ \A k \in Ids : Row(k) => Row(k)'
          /\ Row(i)' /\ investor' \in [Ids -> Pans \union {NoPan, Unused, Deleted}]
      BY <1>0, <2>1, <3>1, <3>2 DEF Row, Unused, Deleted, NoPan
    <3>7. ~imp[j].landed
      BY <3>2 DEF Inv, LandedShape, Ended
    <3>8. UNCHANGED <<stored, quarantine, patch>>
      BY <1>4 DEF CreateInvestor
    <3>9. \A e \in Entries : quarantine[e].state # "none" => e[1] # j /\ e[1] \in Imports
      BY <3>2 DEF Inv, RejectsAreLate, Entries, Ended
    <3>10. \A k \in Imports : (imp[k].status # "none" => imp[k].inv \in Ids /\ Row(imp[k].inv))'
      BY <3>1, <3>4, <3>5, <3>6 DEF Inv, TypeOK
    <3>11. \A d \in stored' : Row(d.inv)'
      BY <3>6, <3>8 DEF Inv, TypeOK
    <3>12. imp' \in [Imports -> Jobs]
      BY <1>0, <3>3, <3>4
    <3>13. TypeOK'
      BY <3>5, <3>6, <3>8, <3>9, <3>10, <3>11, <3>12 DEF Inv, TypeOK
    <3>14. JobsKnown' /\ LandedShape' /\ RejectsAreLate'
      BY <3>1, <3>4, <3>5, <3>7, <3>8, <3>9 DEF Inv, JobsKnown, LandedShape, RejectsAreLate
    <3>. QED BY <3>13, <3>14 DEF Inv
  <2>2. CASE imp' = Ends(j) /\ UNCHANGED investor
    BY <1>3, <1>4, <2>2 DEF CreateInvestor, Ended
  <2>. QED
    BY <1>4, <2>1, <2>2 DEF CreateInvestor
<1>5. ASSUME NEW j \in Imports, CreateJob(j) PROVE Inv'
  <2>. DEFINE rec == [imp[j] EXCEPT !.pc = "process", !.status = "pending"]
  <2>1. imp[j].pc = "job" /\ imp[j].inv \in Ids /\ UNCHANGED <<investor, stored, quarantine, patch>>
    BY <1>5 DEF CreateJob, Inv, JobsKnown, AtWork
  <2>2. CASE Row(imp[j].inv)
    <3>1. rec \in Jobs /\ rec.inv = imp[j].inv /\ rec.landed = imp[j].landed
      BY <1>0 DEF Jobs, Steps, Statuses
    <3>2. ~imp[j].landed
      BY <2>1 DEF Inv, LandedShape, Ended
    <3>3. imp' = [imp EXCEPT ![j] = rec]
      BY <1>0, <1>5, <2>2 DEF CreateJob
    <3>. HIDE DEF rec
    <3>. QED BY <2>1, <2>2, <3>1, <3>2, <3>3, ImportMoves DEF Ended
  <2>. QED
    BY <1>3, <1>5, <2>1, <2>2 DEF CreateJob, Ended
<1>6. ASSUME NEW j \in Imports, Preview(j) PROVE Inv'
  <2>. DEFINE rec == [imp[j] EXCEPT !.pc = "save", !.outcome = "needs_confirmation"]
  <2>1. /\ imp[j].pc = "process" /\ imp' = [imp EXCEPT ![j] = rec]
        /\ UNCHANGED <<investor, stored, quarantine, patch>>
    BY <1>0, <1>6 DEF Preview
  <2>2. /\ rec \in Jobs /\ rec.inv = imp[j].inv /\ rec.status = imp[j].status
        /\ rec.landed = imp[j].landed
    BY <1>0 DEF Jobs, Steps, Statuses
  <2>3. imp[j].inv \in Ids /\ ~imp[j].landed /\ imp[j].pc \notin Ended
    BY <2>1 DEF Inv, JobsKnown, LandedShape, AtWork, Ended
  <2>4. imp[j].status # "none" => imp[j].inv \in Ids /\ Row(imp[j].inv)
    BY DEF Inv, TypeOK
  <2>. HIDE DEF rec
  <2>. QED BY <2>1, <2>2, <2>3, <2>4, ImportMoves
<1>7. ASSUME NEW j \in Imports, Persist(j) PROVE Inv'
  <2>. DEFINE i == imp[j].inv
              f == imp[j].file
              rec == [imp[j] EXCEPT !.pc = "save", !.outcome = Outcome(f), !.landed = TRUE]
  <2>1. /\ imp[j].pc = "process" /\ imp' = [imp EXCEPT ![j] = rec] /\ Row(i)
        /\ UNCHANGED <<investor, patch>> /\ stored' = Persisted(i, f)
    BY <1>0, <1>7 DEF Persist
  <2>2. f \in Files \union {NoFile} /\ i \in Ids /\ imp[j].pc \notin Ended
    BY <1>0, <2>1 DEF Jobs, Inv, JobsKnown, AtWork, Ended
  <2>3. /\ rec \in Jobs /\ rec.pc = "save" /\ rec.inv = i /\ rec.status = imp[j].status
        /\ rec.outcome \in RanThrough
    BY <1>0, <2>2 DEF Jobs, Steps, Statuses, RanThrough
  <2>4. /\ quarantine' \in [Entries -> Rejects]
        /\ \A e \in Entries : quarantine'[e].state = quarantine[e].state
    <3>1. \A e \in Entries : [quarantine[e] EXCEPT !.fixed = TRUE] \in Rejects
      BY <1>0 DEF Rejects
    <3>. QED
      BY <1>0, <1>7, <3>1 DEF Persist, Rejects
  <2>5. \A d \in Data(i, f) : /\ d \in [inv : Ids, kind : {"mf_cas", "ecas", "csv"},
                                        pan : Pans \union {NoPan}, line : Lines]
                              /\ d.inv = i
    BY <2>2 DEF Data
  <2>6. /\ stored' \subseteq [inv : Ids, kind : {"mf_cas", "ecas", "csv"},
                              pan : Pans \union {NoPan}, line : Lines]
        /\ \A d \in stored' : Row(d.inv)
    BY <2>1, <2>5 DEF Persisted, Inv, TypeOK
  <2>. HIDE DEF rec, i, f
  <2>. QED BY <2>1, <2>2, <2>3, <2>4, <2>6, ImportSteps
<1>8. ASSUME NEW j \in Imports, ProcessorRaises(j) PROVE Inv'
  <2>. DEFINE rec == [imp[j] EXCEPT !.pc = "save", !.outcome = "failed"]
  <2>1. /\ imp[j].pc \in {"process", "save"} /\ imp' = [imp EXCEPT ![j] = rec]
        /\ UNCHANGED <<investor, stored, quarantine, patch>>
    BY <1>0, <1>8 DEF ProcessorRaises
  <2>2. /\ rec \in Jobs /\ rec.pc = "save" /\ rec.inv = imp[j].inv
        /\ rec.status = imp[j].status /\ rec.outcome = "failed"
    BY <1>0 DEF Jobs, Steps, Statuses
  <2>3. imp[j].inv \in Ids /\ imp[j].pc \notin Ended
    BY <2>1 DEF Inv, JobsKnown, AtWork, Ended
  <2>4. imp[j].status # "none" => imp[j].inv \in Ids /\ Row(imp[j].inv)
    BY DEF Inv, TypeOK
  <2>. HIDE DEF rec
  <2>. QED BY <2>1, <2>2, <2>3, <2>4, ImportMoves
<1>9. ASSUME NEW j \in Imports, SaveJob(j) PROVE Inv'
  <2>. DEFINE rec == [imp[j] EXCEPT !.status = imp[j].outcome,
                        !.pc = IF imp[j].outcome \in RanThrough THEN After("save") ELSE "done"]
  <2>1. imp[j].pc = "save" /\ imp[j].inv \in Ids /\ imp[j].pc \notin Ended
    BY <1>9 DEF SaveJob, Inv, JobsKnown, AtWork, Ended
  <2>2. UNCHANGED <<investor, stored, quarantine, patch>>
    BY <1>9 DEF SaveJob
  <2>3. CASE Row(imp[j].inv)
    <3>1. rec \in Jobs /\ rec.inv = imp[j].inv /\ rec.pc \in {"find", "done"}
      BY <1>0 DEF Jobs, Steps
    <3>2. imp' = [imp EXCEPT ![j] = rec]
      BY <1>0, <1>9, <2>3 DEF SaveJob
    <3>. HIDE DEF rec
    <3>. QED BY <2>1, <2>2, <2>3, <3>1, <3>2, ImportMoves DEF Ended
  <2>. QED
    BY <1>3, <1>9, <2>1, <2>2, <2>3 DEF SaveJob
<1>10. ASSUME NEW j \in Imports, FindCorrected(j) PROVE Inv'
  <2>. DEFINE rec == [imp[j] EXCEPT !.pc = "resolve",
                 !.fixed = {e \in Clearable(j) : e[2] \in LinesOf(imp[j].inv)}]
  <2>1. /\ imp[j].pc = "find" /\ imp[j].inv \in Ids /\ imp[j].pc \notin Ended
        /\ UNCHANGED <<investor, stored, quarantine, patch>>
    BY <1>10 DEF FindCorrected, Inv, JobsKnown, AtWork, Ended
  <2>2. Clearable(j) \subseteq Entries
    BY DEF Clearable, OpenRows, OwnEntries
  <2>3. /\ rec \in Jobs /\ rec.pc = "resolve" /\ rec.inv = imp[j].inv
        /\ rec.status = imp[j].status
    BY <1>0, <2>2 DEF Jobs, Steps
  <2>4. imp[j].status # "none" => imp[j].inv \in Ids /\ Row(imp[j].inv)
    BY DEF Inv, TypeOK
  <2>5. imp' = [imp EXCEPT ![j] = rec]
    BY <1>0, <1>10 DEF FindCorrected
  <2>. HIDE DEF rec
  <2>. QED BY <2>1, <2>3, <2>4, <2>5, ImportMoves
<1>11. ASSUME NEW j \in Imports, ResolveQuarantine(j) PROVE Inv'
  <2>. DEFINE rec == [imp[j] EXCEPT !.pc = "record", !.fixed = {}]
  <2>1. /\ imp[j].pc = "resolve" /\ imp[j].inv \in Ids /\ imp[j].pc \notin Ended
        /\ UNCHANGED <<investor, stored, patch>>
    BY <1>11 DEF ResolveQuarantine, Inv, JobsKnown, AtWork, Ended
  <2>2. /\ rec \in Jobs /\ rec.pc = "record" /\ rec.inv = imp[j].inv
        /\ rec.status = imp[j].status
    BY <1>0 DEF Jobs, Steps
  <2>3. /\ quarantine' \in [Entries -> Rejects]
        /\ \A e \in Entries : quarantine'[e].state # "none" => quarantine[e].state # "none"
    <3>1. \A e \in Entries : [quarantine[e] EXCEPT !.state = "cleared", !.by = j] \in Rejects
      BY <1>0 DEF Rejects
    <3>. QED
      BY <1>0, <1>11, <3>1 DEF ResolveQuarantine
  <2>4. imp[j].status # "none" => imp[j].inv \in Ids /\ Row(imp[j].inv)
    BY DEF Inv, TypeOK
  <2>5. imp' = [imp EXCEPT ![j] = rec]
    BY <1>0, <1>11 DEF ResolveQuarantine
  <2>6. /\ \A d \in stored' : Row(d.inv)
        /\ stored' \subseteq [inv : Ids, kind : {"mf_cas", "ecas", "csv"},
                              pan : Pans \union {NoPan}, line : Lines]
    BY <2>1 DEF Inv, TypeOK
  <2>. HIDE DEF rec
  <2>. QED BY <2>1, <2>2, <2>3, <2>4, <2>5, <2>6, ImportSteps
<1>12. ASSUME NEW j \in Imports, RecordQuarantine(j) PROVE Inv'
  <2>. DEFINE rec == [imp[j] EXCEPT !.pc = "done"]
  <2>1. /\ imp[j].pc = "record" /\ imp[j].inv \in Ids /\ imp[j].pc \notin Ended
        /\ UNCHANGED <<investor, stored, patch>>
    BY <1>12 DEF RecordQuarantine, Inv, JobsKnown, AtWork, Ended
  <2>2. CASE imp[j].status # "none"
    <3>1. /\ rec \in Jobs /\ rec.pc = "done" /\ rec.inv = imp[j].inv
          /\ rec.status = imp[j].status
      BY <1>0 DEF Jobs, Steps
    <3>2. /\ quarantine' \in [Entries -> Rejects]
          /\ \A e \in Entries : quarantine'[e].state # "none" =>
               quarantine[e].state # "none" \/ e[1] = j
      BY <1>0, <1>12, <2>2 DEF RecordQuarantine
    <3>3. imp[j].status # "none" => imp[j].inv \in Ids /\ Row(imp[j].inv)
      BY DEF Inv, TypeOK
    <3>4. imp' = [imp EXCEPT ![j] = rec]
      BY <1>0, <1>12, <2>2 DEF RecordQuarantine
    <3>5. /\ \A d \in stored' : Row(d.inv)
          /\ stored' \subseteq [inv : Ids, kind : {"mf_cas", "ecas", "csv"},
                                pan : Pans \union {NoPan}, line : Lines]
      BY <2>1 DEF Inv, TypeOK
    <3>. HIDE DEF rec
    <3>. QED BY <2>1, <2>2, <3>1, <3>2, <3>3, <3>4, <3>5, ImportSteps DEF Ended
  <2>3. CASE imp[j].status = "none"
    BY <1>3, <1>12, <2>1, <2>3 DEF RecordQuarantine
  <2>. QED
    BY <2>2, <2>3
<1>13. ASSUME NEW j \in Imports, RequestDies(j) PROVE Inv'
  BY <1>3, <1>13 DEF RequestDies, Ended
<1>14. ASSUME NEW e \in Entries, DismissQuarantine(e) PROVE Inv'
  <2>1. [quarantine[e] EXCEPT !.state = "dismissed"] \in Rejects
    BY <1>0 DEF Rejects
  <2>2. /\ quarantine' \in [Entries -> Rejects]
        /\ \A q \in Entries : quarantine'[q].state # "none" => quarantine[q].state # "none"
    BY <1>0, <1>14, <2>1 DEF DismissQuarantine
  <2>. QED
    BY <1>14, <2>2 DEF DismissQuarantine, Inv, TypeOK, Row, JobsKnown, RejectsAreLate, LandedShape
<1>15. ASSUME NEW i \in Ids, NEW p \in Pans \union {NoPan}, AddInvestor(i, p) PROVE Inv'
  <2>1. \A k \in Ids : Row(k) => Row(k)'
    BY <1>0, <1>15 DEF AddInvestor, Row, Unused, Deleted, NoPan
  <2>2. investor' \in [Ids -> Pans \union {NoPan, Unused, Deleted}]
    BY <1>0, <1>15 DEF AddInvestor
  <2>. QED
    BY <1>15, <2>1, <2>2 DEF AddInvestor, Inv, TypeOK, JobsKnown, RejectsAreLate, LandedShape
<1>16. ASSUME NEW i \in Ids, NEW p \in Pans \union {NoPan}, LoadPatch(i, p) PROVE Inv'
  BY <1>16 DEF LoadPatch, Inv, TypeOK, Row, JobsKnown, RejectsAreLate, LandedShape
<1>17. ASSUME NEW i \in Ids, DeleteInvestor(i) PROVE Inv'
  <2>1. /\ investor' \in [Ids -> Pans \union {NoPan, Unused, Deleted}]
        /\ \A k \in Ids : k # i /\ Row(k) => Row(k)'
    BY <1>0, <1>17 DEF DeleteInvestor, Row
  <2>2. \A j \in Imports : [imp[j] EXCEPT !.status = "none"] \in Jobs
    BY <1>0 DEF Jobs, Statuses
  <2>3. imp' \in [Imports -> Jobs]
    BY <1>0, <1>17, <2>2 DEF DeleteInvestor
  <2>4. \A j \in Imports : /\ imp'[j].pc = imp[j].pc /\ imp'[j].inv = imp[j].inv
                           /\ imp'[j].landed = imp[j].landed
                           /\ imp'[j].outcome = imp[j].outcome
                           /\ imp'[j].status = IF imp[j].inv = i THEN "none" ELSE imp[j].status
    BY <1>0, <1>17, <2>2 DEF DeleteInvestor, Jobs
  <2>5. /\ quarantine' \in [Entries -> Rejects]
        /\ \A e \in Entries : quarantine'[e].state # "none" =>
             quarantine[e].state # "none" /\ imp[e[1]].inv # i
    BY <1>0, <1>17 DEF DeleteInvestor, NoEntry
  <2>6. /\ stored' \subseteq stored /\ \A d \in stored' : d.inv # i
        /\ patch' = patch
    BY <1>17 DEF DeleteInvestor, Spared
  <2>7. \A e \in Entries : e[1] \in Imports
    BY DEF Entries
  <2>8. TypeOK'
    BY <2>1, <2>3, <2>4, <2>5, <2>6, <2>7 DEF Inv, TypeOK
  <2>. QED
    BY <2>4, <2>5, <2>7, <2>8 DEF Inv, JobsKnown, RejectsAreLate, LandedShape
<1>18. CASE SavePatch
  <2>1. patch.inv \in Ids \union {NoInvestor} /\ patch.pan \in Pans \union {NoPan}
    BY DEF Inv, TypeOK
  <2>2. /\ investor' \in [Ids -> Pans \union {NoPan, Unused, Deleted}]
        /\ \A k \in Ids : Row(k) => Row(k)'
    BY <1>0, <1>18, <2>1 DEF SavePatch, Row, Unused, Deleted, NoPan
  <2>. QED
    BY <1>18, <2>2 DEF SavePatch, NoPatch, Inv, TypeOK, JobsKnown, RejectsAreLate, LandedShape
<1>19. CASE UNCHANGED vars
  BY <1>19 DEF vars, Inv, TypeOK, Row, JobsKnown, RejectsAreLate, LandedShape
<1>. QED
  BY <1>1, <1>2, <1>4, <1>5, <1>6, <1>7, <1>8, <1>9, <1>10, <1>11, <1>12, <1>13, <1>14,
     <1>15, <1>16, <1>17, <1>18, <1>19 DEF Next

LEMMA Invariance == Spec => []Inv
BY InvInit, InvNext, PTL DEF Spec

(* Every data row, job and rejected row belongs to an investor that is on  *)
(* file, also after deletions that overtake an import: the foreign keys    *)
(* cascade (models/jobs.py, models/ledger.py).                             *)
THEOREM TypeCorrect == Spec => []TypeOK
BY Invariance, PTL DEF Inv

-----------------------------------------------------------------------------
(* Only a finished import has rows in the quarantine, and the one that     *)
(* clears is not finished: so no import clears what it has set aside       *)
(* itself, whatever overlaps, dies or is deleted (run_import_job).         *)
THEOREM RejectsOutlive == Spec => []RejectsOutliveTheirImport
<1>1. Init => RejectsOutliveTheirImport
  BY FilesAssumption DEF Init, RejectsOutliveTheirImport, NoEntry, Entries
<1>2. Inv /\ RejectsOutliveTheirImport /\ [Next]_vars => RejectsOutliveTheirImport'
  <2>. SUFFICES ASSUME Inv, RejectsOutliveTheirImport, [Next]_vars, NEW e \in Entries
                PROVE  quarantine'[e].by # e[1]
    BY DEF RejectsOutliveTheirImport
  <2>0. /\ quarantine \in [Entries -> Rejects] /\ quarantine[e].by # e[1]
        /\ quarantine[e] \in Rejects /\ e[1] \in Imports /\ NoInvestor # e[1]
    BY FilesAssumption DEF Inv, TypeOK, RejectsOutliveTheirImport, Entries
  <2>1. ASSUME quarantine' = quarantine PROVE quarantine'[e].by # e[1]
    BY <2>0, <2>1
  <2>2. ASSUME NEW j \in Imports, Persist(j) PROVE quarantine'[e].by # e[1]
    BY <2>0, <2>2 DEF Persist, Rejects
  <2>3. ASSUME NEW j \in Imports, ResolveQuarantine(j) PROVE quarantine'[e].by # e[1]
    <3>1. quarantine[e].state = "open" => e[1] # j
      BY <2>0, <2>3 DEF Inv, RejectsAreLate, Ended, ResolveQuarantine
    <3>. QED
      BY <2>0, <2>3, <3>1 DEF ResolveQuarantine, Rejects
  <2>4. ASSUME NEW j \in Imports, RecordQuarantine(j) PROVE quarantine'[e].by # e[1]
    BY <2>0, <2>4 DEF RecordQuarantine, OpenEntry, NoEntry
  <2>5. ASSUME NEW i \in Ids, DeleteInvestor(i) PROVE quarantine'[e].by # e[1]
    BY <2>0, <2>5 DEF DeleteInvestor, NoEntry
  <2>6. ASSUME NEW q \in Entries, DismissQuarantine(q) PROVE quarantine'[e].by # e[1]
    BY <2>0, <2>6 DEF DismissQuarantine, Rejects
  <2>. QED
    BY <2>1, <2>2, <2>3, <2>4, <2>5, <2>6
    DEF Next, vars, FindInvestor, OpenInvestor, CreateInvestor, CreateJob, Preview,
        ProcessorRaises, SaveJob, FindCorrected, RequestDies, AddInvestor, LoadPatch, SavePatch
<1>. QED
  BY <1>1, <1>2, Invariance, PTL DEF Spec

-----------------------------------------------------------------------------
(* DataFollowsPan, when edits and imports of an investor do not overlap:   *)
(* no two investors have one PAN; data is with the investor of its PAN; an *)
(* import that may still store has found that investor, or lost it; and an *)
(* edit takes no PAN away from data.                                       *)
PansAreUnique ==
  \A i, k \in Ids : investor[i] \in Pans /\ investor[i] = investor[k] => i = k

DataIsHome == \A d \in stored : d.pan # NoPan => investor[d.inv] = d.pan

TargetsFit ==
  \A j \in Imports : imp[j].pc \in {"job", "process"} /\ imp[j].file.pan # NoPan =>
    investor[imp[j].inv] \in {imp[j].file.pan, Deleted}

PatchFits ==
  patch # NoPatch =>
    /\ patch.inv \in Ids
    /\ \A j \in Imports : imp[j].pc \in {"idle"} \union Ended
    /\ \A d \in stored : d.inv = patch.inv /\ d.pan # NoPan => patch.pan = d.pan

PanInv == PansAreUnique /\ DataIsHome /\ TargetsFit /\ PatchFits

LEMMA PanInit == Init => PanInv
BY FilesAssumption
   DEF Init, PanInv, PansAreUnique, DataIsHome, TargetsFit, PatchFits, NotYet

LEMMA PanNext == EditsAlone /\ Inv /\ PanInv /\ [Next]_vars => PanInv'
<1>. SUFFICES ASSUME EditsAlone, Inv, PanInv, [Next]_vars PROVE PanInv'
  OBVIOUS
<1>. USE FilesAssumption
<1>0. /\ investor \in [Ids -> Pans \union {NoPan, Unused, Deleted}]
      /\ imp \in [Imports -> Jobs]
      /\ \A j \in Imports : imp[j] \in Jobs
      /\ \A d \in stored : d.inv \in Ids /\ d.pan \in Pans \union {NoPan} /\ d.line \in Lines
      /\ {NoPan, Unused, Deleted} \intersect Pans = {} /\ NoPan # Unused /\ NoPan # Deleted
  BY DEF Inv, TypeOK, NoPan, Unused, Deleted
(* Steps of a request that store nothing and name no other investor.       *)
<1>1. ASSUME NEW j \in Imports, NEW rec, imp' = [imp EXCEPT ![j] = rec],
             UNCHANGED <<investor, stored, patch>>,
             imp[j].pc \notin {"idle"} \union Ended \/ patch = NoPatch,
             rec.pc \in {"job", "process"} /\ rec.file.pan # NoPan =>
               investor[rec.inv] \in {rec.file.pan, Deleted}
      PROVE  PanInv'
  <2>1. \A k \in Imports : imp'[k] = IF k = j THEN rec ELSE imp[k]
    BY <1>0, <1>1
  <2>. QED
    BY <1>1, <2>1 DEF PanInv, PansAreUnique, DataIsHome, TargetsFit, PatchFits
<1>2. ASSUME NEW j \in Imports, NEW f \in Files, FindInvestor(j, f) PROVE PanInv'
  <2>1. patch = NoPatch /\ UNCHANGED <<investor, stored, patch>>
    BY <1>2 DEF FindInvestor, NoEdit
  <2>2. CASE imp' = [imp EXCEPT ![j] = [NotYet EXCEPT !.pc = "create", !.file = f]]
    BY <1>1, <2>1, <2>2 DEF NotYet
  <2>3. ASSUME NEW i \in With(f.pan),
               imp' = [imp EXCEPT ![j] = [NotYet EXCEPT !.pc = "job", !.file = f, !.inv = i]]
        PROVE  PanInv'
    <3>1. investor[i] = f.pan
      BY <2>3 DEF With
    <3>. QED BY <1>1, <2>1, <2>3, <3>1 DEF NotYet
  <2>. QED
    BY <1>2, <2>2, <2>3 DEF FindInvestor
<1>3. ASSUME NEW j \in Imports, NEW f \in Files, NEW i \in Ids, OpenInvestor(j, f, i)
      PROVE  PanInv'
  <2>1. patch = NoPatch /\ UNCHANGED <<investor, stored, patch>> /\ f.pan = NoPan
    BY <1>3 DEF OpenInvestor, NoEdit
  <2>. QED
    BY <1>1, <1>3, <2>1 DEF OpenInvestor, NotYet
<1>4. ASSUME NEW j \in Imports, imp' = Ends(j), imp[j].pc \notin {"idle"} \union Ended,
             UNCHANGED <<investor, stored, patch>>
      PROVE  PanInv'
  <2>. DEFINE rec == [imp[j] EXCEPT !.pc = "over"]
  <2>1. rec.pc = "over" /\ imp' = [imp EXCEPT ![j] = rec]
    BY <1>0, <1>4 DEF Jobs, Ends
  <2>. HIDE DEF rec
  <2>. QED BY <1>1, <1>4, <2>1
<1>5. ASSUME NEW j \in Imports, CreateInvestor(j) PROVE PanInv'
  <2>1. ASSUME NEW i \in With(Unused), PanFree(imp[j].file.pan),
               investor' = [investor EXCEPT ![i] = imp[j].file.pan],
               imp' = [imp EXCEPT ![j].pc = "job", ![j].inv = i]
        PROVE  PanInv'
    <3>. DEFINE rec == [imp[j] EXCEPT !.pc = "job", !.inv = i]
    <3>1. /\ i \in Ids /\ investor[i] = Unused /\ imp[j].pc = "create"
          /\ UNCHANGED <<stored, patch>>
      BY <1>5, <2>1 DEF With, CreateInvestor
    <3>2. rec.file = imp[j].file /\ rec.inv = i
      BY <1>0 DEF Jobs
    <3>3. imp' = [imp EXCEPT ![j] = rec]
      BY <1>0, <2>1
    <3>. HIDE DEF rec
    <3>4. \A k \in Imports : imp'[k] = IF k = j THEN rec ELSE imp[k]
      BY <1>0, <3>3
    <3>5. \A k \in Ids : investor'[k] = IF k = i THEN imp[j].file.pan ELSE investor[k]
      BY <1>0, <2>1
    <3>6. PansAreUnique'
      BY <2>1, <3>1, <3>5 DEF PanInv, PansAreUnique, PanFree, With
    <3>7. DataIsHome'
      BY <1>0, <3>1, <3>5 DEF PanInv, DataIsHome
    <3>8. TargetsFit'
      <4>1. \A k \in Imports : imp[k].pc \in {"job", "process"} => imp[k].inv \in Ids
        BY DEF Inv, JobsKnown, AtWork
      <4>2. \A k \in Imports : imp[k].file.pan \in Pans \union {NoPan}
        BY <1>0, Constants DEF Jobs
      <4>. QED
        BY <1>0, <3>1, <3>2, <3>4, <3>5, <4>1, <4>2 DEF PanInv, TargetsFit, Unused, Deleted
    <3>9. patch = NoPatch
      BY <3>1 DEF PanInv, PatchFits, Ended
    <3>. QED BY <3>1, <3>6, <3>7, <3>8, <3>9 DEF PanInv, PatchFits
  <2>2. CASE imp' = Ends(j) /\ UNCHANGED investor
    BY <1>4, <1>5, <2>2 DEF CreateInvestor, Ended
  <2>. QED
    BY <1>5, <2>1, <2>2 DEF CreateInvestor
<1>6. ASSUME NEW j \in Imports, CreateJob(j) PROVE PanInv'
  <2>1. /\ imp[j].pc = "job" /\ UNCHANGED <<investor, stored, patch>>
        /\ imp[j].pc \notin {"idle"} \union Ended
    BY <1>6 DEF CreateJob, Ended
  <2>2. CASE imp' = [imp EXCEPT ![j].pc = "process", ![j].status = "pending"]
    <3>. DEFINE rec == [imp[j] EXCEPT !.pc = "process", !.status = "pending"]
    <3>1. rec.file = imp[j].file /\ rec.inv = imp[j].inv
      BY <1>0 DEF Jobs
    <3>2. imp' = [imp EXCEPT ![j] = rec]
      BY <1>0, <2>2
    <3>. HIDE DEF rec
    <3>3. imp[j].file.pan # NoPan => investor[imp[j].inv] \in {imp[j].file.pan, Deleted}
      BY <2>1 DEF PanInv, TargetsFit
    <3>. QED BY <1>1, <2>1, <3>1, <3>2, <3>3
  <2>3. CASE imp' = Ends(j)
    BY <1>4, <2>1, <2>3
  <2>. QED
    BY <1>6, <2>2, <2>3 DEF CreateJob
<1>7. ASSUME NEW j \in Imports, NEW rec, imp' = [imp EXCEPT ![j] = rec],
             rec.pc \notin {"job", "process"}, imp[j].pc \notin {"idle"} \union Ended,
             UNCHANGED <<investor, stored, patch>>
      PROVE  PanInv'
  BY <1>1, <1>7
<1>8. ASSUME NEW j \in Imports, Preview(j) PROVE PanInv'
  <2>. DEFINE rec == [imp[j] EXCEPT !.pc = "save", !.outcome = "needs_confirmation"]
  <2>1. rec.pc = "save" /\ imp' = [imp EXCEPT ![j] = rec] /\ imp[j].pc \notin {"idle"} \union Ended
    BY <1>0, <1>8 DEF Preview, Jobs, Ended
  <2>. HIDE DEF rec
  <2>. QED BY <1>7, <1>8, <2>1 DEF Preview
<1>9. ASSUME NEW j \in Imports, Persist(j) PROVE PanInv'
  <2>. DEFINE i == imp[j].inv
              f == imp[j].file
              rec == [imp[j] EXCEPT !.pc = "save", !.outcome = Outcome(f), !.landed = TRUE]
  <2>1. /\ imp[j].pc = "process" /\ imp' = [imp EXCEPT ![j] = rec] /\ Row(i)
        /\ UNCHANGED <<investor, patch>> /\ stored' = Persisted(i, f) /\ rec.pc = "save"
    BY <1>0, <1>9 DEF Persist, Jobs
  <2>2. patch = NoPatch
    BY <2>1 DEF PanInv, PatchFits, Ended
  <2>3. f.pan # NoPan => investor[i] = f.pan
    BY <2>1 DEF PanInv, TargetsFit, Row
  <2>. HIDE DEF rec
  <2>4. \A k \in Imports : imp'[k] = IF k = j THEN rec ELSE imp[k]
    BY <1>0, <2>1
  <2>. HIDE DEF i, f
  <2>5. \A d \in Data(i, f) : d.inv = i /\ d.pan = f.pan
    BY DEF Data
  <2>6. DataIsHome'
    BY <2>1, <2>3, <2>5 DEF PanInv, DataIsHome, Persisted
  <2>. QED
    BY <2>1, <2>2, <2>4, <2>6 DEF PanInv, PansAreUnique, TargetsFit, PatchFits
<1>10. ASSUME NEW j \in Imports, ProcessorRaises(j) PROVE PanInv'
  <2>. DEFINE rec == [imp[j] EXCEPT !.pc = "save", !.outcome = "failed"]
  <2>1. rec.pc = "save" /\ imp' = [imp EXCEPT ![j] = rec] /\ imp[j].pc \notin {"idle"} \union Ended
    BY <1>0, <1>10 DEF ProcessorRaises, Jobs, Ended
  <2>. HIDE DEF rec
  <2>. QED BY <1>7, <1>10, <2>1 DEF ProcessorRaises
<1>11. ASSUME NEW j \in Imports, SaveJob(j) PROVE PanInv'
  <2>. DEFINE rec == [imp[j] EXCEPT !.status = imp[j].outcome,
                        !.pc = IF imp[j].outcome \in RanThrough THEN After("save") ELSE "done"]
  <2>1. imp[j].pc \notin {"idle"} \union Ended /\ UNCHANGED <<investor, stored, patch>>
    BY <1>11 DEF SaveJob, Ended
  <2>2. CASE Row(imp[j].inv)
    <3>1. rec.pc \in {"find", "done"}
      BY <1>0, Constants DEF Jobs
    <3>2. imp' = [imp EXCEPT ![j] = rec]
      BY <1>0, <1>11, <2>2 DEF SaveJob
    <3>. HIDE DEF rec
    <3>. QED BY <1>7, <2>1, <3>1, <3>2
  <2>. QED
    BY <1>4, <1>11, <2>1, <2>2 DEF SaveJob
<1>12. ASSUME NEW j \in Imports, FindCorrected(j) PROVE PanInv'
  <2>. DEFINE rec == [imp[j] EXCEPT !.pc = "resolve",
                 !.fixed = {e \in Clearable(j) : e[2] \in LinesOf(imp[j].inv)}]
  <2>1. rec.pc = "resolve" /\ imp' = [imp EXCEPT ![j] = rec]
    BY <1>0, <1>12, Constants DEF FindCorrected, Jobs
  <2>2. imp[j].pc \notin {"idle"} \union Ended
    BY <1>12 DEF FindCorrected, Ended
  <2>. HIDE DEF rec
  <2>. QED BY <1>7, <1>12, <2>1, <2>2 DEF FindCorrected
<1>13. ASSUME NEW j \in Imports, ResolveQuarantine(j) PROVE PanInv'
  <2>. DEFINE rec == [imp[j] EXCEPT !.pc = "record", !.fixed = {}]
  <2>1. rec.pc = "record" /\ imp' = [imp EXCEPT ![j] = rec]
    BY <1>0, <1>13, Constants DEF ResolveQuarantine, Jobs
  <2>2. imp[j].pc \notin {"idle"} \union Ended
    BY <1>13 DEF ResolveQuarantine, Ended
  <2>. HIDE DEF rec
  <2>. QED BY <1>7, <1>13, <2>1, <2>2 DEF ResolveQuarantine
<1>14. ASSUME NEW j \in Imports, RecordQuarantine(j) PROVE PanInv'
  <2>. DEFINE rec == [imp[j] EXCEPT !.pc = "done"]
  <2>1. /\ imp[j].pc \notin {"idle"} \union Ended /\ UNCHANGED <<investor, stored, patch>>
        /\ imp' = [imp EXCEPT ![j].pc = "done"] \/ imp' = Ends(j)
    BY <1>14, Constants DEF RecordQuarantine, Ended
  <2>2. rec.pc = "done" /\ [imp EXCEPT ![j].pc = "done"] = [imp EXCEPT ![j] = rec]
    BY <1>0 DEF Jobs
  <2>. HIDE DEF rec
  <2>. QED BY <1>4, <1>7, <2>1, <2>2
<1>15. ASSUME NEW j \in Imports, RequestDies(j) PROVE PanInv'
  BY <1>4, <1>15 DEF RequestDies, Ended
<1>16. ASSUME NEW i \in Ids, NEW p \in Pans \union {NoPan}, AddInvestor(i, p) PROVE PanInv'
  <2>1. \A k \in Ids : investor'[k] = IF k = i THEN p ELSE investor[k]
    BY <1>0, <1>16 DEF AddInvestor
  <2>2. investor[i] = Unused /\ PanFree(p) /\ UNCHANGED <<stored, imp, patch>>
    BY <1>16 DEF AddInvestor
  <2>3. PansAreUnique'
    BY <1>0, <2>1, <2>2 DEF PanInv, PansAreUnique, PanFree, With
  <2>4. DataIsHome'
    BY <1>0, <2>1, <2>2 DEF PanInv, DataIsHome
  <2>5. TargetsFit'
    <3>1. \A k \in Imports : /\ imp[k].pc \in {"job", "process"} => imp[k].inv \in Ids
                             /\ imp[k].file.pan \in Pans \union {NoPan}
      BY <1>0, Constants DEF Inv, JobsKnown, AtWork, Jobs
    <3>. QED
      BY <1>0, <2>1, <2>2, <3>1 DEF PanInv, TargetsFit, Unused, Deleted
  <2>. QED BY <2>2, <2>3, <2>4, <2>5 DEF PanInv, PatchFits
<1>17. ASSUME NEW i \in Ids, NEW p \in Pans \union {NoPan}, LoadPatch(i, p) PROVE PanInv'
  <2>1. \A j \in Imports : imp[j].pc \in {"idle"} \union Ended
    BY <1>17 DEF LoadPatch, NoImport, Ended
  <2>2. \A d \in stored : d.inv = i /\ d.pan # NoPan => p = d.pan
    <3>. SUFFICES ASSUME NEW d \in stored, d.inv = i, d.pan # NoPan PROVE p = d.pan
      OBVIOUS
    <3>1. investor[i] = d.pan
      BY DEF PanInv, DataIsHome
    <3>2. d.line \in LinesOf(i)
      BY DEF LinesOf
    <3>. QED BY <1>17, <3>1, <3>2 DEF LoadPatch, PanLocked
  <2>3. patch' = [inv |-> i, pan |-> p] /\ UNCHANGED <<investor, stored, imp>>
    BY <1>17 DEF LoadPatch
  <2>. QED
    BY <2>1, <2>2, <2>3 DEF PanInv, PansAreUnique, DataIsHome, TargetsFit, PatchFits
<1>18. ASSUME NEW i \in Ids, DeleteInvestor(i) PROVE PanInv'
  <2>1. \A k \in Ids : investor'[k] = IF k = i THEN Deleted ELSE investor[k]
    BY <1>0, <1>18 DEF DeleteInvestor
  <2>2. /\ stored' \subseteq stored /\ \A d \in stored' : d.inv # i
        /\ patch' = patch
    BY <1>18 DEF DeleteInvestor, Spared
  <2>3. \A j \in Imports : /\ imp'[j].pc = imp[j].pc /\ imp'[j].inv = imp[j].inv
                           /\ imp'[j].file = imp[j].file
    BY <1>0, <1>18 DEF DeleteInvestor, Jobs
  <2>4. PansAreUnique' /\ DataIsHome'
    BY <1>0, <2>1, <2>2 DEF PanInv, PansAreUnique, DataIsHome
  <2>5. TargetsFit'
    <3>1. \A k \in Imports : imp[k].pc \in {"job", "process"} => imp[k].inv \in Ids
      BY DEF Inv, JobsKnown, AtWork
    <3>. QED BY <2>1, <2>3, <3>1 DEF PanInv, TargetsFit
  <2>6. PatchFits'
    BY <2>2, <2>3 DEF PanInv, PatchFits
  <2>. QED BY <2>4, <2>5, <2>6 DEF PanInv
<1>19. CASE SavePatch
  <2>1. /\ patch # NoPatch /\ patch.inv \in Ids /\ patch' = NoPatch
        /\ UNCHANGED <<stored, imp, quarantine>>
        /\ \A j \in Imports : imp[j].pc \in {"idle"} \union Ended
    BY <1>19 DEF SavePatch, PanInv, PatchFits
  <2>2. TargetsFit'
    BY <2>1 DEF TargetsFit, Ended
  <2>3. CASE investor' = investor
    BY <2>1, <2>2, <2>3 DEF PanInv, PansAreUnique, DataIsHome, PatchFits
  <2>4. CASE /\ investor' = [investor EXCEPT ![patch.inv] = patch.pan]
             /\ ~(patch.pan # NoPan /\ With(patch.pan) \ {patch.inv} # {})
    <3>1. \A k \in Ids : investor'[k] = IF k = patch.inv THEN patch.pan ELSE investor[k]
      BY <1>0, <2>1, <2>4
    <3>2. PansAreUnique'
      BY <1>0, <2>4, <3>1 DEF PanInv, PansAreUnique, With
    <3>3. DataIsHome'
      BY <1>0, <2>1, <3>1 DEF PanInv, DataIsHome, PatchFits
    <3>. QED BY <2>1, <2>2, <3>2, <3>3 DEF PanInv, PatchFits
  <2>. QED BY <1>19, <2>3, <2>4 DEF SavePatch
<1>20. ASSUME UNCHANGED <<investor, stored, patch, imp>> PROVE PanInv'
  BY <1>20 DEF PanInv, PansAreUnique, DataIsHome, TargetsFit, PatchFits
<1>21. CASE UNCHANGED vars
  BY <1>20, <1>21 DEF vars
<1>22. ASSUME NEW e \in Entries, DismissQuarantine(e) PROVE PanInv'
  BY <1>20, <1>22 DEF DismissQuarantine
<1>. QED
  BY <1>2, <1>3, <1>5, <1>6, <1>8, <1>9, <1>10, <1>11, <1>12, <1>13, <1>14, <1>15, <1>16,
     <1>17, <1>18, <1>19, <1>21, <1>22 DEF Next

(* Whatever uploads race for a new PAN and whatever is created, edited or  *)
(* deleted, all data imported under one PAN is in one investor that still  *)
(* has it, as long as edits of an investor and imports into it take turns  *)
(* (resolve_or_create_investor, update_investor, pan_locked).              *)
THEOREM DataStaysWithPan == ASSUME EditsAlone PROVE Spec => []DataFollowsPan
<1>1. Inv /\ PanInv => DataFollowsPan
  BY FilesAssumption DEF Inv, TypeOK, PanInv, PansAreUnique, DataIsHome, DataFollowsPan
<1>2. Inv /\ PanInv /\ [Next]_vars => PanInv'
  BY PanNext
<1>. QED
  BY <1>1, <1>2, PanInit, Invariance, PTL DEF Spec

-----------------------------------------------------------------------------
(* CorrectedIsCleared: a row whose line has been stored waits for an       *)
(* import that has stored it and is still to clear it, or never will.      *)
Waiting(e) ==
  /\ quarantine[e].state = "open" /\ quarantine[e].fixed
  /\ e[2] \in LinesOf(imp[e[1]].inv)

Owes(k, e) ==
  /\ imp[k].landed /\ imp[k].inv = imp[e[1]].inv /\ e[2] \in imp[k].file.good
  /\ \/ imp[k].pc \in {"save", "find", "over"}
     \/ imp[k].pc = "resolve" /\ e \in imp[k].fixed
     \/ imp[k].pc = "done" /\ imp[k].status = "failed"

ClearingIsOwed == \A e \in Entries : Waiting(e) => \E k \in Imports : Owes(k, e)

LEMMA OwedInit == Init => ClearingIsOwed
BY DEF Init, ClearingIsOwed, Waiting, NoEntry

LEMMA OwedNext == Inv /\ ClearingIsOwed /\ [Next]_vars => ClearingIsOwed'
<1>. SUFFICES ASSUME Inv, ClearingIsOwed, [Next]_vars PROVE ClearingIsOwed'
  OBVIOUS
<1>. USE FilesAssumption
<1>0. /\ imp \in [Imports -> Jobs] /\ quarantine \in [Entries -> Rejects]
      /\ \A j \in Imports : imp[j] \in Jobs
      /\ \A e \in Entries : e[1] \in Imports /\ quarantine[e] \in Rejects
      /\ \A e \in Entries : quarantine[e].state # "none" => imp[e[1]].pc \in Ended
  BY DEF Inv, TypeOK, RejectsAreLate, Entries
(* A request that stores and clears nothing, and owes what it owed.        *)
<1>1. ASSUME NEW j \in Imports, NEW rec, imp' = [imp EXCEPT ![j] = rec],
             imp[j].pc \notin Ended, UNCHANGED <<stored, quarantine>>,
             \A e \in Entries : Waiting(e) /\ Owes(j, e) =>
               /\ rec.landed /\ rec.inv = imp[j].inv /\ rec.file = imp[j].file
               /\ \/ rec.pc \in {"save", "find", "over"}
                  \/ rec.pc = "resolve" /\ e \in rec.fixed
                  \/ rec.pc = "done" /\ rec.status = "failed"
      PROVE  ClearingIsOwed'
  <2>. SUFFICES ASSUME NEW e \in Entries, Waiting(e)' PROVE \E k \in Imports : Owes(k, e)'
    BY DEF ClearingIsOwed
  <2>1. \A k \in Imports : imp'[k] = IF k = j THEN rec ELSE imp[k]
    BY <1>0, <1>1
  <2>2. e[1] # j /\ e[1] \in Imports
    BY <1>0, <1>1 DEF Waiting
  <2>3. Waiting(e)
    BY <1>1, <2>1, <2>2 DEF Waiting, LinesOf
  <2>4. PICK k \in Imports : Owes(k, e)
    BY <2>3 DEF ClearingIsOwed
  <2>5. CASE k = j
    BY <1>1, <2>1, <2>2, <2>3, <2>4, <2>5 DEF Owes
  <2>6. CASE k # j
    BY <2>1, <2>2, <2>4, <2>6 DEF Owes
  <2>. QED BY <2>5, <2>6
<1>2. ASSUME NEW j \in Imports, NEW rec, imp' = [imp EXCEPT ![j] = rec],
             imp[j].pc \in {"idle", "create", "job", "process", "record"},
             UNCHANGED <<stored, quarantine>>
      PROVE  ClearingIsOwed'
  <2>1. \A e \in Entries : ~Owes(j, e)
    BY <1>2 DEF Owes
  <2>. QED BY <1>1, <1>2, <2>1 DEF Ended
<1>3. ASSUME NEW j \in Imports, imp' = Ends(j), imp[j].pc \notin Ended,
             UNCHANGED <<stored, quarantine>>
      PROVE  ClearingIsOwed'
  <2>. DEFINE rec == [imp[j] EXCEPT !.pc = "over"]
  <2>1. /\ imp' = [imp EXCEPT ![j] = rec] /\ rec.pc = "over" /\ rec.landed = imp[j].landed
        /\ rec.inv = imp[j].inv /\ rec.file = imp[j].file
    BY <1>0, <1>3 DEF Ends, Jobs
  <2>. HIDE DEF rec
  <2>. QED BY <1>1, <1>3, <2>1 DEF Owes
<1>4. ASSUME NEW j \in Imports, NEW f \in Files, FindInvestor(j, f) PROVE ClearingIsOwed'
  BY <1>2, <1>4 DEF FindInvestor
<1>5. ASSUME NEW j \in Imports, NEW f \in Files, NEW i \in Ids, OpenInvestor(j, f, i)
      PROVE  ClearingIsOwed'
  BY <1>2, <1>5 DEF OpenInvestor
<1>6. ASSUME NEW j \in Imports, CreateInvestor(j) PROVE ClearingIsOwed'
  <2>1. ASSUME NEW i, imp' = [imp EXCEPT ![j].pc = "job", ![j].inv = i] PROVE ClearingIsOwed'
    <3>1. imp' = [imp EXCEPT ![j] = [imp[j] EXCEPT !.pc = "job", !.inv = i]]
      BY <1>0, <2>1
    <3>. QED BY <1>2, <1>6, <3>1 DEF CreateInvestor
  <2>. QED
    BY <1>3, <1>6, <2>1 DEF CreateInvestor, Ended
<1>7. ASSUME NEW j \in Imports, CreateJob(j) PROVE ClearingIsOwed'
  <2>1. CASE imp' = [imp EXCEPT ![j].pc = "process", ![j].status = "pending"]
    <3>1. imp' = [imp EXCEPT ![j] = [imp[j] EXCEPT !.pc = "process", !.status = "pending"]]
      BY <1>0, <2>1
    <3>. QED BY <1>2, <1>7, <3>1 DEF CreateJob
  <2>. QED
    BY <1>3, <1>7, <2>1 DEF CreateJob, Ended
<1>8. ASSUME NEW j \in Imports, Preview(j) PROVE ClearingIsOwed'
  <2>1. imp' = [imp EXCEPT ![j] = [imp[j] EXCEPT !.pc = "save", !.outcome = "needs_confirmation"]]
    BY <1>0, <1>8 DEF Preview
  <2>. QED BY <1>2, <1>8, <2>1 DEF Preview
<1>9. ASSUME NEW j \in Imports, Persist(j) PROVE ClearingIsOwed'
  <2>. DEFINE i == imp[j].inv
              f == imp[j].file
              rec == [imp[j] EXCEPT !.pc = "save", !.outcome = Outcome(f), !.landed = TRUE]
  <2>. SUFFICES ASSUME NEW e \in Entries, Waiting(e)' PROVE \E k \in Imports : Owes(k, e)'
    BY DEF ClearingIsOwed
  <2>1. /\ imp[j].pc = "process" /\ imp' = [imp EXCEPT ![j] = rec]
        /\ stored' = Persisted(i, f)
    BY <1>0, <1>9 DEF Persist
  <2>2. rec.pc = "save" /\ rec.inv = i /\ rec.file = f /\ rec.landed
    BY <1>0 DEF Jobs
  <2>. HIDE DEF rec
  <2>3. \A k \in Imports : imp'[k] = IF k = j THEN rec ELSE imp[k]
    BY <1>0, <2>1
  <2>4. /\ quarantine'[e].state = quarantine[e].state
        /\ quarantine'[e].fixed =>
             quarantine[e].fixed \/ (e \in OwnEntries(i) /\ e[2] \in f.good)
    BY <1>0, <1>9 DEF Persist, Rejects
  <2>5. e[1] # j /\ imp'[e[1]] = imp[e[1]]
    BY <1>0, <2>1, <2>3, <2>4 DEF Waiting, Ended
  <2>6. CASE imp[e[1]].inv = i /\ e[2] \in f.good
    BY <2>2, <2>3, <2>5, <2>6 DEF Owes
  <2>7. CASE ~(imp[e[1]].inv = i /\ e[2] \in f.good)
    <3>1. quarantine[e].fixed
      BY <2>4, <2>7 DEF Waiting, OwnEntries
    <3>2. PICK d \in stored' : d.inv = imp[e[1]].inv /\ d.line = e[2]
      BY <2>5 DEF Waiting, LinesOf
    <3>3. d \in stored \/ (d.inv = i /\ d.line \in f.good)
      BY <2>1, <3>2 DEF Persisted, Data
    <3>4. e[2] \in LinesOf(imp[e[1]].inv)
      BY <2>7, <3>2, <3>3 DEF LinesOf
    <3>5. Waiting(e)
      BY <2>4, <3>1, <3>4 DEF Waiting
    <3>6. PICK k \in Imports : Owes(k, e)
      BY <3>5 DEF ClearingIsOwed
    <3>7. k # j
      BY <2>1, <3>6 DEF Owes
    <3>. QED
      BY <2>3, <2>5, <3>6, <3>7 DEF Owes
  <2>. QED BY <2>6, <2>7
<1>10. ASSUME NEW j \in Imports, ProcessorRaises(j) PROVE ClearingIsOwed'
  <2>. DEFINE rec == [imp[j] EXCEPT !.pc = "save", !.outcome = "failed"]
  <2>1. /\ imp' = [imp EXCEPT ![j] = rec] /\ rec.pc = "save" /\ rec.landed = imp[j].landed
        /\ rec.inv = imp[j].inv /\ rec.file = imp[j].file
    BY <1>0, <1>10 DEF ProcessorRaises, Jobs
  <2>2. imp[j].pc \notin Ended /\ UNCHANGED <<stored, quarantine>>
    BY <1>10 DEF ProcessorRaises, Ended
  <2>. HIDE DEF rec
  <2>. QED BY <1>1, <2>1, <2>2 DEF Owes
<1>11. ASSUME NEW j \in Imports, SaveJob(j) PROVE ClearingIsOwed'
  <2>. DEFINE rec == [imp[j] EXCEPT !.status = imp[j].outcome,
                        !.pc = IF imp[j].outcome \in RanThrough THEN After("save") ELSE "done"]
  <2>1. imp[j].pc = "save" /\ UNCHANGED <<stored, quarantine>> /\ imp[j].pc \notin Ended
    BY <1>11 DEF SaveJob, Ended
  <2>2. CASE Row(imp[j].inv)
    <3>1. /\ rec.landed = imp[j].landed /\ rec.inv = imp[j].inv /\ rec.file = imp[j].file
          /\ rec.status = imp[j].outcome
          /\ rec.pc = IF imp[j].outcome \in RanThrough THEN "find" ELSE "done"
      BY <1>0, Constants DEF Jobs
    <3>2. imp' = [imp EXCEPT ![j] = rec]
      BY <1>0, <1>11, <2>2 DEF SaveJob
    <3>3. imp[j].landed => imp[j].outcome \in RanThrough \union {"failed"}
      BY <2>1 DEF Inv, LandedShape
    <3>4. imp[j].landed => rec.pc = "find" \/ (rec.pc = "done" /\ rec.status = "failed")
      BY <3>1, <3>3
    <3>. HIDE DEF rec
    <3>5. \A e \in Entries : Owes(j, e) => imp[j].landed
      BY DEF Owes
    <3>. QED BY <1>1, <2>1, <3>1, <3>2, <3>4, <3>5
  <2>. QED
    BY <1>3, <1>11, <2>1, <2>2 DEF SaveJob
<1>12. ASSUME NEW j \in Imports, FindCorrected(j) PROVE ClearingIsOwed'
  <2>. DEFINE rec == [imp[j] EXCEPT !.pc = "resolve",
                 !.fixed = {e \in Clearable(j) : e[2] \in LinesOf(imp[j].inv)}]
  <2>1. /\ imp' = [imp EXCEPT ![j] = rec] /\ rec.pc = "resolve" /\ rec.landed = imp[j].landed
        /\ rec.inv = imp[j].inv /\ rec.file = imp[j].file
        /\ rec.fixed = {e \in Clearable(j) : e[2] \in LinesOf(imp[j].inv)}
    BY <1>0, <1>12, Constants DEF FindCorrected, Jobs
  <2>2. imp[j].pc \notin Ended /\ UNCHANGED <<stored, quarantine>>
    BY <1>12 DEF FindCorrected, Ended
  <2>3. \A e \in Entries : Waiting(e) /\ Owes(j, e) => e \in rec.fixed
    BY <2>1 DEF Waiting, Owes, Clearable, OpenRows, OwnEntries
  <2>. HIDE DEF rec
  <2>. QED BY <1>1, <2>1, <2>2, <2>3 DEF Owes
<1>13. ASSUME NEW j \in Imports, ResolveQuarantine(j) PROVE ClearingIsOwed'
  <2>. DEFINE rec == [imp[j] EXCEPT !.pc = "record", !.fixed = {}]
  <2>. SUFFICES ASSUME NEW e \in Entries, Waiting(e)' PROVE \E k \in Imports : Owes(k, e)'
    BY DEF ClearingIsOwed
  <2>1. imp' = [imp EXCEPT ![j] = rec] /\ imp[j].pc = "resolve" /\ stored' = stored
    BY <1>0, <1>13, Constants DEF ResolveQuarantine
  <2>. HIDE DEF rec
  <2>2. \A k \in Imports : imp'[k] = IF k = j THEN rec ELSE imp[k]
    BY <1>0, <2>1
  <2>3. quarantine'[e] = quarantine[e] /\ ~(e \in imp[j].fixed /\ quarantine[e].state = "open")
    BY <1>0, <1>13 DEF ResolveQuarantine, Waiting, Rejects
  <2>4. e[1] # j /\ imp'[e[1]] = imp[e[1]]
    BY <1>0, <2>1, <2>2, <2>3 DEF Waiting, Ended
  <2>5. Waiting(e) /\ e \notin imp[j].fixed
    BY <2>1, <2>3, <2>4 DEF Waiting, LinesOf
  <2>6. PICK k \in Imports : Owes(k, e)
    BY <2>5 DEF ClearingIsOwed
  <2>7. k # j
    BY <2>1, <2>5, <2>6 DEF Owes
  <2>. QED
    BY <2>2, <2>4, <2>6, <2>7 DEF Owes
<1>14. ASSUME NEW j \in Imports, RecordQuarantine(j) PROVE ClearingIsOwed'
  <2>. DEFINE rec == [imp[j] EXCEPT !.pc = "done"]
  <2>1. imp[j].pc = "record" /\ stored' = stored /\ imp[j].pc \notin Ended
    BY <1>14 DEF RecordQuarantine, Ended
  <2>2. CASE imp' = Ends(j) /\ UNCHANGED quarantine
    BY <1>3, <2>1, <2>2
  <2>3. CASE /\ quarantine' = [e \in Entries |->
                   IF e[1] = j /\ e[2] \in SetAside(imp[j].file) THEN OpenEntry ELSE quarantine[e]]
             /\ imp' = [imp EXCEPT ![j].pc = After("record")]
    <3>. SUFFICES ASSUME NEW e \in Entries, Waiting(e)' PROVE \E k \in Imports : Owes(k, e)'
      BY DEF ClearingIsOwed
    <3>1. imp' = [imp EXCEPT ![j] = rec]
      BY <1>0, <2>3, Constants
    <3>. HIDE DEF rec
    <3>2. \A k \in Imports : imp'[k] = IF k = j THEN rec ELSE imp[k]
      BY <1>0, <3>1
    <3>3. quarantine'[e] = quarantine[e] /\ quarantine[e].state = "open"
      BY <2>3 DEF Waiting, OpenEntry, NoEntry
    <3>4. e[1] # j /\ imp'[e[1]] = imp[e[1]]
      BY <1>0, <2>1, <3>2, <3>3 DEF Ended
    <3>5. Waiting(e)
      BY <2>1, <3>3, <3>4 DEF Waiting, LinesOf
    <3>6. PICK k \in Imports : Owes(k, e)
      BY <3>5 DEF ClearingIsOwed
    <3>7. k # j
      BY <2>1, <3>6 DEF Owes
    <3>. QED
      BY <3>2, <3>4, <3>6, <3>7 DEF Owes
  <2>. QED BY <1>14, <2>2, <2>3 DEF RecordQuarantine
<1>15. ASSUME NEW j \in Imports, RequestDies(j) PROVE ClearingIsOwed'
  BY <1>3, <1>15 DEF RequestDies, Ended
<1>16. ASSUME NEW q \in Entries, DismissQuarantine(q) PROVE ClearingIsOwed'
  <2>1. \A e \in Entries : quarantine'[e] = quarantine[e] \/ quarantine'[e].state = "dismissed"
    BY <1>0, <1>16 DEF DismissQuarantine, Rejects
  <2>2. UNCHANGED <<stored, imp>>
    BY <1>16 DEF DismissQuarantine
  <2>. QED BY <2>1, <2>2 DEF ClearingIsOwed, Waiting, Owes, LinesOf
<1>17. ASSUME NEW i \in Ids, DeleteInvestor(i) PROVE ClearingIsOwed'
  <2>. SUFFICES ASSUME NEW e \in Entries, Waiting(e)' PROVE \E k \in Imports : Owes(k, e)'
    BY DEF ClearingIsOwed
  <2>1. /\ imp[e[1]].inv # i /\ quarantine'[e] = quarantine[e]
        /\ stored' \subseteq stored
    BY <1>17 DEF DeleteInvestor, NoEntry, Waiting, Spared
  <2>2. \A k \in Imports : imp'[k] = IF imp[k].inv = i THEN [imp[k] EXCEPT !.status = "none"]
                                       ELSE imp[k]
    BY <1>17 DEF DeleteInvestor
  <2>3. imp'[e[1]] = imp[e[1]] /\ e[1] \in Imports
    BY <1>0, <2>1, <2>2
  <2>4. Waiting(e)
    BY <2>1, <2>3 DEF Waiting, LinesOf
  <2>5. PICK k \in Imports : Owes(k, e)
    BY <2>4 DEF ClearingIsOwed
  <2>6. imp'[k] = imp[k]
    BY <2>1, <2>2, <2>5 DEF Owes
  <2>. QED
    BY <2>3, <2>5, <2>6 DEF Owes
<1>18. ASSUME UNCHANGED <<stored, imp, quarantine>> PROVE ClearingIsOwed'
  BY <1>18 DEF ClearingIsOwed, Waiting, Owes, LinesOf
<1>. QED
  BY <1>4, <1>5, <1>6, <1>7, <1>8, <1>9, <1>10, <1>11, <1>12, <1>13, <1>14, <1>15, <1>16,
     <1>17, <1>18 DEF Next, vars, AddInvestor, LoadPatch, SavePatch

(* A row whose line has been stored since stays open only while an import  *)
(* that stored it has its clearing ahead, died, or failed after its        *)
(* commit: no other import, edit or deletion makes one forgotten           *)
(* (resolve_quarantine, run_import_job).                                   *)
THEOREM CorrectedClears == Spec => []CorrectedIsCleared
<1>1. ClearingIsOwed => CorrectedIsCleared
  BY DEF ClearingIsOwed, Waiting, Owes, CorrectedIsCleared
<1>. QED
  BY <1>1, OwedInit, OwedNext, Invariance, PTL DEF Spec
=============================================================================
