--------------------------- MODULE ValuationPromise ---------------------------
(***************************************************************************)
(* What the valuation work-list promises a reader of the dashboard, with   *)
(* no markers, passes, retries or threads: per investor a history of       *)
(* points is shown, some of them owed a recompute because the ledger has   *)
(* changed since or because they are only a statement's own figure; the    *)
(* history is announced (READY) when nothing is owed, and the announcement *)
(* is withdrawn in the very step that makes it untrue.                     *)
(***************************************************************************)
CONSTANTS Investors, Days

VARIABLES
  shown,     \* the days of each investor that have a point
  owed,      \* those of them that do not agree with the ledger
  announced  \* the investors whose history is announced to be current

vars == <<shown, owed, announced>>

Init ==
  /\ shown = [i \in Investors |-> {}]
  /\ owed = [i \in Investors |-> {}]
  /\ announced = Investors

(* The ledger changes: some of what is shown is now owed, or a point that  *)
(* is owed from the start appears.                                         *)
Change(i) ==
  /\ \E days \in SUBSET Days :
       /\ owed' = [owed EXCEPT ![i] = @ \union days]
       /\ shown' = [shown EXCEPT ![i] = @ \union days]
  /\ announced' = announced \ {i}

(* Work pays off debts, shows more, and never takes a point away.          *)
Work(i) ==
  /\ \E paid, new \in SUBSET Days :
       /\ owed' = [owed EXCEPT ![i] = @ \ paid]
       /\ shown' = [shown EXCEPT ![i] = @ \union new]
  /\ UNCHANGED announced

Announce(i) ==
  /\ owed[i] = {}
  /\ announced' = announced \union {i}
  /\ UNCHANGED <<shown, owed>>

(* A history may be taken for revision at any time, many at once.          *)
Withdraw ==
  /\ announced' \in SUBSET announced
  /\ UNCHANGED <<shown, owed>>

Next ==
  \/ \E i \in Investors : Change(i) \/ Work(i) \/ Announce(i)
  \/ Withdraw

Spec == Init /\ [][Next]_vars
=============================================================================
