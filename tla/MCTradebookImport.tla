------------------------ MODULE MCTradebookImport ------------------------
(* The opening lots and trade sizes of the runs of TradebookImport.        *)
EXTENDS TradebookImport, TLC

Units   == {-1, 1, 2}
SmallUnits == {-1, 1}
\* A lot on the first day, at a known price: the whole holding, part of it or
\* more than it.
KnownLots == {[day |-> 1, units |-> 1, costKnown |-> TRUE]}
UnknownLots == {[day |-> 1, units |-> u, costKnown |-> FALSE] : u \in 1..2}
\* Requests differ in nothing but their names.
RequestSymmetry == Permutations(Requests)
=============================================================================
