--------------------------- MODULE MCMfCasImport ---------------------------
(* The statement periods of the runs of MfCasImport.                       *)
EXTENDS MfCasImport

Units == -1..2

\* One partial period beside statements that start at inception.
OnePartial == {<<1, 2>>, <<1, 4>>, <<3, 4>>}
\* Three consecutive periods.
ThreePeriods == {<<1, 1>>, <<2, 2>>, <<3, 3>>}
\* Every period there is.
AllPeriods == {w \in (1..LastDay) \X (1..LastDay) : w[1] <= w[2]}
=============================================================================
