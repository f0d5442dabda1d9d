-------------------------- MODULE MCValuationJobs --------------------------
(* The instances of ValuationJobs that TLC checks: the configurations give *)
(* the constants; investors and threads are model values.                  *)
EXTENDS ValuationJobs
=============================================================================
