---------------------------- MODULE MCEcasImport ----------------------------
(* The instances of EcasImport that TLC checks: the configurations give    *)
(* the constants; securities, accounts and requests are model values.      *)
EXTENDS EcasImport
=============================================================================
