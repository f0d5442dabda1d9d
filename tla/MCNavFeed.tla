------------------------------ MODULE MCNavFeed ------------------------------
(* Two securities, each a fund or a share, and the scheduler alone or with *)
(* a user's manual refresh beside it.                                      *)
EXTENDS NavFeed

MCSecurities == {"a", "b"}
Market(ka, kb, oa, ob) ==
  [kind |-> [s \in MCSecurities |-> IF s = "a" THEN ka ELSE kb],
   opened |-> [s \in MCSecurities |-> IF s = "a" THEN oa ELSE ob]]
MCMarkets == {Market("fund", "fund", 0, 1), Market("share", "share", 0, 3)}
MCScheduler == {{"scheduler"}}
MCBoth == {{"scheduler", "user"}}
=============================================================================
