-------------------------- MODULE MCCorporateActions --------------------------
(***************************************************************************)
(* Worlds for CorporateActions, in half shares: an ordinary holding with a *)
(* split and a bonus, a merger that leaves a fraction, a demerger, and     *)
(* offers typed in by hand.                                                *)
(***************************************************************************)
EXTENDS LedgerViews

MCFolios == {"f", "g"}
MCSecurities == {"P", "A", "C"}

Trade(folio, sec, day, type, shares, value) ==
  [sec |-> sec, folio |-> folio, day |-> day, type |-> type, units |-> shares * Share,
   value |-> value, ref |-> NoRef, complete |-> TRUE]
Ref(ref, exchange, sec, kind, day, num, den) ==
  [ref |-> ref, exchange |-> exchange, review |-> FALSE, sec |-> sec, kind |-> kind,
   day |-> day, num |-> num, den |-> den, perShare |-> 0]
Dividend(ref, sec, day, perShare) ==
  [Ref(ref, "NSE", sec, "dividend", day, 1, 1) EXCEPT !.perShare = perShare]
Anchor(folio, sec, shares) == [folio |-> folio, sec |-> sec, units |-> shares * Share]
Manual(ref, folio, sec, kind, day, num, den, into) ==
  [folio |-> folio, sec |-> sec, kind |-> kind, day |-> day, num |-> num, den |-> den,
   exact |-> FALSE, into |-> into, units |-> 0, value |-> 0, ref |-> ref, sheds |-> {}]
At(ev, shares, value) == [ev EXCEPT !.units = shares * Share, !.value = value]

Nothing == [books |-> {}, references |-> {}, anchors |-> {}, authored |-> {},
            receipts |-> {}, renames |-> {}]

SplitWorld == [Nothing EXCEPT
  !.books = {<<Trade("f", "P", 1, "buy", 2, 80), Trade("f", "P", 2, "buy", 3, 240),
               Trade("f", "P", 2, "sell", 1, 90)>>,
             <<Trade("f", "P", 6, "sell", 5, 300)>>},
  !.references = {Ref(1, "NSE", "P", "bonus", 5, 3, 2), Ref(2, "NSE", "P", "split", 3, 2, 1),
                  Ref(3, "BSE", "P", "split", 3, 2, 1), Dividend(4, "P", 4, 1), Dividend(6, "P", 2, 1),
                  [Ref(5, "BSE", "P", "split", 6, 5, 1) EXCEPT !.review = TRUE]},
  !.anchors = {Anchor("f", "P", 8), Anchor("f", "P", 7)}]
FoliosWorld == [Nothing EXCEPT
  !.books = {<<Trade("f", "P", 1, "buy", 2, 80)>>,
             <<Trade("g", "P", 1, "buy", 2, 100), Trade("g", "P", 4, "buy", 1, 60)>>,
             <<Trade("g", "P", 2, "sell", 3, 90)>>},
  !.references = {Ref(1, "NSE", "P", "split", 3, 2, 1)},
  !.anchors = {Anchor("f", "P", 4), Anchor("g", "P", 5)}]
OldWorld == [Nothing EXCEPT
  !.books = {<<Trade("f", "P", 0, "buy", 2, 80), Trade("f", "P", 2, "buy", 2, 160)>>,
             <<Trade("f", "P", 6, "sell", 5, 300)>>},
  !.references = {Ref(1, "NSE", "P", "split", 3, 2, 1)},
  !.anchors = {Anchor("f", "P", 8), Anchor("f", "P", 3)}]
MergerWorld == [Nothing EXCEPT
  !.books = {<<Trade("f", "P", 1, "buy", 3, 90)>>, <<Trade("f", "A", 2, "buy", 2, 100)>>,
             <<Trade("f", "P", 2, "buy", 2, 90)>>},
  !.anchors = {Anchor("f", "A", 3)},
  !.authored = {Manual(11, "f", "P", "merger", 3, 1, 2, "A"),
                Manual(12, "f", "A", "bonus", 4, 3, 2, NoSecurity)}]
DemergerWorld == [Nothing EXCEPT
  !.books = {<<Trade("f", "P", 1, "buy", 4, 80), Trade("f", "P", 2, "buy", 2, 60)>>,
             <<Trade("f", "P", 5, "sell", 5, 300)>>,
             <<Trade("f", "C", 6, "sell", 3, 50)>>},
  !.receipts = {[folio |-> "f", child |-> "C", day |-> 4,
                 lots |-> {[day |-> 1, units |-> 2 * Share, value |-> 16],
                           [day |-> 2, units |-> Share, value |-> 12]}]}]
OfferWorld == [Nothing EXCEPT
  !.books = {<<Trade("f", "P", 1, "buy", 6, 120)>>, <<Trade("f", "P", 5, "sell", 2, 60)>>},
  !.authored = {At(Manual(13, "f", "P", "rights", 2, 1, 1, NoSecurity), 2, 30),
                At(Manual(14, "f", "P", "buyback", 3, 1, 1, NoSecurity), 1, 50),
                Manual(15, "f", "P", "split", 4, 1, 2, NoSecurity)}]
RenameWorld == [Nothing EXCEPT
  !.books = {<<Trade("f", "P", 1, "buy", 2, 80)>>, <<Trade("f", "C", 5, "sell", 1, 50)>>},
  !.anchors = {Anchor("f", "C", 4)},
  !.authored = {Manual(16, "f", "P", "split", 3, 2, 1, NoSecurity)},
  !.renames = {<<"f", "P", "C">>}]
\* Mergers in a row; a position opened and closed on one day, with a dividend;
\* a receipt in one folio of a security another folio has old lots of.
ChainWorld == [Nothing EXCEPT
  !.books = {<<Trade("f", "P", 1, "buy", 2, 80)>>, <<Trade("f", "A", 1, "buy", 2, 80)>>},
  !.authored = {Manual(16, "f", "P", "merger", 3, 1, 1, "A"),
                Manual(17, "f", "A", "merger", 4, 1, 1, "C")}]
OffsetWorld == [Nothing EXCEPT
  !.books = {<<Trade("f", "P", 1, "buy", 2, 80)>>, <<Trade("f", "P", 1, "sell", 2, 90)>>},
  !.references = {Dividend(4, "P", 2, 1)}]
RejudgedWorld == [Nothing EXCEPT
  !.books = {<<Trade("g", "C", 0, "buy", 2, 80)>>, <<Trade("f", "C", 6, "sell", 3, 50)>>},
  !.anchors = {Anchor("g", "C", 4)},
  !.authored = {Manual(16, "g", "C", "split", 3, 2, 1, NoSecurity)},
  !.receipts = {[folio |-> "f", child |-> "C", day |-> 4,
                 lots |-> {[day |-> 1, units |-> 4 * Share, value |-> 16]}]}]
\* What TaxReadyNeverOversells leaves out: an offer of a security in two folios,
\* trades renamed away from their split.
OfferedWorld == [Nothing EXCEPT
  !.books = {<<Trade("f", "P", 1, "buy", 2, 80), Trade("f", "P", 6, "sell", 3, 300)>>,
             <<Trade("g", "P", 1, "buy", 2, 100)>>},
  !.authored = {At(Manual(13, "f", "P", "rights", 2, 1, 1, NoSecurity), 2, 30)}]
RenamedWorld == [Nothing EXCEPT
  !.books = {<<Trade("f", "P", 1, "buy", 2, 80), Trade("f", "P", 5, "sell", 3, 50)>>},
  !.anchors = {Anchor("f", "C", 4), Anchor("f", "P", 1)},
  !.authored = {Manual(16, "f", "P", "split", 3, 2, 1, NoSecurity)},
  !.renames = {<<"f", "P", "C">>}]
\* A price and a cutoff in the middle of the trades, years that split them.
MCQuotes == {[sec |-> "P", day |-> 1, nav |-> 40], [sec |-> "P", day |-> 4, nav |-> 60],
             [sec |-> "A", day |-> 2, nav |-> 50]}
MCYears == {<<0, 4>>, <<5, 6>>}
MCFmv == [sec \in MCSecurities |-> IF sec = "P" THEN 50 ELSE NoPrice]
MCEligible == {"P", "A"}

MCWorlds == [split |-> SplitWorld, folios |-> FoliosWorld, old |-> OldWorld,
             merger |-> MergerWorld, demerger |-> DemergerWorld, offers |-> OfferWorld,
             rename |-> RenameWorld, chain |-> ChainWorld,
             offset |-> OffsetWorld, rejudged |-> RejudgedWorld,
             offered |-> OfferedWorld, renamed |-> RenamedWorld]

(* What ReadingsAgree takes for granted holds in these worlds.             *)
ASSUME TermsAgree == OneTerms
=============================================================================
