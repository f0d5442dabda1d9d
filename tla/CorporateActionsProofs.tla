------------------------ MODULE CorporateActionsProofs ------------------------
(***************************************************************************)
(* What is proved of CorporateActions and LedgerViews for every set of     *)
(* folios, securities and worlds: only the user acknowledges a gap, an     *)
(* action enters a folio's log once, the tables and the amounts in them    *)
(* keep their types through every replay of the log, the FIFO lots of a    *)
(* bucket hold its net units, the last day is valued at the units held, a  *)
(* security read alone has the units it has in the whole ledger, the page  *)
(* of a scheme ends at the units held, and the two tax reports agree.      *)
(*                                                                         *)
(* The requests of the model are loops over folios and securities, and the *)
(* replays loops over rows: folds over a set.  A fold takes its loop body  *)
(* as an operator, which a lemma cannot be given; so the bodies are        *)
(* numbered by name in Body, one fold is defined for all of them, and each *)
(* loop is shown to be it.                                                 *)
(***************************************************************************)
EXTENDS LedgerInvariants, SumTheorems, SequenceTheorems

(* There is at most one function of the subsets that runs the loop.        *)
LEMMA LoopUnique ==
  ASSUME NEW loop, NEW arg, NEW base, NEW S, IsFiniteSet(S), Picks(loop, arg, S),
         NEW g, NEW h, IsLoop(loop, arg, base, S, g), IsLoop(loop, arg, base, S, h)
  PROVE  g = h
<1>. DEFINE Good == {T \in SUBSET S : g[T] = h[T]}
            x(T) == Pick(loop, arg, T)
<1>1. ASSUME NEW T \in SUBSET S, \A U \in SUBSET T : U # T => U \in Good
      PROVE  T \in Good
  <2>1. CASE T = {} BY <2>1 DEF IsLoop
  <2>2. CASE T # {}
    <3>1. x(T) \in T BY <2>2 DEF Picks
    <3>2. g[T \ {x(T)}] = h[T \ {x(T)}] BY <3>1, <1>1
    <3>3. g[T] = Body(loop, arg, x(T), g[T \ {x(T)}]) BY <2>2 DEF IsLoop
    <3>4. h[T] = Body(loop, arg, x(T), h[T \ {x(T)}]) BY <2>2 DEF IsLoop
    <3>. QED BY <3>2, <3>3, <3>4
  <2>. QED BY <2>1, <2>2
<1>. HIDE DEF Good
<1>2. \A T \in SUBSET S : T \in Good BY <1>1, SubsetInduction
<1>3. \A T \in SUBSET S : g[T] = h[T] BY <1>2 DEF Good
<1>4. g = [T \in SUBSET S |-> g[T]] /\ h = [T \in SUBSET S |-> h[T]] BY DEF IsLoop
<1>. QED BY <1>3, <1>4

LEMMA LoopIs ==
  ASSUME NEW loop, NEW arg, NEW base, NEW S, IsFiniteSet(S), Picks(loop, arg, S),
         NEW g, IsLoop(loop, arg, base, S, g)
  PROVE  Loop(loop, arg, base, S) = g[S]
<1>. DEFINE c == CHOOSE x : IsLoop(loop, arg, base, S, x)
<1>1. IsLoop(loop, arg, base, S, c) OBVIOUS
<1>2. c = g BY <1>1, LoopUnique
<1>. QED BY <1>2 DEF Loop

(* Such a function exists: what the loop leaves of every subset.           *)
LEMMA LoopExists ==
  ASSUME NEW loop, NEW arg, NEW base, NEW S, IsFiniteSet(S), Picks(loop, arg, S)
  PROVE  IsLoop(loop, arg, base, S, [T \in SUBSET S |-> Loop(loop, arg, base, T)])
<1>. DEFINE L(T) == Loop(loop, arg, base, T)
            x(T) == Pick(loop, arg, T)
            left(T) == [U \in SUBSET T |-> L(U)]
            Good == {T \in SUBSET S : IsLoop(loop, arg, base, T, left(T))}
<1>1. ASSUME NEW T \in SUBSET S, \A U \in SUBSET T : U # T => U \in Good
      PROVE  T \in Good
  <2>. DEFINE g == [U \in SUBSET T |-> IF U = {} THEN base
                     ELSE Body(loop, arg, x(U), L(U \ {x(U)}))]
  <2>1. ASSUME NEW U \in SUBSET T, U # T PROVE g[U] = L(U)
    <3>1. IsLoop(loop, arg, base, U, left(U)) BY <2>1, <1>1
    <3>2. left(U)[U] = IF U = {} THEN base
                       ELSE Body(loop, arg, x(U), left(U)[U \ {x(U)}])
      BY <3>1 DEF IsLoop
    <3>. QED BY <3>2
  <2>2. \A U \in SUBSET T : U # {} => x(U) \in U BY DEF Picks
  <2>3. \A U \in SUBSET T : U # {} => /\ U \ {x(U)} \in SUBSET T
                                      /\ U \ {x(U)} # T
    BY <2>2
  <2>4. \A U \in SUBSET T : U # {} => g[U \ {x(U)}] = L(U \ {x(U)})
    BY <2>1, <2>3
  <2>5. IsLoop(loop, arg, base, T, g)
    <3>1. \A U \in SUBSET T :
            g[U] = IF U = {} THEN base ELSE Body(loop, arg, x(U), g[U \ {x(U)}])
      BY <2>4
    <3>2. g = [U \in SUBSET T |-> g[U]] OBVIOUS
    <3>. HIDE DEF g
    <3>. QED BY <3>1, <3>2 DEF IsLoop
  <2>6. IsFiniteSet(T) /\ Picks(loop, arg, T) BY FS_Subset DEF Picks
  <2>7. L(T) = g[T]
    <3>. HIDE DEF g
    <3>. QED BY <2>5, <2>6, LoopIs
  <2>8. \A U \in SUBSET T : g[U] = L(U) BY <2>1, <2>7
  <2>9. left(T) = g
    <3>1. g = [U \in SUBSET T |-> g[U]] OBVIOUS
    <3>. HIDE DEF g
    <3>. QED BY <3>1, <2>8
  <2>. QED BY <2>5, <2>9
<1>. HIDE DEF Good
<1>2. \A T \in SUBSET S : T \in Good BY <1>1, SubsetInduction
<1>. QED BY <1>2 DEF Good

(* The defining equation of the loop.                                      *)
LEMMA LoopEmpty ==
  ASSUME NEW loop, NEW arg, NEW base
  PROVE  Loop(loop, arg, base, {}) = base
<1>1. IsLoop(loop, arg, base, {}, [T \in SUBSET {} |-> Loop(loop, arg, base, T)])
  BY LoopExists, FS_EmptySet DEF Picks
<1>. QED BY <1>1 DEF IsLoop

LEMMA LoopStep ==
  ASSUME NEW loop, NEW arg, NEW base, NEW S, IsFiniteSet(S), Picks(loop, arg, S), S # {}
  PROVE  LET x == Pick(loop, arg, S)
         IN Loop(loop, arg, base, S) = Body(loop, arg, x, Loop(loop, arg, base, S \ {x}))
<1>. DEFINE g == [T \in SUBSET S |-> Loop(loop, arg, base, T)]
            x == Pick(loop, arg, S)
<1>1. IsLoop(loop, arg, base, S, g) BY LoopExists
<1>2. g[S] = Body(loop, arg, x, g[S \ {x}]) BY <1>1 DEF IsLoop
<1>. QED BY <1>2

LEMMA SetLoopPicks ==
  ASSUME NEW loop, loop \notin {"sort", "replay", "fifo", "balance"}, NEW arg, NEW S
  PROVE  Picks(loop, arg, S)
BY DEF Picks, Pick, Chosen

(* What the rounds keep, the loop keeps.                                   *)
LEMMA LoopIn ==
  ASSUME NEW loop, NEW arg, NEW base, NEW S, IsFiniteSet(S), Picks(loop, arg, S),
         NEW Good, base \in Good,
         \A x \in S : \A s \in Good : Body(loop, arg, x, s) \in Good
  PROVE  Loop(loop, arg, base, S) \in Good
<1>. DEFINE L(T) == Loop(loop, arg, base, T)
            Kind == {T \in SUBSET S : L(T) \in Good}
<1>1. ASSUME NEW T \in SUBSET S, \A U \in SUBSET T : U # T => U \in Kind
      PROVE  T \in Kind
  <2>1. CASE T = {} BY <2>1, LoopEmpty
  <2>2. CASE T # {}
    <3>. DEFINE x == Pick(loop, arg, T)
    <3>1. x \in T BY <2>2 DEF Picks
    <3>2. L(T \ {x}) \in Good BY <3>1, <1>1
    <3>3. IsFiniteSet(T) /\ Picks(loop, arg, T) BY FS_Subset DEF Picks
    <3>4. L(T) = Body(loop, arg, x, L(T \ {x})) BY <2>2, <3>3, LoopStep
    <3>. QED BY <3>1, <3>2, <3>4
  <2>. QED BY <2>1, <2>2
<1>. HIDE DEF Kind
<1>2. \A T \in SUBSET S : T \in Kind BY <1>1, SubsetInduction
<1>. QED BY <1>2 DEF Kind

-----------------------------------------------------------------------------
(* A sort picks from any finite set, and the greatest day is one of them.  *)
LEMMA SortPicks ==
  ASSUME NEW S, IsFiniteSet(S), NEW R, StrictOn(R, S)
  PROVE  Picks("sort", R, S)
<1>. SUFFICES ASSUME NEW T \in SUBSET S, T # {} PROVE Pick("sort", R, T) \in T
  BY DEF Picks
<1>1. IsFiniteSet(T) /\ StrictOn(R, T) BY FS_Subset DEF StrictOn
<1>2. \E x \in T : \A y \in T : <<y, x>> \notin R BY <1>1, FirstElement
<1>. QED BY <1>2 DEF Pick

LEMMA Greatest ==
  ASSUME NEW S \in SUBSET Int, IsFiniteSet(S), S # {}
  PROVE  Max(S) \in S /\ \A x \in S : x <= Max(S)
<1>. DEFINE R == {p \in S \X S : p[1] > p[2]}
<1>1. \A x, y \in S : <<x, y>> \in R <=> x > y OBVIOUS
<1>. HIDE DEF R
<1>2. StrictOn(R, S) BY <1>1 DEF StrictOn
<1>3. PICK x \in S : \A y \in S : <<y, x>> \notin R BY <1>2, FirstElement
<1>4. ASSUME NEW y \in S PROVE x >= y
  <2>1. ~(y > x) BY <1>1, <1>3
  <2>2. x \in Int /\ y \in Int OBVIOUS
  <2>. QED BY <2>1, <2>2
<1>5. \A y \in S : Max(S) >= y /\ Max(S) \in S BY <1>4 DEF Max
<1>6. Max(S) \in S BY <1>4 DEF Max
<1>. QED BY <1>5, <1>6

LEMMA PlacePicks ==
  ASSUME NEW loop \in {"replay", "fifo", "balance"}, NEW arg, NEW S \in SUBSET Int, IsFiniteSet(S)
  PROVE  Picks(loop, arg, S)
<1>. SUFFICES ASSUME NEW T \in SUBSET S, T # {} PROVE Pick(loop, arg, T) \in T
  BY DEF Picks
<1>1. IsFiniteSet(T) /\ T \in SUBSET Int BY FS_Subset
<1>. QED BY <1>1, Greatest DEF Pick

LEMMA SortLoop ==
  ASSUME NEW S, IsFiniteSet(S), NEW R, StrictOn(R, S)
  PROVE  Sorted(S, R) = Loop("sort", R, <<>>, S)
<1>. DEFINE first(T) == CHOOSE x \in T : \A y \in T : <<y, x>> \notin R
            runs(g) == g = [T \in SUBSET S |-> IF T = {} THEN <<>>
                              ELSE <<first(T)>> \o g[T \ {first(T)}]]
            c == CHOOSE g : runs(g)
<1>0. Picks("sort", R, S) BY SortPicks
<1>1. ASSUME NEW g PROVE runs(g) <=> IsLoop("sort", R, <<>>, S, g)
  BY DEF IsLoop, Body, Pick
<1>2. \E g : runs(g) BY <1>0, <1>1, LoopExists
<1>3. runs(c) BY <1>2
<1>4. Sorted(S, R) = c[S] BY DEF Sorted
<1>. HIDE DEF c
<1>5. IsLoop("sort", R, <<>>, S, c) BY <1>1, <1>3
<1>6. Loop("sort", R, <<>>, S) = c[S] BY <1>0, <1>5, LoopIs
<1>. QED BY <1>4, <1>6

(* What is sorted has every member once.                                   *)
LEMMA SortedEnumerates ==
  ASSUME NEW S, IsFiniteSet(S), NEW R, StrictOn(R, S)
  PROVE  Enumerates(Sorted(S, R), S)
<1>. DEFINE L(T) == Loop("sort", R, <<>>, T)
            Good == {T \in SUBSET S : Enumerates(L(T), T)}
<1>1. ASSUME NEW T \in SUBSET S, \A U \in SUBSET T : U # T => U \in Good
      PROVE  T \in Good
  <2>1. CASE T = {}
    <3>1. L(T) = <<>> BY <2>1, LoopEmpty
    <3>2. <<>> \in Seq({}) /\ DOMAIN <<>> = {} OBVIOUS
    <3>3. Enumerates(<<>>, {}) BY <3>2 DEF Enumerates
    <3>. QED BY <2>1, <3>1, <3>3
  <2>2. CASE T # {}
    <3>. DEFINE x == Pick("sort", R, T)
    <3>1. IsFiniteSet(T) /\ StrictOn(R, T) BY FS_Subset DEF StrictOn
    <3>2. Picks("sort", R, T) BY <3>1, SortPicks
    <3>3. x \in T BY <2>2, <3>2 DEF Picks
    <3>4. Enumerates(L(T \ {x}), T \ {x}) BY <3>3, <1>1
    <3>5. L(T) = Body("sort", R, x, L(T \ {x})) BY <2>2, <3>1, <3>2, LoopStep
    <3>6. L(T) = <<x>> \o L(T \ {x}) BY <3>5 DEF Body
    <3>. HIDE DEF x
    <3>7. Enumerates(<<x>> \o L(T \ {x}), T) BY <3>3, <3>4, ConsEnumerates
    <3>. QED BY <3>6, <3>7
  <2>. QED BY <2>1, <2>2
<1>. HIDE DEF Good
<1>2. \A T \in SUBSET S : T \in Good BY <1>1, SubsetInduction
<1>3. Enumerates(L(S), S) BY <1>2 DEF Good
<1>. QED BY <1>3, SortLoop

(* The rows of a ledger at some of its places, each once.                  *)
LEMMA PlacesInOrder ==
  ASSUME NEW P \in SUBSET Int, IsFiniteSet(P)
  PROVE  Enumerates(Ordered(P, <), P)
<1>. DEFINE R == {p \in P \X P : p[1] < p[2]}
<1>1. \A x, y \in P : <<x, y>> \in R <=> x < y OBVIOUS
<1>2. Ordered(P, <) = Sorted(P, R) BY DEF Ordered
<1>. HIDE DEF R
<1>3. StrictOn(R, P) BY <1>1 DEF StrictOn
<1>. QED BY <1>2, <1>3, SortedEnumerates

-----------------------------------------------------------------------------
(* What a row is made of, and rows that are put in an order.               *)
LEMMA RowFields ==
  ASSUME NEW D, NEW t \in Rows(D)
  PROVE  /\ t.sec \in Securities \cup {NoSecurity} /\ t.folio \in Folios \cup {NoFolio}
         /\ t.day \in D /\ t.type \in RowTypes /\ t.units \in Nat /\ t.value \in Nat
         /\ t.ref \in Nat /\ t.complete \in BOOLEAN /\ Signed(t) \in Int
BY DEF Rows, Signed

LEMMA PlacedIn ==
  ASSUME NEW R, NEW rows \in Seq(R), NEW P \in SUBSET DOMAIN rows, NEW order \in Seq(P)
  PROVE  /\ Placed(rows, order) \in Seq(R) /\ DOMAIN Placed(rows, order) = DOMAIN order
         /\ \A i \in DOMAIN order : order[i] \in P /\ Placed(rows, order)[i] = rows[order[i]]
<1>1. /\ Len(order) \in Nat /\ DOMAIN order = 1 .. Len(order)
      /\ DOMAIN rows = 1 .. Len(rows)
  BY LenProperties
<1>2. \A i \in 1 .. Len(order) : order[i] \in P BY ElementOfSeq
<1>3. \A i \in 1 .. Len(order) : rows[order[i]] \in R
  <2>. SUFFICES ASSUME NEW i \in 1 .. Len(order) PROVE rows[order[i]] \in R
    OBVIOUS
  <2>1. order[i] \in 1 .. Len(rows) BY <1>1, <1>2
  <2>. QED BY <2>1, ElementOfSeq
<1>4. [i \in 1 .. Len(order) |-> rows[order[i]]] \in Seq(R) BY <1>1, <1>3, IsASeq
<1>. QED BY <1>1, <1>2, <1>4 DEF Placed

LEMMA PickedPlaced ==
  ASSUME NEW R, NEW rows \in Seq(R), NEW P \in SUBSET DOMAIN rows
  PROVE  /\ IsFiniteSet(P) /\ Enumerates(Ordered(P, <), P)
         /\ Picked(rows, P) = Placed(rows, Ordered(P, <))
         /\ Picked(rows, P) \in Seq(R)
<1>1. DOMAIN rows = 1 .. Len(rows) /\ Len(rows) \in Nat BY LenProperties
<1>2. P \in SUBSET Int BY <1>1
<1>3. IsFiniteSet(1 .. Len(rows)) BY <1>1, FS_Interval
<1>4. IsFiniteSet(P) BY <1>1, <1>3, FS_Subset
<1>5. Enumerates(Ordered(P, <), P) BY <1>2, <1>4, PlacesInOrder
<1>6. Ordered(P, <) \in Seq(P) BY <1>5 DEF Enumerates
<1>7. Picked(rows, P) = Placed(rows, Ordered(P, <)) BY DEF Picked
<1>8. Placed(rows, Ordered(P, <)) \in Seq(R) BY <1>6, PlacedIn
<1>. QED BY <1>4, <1>5, <1>7, <1>8

LEMMA NetPlaced ==
  ASSUME NEW rows, NEW P \in SUBSET DOMAIN rows, IsFiniteSet(P),
         NEW order, Enumerates(order, P), \A k \in DOMAIN rows : Signed(rows[k]) \in Int
  PROVE  NetUnits(Placed(rows, order)) = UnitsIn(rows, P)
<1>. DEFINE f == [k \in DOMAIN rows |-> Signed(rows[k])]
            placed == Placed(rows, order)
<1>1. order \in Seq(P) BY DEF Enumerates
<1>2. \A i \in DOMAIN order : order[i] \in P BY <1>1, LenProperties, ElementOfSeq
<1>3. DOMAIN placed = DOMAIN order /\ \A i \in DOMAIN order : placed[i] = rows[order[i]]
  BY DEF Placed
<1>4. [i \in DOMAIN placed |-> Signed(placed[i])] = [i \in DOMAIN order |-> f[order[i]]]
  BY <1>2, <1>3
<1>5. \A k \in P : f[k] \in Int OBVIOUS
<1>. HIDE DEF f
<1>6. SumFunctionOnSet([i \in DOMAIN order |-> f[order[i]]], DOMAIN order)
        = SumFunctionOnSet(f, P)
  BY <1>5, PlacedSum
<1>7. DOMAIN [i \in DOMAIN order |-> f[order[i]]] = DOMAIN order OBVIOUS
<1>. QED BY <1>4, <1>6, <1>7 DEF NetUnits, SumFunction, UnitsIn, f

LEMMA NetIsInt ==
  ASSUME NEW D, NEW ledger \in Seq(Rows(D))
  PROVE  NetUnits(ledger) \in Int
<1>1. DOMAIN ledger = 1 .. Len(ledger) /\ Len(ledger) \in Nat BY LenProperties
<1>2. IsFiniteSet(1 .. Len(ledger)) BY <1>1, FS_Interval
<1>. DEFINE f == [k \in DOMAIN ledger |-> Signed(ledger[k])]
<1>3. \A k \in DOMAIN ledger : ledger[k] \in Rows(D) BY <1>1, ElementOfSeq
<1>4. \A k \in DOMAIN ledger : f[k] \in Int BY <1>3, RowFields
<1>5. DOMAIN f = DOMAIN ledger OBVIOUS
<1>. HIDE DEF f
<1>6. SumFunctionOnSet(f, DOMAIN ledger) \in Int BY <1>1, <1>2, <1>4, SumType
<1>. QED BY <1>5, <1>6 DEF NetUnits, SumFunction, f

LEMMA HeldIsInt ==
  ASSUME NEW D, NEW ledger \in Seq(Rows(D)), NEW sec, NEW folio, NEW day
  PROVE  HeldUnits(ledger, sec, folio, day) \in Int
<1>. DEFINE mine == RowsOf(ledger, sec, folio)
            before == Before(mine, day)
<1>1. mine \in Seq(Rows(D)) BY PickedPlaced DEF RowsOf, Keep
<1>. HIDE DEF mine
<1>2. before \in Seq(Rows(D)) BY <1>1, PickedPlaced DEF Before, Keep
<1>. HIDE DEF before
<1>. QED BY <1>2, NetIsInt DEF HeldUnits, before, mine

-----------------------------------------------------------------------------
(* The events rewrite a ledger into a ledger.                              *)
LEMMA RowScaled ==
  ASSUME NEW D, NEW t \in Rows(D), NEW num \in Nat, NEW den \in Nat, den # 0
  PROVE  [t EXCEPT !.units = (@ * num) \div den] \in Rows(D)
<1>1. (t.units * num) \div den \in Nat BY RowFields, Scaled
<1>. DEFINE n == (t.units * num) \div den
<1>2. [t EXCEPT !.units = (@ * num) \div den] = [t EXCEPT !.units = n] OBVIOUS
<1>. HIDE DEF n
<1>3. [t EXCEPT !.units = n] \in Rows(D) BY <1>1 DEF Rows, n
<1>. QED BY <1>2, <1>3

LEMMA EngineRowIn ==
  ASSUME NEW D, NEW ev, IsEvent(ev), ev.day \in D, NEW sec \in Securities \cup {NoSecurity},
         NEW folio \in Folios \cup {NoFolio}, NEW type \in RowTypes,
         NEW units \in Nat, NEW value \in Nat
  PROVE  EngineRow(ev, sec, folio, type, units, value) \in Rows(D)
BY DEF EngineRow, Rows, IsEvent

LEMMA SplitIn ==
  ASSUME NEW D, NEW ledger \in Seq(Rows(D)), NEW ev, IsEvent(ev), ev.day \in D
  PROVE  ApplySplit(ledger, ev) \in Seq(Rows(D))
<1>. DEFINE scaled == ScaleRows(ledger, ev)
            marker == Marker(ev, ev.sec, "split")
<1>1. ASSUME NEW k \in DOMAIN ledger, ledger[k] \in Rows(D) PROVE scaled[k] \in Rows(D)
  BY <1>1, RowScaled DEF ScaleRows, IsEvent
<1>2. scaled = [k \in DOMAIN ledger |-> scaled[k]] BY DEF ScaleRows
<1>. HIDE DEF scaled
<1>3. scaled \in Seq(Rows(D)) BY <1>1, <1>2, RowsMapped
<1>4. marker \in Rows(D) BY EngineRowIn DEF Marker, RowTypes, IsEvent
<1>. HIDE DEF marker
<1>5. Append(scaled, marker) \in Seq(Rows(D)) BY <1>3, <1>4, AppendProperties
<1>. QED BY <1>5 DEF ApplySplit, scaled, marker

LEMMA FractionIn ==
  ASSUME NEW D, NEW ledger \in Seq(Rows(D)), NEW ev, IsEvent(ev), ev.day \in D
  PROVE  WithoutFraction(ledger, ev) \in Seq(Rows(D))
<1>. DEFINE fraction == HeldUnits(ledger, ev.sec, NoFolio, ev.day) % Share
            row == EngineRow(ev, ev.sec, NoFolio, "sell", fraction, 0)
<1>1. fraction \in Nat BY HeldIsInt, Quotient, ShareAssumption
<1>. HIDE DEF fraction
<1>2. row \in Rows(D) BY <1>1, EngineRowIn DEF RowTypes, Outflows, IsEvent
<1>. HIDE DEF row
<1>3. Append(ledger, row) \in Seq(Rows(D)) BY <1>2, AppendProperties
<1>. QED BY <1>3 DEF WithoutFraction, row, fraction

LEMMA ReverseSplitIn ==
  ASSUME NEW D, NEW ledger \in Seq(Rows(D)), NEW ev, IsEvent(ev), ev.day \in D
  PROVE  ApplyReverseSplit(ledger, ev) \in Seq(Rows(D))
BY SplitIn, FractionIn DEF ApplyReverseSplit

LEMMA AppendLoop ==
  ASSUME NEW rows, NEW row, IsFiniteSet(DOMAIN row)
  PROVE  AppendEach(rows, row) = Loop("append", row, rows, DOMAIN row)
<1>. DEFINE S == DOMAIN row
            runs(g) == g = [T \in SUBSET S |-> IF T = {} THEN rows
                              ELSE Append(g[T \ {Chosen(T)}], row[Chosen(T)])]
            c == CHOOSE g : runs(g)
<1>0. Picks("append", row, S) BY SetLoopPicks
<1>1. ASSUME NEW g PROVE runs(g) <=> IsLoop("append", row, rows, S, g)
  BY DEF IsLoop, Body, Pick
<1>2. \E g : runs(g) BY <1>0, <1>1, LoopExists
<1>3. runs(c) BY <1>2
<1>4. AppendEach(rows, row) = c[S] BY DEF AppendEach, FoldSet, MapThenFoldSet, Chosen
<1>. HIDE DEF c
<1>5. IsLoop("append", row, rows, S, c) BY <1>1, <1>3
<1>6. Loop("append", row, rows, S) = c[S] BY <1>0, <1>5, LoopIs
<1>. QED BY <1>4, <1>6

LEMMA AppendedIn ==
  ASSUME NEW R, NEW rows \in Seq(R), NEW row, IsFiniteSet(DOMAIN row),
         \A x \in DOMAIN row : row[x] \in R
  PROVE  AppendEach(rows, row) \in Seq(R)
<1>1. \A x \in DOMAIN row : \A s \in Seq(R) : Body("append", row, x, s) \in Seq(R)
  BY AppendProperties DEF Body
<1>2. Loop("append", row, rows, DOMAIN row) \in Seq(R) BY <1>1, SetLoopPicks, LoopIn
<1>. QED BY <1>2, AppendLoop

LEMMA LedgerFolios ==
  ASSUME NEW D, NEW ledger \in Seq(Rows(D)), NEW sec
  PROVE  NamedFolios(ledger, sec) \subseteq Folios /\ IsFiniteSet(NamedFolios(ledger, sec))
<1>1. \A k \in DOMAIN ledger : ledger[k].folio \in Folios \cup {NoFolio}
  BY LenProperties, ElementOfSeq, RowFields
<1>2. NamedFolios(ledger, sec) \subseteq Folios BY <1>1 DEF NamedFolios
<1>. QED BY <1>2, FS_Subset, TablesAssumption

LEMMA BonusIsInt ==
  ASSUME NEW held \in Int, NEW ev, IsEvent(ev)
  PROVE  BonusUnits(held, ev) \in Int
<1>1. ev.num - ev.den \in Int /\ ev.den \in Nat /\ ev.den # 0 BY DEF IsEvent
<1>2. held * (ev.num - ev.den) \in Int BY <1>1, Product
<1>3. (held * (ev.num - ev.den)) \div ev.den \in Int BY <1>1, <1>2, Quotient
<1>. DEFINE n == (held * (ev.num - ev.den)) \div ev.den
<1>. HIDE DEF n
<1>4. (n \div Share) * Share \in Int BY <1>3, Quotient, Product, ShareAssumption DEF n
<1>. QED BY <1>3, <1>4 DEF BonusUnits, WholeShares, n

LEMMA BonusIn ==
  ASSUME NEW D, NEW ledger \in Seq(Rows(D)), NEW ev, IsEvent(ev), ev.day \in D
  PROVE  ApplyBonus(ledger, ev) \in Seq(Rows(D))
<1>. DEFINE named == NamedFolios(ledger, ev.sec)
            credited == IF named = {} THEN {NoFolio} ELSE named
            due(f) == BonusUnits(HeldUnits(ledger, ev.sec, f, ev.day), ev)
            issued == {f \in credited : HeldUnits(ledger, ev.sec, f, ev.day) > 0 /\ due(f) > 0}
            row == [f \in issued |-> EngineRow(ev, ev.sec, f, "bonus", due(f), 0)]
<1>1. credited \subseteq Folios \cup {NoFolio} /\ IsFiniteSet(credited)
  BY LedgerFolios, FS_Singleton
<1>2. IsFiniteSet(issued) BY <1>1, FS_Subset
<1>3. ASSUME NEW f \in issued PROVE row[f] \in Rows(D)
  <2>1. due(f) \in Int /\ due(f) > 0 BY HeldIsInt, BonusIsInt
  <2>. DEFINE n == due(f)
  <2>. HIDE DEF due
  <2>2. n \in Nat BY <2>1
  <2>3. row[f] = EngineRow(ev, ev.sec, f, "bonus", n, 0) OBVIOUS
  <2>4. f \in Folios \cup {NoFolio} BY <1>1
  <2>5. "bonus" \in RowTypes /\ ev.sec \in Securities \cup {NoSecurity}
    BY DEF RowTypes, Inflows, IsEvent
  <2>. HIDE DEF n, row, issued
  <2>6. EngineRow(ev, ev.sec, f, "bonus", n, 0) \in Rows(D)
    BY <2>2, <2>4, <2>5, EngineRowIn
  <2>. QED BY <2>3, <2>6
<1>4. DOMAIN row = issued OBVIOUS
<1>5. ApplyBonus(ledger, ev) \in {ledger, AppendEach(ledger, row)} BY DEF ApplyBonus
<1>. HIDE DEF row
<1>6. AppendEach(ledger, row) \in Seq(Rows(D)) BY <1>2, <1>3, <1>4, AppendedIn
<1>. QED BY <1>5, <1>6

LEMMA MergerIn ==
  ASSUME NEW D, NEW ledger \in Seq(Rows(D)), NEW ev, IsEvent(ev), ev.day \in D
  PROVE  ApplyMerger(ledger, ev) \in Seq(Rows(D))
<1>. DEFINE row(t) == [t EXCEPT !.sec = ev.into, !.units = (@ * ev.num) \div ev.den,
                                !.ref = IF @ = NoRef THEN ev.ref ELSE @]
            converted == [k \in DOMAIN ledger |->
                            IF ledger[k].sec = ev.sec THEN row(ledger[k]) ELSE ledger[k]]
            marker == Marker(ev, ev.into, "merger")
<1>1. ASSUME NEW t \in Rows(D) PROVE row(t) \in Rows(D)
  <2>. DEFINE u == [t EXCEPT !.units = (@ * ev.num) \div ev.den]
              ref == IF u.ref = NoRef THEN ev.ref ELSE u.ref
  <2>1. u \in Rows(D) BY RowScaled DEF IsEvent
  <2>2. row(t) = [[u EXCEPT !.sec = ev.into] EXCEPT !.ref = ref] BY DEF Rows
  <2>3. ref \in Nat BY <2>1, RowFields DEF IsEvent
  <2>4. ev.into \in Securities \cup {NoSecurity} BY DEF IsEvent
  <2>. HIDE DEF u, ref, row
  <2>5. [u EXCEPT !.sec = ev.into] \in Rows(D) BY <2>1, <2>4 DEF Rows
  <2>6. \A v \in Rows(D) : [v EXCEPT !.ref = ref] \in Rows(D) BY <2>3 DEF Rows
  <2>. QED BY <2>2, <2>5, <2>6
<1>. HIDE DEF row
<1>2. ASSUME NEW k \in DOMAIN ledger, ledger[k] \in Rows(D) PROVE converted[k] \in Rows(D)
  BY <1>1, <1>2
<1>3. converted = [k \in DOMAIN ledger |-> converted[k]] OBVIOUS
<1>. HIDE DEF converted
<1>4. converted \in Seq(Rows(D)) BY <1>2, <1>3, RowsMapped
<1>5. marker \in Rows(D) BY EngineRowIn DEF Marker, RowTypes, IsEvent
<1>. HIDE DEF marker
<1>6. Append(converted, marker) \in Seq(Rows(D)) BY <1>4, <1>5, AppendProperties
<1>7. ApplyMerger(ledger, ev) \in {converted, Append(converted, marker)}
  BY DEF ApplyMerger, converted, marker, row
<1>. QED BY <1>4, <1>6, <1>7

LEMMA OfferIn ==
  ASSUME NEW D, NEW ledger \in Seq(Rows(D)), NEW ev, IsEvent(ev), ev.day \in D,
         NEW type \in {"buy", "buyback"}
  PROVE  ApplyOffer(ledger, ev, type) \in Seq(Rows(D))
<1>. DEFINE folio == SoleFolio(ledger, ev.sec)
            row == EngineRow(ev, ev.sec, folio, type, ev.units, ev.value)
<1>1. folio \in Folios \cup {NoFolio} BY LedgerFolios DEF SoleFolio
<1>2. type \in RowTypes BY DEF RowTypes, Inflows, Outflows
<1>. HIDE DEF folio
<1>3. row \in Rows(D) BY <1>1, <1>2, EngineRowIn DEF IsEvent
<1>. HIDE DEF row
<1>4. Append(ledger, row) \in Seq(Rows(D)) BY <1>3, AppendProperties
<1>. QED BY <1>4 DEF ApplyOffer, row, folio

LEMMA RewrittenIn ==
  ASSUME NEW D, NEW ledger \in Seq(Rows(D)), NEW ev, IsEvent(ev), ev.day \in D,
         ev.kind # "demerger"
  PROVE  Rewritten(ledger, ev) \in Seq(Rows(D))
<1>1. CASE ev.kind = "split" BY <1>1, SplitIn, ReverseSplitIn DEF Rewritten
<1>2. CASE ev.kind = "merger" BY <1>2, MergerIn DEF Rewritten
<1>3. CASE ev.kind = "bonus" BY <1>3, BonusIn DEF Rewritten
<1>4. CASE ev.kind = "rights" BY <1>4, OfferIn DEF Rewritten
<1>5. CASE ev.kind = "buyback" BY <1>5, OfferIn DEF Rewritten
<1>. QED BY <1>1, <1>2, <1>3, <1>4, <1>5 DEF IsEvent, EventOrder

(* Every ledger can be put in trading order, and every set of events in    *)
(* the order of its ex-dates.                                              *)
LEMMA TradingOrder ==
  ASSUME NEW D \in SUBSET Nat, NEW ledger \in Seq(Rows(D))
  PROVE  \E order : /\ Enumerates(order, DOMAIN ledger)
                    /\ InTradingOrder(ledger) = Placed(ledger, order)
<1>. DEFINE S == DOMAIN ledger
            rank(k) == TypeOrder[ledger[k].type]
            sooner(j, k) == 
              LET a == ledger[j]  b == ledger[k]
              IN \/ a.day < b.day
                 \/ a.day = b.day /\ TypeOrder[a.type] < TypeOrder[b.type]
                 \/ a.day = b.day /\ TypeOrder[a.type] = TypeOrder[b.type] /\ a.ref < b.ref
                 \/ <<a.day, TypeOrder[a.type], a.ref>> = <<b.day, TypeOrder[b.type], b.ref>>
                      /\ j < k
            R == {p \in S \X S : sooner(p[1], p[2])}
<1>1. S = 1 .. Len(ledger) /\ Len(ledger) \in Nat BY LenProperties
<1>2. IsFiniteSet(1 .. Len(ledger)) BY <1>1, FS_Interval
<1>3. IsFiniteSet(S) BY <1>1, <1>2
<1>4. \A type \in RowTypes : TypeOrder[type] \in Int
  BY DEF RowTypes, Inflows, Outflows, TypeOrder
<1>5. \A k \in S : ledger[k] \in Rows(D) BY <1>1, ElementOfSeq
<1>6. \A k \in S : /\ ledger[k].day \in Int /\ rank(k) \in Int /\ ledger[k].ref \in Int /\ k \in Int
  <2>. SUFFICES ASSUME NEW k \in S
                PROVE  /\ ledger[k].day \in Int /\ rank(k) \in Int /\ ledger[k].ref \in Int
                       /\ k \in Int
    OBVIOUS
  <2>1. /\ ledger[k].day \in D /\ ledger[k].type \in RowTypes /\ ledger[k].ref \in Nat
    BY <1>5, RowFields
  <2>2. rank(k) \in Int BY <1>4, <2>1
  <2>3. k \in Int BY <1>1
  <2>4. ledger[k].day \in Nat BY <2>1
  <2>. HIDE DEF rank, S
  <2>. QED BY <2>1, <2>2, <2>3, <2>4
<1>7. \A j, k \in S : <<j, k>> \in R <=>
        \/ ledger[j].day < ledger[k].day
        \/ ledger[j].day = ledger[k].day /\ rank(j) < rank(k)
        \/ ledger[j].day = ledger[k].day /\ rank(j) = rank(k) /\ ledger[j].ref < ledger[k].ref
        \/ ledger[j].day = ledger[k].day /\ rank(j) = rank(k) /\ ledger[j].ref = ledger[k].ref
             /\ j < k
  OBVIOUS
<1>8. InTradingOrder(ledger) = Placed(ledger, Sorted(S, R))
  BY DEF InTradingOrder, Ordered
<1>. HIDE DEF R, rank, S
<1>9. StrictOn(R, S)
  <2>1. \A x \in S : <<x, x>> \notin R BY <1>6, <1>7
  <2>2. ASSUME NEW x \in S, NEW y \in S, NEW z \in S, <<x, y>> \in R, <<y, z>> \in R
        PROVE  <<x, z>> \in R
    <3>. DEFINE day(k) == ledger[k].day
                ref(k) == ledger[k].ref
    <3>1. \A k \in {x, y, z} : /\ day(k) \in Int /\ rank(k) \in Int /\ ref(k) \in Int
                               /\ k \in Int
      BY <1>6
    <3>2. \A j, k \in {x, y, z} : <<j, k>> \in R <=>
            \/ day(j) < day(k)
            \/ day(j) = day(k) /\ rank(j) < rank(k)
            \/ day(j) = day(k) /\ rank(j) = rank(k) /\ ref(j) < ref(k)
            \/ day(j) = day(k) /\ rank(j) = rank(k) /\ ref(j) = ref(k) /\ j < k
      BY <1>7
    <3>. HIDE DEF day, ref
    <3>. QED BY <2>2, <3>1, <3>2
  <2>. QED BY <2>1, <2>2 DEF StrictOn
<1>10. Enumerates(Sorted(S, R), S) BY <1>3, <1>9, SortedEnumerates
<1>. QED BY <1>8, <1>10 DEF S

LEMMA ApplyIn ==
  ASSUME NEW D \in SUBSET Nat, NEW ledger \in Seq(Rows(D)), NEW ev, IsEvent(ev), ev.day \in D
  PROVE  ApplyEvent(ledger, ev) \in Seq(Rows(D))
<1>1. ASSUME NEW rows \in Seq(Rows(D)) PROVE InTradingOrder(rows) \in Seq(Rows(D))
  <2>1. PICK order : /\ Enumerates(order, DOMAIN rows)
                     /\ InTradingOrder(rows) = Placed(rows, order)
    BY TradingOrder
  <2>2. order \in Seq(DOMAIN rows) BY <2>1 DEF Enumerates
  <2>3. DOMAIN rows \in SUBSET DOMAIN rows OBVIOUS
  <2>. QED BY <2>1, <2>2, <2>3, PlacedIn
<1>. QED BY <1>1, RewrittenIn DEF ApplyEvent

LEMMA EventsOrder ==
  ASSUME NEW events, IsFiniteSet(events), \A e \in events : IsEvent(e)
  PROVE  Enumerates(InExDateOrder(events), events)
<1>. DEFINE R == {p \in events \X events : Earlier(p[1], p[2])}
<1>1. \A kind \in DOMAIN EventOrder : EventOrder[kind] \in Int BY DEF EventOrder
<1>2. \A e \in events : e.day \in Int /\ e.ref \in Int /\ EventOrder[e.kind] \in Int
  BY <1>1 DEF IsEvent
<1>3. \A a, b \in events : <<a, b>> \in R <=> Earlier(a, b) OBVIOUS
<1>4. InExDateOrder(events) = Sorted(events, R) BY DEF InExDateOrder, Ordered
<1>. HIDE DEF R
<1>5. StrictOn(R, events)
  <2>1. \A a \in events : <<a, a>> \notin R BY <1>2, <1>3 DEF Earlier
  <2>2. \A a, b, c \in events : (<<a, b>> \in R /\ <<b, c>> \in R) => <<a, c>> \in R
    BY <1>2, <1>3 DEF Earlier
  <2>. QED BY <2>1, <2>2 DEF StrictOn
<1>. QED BY <1>4, <1>5, SortedEnumerates

LEMMA ReplayLoop ==
  ASSUME NEW raw, NEW S, NEW order \in Seq(S)
  PROVE  /\ FoldLeft(ApplyEvent, raw, order) = Loop("replay", order, raw, DOMAIN order)
         /\ IsFiniteSet(DOMAIN order) /\ Picks("replay", order, DOMAIN order)
<1>. DEFINE P == DOMAIN order
            runs(g) == g = [T \in SUBSET P |-> IF T = {} THEN raw
                              ELSE ApplyEvent(g[T \ {Max(T)}], order[Max(T)])]
            c == CHOOSE g : runs(g)
<1>1. P = 1 .. Len(order) /\ Len(order) \in Nat BY LenProperties
<1>2. IsFiniteSet(1 .. Len(order)) BY <1>1, FS_Interval
<1>3. IsFiniteSet(P) /\ P \in SUBSET Int BY <1>1, <1>2
<1>4. Picks("replay", order, P) BY <1>3, PlacePicks
<1>5. ASSUME NEW g PROVE runs(g) <=> IsLoop("replay", order, raw, P, g)
  BY DEF IsLoop, Body, Pick
<1>6. \E g : runs(g) BY <1>3, <1>4, <1>5, LoopExists
<1>7. runs(c) BY <1>6
<1>8. FoldLeft(ApplyEvent, raw, order) = c[P] BY DEF FoldLeft, MapThenFoldSet
<1>. HIDE DEF c
<1>9. IsLoop("replay", order, raw, P, c) BY <1>5, <1>7
<1>10. Loop("replay", order, raw, P) = c[P] BY <1>3, <1>4, <1>9, LoopIs
<1>. QED BY <1>3, <1>4, <1>8, <1>10

(* Replaying events over a ledger leaves a ledger.                         *)
LEMMA ReplayIn ==
  ASSUME NEW D \in SUBSET Nat, NEW raw \in Seq(Rows(D)),
         NEW events, IsFiniteSet(events), \A e \in events : IsEvent(e) /\ e.day \in D
  PROVE  Replay(raw, events) \in Seq(Rows(D))
<1>. DEFINE order == InExDateOrder(events)
<1>1. order \in Seq(events) BY EventsOrder DEF Enumerates
<1>. HIDE DEF order
<1>2. \A i \in DOMAIN order : order[i] \in events BY <1>1, LenProperties, ElementOfSeq
<1>3. \A i \in DOMAIN order : \A s \in Seq(Rows(D)) :
        Body("replay", order, i, s) \in Seq(Rows(D))
  BY <1>2, ApplyIn DEF Body
<1>4. Loop("replay", order, raw, DOMAIN order) \in Seq(Rows(D))
  BY <1>1, <1>3, ReplayLoop, LoopIn
<1>. QED BY <1>1, <1>4, ReplayLoop DEF Replay, order

-----------------------------------------------------------------------------
(* What is left of a day's trades, and the projection of a store's rows.   *)
LEMMA UnitsAtNat ==
  ASSUME NEW D, NEW rows \in Seq(Rows(D)), NEW P \in SUBSET DOMAIN rows
  PROVE  UnitsAt(rows, P) \in Nat
<1>. DEFINE f == [j \in DOMAIN rows |-> rows[j].units]
            zero == [j \in DOMAIN rows |-> 0]
<1>1. IsFiniteSet(P) BY PickedPlaced
<1>2. \A k \in P : rows[k] \in Rows(D) BY LenProperties, ElementOfSeq
<1>3. \A k \in P : f[k] \in Nat BY <1>2, RowFields
<1>4. \A k \in P : zero[k] = 0 OBVIOUS
<1>. HIDE DEF f, zero
<1>5. SumFunctionOnSet(f, P) \in Int BY <1>1, <1>3, SumType
<1>6. SumFunctionOnSet(zero, P) = 0 BY <1>1, <1>4, SumZero
<1>7. \A k \in P : zero[k] \in Int /\ f[k] \in Int /\ zero[k] <= f[k] BY <1>3, <1>4
<1>8. SumFunctionOnSet(zero, P) <= SumFunctionOnSet(f, P) BY <1>1, <1>7, SumMonotonic
<1>9. SumFunctionOnSet(f, P) \in Nat BY <1>5, <1>6, <1>8
<1>. QED BY <1>9 DEF UnitsAt, f

LEMMA TakenIn ==
  ASSUME NEW units \in Nat, NEW ahead \in Int, NEW pending \in Int
  PROVE  Taken(units, ahead, pending) \in 0 .. units
BY DEF Taken, Least, Most

LEMMA OffsetIn ==
  ASSUME NEW D, NEW raw \in Seq(Rows(D)), NEW k \in DOMAIN raw
  PROVE  OffsetAt(raw, k) \in 0 .. raw[k].units
<1>. DEFINE all(type) == UnitsAt(raw, DayTrades(raw, k, type))
            ahead == UnitsAt(raw, {j \in DayTrades(raw, k, raw[k].type) : j < k})
            offset == Least(all("buy"), all("sell"))
<1>1. raw[k].units \in Nat BY LenProperties, ElementOfSeq, RowFields
<1>2. \A type : DayTrades(raw, k, type) \in SUBSET DOMAIN raw BY DEF DayTrades
<1>3. all("buy") \in Nat /\ all("sell") \in Nat BY <1>2, UnitsAtNat
<1>4. {j \in DayTrades(raw, k, raw[k].type) : j < k} \in SUBSET DOMAIN raw BY <1>2
<1>5. ahead \in Nat BY <1>4, UnitsAtNat
<1>6. OffsetAt(raw, k) \in {0, Taken(raw[k].units, ahead, offset)} BY DEF OffsetAt
<1>. HIDE DEF all, ahead
<1>7. offset \in Nat BY <1>3 DEF Least
<1>. HIDE DEF offset
<1>8. ahead \in Int /\ offset \in Int BY <1>5, <1>7
<1>9. Taken(raw[k].units, ahead, offset) \in 0 .. raw[k].units BY <1>1, <1>8, TakenIn
<1>. QED BY <1>1, <1>6, <1>9

LEMMA TrimmedIn ==
  ASSUME NEW D, NEW t \in Rows(D), NEW offset \in 0 .. t.units
  PROVE  Trimmed(t, offset) \in Rows(D)
<1>. DEFINE left == t.units - offset
            value == (t.value * left) \div t.units
<1>1. t.units \in Nat /\ t.value \in Nat /\ offset \in Nat /\ left \in Nat BY RowFields
<1>2. CASE offset = 0 BY <1>2 DEF Trimmed
<1>3. CASE offset # 0
  <2>1. t.units # 0 BY <1>1, <1>3
  <2>. HIDE DEF left
  <2>2. value \in Nat BY <1>1, <2>1, Scaled
  <2>3. Trimmed(t, offset) = [[t EXCEPT !.units = left] EXCEPT !.value = value]
    BY <1>3 DEF Trimmed, Rows, left
  <2>. HIDE DEF value
  <2>4. [t EXCEPT !.units = left] \in Rows(D) BY <1>1 DEF Rows
  <2>5. \A u \in Rows(D) : [u EXCEPT !.value = value] \in Rows(D) BY <2>2 DEF Rows
  <2>. QED BY <2>3, <2>4, <2>5
<1>. QED BY <1>2, <1>3

LEMMA NetIntradayIn ==
  ASSUME NEW D, NEW raw \in Seq(Rows(D))
  PROVE  NetIntraday(raw) \in Seq(Rows(D))
<1>. DEFINE all == [k \in DOMAIN raw |-> Trimmed(raw[k], OffsetAt(raw, k))]
            left == {k \in DOMAIN raw : OffsetAt(raw, k) < raw[k].units \/ raw[k].units = 0}
<1>1. ASSUME NEW k \in DOMAIN raw, raw[k] \in Rows(D) PROVE all[k] \in Rows(D)
  BY <1>1, OffsetIn, TrimmedIn
<1>2. all = [k \in DOMAIN raw |-> all[k]] /\ left \in SUBSET DOMAIN all OBVIOUS
<1>3. NetIntraday(raw) = Picked(all, left) BY DEF NetIntraday
<1>. HIDE DEF all, left
<1>4. all \in Seq(Rows(D)) BY <1>1, <1>2, RowsMapped
<1>. QED BY <1>2, <1>3, <1>4, PickedPlaced

LEMMA ProjectedIn ==
  ASSUME NEW D \in SUBSET Nat, NEW s, s.rows \in Seq(Rows(D)), IsFiniteSet(s.log),
         \A e \in s.log : IsEvent(e) /\ e.day \in D
  PROVE  /\ ProjectedTransactions(s) \in Seq(Rows(D))
         /\ \A sec, folio, all : ComputeLedger(s, sec, folio, all) \in Seq(Rows(D))
         /\ \A sec, folio : RowsIn(s, folio, sec) \in Seq(Rows(D))
         /\ \A ledger \in Seq(Rows(D)) : \A sec, folio : RowsOf(ledger, sec, folio) \in Seq(Rows(D))
<1>1. ASSUME NEW raw \in Seq(Rows(D)), NEW E \in SUBSET s.log
      PROVE  Replay(NetIntraday(raw), E) \in Seq(Rows(D))
  <2>1. NetIntraday(raw) \in Seq(Rows(D)) BY NetIntradayIn
  <2>2. IsFiniteSet(E) BY FS_Subset
  <2>. QED BY <2>1, <2>2, ReplayIn
<1>2. ProjectedTransactions(s) \in Seq(Rows(D))
  <2>. DEFINE raw == Keep(s.rows, LAMBDA t : t.complete)
  <2>1. raw \in Seq(Rows(D)) BY PickedPlaced DEF Keep
  <2>. HIDE DEF raw
  <2>2. Replay(NetIntraday(raw), s.log) \in Seq(Rows(D)) BY <1>1, <2>1
  <2>. QED BY <2>2 DEF ProjectedTransactions, raw
<1>3. ASSUME NEW sec, NEW folio, NEW all PROVE ComputeLedger(s, sec, folio, all) \in Seq(Rows(D))
  <2>. DEFINE secs == Linked(s.log, sec, folio)
              raw == Keep(s.rows, LAMBDA t : /\ t.sec \in secs
                                             /\ folio \in {NoFolio, t.folio}
                                             /\ (t.complete \/ all))
              E == Touching(s.log, secs, folio)
              out == Replay(NetIntraday(raw), E)
  <2>1. ComputeLedger(s, sec, folio, all) = Keep(out, LAMBDA t : t.sec = sec)
    BY DEF ComputeLedger
  <2>2. raw \in Seq(Rows(D)) BY PickedPlaced DEF Keep
  <2>3. E \in SUBSET s.log BY DEF Touching
  <2>. HIDE DEF raw, E
  <2>4. out \in Seq(Rows(D)) BY <1>1, <2>2, <2>3
  <2>. HIDE DEF out
  <2>5. Keep(out, LAMBDA t : t.sec = sec) \in Seq(Rows(D)) BY <2>4, PickedPlaced DEF Keep
  <2>. QED BY <2>1, <2>5
<1>4. \A sec, folio : RowsIn(s, folio, sec) \in Seq(Rows(D)) BY PickedPlaced DEF RowsIn, Keep
<1>5. \A ledger \in Seq(Rows(D)) : \A sec, folio : RowsOf(ledger, sec, folio) \in Seq(Rows(D))
  BY PickedPlaced DEF RowsOf, Keep
<1>. QED BY <1>2, <1>3, <1>4, <1>5

-----------------------------------------------------------------------------
(* Rows picked from a ledger, and the lots of a bucket (FifoMatcher).      *)
LEMMA PickedIn ==
  ASSUME NEW R, NEW rows \in Seq(R), NEW P \in SUBSET DOMAIN rows, NEW Q,
         \A k \in P : rows[k] \in Q
  PROVE  Picked(rows, P) \in Seq(Q)
<1>. DEFINE order == Ordered(P, <)
<1>1. order \in Seq(P) /\ Picked(rows, P) = Placed(rows, order)
  BY PickedPlaced DEF Enumerates
<1>. HIDE DEF order
<1>2. /\ DOMAIN Placed(rows, order) = DOMAIN order
      /\ \A i \in DOMAIN order : order[i] \in P /\ Placed(rows, order)[i] = rows[order[i]]
  BY <1>1, PlacedIn
<1>3. DOMAIN order = 1 .. Len(order) /\ Len(order) \in Nat BY <1>1, LenProperties
<1>4. \A i \in 1 .. Len(order) : rows[order[i]] \in Q BY <1>2, <1>3
<1>5. [i \in 1 .. Len(order) |-> rows[order[i]]] \in Seq(Q) BY <1>3, <1>4, IsASeq
<1>6. Placed(rows, order) = [i \in 1 .. Len(order) |-> rows[order[i]]] BY <1>3 DEF Placed
<1>. QED BY <1>1, <1>5, <1>6

LEMMA LotUnitsNat ==
  ASSUME NEW C, NEW D, NEW lots \in Seq(Lots(C, D))
  PROVE  /\ LotUnits(lots) = SumFunctionOnSet(UnitsOf(lots), DOMAIN lots)
         /\ \A k \in DOMAIN lots : UnitsOf(lots)[k] \in Nat \ {0}
         /\ DOMAIN lots = 1 .. Len(lots) /\ Len(lots) \in Nat /\ IsFiniteSet(DOMAIN lots)
         /\ \A P \in SUBSET DOMAIN lots : /\ SumFunctionOnSet(UnitsOf(lots), P) \in Nat
                                          /\ P # {} => SumFunctionOnSet(UnitsOf(lots), P) > 0
<1>1. LotUnits(lots) = SumFunctionOnSet(UnitsOf(lots), DOMAIN lots)
  BY DEF LotUnits, UnitsOf, SumFunction
<1>2. DOMAIN lots = 1 .. Len(lots) /\ Len(lots) \in Nat BY LenProperties
<1>3. IsFiniteSet(1 .. Len(lots)) BY <1>2, FS_Interval
<1>4. \A k \in DOMAIN lots : lots[k] \in Lots(C, D) BY <1>2, ElementOfSeq
<1>5. \A k \in DOMAIN lots : UnitsOf(lots)[k] \in Nat \ {0} BY <1>4 DEF Lots, UnitsOf
<1>6. ASSUME NEW P \in SUBSET DOMAIN lots PROVE SumFunctionOnSet(UnitsOf(lots), P) \in Nat
  <2>. DEFINE f == UnitsOf(lots)
              zero == [x \in P |-> 0]
  <2>1. IsFiniteSet(P) BY <1>2, <1>3, FS_Subset
  <2>2. \A x \in P : zero[x] = 0 OBVIOUS
  <2>. HIDE DEF zero, f
  <2>3. \A x \in P : zero[x] \in Int /\ f[x] \in Int /\ zero[x] <= f[x] BY <1>5, <2>2 DEF f
  <2>4. SumFunctionOnSet(zero, P) = 0 BY <2>1, <2>2, SumZero
  <2>5. SumFunctionOnSet(zero, P) <= SumFunctionOnSet(f, P) BY <2>1, <2>3, SumMonotonic
  <2>6. SumFunctionOnSet(f, P) \in Int BY <2>1, <2>3, SumType
  <2>. QED BY <2>4, <2>5, <2>6 DEF f
<1>7. ASSUME NEW P \in SUBSET DOMAIN lots, NEW x \in P
      PROVE  SumFunctionOnSet(UnitsOf(lots), P) > 0
  <2>. DEFINE f == UnitsOf(lots)
  <2>1. IsFiniteSet(P) BY <1>2, <1>3, FS_Subset
  <2>. HIDE DEF f
  <2>2. \A y \in P : f[y] \in Int BY <1>5 DEF f
  <2>3. SumFunctionOnSet(f, P) = f[x] + SumFunctionOnSet(f, P \ {x})
    BY <2>1, <2>2, SumRemove
  <2>4. SumFunctionOnSet(f, P \ {x}) \in Nat BY <1>6 DEF f
  <2>5. f[x] \in Nat \ {0} BY <1>5 DEF f
  <2>. QED BY <2>3, <2>4, <2>5 DEF f
<1>. QED BY <1>1, <1>2, <1>3, <1>5, <1>6, <1>7

(* The units taken from the oldest lots are the units sold.                *)
LEMMA Ahead ==
  ASSUME NEW C, NEW D, NEW lots \in Seq(Lots(C, D)), NEW j \in 0 .. Len(lots)
  PROVE  LotUnits(SubSeq(lots, 1, j)) = SumFunctionOnSet(UnitsOf(lots), 1 .. j)
<1>. DEFINE part == SubSeq(lots, 1, j)
<1>1. /\ DOMAIN lots = 1 .. Len(lots) /\ Len(lots) \in Nat
      /\ \A k \in DOMAIN lots : UnitsOf(lots)[k] \in Nat \ {0}
  BY LotUnitsNat
<1>2. /\ part \in Seq(Lots(C, D)) /\ Len(part) = j
      /\ \A k \in 1 .. j : part[k] = lots[k]
  <2>1. 1 \in 1 .. (Len(lots) + 1) /\ j \in (1 - 1) .. Len(lots) BY <1>1
  <2>2. /\ SubSeq(lots, 1, j) \in Seq(Lots(C, D))
        /\ Len(SubSeq(lots, 1, j)) = IF 1 <= j THEN j - 1 + 1 ELSE 0
        /\ \A i \in 1 .. (j - 1 + 1) : SubSeq(lots, 1, j)[i] = lots[1 + i - 1]
    BY <1>1, SubSeqProperties
  <2>. HIDE DEF part
  <2>3. j \in Nat BY <1>1
  <2>. QED BY <2>2, <2>3 DEF part
<1>3. DOMAIN part = 1 .. j BY <1>2, LenProperties
<1>. HIDE DEF part
<1>4. LotUnits(part) = SumFunctionOnSet(UnitsOf(part), 1 .. j) BY <1>2, <1>3, LotUnitsNat
<1>5. \A k \in 1 .. j : UnitsOf(lots)[k] \in Int /\ UnitsOf(part)[k] = UnitsOf(lots)[k]
  BY <1>1, <1>2, <1>3 DEF UnitsOf
<1>6. IsFiniteSet(1 .. j) BY <1>1, FS_Interval
<1>7. SumFunctionOnSet(UnitsOf(part), 1 .. j) = SumFunctionOnSet(UnitsOf(lots), 1 .. j)
  BY <1>5, <1>6, SumSame
<1>. QED BY <1>4, <1>7 DEF part

LEMMA Telescope ==
  ASSUME NEW a \in Nat, NEW u \in Nat, NEW units \in Nat
  PROVE  /\ Taken(u, a, units) \in 0 .. u
         /\ Least(units, a) + Taken(u, a, units) = Least(units, a + u)
BY DEF Taken, Least, Most

LEMMA OldestIn ==
  ASSUME NEW C, NEW D, NEW lots \in Seq(Lots(C, D)), NEW units \in Nat
  PROVE  /\ \A k \in DOMAIN lots : OldestLots(lots, units)[k] \in 0 .. lots[k].units
         /\ SumFunctionOnSet(OldestLots(lots, units), DOMAIN lots)
              = Least(units, LotUnits(lots))
<1>. DEFINE u == UnitsOf(lots)
            n == Len(lots)
            from == OldestLots(lots, units)
            A(j) == SumFunctionOnSet(u, 1 .. j)
            B(j) == SumFunctionOnSet(from, 1 .. j)
            Good == {T \in SUBSET (1 .. n) :
                       \A j \in 0 .. n : T = 1 .. j => B(j) = Least(units, A(j))}
<1>1. /\ DOMAIN lots = 1 .. n /\ n \in Nat
      /\ \A k \in 1 .. n : u[k] \in Nat \ {0} /\ u[k] = lots[k].units
      /\ LotUnits(lots) = A(n)
  BY LotUnitsNat DEF UnitsOf
<1>2. \A j \in 0 .. n : A(j) \in Nat
  <2>1. \A j \in 0 .. n : 1 .. j \in SUBSET DOMAIN lots BY <1>1
  <2>. QED BY <2>1, LotUnitsNat
<1>3. \A k \in 1 .. n : from[k] = Taken(u[k], A(k - 1), units)
  <2>. SUFFICES ASSUME NEW k \in 1 .. n PROVE from[k] = Taken(u[k], A(k - 1), units)
    OBVIOUS
  <2>1. k - 1 \in 0 .. n BY <1>1
  <2>2. LotUnits(SubSeq(lots, 1, k - 1)) = A(k - 1) BY <2>1, Ahead
  <2>. QED BY <1>1, <2>2 DEF OldestLots, TakenFrom
<1>. HIDE DEF u, from
<1>4. \A k \in 1 .. n : A(k) = A(k - 1) + u[k] /\ k - 1 \in 0 .. n
  <2>. SUFFICES ASSUME NEW k \in 1 .. n PROVE A(k) = A(k - 1) + u[k] /\ k - 1 \in 0 .. n
    OBVIOUS
  <2>1. IsFiniteSet(1 .. k) BY <1>1, FS_Interval
  <2>2. k \in 1 .. k /\ (1 .. k) \ {k} = 1 .. (k - 1) /\ k - 1 \in 0 .. n BY <1>1
  <2>3. \A i \in 1 .. k : u[i] \in Int BY <1>1
  <2>4. A(k) = u[k] + SumFunctionOnSet(u, (1 .. k) \ {k}) BY <2>1, <2>2, <2>3, SumRemove
  <2>5. A(k) = u[k] + A(k - 1) BY <2>2, <2>4
  <2>6. u[k] \in Int /\ A(k - 1) \in Int BY <1>1, <1>2, <2>2
  <2>. HIDE DEF A
  <2>. QED BY <2>2, <2>5, <2>6
<1>. HIDE DEF A
<1>5. \A k \in 1 .. n : /\ from[k] \in 0 .. u[k] /\ from[k] \in Int
                        /\ Least(units, A(k - 1)) + from[k] = Least(units, A(k))
  <2>. SUFFICES ASSUME NEW k \in 1 .. n
                PROVE  /\ from[k] \in 0 .. u[k] /\ from[k] \in Int
                       /\ Least(units, A(k - 1)) + from[k] = Least(units, A(k))
    OBVIOUS
  <2>1. A(k - 1) \in Nat /\ u[k] \in Nat BY <1>1, <1>2, <1>4
  <2>2. /\ from[k] \in 0 .. u[k]
        /\ Least(units, A(k - 1)) + from[k] = Least(units, A(k - 1) + u[k])
    BY <1>3, <2>1, Telescope
  <2>. QED BY <1>4, <2>1, <2>2
<1>6. ASSUME NEW T \in SUBSET (1 .. n), \A U \in SUBSET T : U # T => U \in Good
      PROVE  T \in Good
  <2>. SUFFICES ASSUME NEW j \in 0 .. n, T = 1 .. j PROVE B(j) = Least(units, A(j))
    OBVIOUS
  <2>1. CASE j = 0
    <3>1. 1 .. j = {} BY <2>1
    <3>2. B(j) = 0 BY <3>1, SumEmpty
    <3>3. A(j) = 0 BY <3>1, SumEmpty DEF A
    <3>. QED BY <3>2, <3>3 DEF Least
  <2>2. CASE j # 0
    <3>1. /\ j \in 1 .. n /\ j \in 1 .. j /\ (1 .. j) \ {j} = 1 .. (j - 1)
          /\ j - 1 \in 0 .. n /\ 1 .. (j - 1) \in SUBSET T /\ 1 .. (j - 1) # T
      BY <1>1, <2>2
    <3>2. 1 .. (j - 1) \in Good BY <3>1, <1>6
    <3>3. B(j - 1) = Least(units, A(j - 1)) BY <3>1, <3>2
    <3>4. 1 \in Int /\ j \in Int BY <1>1
    <3>10. IsFiniteSet(1 .. j) BY <3>4, FS_Interval
    <3>5. \A i \in 1 .. j : from[i] \in Int BY <1>1, <1>5
    <3>6. B(j) = from[j] + SumFunctionOnSet(from, (1 .. j) \ {j})
      BY <3>1, <3>10, <3>5, SumRemove
    <3>7. B(j) = from[j] + B(j - 1) BY <3>1, <3>6
    <3>8. from[j] \in Int /\ Least(units, A(j - 1)) + from[j] = Least(units, A(j))
      BY <1>5, <3>1
    <3>9. Least(units, A(j - 1)) \in Int BY <1>2, <3>1 DEF Least
    <3>. HIDE DEF B
    <3>. QED BY <3>3, <3>7, <3>8, <3>9
  <2>. QED BY <2>1, <2>2
<1>. HIDE DEF Good
<1>7. IsFiniteSet(1 .. n) BY <1>1, FS_Interval
<1>8. \A T \in SUBSET (1 .. n) : T \in Good BY <1>6, <1>7, SubsetInduction
<1>9. 1 .. n \in Good /\ n \in 0 .. n BY <1>1, <1>8
<1>10. B(n) = Least(units, A(n)) BY <1>9 DEF Good
<1>. QED BY <1>1, <1>5, <1>10 DEF from

LEMMA CostTaken ==
  ASSUME NEW C \in {Nat, Int}, NEW a \in C, NEW c \in Nat, c # 0, NEW b \in 0 .. c
  PROVE  a - (a * b) \div c \in C
<1>1. CASE a \in Nat
  <2>1. (a * b) \div c \in 0 .. a BY <1>1, PartOf
  <2>. DEFINE q == (a * b) \div c
  <2>. HIDE DEF q
  <2>2. a - q \in Nat BY <1>1, <2>1 DEF q
  <2>. QED BY <2>2 DEF q
<1>2. CASE C = Int
  <2>1. a \in Int /\ b \in Int BY <1>2
  <2>2. a * b \in Int BY <2>1, Product
  <2>3. (a * b) \div c \in Int BY <2>2, Quotient
  <2>. DEFINE q == (a * b) \div c
  <2>. HIDE DEF q
  <2>4. a - q \in Int BY <2>1, <2>3 DEF q
  <2>. QED BY <1>2, <2>4 DEF q
<1>. QED BY <1>1, <1>2

LEMMA LeftOver ==
  ASSUME NEW C, NEW D, NEW lots \in Seq(Lots(C, D)), NEW from,
         \A k \in DOMAIN lots : from[k] \in 0 .. lots[k].units,
         NEW rest \in Seq(LotsLeft(C, D)), DOMAIN rest = DOMAIN lots,
         \A k \in DOMAIN lots : rest[k].units = lots[k].units - from[k],
         NEW left, left = Picked(rest, Remaining(rest))
  PROVE  /\ left \in Seq(Lots(C, D))
         /\ LotUnits(left) = LotUnits(lots) - SumFunctionOnSet(from, DOMAIN lots)
<1>. DEFINE P == {k \in DOMAIN rest : rest[k].units > 0}
            Q == DOMAIN lots \ P
            u == [k \in DOMAIN rest |-> rest[k].units]
            order == Ordered(P, <)
            R == LotsLeft(C, D)
            S(f, T) == SumFunctionOnSet(f, T)
<1>1. /\ DOMAIN lots = 1 .. Len(lots) /\ Len(lots) \in Nat /\ IsFiniteSet(DOMAIN lots)
      /\ \A k \in DOMAIN lots : UnitsOf(lots)[k] \in Nat \ {0} /\ UnitsOf(lots)[k] = lots[k].units
      /\ LotUnits(lots) = S(UnitsOf(lots), DOMAIN lots)
  BY LotUnitsNat DEF UnitsOf
<1>2. DOMAIN rest = DOMAIN lots OBVIOUS
<1>3. rest \in Seq(R) OBVIOUS
<1>16. \A k \in DOMAIN rest : rest[k] \in R BY <1>3, LenProperties, ElementOfSeq
<1>4. P \in SUBSET DOMAIN rest OBVIOUS
<1>5. \A k \in P : rest[k] \in Lots(C, D) BY <1>16 DEF Lots, LotsLeft
<1>6. Picked(rest, P) \in Seq(Lots(C, D))
  <2>. HIDE DEF P, R
  <2>. QED BY <1>3, <1>4, <1>5, PickedIn
<1>7. left \in Seq(Lots(C, D)) /\ left = Picked(rest, P) BY <1>6 DEF Remaining
<1>8. \A k \in DOMAIN lots : /\ u[k] = lots[k].units - from[k] /\ u[k] \in Nat
                             /\ lots[k].units \in Nat /\ from[k] \in Int
                             /\ (k \in Q => u[k] = 0)
  <2>1. \A k \in DOMAIN lots : lots[k].units \in Nat BY <1>1
  <2>2. \A k \in DOMAIN lots : from[k] \in Int BY <2>1
  <2>5. \A k \in DOMAIN lots : rest[k].units \in Nat BY <1>2, <1>16 DEF LotsLeft
  <2>3. \A k \in DOMAIN lots : u[k] = lots[k].units - from[k] /\ u[k] \in Nat BY <1>2, <2>5
  <2>4. \A k \in DOMAIN lots : k \in Q => u[k] = 0 BY <2>3, <1>2
  <2>. QED BY <2>1, <2>2, <2>3, <2>4
<1>9. LotUnits(left) = S(u, P)
  <2>1. Enumerates(order, P) /\ IsFiniteSet(P) /\ left = Placed(rest, order)
    <3>. HIDE DEF P, R
    <3>. QED BY <1>3, <1>4, <1>7, PickedPlaced
  <2>2. order \in Seq(P) BY <2>1 DEF Enumerates
  <2>3. /\ DOMAIN left = DOMAIN order
        /\ \A i \in DOMAIN order : order[i] \in P /\ left[i] = rest[order[i]]
    <3>. HIDE DEF P, R, order
    <3>1. \A i \in DOMAIN order : order[i] \in P BY <2>2, LenProperties, ElementOfSeq
    <3>. QED BY <2>1, <3>1 DEF Placed
  <2>4. UnitsOf(left) = [i \in DOMAIN order |-> u[order[i]]] BY <2>3 DEF UnitsOf
  <2>5. \A k \in P : u[k] \in Int BY <1>2, <1>8
  <2>. HIDE DEF u, P, order
  <2>6. S([i \in DOMAIN order |-> u[order[i]]], DOMAIN order) = S(u, P)
    BY <2>1, <2>5, PlacedSum
  <2>7. LotUnits(left) = S(UnitsOf(left), DOMAIN left) BY <1>7, LotUnitsNat
  <2>. QED BY <2>3, <2>4, <2>6, <2>7
<1>10. S(u, DOMAIN lots) = S(u, P) + S(u, Q)
  <2>1. P \cup Q = DOMAIN lots /\ P \cap Q = {} BY <1>2
  <2>2. IsFiniteSet(P) /\ IsFiniteSet(Q) BY <1>1, <1>2, FS_Subset
  <2>3. \A k \in P \cup Q : u[k] \in Int BY <1>8, <2>1
  <2>. HIDE DEF u, P, Q
  <2>4. S(u, P \cup Q) = S(u, P) + S(u, Q) BY <2>1, <2>2, <2>3, SumUnion
  <2>. QED BY <2>1, <2>4
<1>11. S(u, Q) = 0
  <2>1. IsFiniteSet(Q) BY <1>1, FS_Subset
  <2>2. \A k \in Q : u[k] = 0 BY <1>8
  <2>. HIDE DEF u, Q
  <2>. QED BY <2>1, <2>2, SumZero
<1>12. S(UnitsOf(lots), DOMAIN lots) = S(u, DOMAIN lots) + S(from, DOMAIN lots)
  <2>1. \A k \in DOMAIN lots : u[k] \in Int /\ from[k] \in Int /\ UnitsOf(lots)[k] = u[k] + from[k]
    BY <1>1, <1>8
  <2>2. IsFiniteSet(DOMAIN lots) BY <1>1
  <2>. DEFINE h == UnitsOf(lots)
              all == DOMAIN lots
  <2>. HIDE DEF u, h, all
  <2>3. \A k \in all : u[k] \in Int /\ from[k] \in Int /\ h[k] = u[k] + from[k]
    BY <2>1 DEF all, h
  <2>4. IsFiniteSet(all) BY <2>2 DEF all
  <2>5. SumFunctionOnSet(h, all) = SumFunctionOnSet(u, all) + SumFunctionOnSet(from, all)
    BY <2>3, <2>4, SumPlus
  <2>. QED BY <2>5 DEF h, all
<1>13. S(u, P) \in Int
  <2>1. IsFiniteSet(P) BY <1>1, <1>2, FS_Subset
  <2>2. \A k \in P : u[k] \in Int BY <1>2, <1>8
  <2>. HIDE DEF u, P
  <2>. QED BY <2>1, <2>2, SumType
<1>14. S(from, DOMAIN lots) \in Int BY <1>1, <1>8, SumType
<1>15. LotUnits(left) = LotUnits(lots) - S(from, DOMAIN lots)
  <2>. HIDE DEF S, u, P, Q
  <2>. QED BY <1>1, <1>9, <1>10, <1>11, <1>12, <1>13, <1>14
<1>. QED BY <1>7, <1>15

LEMMA DisposalIn ==
  ASSUME NEW C \in {Nat, Int}, NEW D, NEW book, IsBook(book, C, D), NEW t \in Rows(D),
         LotUnits(book.lots) >= t.units
  PROVE  LET sold == Disposal(book, t, OldestLots(book.lots, t.units))
         IN /\ IsBook(sold, C, D) /\ sold.short = book.short
            /\ LotUnits(sold.lots) = LotUnits(book.lots) - t.units
<1>. DEFINE lots == book.lots
            from == OldestLots(lots, t.units)
            cost(k) == (lots[k].cost * from[k]) \div lots[k].units
            rest == [k \in DOMAIN lots |-> [lots[k] EXCEPT !.units = @ - from[k],
                                                           !.cost = @ - cost(k)]]
            left == Picked(rest, Remaining(rest))
            sold == Disposal(book, t, from)
<1>1. lots \in Seq(Lots(C, D)) /\ t.units \in Nat BY RowFields DEF IsBook
<1>2. /\ \A k \in DOMAIN lots : from[k] \in 0 .. lots[k].units
      /\ SumFunctionOnSet(from, DOMAIN lots) = t.units
  <2>1. /\ \A k \in DOMAIN lots : from[k] \in 0 .. lots[k].units
        /\ SumFunctionOnSet(from, DOMAIN lots) = Least(t.units, LotUnits(lots))
    BY <1>1, OldestIn
  <2>2. LotUnits(lots) \in Nat BY <1>1, LotUnitsNat
  <2>3. Least(t.units, LotUnits(lots)) = t.units BY <1>1, <2>2 DEF Least
  <2>. QED BY <2>1, <2>3
<1>3. /\ sold.lots = left /\ sold.short = book.short
      /\ sold = [lots |-> sold.lots, sold |-> sold.sold, short |-> sold.short]
  <2>1. sold.lots = Keep(rest, LAMBDA lot : lot.units > 0) BY DEF Disposal, IsBook
  <2>2. left = Keep(rest, LAMBDA lot : lot.units > 0) BY DEF Keep, Remaining
  <2>3. /\ sold.short = book.short
        /\ sold = [lots |-> sold.lots, sold |-> sold.sold, short |-> sold.short]
    <3>1. PICK X, Y : sold = [book EXCEPT !.lots = X, !.sold = Y] BY Zenon DEF Disposal
    <3>. HIDE DEF sold
    <3>. QED BY <3>1 DEF IsBook
  <2>. QED BY <2>1, <2>2, <2>3
<1>4. ASSUME NEW k \in DOMAIN lots
      PROVE  /\ rest[k] \in LotsLeft(C, D)
             /\ rest[k].units = lots[k].units - from[k]
  <2>1. lots[k] \in Lots(C, D) BY <1>1, LenProperties, ElementOfSeq
  <2>2. lots[k].units \in Nat \ {0} /\ lots[k].cost \in C /\ lots[k].day \in D BY <2>1 DEF Lots
  <2>3. from[k] \in 0 .. lots[k].units BY <1>2
  <2>4. lots[k].cost - cost(k) \in C
    <3>. HIDE DEF from
    <3>. QED BY <2>2, <2>3, CostTaken
  <2>5. lots[k].units - from[k] \in Nat
    <3>. HIDE DEF from
    <3>. QED BY <2>2, <2>3
  <2>6. rest[k] = [units |-> lots[k].units - from[k], cost |-> lots[k].cost - cost(k),
                   day |-> lots[k].day]
    BY <2>1 DEF Lots
  <2>. HIDE DEF rest, cost, from
  <2>. QED BY <2>2, <2>4, <2>5, <2>6 DEF LotsLeft
<1>5. rest \in Seq(LotsLeft(C, D)) /\ DOMAIN rest = DOMAIN lots
  <2>1. DOMAIN lots = 1 .. Len(lots) /\ Len(lots) \in Nat BY <1>1, LenProperties
  <2>2. \A k \in 1 .. Len(lots) : rest[k] \in LotsLeft(C, D) BY <1>4, <2>1
  <2>3. rest = [k \in 1 .. Len(lots) |-> rest[k]] BY <2>1
  <2>4. DOMAIN rest = DOMAIN lots OBVIOUS
  <2>. HIDE DEF rest
  <2>. QED BY <2>1, <2>2, <2>3, <2>4, IsASeq
<1>8. left = Picked(rest, Remaining(rest)) OBVIOUS
<1>. HIDE DEF left, rest, from, lots
<1>9. \A k \in DOMAIN lots : from[k] \in 0 .. lots[k].units BY <1>2
<1>10. \A k \in DOMAIN lots : rest[k].units = lots[k].units - from[k] BY <1>4
<1>6. /\ left \in Seq(Lots(C, D))
      /\ LotUnits(left) = LotUnits(lots) - SumFunctionOnSet(from, DOMAIN lots)
  BY <1>1, <1>5, <1>8, <1>9, <1>10, LeftOver
<1>. HIDE DEF sold
<1>7. IsBook(sold, C, D) BY <1>3, <1>6 DEF IsBook
<1>. QED BY <1>2, <1>3, <1>6, <1>7 DEF sold, from, lots

LEMMA BuyIn ==
  ASSUME NEW C \in {Nat, Int}, NEW D, NEW book, IsBook(book, C, D), NEW t \in Rows(D)
  PROVE  LET bought == Buy(book, t)
         IN /\ IsBook(bought, C, D) /\ bought.short = book.short
            /\ LotUnits(bought.lots) = LotUnits(book.lots) + t.units
<1>. DEFINE lots == book.lots
            n == Len(lots)
            lot == [units |-> t.units, cost |-> t.value, day |-> t.day]
            all == Append(lots, lot)
            bought == Buy(book, t)
<1>1. lots \in Seq(Lots(C, D)) /\ t.units \in Nat /\ t.value \in Nat /\ t.day \in D
  BY RowFields DEF IsBook
<1>2. LotUnits(lots) \in Nat BY <1>1, LotUnitsNat
<1>3. CASE t.units = 0 BY <1>1, <1>2, <1>3 DEF Buy
<1>4. CASE t.units # 0
  <2>1. lot \in Lots(C, D) BY <1>1, <1>4 DEF Lots
  <2>2. /\ all \in Seq(Lots(C, D)) /\ Len(all) = n + 1
        /\ \A i \in 1 .. n : all[i] = lots[i]
        /\ all[n + 1] = lot
    BY <1>1, <2>1, AppendProperties
  <2>3. /\ bought.lots = all /\ bought.short = book.short
        /\ bought = [lots |-> bought.lots, sold |-> bought.sold, short |-> bought.short]
    BY <1>4 DEF Buy, IsBook
  <2>4. IsBook(bought, C, D)
    <3>. HIDE DEF bought, all
    <3>. QED BY <2>2, <2>3 DEF IsBook
  <2>5. LotUnits(all) = LotUnits(lots) + t.units
    <3>1. /\ DOMAIN lots = 1 .. n /\ n \in Nat /\ IsFiniteSet(DOMAIN lots)
          /\ \A k \in DOMAIN lots : UnitsOf(lots)[k] \in Nat \ {0}
          /\ LotUnits(lots) = SumFunctionOnSet(UnitsOf(lots), DOMAIN lots)
      BY <1>1, LotUnitsNat
    <3>. HIDE DEF all, lots
    <3>2. /\ DOMAIN all = 1 .. Len(all) /\ IsFiniteSet(DOMAIN all)
          /\ \A k \in DOMAIN all : UnitsOf(all)[k] \in Nat \ {0}
          /\ LotUnits(all) = SumFunctionOnSet(UnitsOf(all), DOMAIN all)
      BY <2>2, LotUnitsNat
    <3>3. n + 1 \in DOMAIN all /\ DOMAIN all \ {n + 1} = DOMAIN lots BY <2>2, <3>1, <3>2
    <3>4. LotUnits(all)
            = UnitsOf(all)[n + 1] + SumFunctionOnSet(UnitsOf(all), DOMAIN all \ {n + 1})
      BY <3>2, <3>3, SumRemove
    <3>5. UnitsOf(all)[n + 1] = t.units BY <2>2, <3>3 DEF UnitsOf, lot
    <3>6. \A k \in DOMAIN lots : UnitsOf(lots)[k] \in Int /\ UnitsOf(all)[k] = UnitsOf(lots)[k]
      BY <2>2, <3>1, <3>3 DEF UnitsOf
    <3>7. SumFunctionOnSet(UnitsOf(all), DOMAIN lots) = LotUnits(lots)
      BY <3>1, <3>6, SumSame
    <3>. QED BY <1>1, <1>2, <3>3, <3>4, <3>5, <3>7
  <2>. QED BY <2>3, <2>4, <2>5
<1>. QED BY <1>3, <1>4

LEMMA ShedIn ==
  ASSUME NEW D, NEW book, IsBook(book, Int, D), NEW r \in Sheds(D)
  PROVE  LET less == Shed(book, r)
         IN /\ IsBook(less, Int, D) /\ less.short = book.short
            /\ LotUnits(less.lots) = LotUnits(book.lots)
<1>. DEFINE lots == book.lots
            P == {k \in DOMAIN lots : lots[k].day = r.acquired}
            open == Picked(lots, P)
            total == LotUnits(open)
            part(lot) == (r.value * lot.units) \div total
            rest == [k \in DOMAIN lots |->
                       IF lots[k].day = r.acquired
                       THEN [lots[k] EXCEPT !.cost = @ - part(lots[k])] ELSE lots[k]]
            less == Shed(book, r)
<1>1. lots \in Seq(Lots(Int, D)) /\ r.value \in Nat BY DEF IsBook, Sheds
<1>2. open = Keep(lots, LAMBDA lot : lot.day = r.acquired) BY DEF Keep
<1>3. CASE open = <<>> BY <1>1, <1>2, <1>3 DEF Shed
<1>4. CASE open # <<>>
  <2>1. open \in Seq(Lots(Int, D)) BY <1>1, PickedPlaced
  <2>2. total \in Nat /\ total # 0
    <3>. HIDE DEF open
    <3>1. Len(open) # 0 BY <1>4, <2>1, EmptySeq
    <3>2. /\ DOMAIN open = 1 .. Len(open) /\ Len(open) \in Nat
          /\ total = SumFunctionOnSet(UnitsOf(open), DOMAIN open)
          /\ \A P0 \in SUBSET DOMAIN open : P0 # {} => SumFunctionOnSet(UnitsOf(open), P0) > 0
      BY <2>1, LotUnitsNat
    <3>3. DOMAIN open # {} BY <3>1, <3>2
    <3>4. total > 0 BY <3>2, <3>3
    <3>5. total \in Nat BY <2>1, LotUnitsNat
    <3>. HIDE DEF total
    <3>. QED BY <3>4, <3>5
  <2>3. less = [book EXCEPT !.lots = rest] BY <1>2, <1>4 DEF Shed
  <2>4. less.lots = rest /\ less.short = book.short
        /\ less = [lots |-> less.lots, sold |-> less.sold, short |-> less.short]
    <3>. HIDE DEF rest, less
    <3>. QED BY <2>3 DEF IsBook
  <2>5. ASSUME NEW k \in DOMAIN lots, lots[k] \in Lots(Int, D)
        PROVE  rest[k] \in Lots(Int, D) /\ rest[k].units = lots[k].units
    <3>1. lots[k].units \in Nat /\ lots[k].cost \in Int BY <2>5 DEF Lots
    <3>. HIDE DEF total
    <3>2. r.value * lots[k].units \in Int BY <1>1, <3>1, Product
    <3>3. part(lots[k]) \in Int BY <2>2, <3>2, Quotient
    <3>. DEFINE p == part(lots[k])
    <3>4. rest[k] \in {[lots[k] EXCEPT !.cost = @ - p], lots[k]} OBVIOUS
    <3>. HIDE DEF part, rest, p
    <3>5. lots[k].cost - p \in Int BY <3>1, <3>3 DEF p
    <3>6. [lots[k] EXCEPT !.cost = @ - p] \in Lots(Int, D)
          /\ [lots[k] EXCEPT !.cost = @ - p].units = lots[k].units
      BY <2>5, <3>5 DEF Lots
    <3>. QED BY <2>5, <3>4, <3>6
  <2>6. rest = [k \in DOMAIN lots |-> rest[k]] /\ DOMAIN rest = DOMAIN lots OBVIOUS
  <2>. HIDE DEF rest, lots, less
  <2>7. rest \in Seq(Lots(Int, D)) BY <1>1, <2>5, <2>6, RowsMapped
  <2>8. \A k \in DOMAIN lots : rest[k].units = lots[k].units
    BY <1>1, <2>5, LenProperties, ElementOfSeq
  <2>9. UnitsOf(rest) = UnitsOf(lots) BY <2>6, <2>8 DEF UnitsOf
  <2>10. LotUnits(rest) = LotUnits(lots) BY <1>1, <2>6, <2>7, <2>9, LotUnitsNat
  <2>11. IsBook(less, Int, D) BY <2>4, <2>7 DEF IsBook
  <2>. QED BY <2>4, <2>10, <2>11 DEF less, lots
<1>. QED BY <1>3, <1>4

LEMMA BookRowIn ==
  ASSUME NEW C \in {Nat, Int}, NEW D, NEW book, IsBook(book, C, D),
         NEW t, t \in Rows(D) \/ (C = Int /\ t \in Sheds(D))
  PROVE  IsBook(BookRow(book, t), C, D) /\ Booked(book, BookRow(book, t), t)
<1>. DEFINE next == BookRow(book, t)
<1>. SUFFICES /\ IsBook(next, C, D)
              /\ ~next.short => /\ ~book.short
                                /\ LotUnits(next.lots) = LotUnits(book.lots) + Signed(t)
  BY DEF Booked
<1>1. LotUnits(book.lots) \in Nat BY LotUnitsNat DEF IsBook
<1>2. CASE t \in Rows(D)
  <2>1. t.type \in RowTypes /\ t.units \in Nat BY <1>2, RowFields
  <2>2. CASE t.type \in Inflows
    <3>1. next = Buy(book, t) BY <2>2 DEF BookRow, Inflows, Outflows
    <3>2. Signed(t) = t.units BY <2>2 DEF Signed
    <3>3. /\ IsBook(next, C, D) /\ next.short = book.short
          /\ LotUnits(next.lots) = LotUnits(book.lots) + t.units
      <4>1. /\ IsBook(Buy(book, t), C, D) /\ Buy(book, t).short = book.short
            /\ LotUnits(Buy(book, t).lots) = LotUnits(book.lots) + t.units
        BY <1>1, <1>2, <2>1, BuyIn
      <4>. HIDE DEF next
      <4>. QED BY <3>1, <4>1
    <3>. HIDE DEF next
    <3>. QED BY <3>2, <3>3
  <2>3. CASE t.type \in Outflows
    <3>1. next = IF book.short THEN book ELSE Sell(book, t)
      BY <2>3 DEF BookRow, Inflows, Outflows
    <3>2. Signed(t) = 0 - t.units BY <2>3 DEF Signed, Inflows, Outflows
    <3>3. CASE book.short BY <3>1, <3>3
    <3>4. CASE ~book.short /\ LotUnits(book.lots) < t.units
      <4>1. next = [book EXCEPT !.short = TRUE] BY <3>1, <3>4 DEF Sell
      <4>2. IsBook(next, C, D) /\ next.short
        <5>. HIDE DEF next
        <5>. QED BY <4>1 DEF IsBook
      <4>. QED BY <4>2
    <3>5. CASE ~book.short /\ ~(LotUnits(book.lots) < t.units)
      <4>1. next = Disposal(book, t, OldestLots(book.lots, t.units)) BY <3>1, <3>5 DEF Sell
      <4>2. LotUnits(book.lots) >= t.units BY <1>1, <2>1, <3>5
      <4>3. /\ IsBook(next, C, D) /\ next.short = book.short
            /\ LotUnits(next.lots) = LotUnits(book.lots) - t.units
        <5>. HIDE DEF next
        <5>. QED BY <1>2, <4>1, <4>2, DisposalIn
      <4>. HIDE DEF next
      <4>. QED BY <1>1, <2>1, <3>2, <3>5, <4>3
    <3>. QED BY <3>3, <3>4, <3>5
  <2>4. CASE t.type \notin Inflows /\ t.type \notin Outflows
    <3>1. t.type # "shed" BY <2>1 DEF RowTypes, Inflows, Outflows
    <3>2. next = book BY <2>4, <3>1 DEF BookRow
    <3>3. Signed(t) = 0 BY <2>4 DEF Signed
    <3>. QED BY <1>1, <3>2, <3>3
  <2>. QED BY <2>2, <2>3, <2>4
<1>3. CASE C = Int /\ t \in Sheds(D)
  <2>1. t.type = "shed" BY <1>3 DEF Sheds
  <2>2. next = Shed(book, t) BY <2>1 DEF BookRow, Inflows, Outflows
  <2>3. Signed(t) = 0 BY <2>1 DEF Signed, Inflows, Outflows
  <2>4. /\ IsBook(next, C, D) /\ next.short = book.short
        /\ LotUnits(next.lots) = LotUnits(book.lots)
    <3>. HIDE DEF next
    <3>. QED BY <1>3, <2>2, ShedIn
  <2>. HIDE DEF next
  <2>. QED BY <1>1, <2>3, <2>4
<1>. QED BY <1>2, <1>3

LEMMA ByDayOrder ==
  ASSUME NEW R, NEW rows \in Seq(R), \A k \in DOMAIN rows : rows[k].day \in Int
  PROVE  \E order : /\ Enumerates(order, DOMAIN rows) /\ IsFiniteSet(DOMAIN rows)
                    /\ ByDay(rows) = Placed(rows, order)
<1>. DEFINE S == DOMAIN rows
            day(k) == rows[k].day
            sooner(j, k) == \/ rows[j].day < rows[k].day
                            \/ rows[j].day = rows[k].day /\ j < k
            R0 == {p \in S \X S : sooner(p[1], p[2])}
<1>1. S = 1 .. Len(rows) /\ Len(rows) \in Nat BY LenProperties
<1>2. IsFiniteSet(1 .. Len(rows)) BY <1>1, FS_Interval
<1>3. IsFiniteSet(S) BY <1>1, <1>2
<1>4. \A k \in S : day(k) \in Int /\ k \in Int BY <1>1
<1>5. \A j, k \in S : <<j, k>> \in R0 <=> day(j) < day(k) \/ (day(j) = day(k) /\ j < k)
  OBVIOUS
<1>6. ByDay(rows) = Placed(rows, Sorted(S, R0)) BY DEF ByDay, Ordered
<1>. HIDE DEF R0, S, day
<1>7. StrictOn(R0, S)
  <2>1. \A x \in S : <<x, x>> \notin R0 BY <1>4, <1>5
  <2>2. ASSUME NEW x \in S, NEW y \in S, NEW z \in S, <<x, y>> \in R0, <<y, z>> \in R0
        PROVE  <<x, z>> \in R0
    BY <1>4, <1>5, <2>2
  <2>. QED BY <2>1, <2>2 DEF StrictOn
<1>8. Enumerates(Sorted(S, R0), S) BY <1>3, <1>7, SortedEnumerates
<1>. QED BY <1>3, <1>6, <1>8 DEF S

LEMMA FifoLoop ==
  ASSUME NEW base, NEW R, NEW rows \in Seq(R)
  PROVE  /\ FoldLeft(BookRow, base, rows) = Loop("fifo", rows, base, DOMAIN rows)
         /\ IsFiniteSet(DOMAIN rows) /\ DOMAIN rows \in SUBSET Int
         /\ Picks("fifo", rows, DOMAIN rows)
<1>. DEFINE P == DOMAIN rows
            runs(g) == g = [T \in SUBSET P |-> IF T = {} THEN base
                              ELSE BookRow(g[T \ {Max(T)}], rows[Max(T)])]
            c == CHOOSE g : runs(g)
<1>1. P = 1 .. Len(rows) /\ Len(rows) \in Nat BY LenProperties
<1>2. IsFiniteSet(1 .. Len(rows)) BY <1>1, FS_Interval
<1>3. IsFiniteSet(P) /\ P \in SUBSET Int BY <1>1, <1>2
<1>4. Picks("fifo", rows, P) BY <1>3, PlacePicks
<1>5. ASSUME NEW g PROVE runs(g) <=> IsLoop("fifo", rows, base, P, g)
  BY DEF IsLoop, Body, Pick
<1>6. \E g : runs(g) BY <1>3, <1>4, <1>5, LoopExists
<1>7. runs(c) BY <1>6
<1>8. FoldLeft(BookRow, base, rows) = c[P] BY DEF FoldLeft, MapThenFoldSet
<1>. HIDE DEF c
<1>9. IsLoop("fifo", rows, base, P, c) BY <1>5, <1>7
<1>10. Loop("fifo", rows, base, P) = c[P] BY <1>3, <1>4, <1>9, LoopIs
<1>. QED BY <1>3, <1>4, <1>8, <1>10

(* FIFO takes the rows of a bucket one by one, each once: whatever a       *)
(* demerger took from the lots' cost, their units are typed, and unless a  *)
(* sale found too little they add up to what was bought less what was sold *)
(* (_build_lots, consume).                                                 *)
THEOREM LotsHoldNetUnits ==
  ASSUME NEW D \in SUBSET Nat, NEW C \in {Nat, Int}, NEW reductions \in Seq(Sheds(D)),
         NEW bucket \in Seq(Rows(D)), C = Int \/ reductions = <<>>
  PROVE  LET book == Fifo(bucket, reductions)
         IN IsBook(book, C, D) /\ (~book.short => LotUnits(book.lots) = NetUnits(bucket))
<1>. DEFINE all == reductions \o bucket
            Q == IF C = Int THEN Rows(D) \cup Sheds(D) ELSE Rows(D)
            n == Len(reductions)
            m == Len(bucket)
            rows == ByDay(all)
            L(T) == Loop("fifo", rows, Empty, T)
            book == Fifo(bucket, reductions)
            Sums(T) == /\ IsBook(L(T), C, D)
                       /\ ~L(T).short => LotUnits(L(T).lots) = UnitsIn(rows, T)
            Good == {T \in SUBSET DOMAIN rows : Sums(T)}
<1>1. bucket \in Seq(Q) /\ reductions \in Seq(Q) /\ n \in Nat /\ m \in Nat
  <2>1. CASE C = Int
    <3>1. Rows(D) \subseteq Q /\ Sheds(D) \subseteq Q BY <2>1
    <3>. HIDE DEF Q
    <3>2. bucket \in Seq(Q) BY <3>1, SeqMonotonic
    <3>3. reductions \in Seq(Q) BY <3>1, SeqMonotonic
    <3>. QED BY <3>2, <3>3, LenProperties
  <2>2. CASE C # Int
    <3>1. reductions = <<>> /\ Q = Rows(D) BY <2>2
    <3>. HIDE DEF Q
    <3>2. reductions \in Seq(Q) BY <3>1, EmptySeq
    <3>. QED BY <3>1, <3>2, LenProperties
  <2>. QED BY <2>1, <2>2
<1>2. /\ all \in Seq(Q) /\ Len(all) = n + m
      /\ \A i \in 1 .. n + m : all[i] = IF i <= n THEN reductions[i] ELSE bucket[i - n]
  <2>. HIDE DEF Q
  <2>. QED BY <1>1, ConcatProperties
<1>3. DOMAIN all = 1 .. n + m /\ DOMAIN bucket = 1 .. m /\ DOMAIN reductions = 1 .. n
  <2>. HIDE DEF Q, all
  <2>. QED BY <1>1, <1>2, LenProperties
<1>. HIDE DEF all
<1>4. \A k \in DOMAIN all : all[k] \in Q
  <2>. HIDE DEF Q
  <2>. QED BY <1>2, <1>3, ElementOfSeq
<1>5. \A t \in Q : t.day \in Int /\ Signed(t) \in Int
  <2>1. \A t \in Rows(D) : t.day \in D /\ Signed(t) \in Int BY RowFields
  <2>2. \A t \in Sheds(D) : t.day \in D /\ Signed(t) = 0
    BY DEF Sheds, Signed, Inflows, Outflows
  <2>. SUFFICES ASSUME NEW t \in Q PROVE t.day \in Int /\ Signed(t) \in Int OBVIOUS
  <2>3. t \in Rows(D) \/ t \in Sheds(D) OBVIOUS
  <2>4. t.day \in D /\ Signed(t) \in Int BY <2>1, <2>2, <2>3
  <2>5. t.day \in Nat BY <2>4
  <2>. HIDE DEF Q
  <2>. QED BY <2>4, <2>5
<1>6. PICK order : /\ Enumerates(order, DOMAIN all) /\ IsFiniteSet(DOMAIN all)
                   /\ rows = Placed(all, order)
  <2>1. \A k \in DOMAIN all : all[k].day \in Int BY <1>4, <1>5
  <2>. HIDE DEF Q
  <2>. QED BY <1>2, <2>1, ByDayOrder
<1>7. rows \in Seq(Q)
  <2>1. order \in Seq(DOMAIN all) BY <1>6 DEF Enumerates
  <2>2. DOMAIN all \in SUBSET DOMAIN all OBVIOUS
  <2>. HIDE DEF Q, rows
  <2>. QED BY <1>2, <1>6, <2>1, <2>2, PlacedIn
<1>8. \A k \in DOMAIN rows : rows[k] \in Q /\ Signed(rows[k]) \in Int
  <2>. HIDE DEF rows, Q
  <2>1. \A k \in DOMAIN rows : rows[k] \in Q BY <1>7, LenProperties, ElementOfSeq
  <2>. QED BY <1>5, <2>1
<1>9. /\ FoldLeft(BookRow, Empty, rows) = L(DOMAIN rows)
      /\ IsFiniteSet(DOMAIN rows) /\ DOMAIN rows \in SUBSET Int
      /\ Picks("fifo", rows, DOMAIN rows)
  <2>. HIDE DEF rows, Q
  <2>. QED BY <1>7, FifoLoop
<1>10. book = L(DOMAIN rows) BY <1>9 DEF Fifo, all
<1>. HIDE DEF rows, book
<1>11. ASSUME NEW T \in SUBSET DOMAIN rows, \A U \in SUBSET T : U # T => U \in Good
       PROVE  T \in Good
  <2>1. CASE T = {}
    <3>1. L(T) = Empty BY <2>1, LoopEmpty
    <3>2. <<>> \in Seq(Lots(C, D)) /\ DOMAIN <<>> = {} BY EmptySeq
    <3>. HIDE DEF L
    <3>3. IsBook(L(T), C, D) BY <3>1, <3>2 DEF IsBook, Empty
    <3>4. LotUnits(<<>>) = 0
      <4>1. LotUnits(<<>>) = SumFunctionOnSet(UnitsOf(<<>>), DOMAIN <<>>)
        BY <3>2, LotUnitsNat
      <4>. QED BY <4>1, <3>2, SumEmpty
    <3>5. UnitsIn(rows, T) = 0 BY <2>1, SumEmpty DEF UnitsIn
    <3>6. LotUnits(L(T).lots) = UnitsIn(rows, T) BY <3>1, <3>4, <3>5 DEF Empty
    <3>. QED BY <3>3, <3>6
  <2>2. CASE T # {}
    <3>. DEFINE x == Pick("fifo", rows, T)
                before == L(T \ {x})
                next == BookRow(before, rows[x])
    <3>1. x \in T BY <1>9, <2>2 DEF Picks
    <3>2. IsFiniteSet(T) /\ Picks("fifo", rows, T) BY <1>9, FS_Subset DEF Picks
    <3>3. L(T) = next
      <4>1. L(T) = Body("fifo", rows, x, before) BY <2>2, <3>2, LoopStep
      <4>. HIDE DEF before, x, L
      <4>. QED BY <4>1 DEF Body
    <3>4. Sums(T \ {x})
      <4>1. T \ {x} \in Good BY <3>1, <1>11
      <4>. QED BY <4>1
    <3>. HIDE DEF x
    <3>5. IsBook(before, C, D) /\ (~before.short => LotUnits(before.lots) = UnitsIn(rows, T \ {x}))
      BY <3>4
    <3>6. rows[x] \in Rows(D) \/ (C = Int /\ rows[x] \in Sheds(D)) BY <1>8, <3>1
    <3>. HIDE DEF before, Q, L
    <3>7. /\ IsBook(next, C, D)
          /\ ~next.short => /\ ~before.short
                            /\ LotUnits(next.lots) = LotUnits(before.lots) + Signed(rows[x])
      <4>. DEFINE t == rows[x]
      <4>1. t \in Rows(D) \/ (C = Int /\ t \in Sheds(D)) BY <3>6
      <4>2. IsBook(before, C, D) BY <3>5
      <4>. HIDE DEF t
      <4>5. IsBook(BookRow(before, t), C, D) /\ Booked(before, BookRow(before, t), t)
        BY <4>1, <4>2, BookRowIn
      <4>6. /\ IsBook(BookRow(before, t), C, D)
            /\ ~BookRow(before, t).short =>
                  /\ ~before.short
                  /\ LotUnits(BookRow(before, t).lots) = LotUnits(before.lots) + Signed(t)
        BY <4>5 DEF Booked
      <4>. QED BY <4>6 DEF t
    <3>8. UnitsIn(rows, T) = Signed(rows[x]) + UnitsIn(rows, T \ {x})
          /\ UnitsIn(rows, T \ {x}) \in Int
      <4>. DEFINE f == [k \in DOMAIN rows |-> Signed(rows[k])]
      <4>1. \A k \in T : f[k] \in Int BY <1>8
      <4>2. f[x] = Signed(rows[x]) BY <3>1
      <4>3. IsFiniteSet(T \ {x}) BY <3>2, FS_Subset
      <4>. HIDE DEF f
      <4>4. SumFunctionOnSet(f, T) = f[x] + SumFunctionOnSet(f, T \ {x})
        BY <3>1, <3>2, <4>1, SumRemove
      <4>5. \A k \in T \ {x} : f[k] \in Int BY <4>1
      <4>6. SumFunctionOnSet(f, T \ {x}) \in Int BY <4>3, <4>5, SumType
      <4>. QED BY <4>2, <4>4, <4>6 DEF UnitsIn, f
    <3>9. Signed(rows[x]) \in Int BY <1>8, <3>1
    <3>12. LotUnits(before.lots) \in Int BY <3>5, LotUnitsNat DEF IsBook
    <3>. HIDE DEF next
    <3>10. ~next.short => LotUnits(next.lots) = UnitsIn(rows, T)
      BY <3>5, <3>7, <3>8, <3>9, <3>12
    <3>11. Sums(T) BY <3>3, <3>7, <3>10
    <3>. QED BY <3>11
  <2>. QED BY <2>1, <2>2
<1>. HIDE DEF Good
<1>12. \A T \in SUBSET DOMAIN rows : T \in Good BY <1>9, <1>11, SubsetInduction
<1>13. IsBook(book, C, D) /\ (~book.short => LotUnits(book.lots) = UnitsIn(rows, DOMAIN rows))
  BY <1>10, <1>12 DEF Good
<1>14. UnitsIn(rows, DOMAIN rows) = NetUnits(bucket)
  <2>. DEFINE f == [k \in DOMAIN all |-> Signed(all[k])]
              g == [k \in DOMAIN bucket |-> Signed(bucket[k])]
              old == 1 .. n
              new == (n + 1) .. (n + m)
              S(h, T) == SumFunctionOnSet(h, T)
  <2>1. UnitsIn(rows, DOMAIN rows) = NetUnits(rows)
    BY DEF UnitsIn, NetUnits, SumFunction
  <2>2. NetUnits(rows) = S(f, DOMAIN all)
    <3>1. \A k \in DOMAIN all : Signed(all[k]) \in Int BY <1>4, <1>5
    <3>2. DOMAIN all \in SUBSET DOMAIN all OBVIOUS
    <3>3. NetUnits(Placed(all, order)) = UnitsIn(all, DOMAIN all)
      BY <1>6, <3>1, <3>2, NetPlaced
    <3>. QED BY <1>6, <3>3 DEF UnitsIn
  <2>3. \A k \in DOMAIN all : f[k] \in Int BY <1>4, <1>5
  <2>4. old \cup new = DOMAIN all /\ old \cap new = {} BY <1>1, <1>3
  <2>5. IsFiniteSet(old) /\ IsFiniteSet(new)
    <3>1. 1 \in Int /\ n \in Int /\ n + 1 \in Int /\ n + m \in Int BY <1>1
    <3>2. IsFiniteSet(old) BY <3>1, FS_Interval
    <3>3. IsFiniteSet(new) BY <3>1, FS_Interval
    <3>. QED BY <3>2, <3>3
  <2>6. \A k \in old : f[k] = 0
    <3>. SUFFICES ASSUME NEW k \in old PROVE f[k] = 0 OBVIOUS
    <3>1. k \in 1 .. n + m /\ k <= n /\ k \in 1 .. n BY <1>1
    <3>2. all[k] = reductions[k] BY <1>2, <3>1
    <3>3. reductions[k] \in Sheds(D) BY <3>1, ElementOfSeq
    <3>4. Signed(all[k]) = 0 BY <3>2, <3>3 DEF Sheds, Signed, Inflows, Outflows
    <3>. QED BY <1>3, <3>1, <3>4
  <2>7. S(f, old) = 0
    <3>. HIDE DEF f, old
    <3>. QED BY <2>5, <2>6, SumZero
  <2>8. S(f, DOMAIN all) = S(f, old) + S(f, new)
    <3>1. \A k \in old \cup new : f[k] \in Int BY <2>3, <2>4
    <3>. HIDE DEF f, old, new
    <3>2. S(f, old \cup new) = S(f, old) + S(f, new) BY <2>4, <2>5, <3>1, SumUnion
    <3>. QED BY <2>4, <3>2
  <2>9. S(f, new) = S(g, DOMAIN bucket)
    <3>. DEFINE name == [i \in 1 .. m |-> n + i]
    <3>1. \A i \in 1 .. m : /\ g[i] \in Int /\ name[i] \in new /\ f[name[i]] = g[i]
      <4>. SUFFICES ASSUME NEW i \in 1 .. m
                    PROVE  g[i] \in Int /\ name[i] \in new /\ f[name[i]] = g[i]
        OBVIOUS
      <4>1. n + i \in 1 .. n + m /\ ~(n + i <= n) /\ (n + i) - n = i /\ n + i \in new
        BY <1>1
      <4>2. all[n + i] = bucket[i] BY <1>2, <4>1
      <4>3. f[n + i] = g[i] /\ g[i] \in Int BY <1>3, <2>3, <4>1, <4>2
      <4>. HIDE DEF f, g, new
      <4>. QED BY <4>1, <4>3
    <3>2. \A i, j \in 1 .. m : name[i] = name[j] => i = j BY <1>1
    <3>3. \A r \in new : \E i \in 1 .. m : name[i] = r
      <4>. SUFFICES ASSUME NEW r \in new PROVE \E i \in 1 .. m : name[i] = r OBVIOUS
      <4>1. r - n \in 1 .. m /\ n + (r - n) = r BY <1>1
      <4>2. name[r - n] = r BY <4>1
      <4>. QED BY <4>1, <4>2
    <3>4. IsFiniteSet(1 .. m) BY <1>1, FS_Interval
    <3>. HIDE DEF f, g, name, new
    <3>5. S(f, new) = S(g, 1 .. m)
      <4>. DEFINE places == 1 .. m
      <4>1. /\ \A i \in places : /\ g[i] \in Int /\ name[i] \in new /\ f[name[i]] = g[i]
            /\ \A i, j \in places : name[i] = name[j] => i = j
            /\ \A r \in new : \E i \in places : name[i] = r
            /\ IsFiniteSet(places) /\ IsFiniteSet(new)
        BY <2>5, <3>1, <3>2, <3>3, <3>4
      <4>. HIDE DEF places
      <4>2. SumFunctionOnSet(f, new) = SumFunctionOnSet(g, places) BY <4>1, SumRename
      <4>. QED BY <4>2 DEF places
    <3>. QED BY <1>3, <3>5
  <2>10. NetUnits(bucket) = S(g, DOMAIN bucket) BY DEF NetUnits, SumFunction
  <2>11. S(f, new) \in Int
    <3>1. \A k \in new : f[k] \in Int BY <2>3, <2>4
    <3>. HIDE DEF f, new
    <3>. QED BY <2>5, <3>1, SumType
  <2>. HIDE DEF S, f, g
  <2>. QED BY <2>1, <2>2, <2>7, <2>8, <2>9, <2>10, <2>11
<1>. QED BY <1>13, <1>14 DEF book

-----------------------------------------------------------------------------
(* What is kept at every round is kept by the loop.                        *)
LEMMA KeptReflexive ==
  ASSUME NEW s, IsStore(s)
  PROVE  Kept(s, s)
BY DEF Kept

LEMMA RefsForCached ==
  ASSUME NEW s, NEW t, t.cached = s.cached, NEW sec
  PROVE  DedupeScaling(t, sec) = DedupeScaling(s, sec) /\ RefsFor(t, sec) = RefsFor(s, sec)
BY DEF RefsFor, DedupeScaling, Applicable, CachedFor

LEMMA KeptTransitive ==
  ASSUME NEW s, NEW t, NEW u, Kept(s, t), Kept(t, u)
  PROVE  Kept(s, u)
<1>1. \A sec : RefsFor(t, sec) = RefsFor(s, sec) BY RefsForCached DEF Kept
<1>2. ASSUME NEW p \in Pairs
      PROVE  u.integrity[p] = s.integrity[p] \/ Judged(s, p, u.integrity[p])
  <2>1. t.integrity[p] = s.integrity[p] \/ Judged(s, p, t.integrity[p]) BY DEF Kept
  <2>2. u.integrity[p] = t.integrity[p] \/ Judged(t, p, u.integrity[p]) BY DEF Kept
  <2>3. Judged(t, p, u.integrity[p]) => Judged(s, p, u.integrity[p])
    BY <1>1, <2>1 DEF Judged
  <2>. QED BY <2>1, <2>2, <2>3
<1>. QED BY <1>2 DEF Kept

(* A loop keeps the tables if its body does.                               *)
LEMMA LoopKept ==
  ASSUME NEW loop, NEW arg, NEW base, NEW S, IsFiniteSet(S), Picks(loop, arg, S),
         IsStore(base), \A x \in S : \A s : IsStore(s) => Kept(s, Body(loop, arg, x, s))
  PROVE  Kept(base, Loop(loop, arg, base, S))
<1>. DEFINE L(T) == Loop(loop, arg, base, T)
            Good == {T \in SUBSET S : Kept(base, L(T))}
<1>1. ASSUME NEW T \in SUBSET S, \A U \in SUBSET T : U # T => U \in Good
      PROVE  T \in Good
  <2>1. CASE T = {} BY <2>1, LoopEmpty, KeptReflexive
  <2>2. CASE T # {}
    <3>. DEFINE x == Pick(loop, arg, T)
    <3>1. x \in T /\ T \ {x} \in SUBSET T /\ T \ {x} # T BY <2>2 DEF Picks
    <3>2. Kept(base, L(T \ {x})) BY <3>1, <1>1
    <3>3. Kept(L(T \ {x}), Body(loop, arg, x, L(T \ {x}))) BY <3>1, <3>2 DEF Kept
    <3>4. IsFiniteSet(T) /\ Picks(loop, arg, T) BY FS_Subset DEF Picks
    <3>5. L(T) = Body(loop, arg, x, L(T \ {x})) BY <2>2, <3>4, LoopStep
    <3>6. Kept(base, Body(loop, arg, x, L(T \ {x}))) BY <3>2, <3>3, KeptTransitive
    <3>. QED BY <3>5, <3>6
  <2>. QED BY <2>1, <2>2
<1>. HIDE DEF Good
<1>2. \A T \in SUBSET S : T \in Good BY <1>1, SubsetInduction
<1>. QED BY <1>2 DEF Good

-----------------------------------------------------------------------------
(* A row is judged from the references of its own security, one per day    *)
(* and multiple.                                                           *)
LEMMA ReplayRefs ==
  ASSUME NEW s, NEW sec, NEW folio, NEW base
  PROVE  /\ ReplayCached(s, sec, folio, base).tried \subseteq RefsFor(s, sec)
         /\ ReplayCached(s, sec, folio, base).moved \subseteq RefsFor(s, sec)
BY DEF ReplayCached, RefsFor

LEMMA RatioRefs ==
  ASSUME NEW s, NEW sec, NEW net, NEW anchor
  PROVE  ByRatio(s, sec, net, anchor).refs \subseteq RefsFor(s, sec)
BY DEF ByRatio, Offer, RefsFor

LEMMA DetectRefs ==
  ASSUME NEW s, NEW sec, NEW folio, NEW gap
  PROVE  Detect(s, sec, folio, gap).refs \subseteq RefsFor(s, sec)
<1>1. NoIssue.refs \subseteq RefsFor(s, sec) BY DEF NoIssue
<1>2. ASSUME NEW base PROVE Probe(s, sec, folio, gap, base).refs \subseteq RefsFor(s, sec)
  <2>. DEFINE replay == ReplayCached(s, sec, folio, base)
  <2>1. replay.tried \subseteq RefsFor(s, sec) /\ replay.moved \subseteq RefsFor(s, sec)
    BY ReplayRefs
  <2>2. ByRatio(s, sec, gap.net, gap.anchor).refs \subseteq RefsFor(s, sec) BY RatioRefs
  <2>. HIDE DEF replay
  <2>3. Explained(s, sec, gap, base, replay).refs \subseteq RefsFor(s, sec)
    BY <1>1, <2>1, <2>2 DEF Explained, Offer
  <2>. QED BY <2>3 DEF Probe, replay
<1>. QED BY <1>1, <1>2 DEF Detect

LEMMA VerdictStatus ==
  ASSUME NEW gap, NEW acked
  PROVE  /\ Verdict(gap, acked) \in Statuses
         /\ Verdict(gap, acked) = "user_acknowledged" => acked
BY DEF Verdict, Statuses

LEMMA RowJudged ==
  ASSUME NEW s, NEW sec, NEW folio, NEW gap, NEW acked
  PROVE  /\ RowFor(s, sec, folio, gap, acked).status \in Statuses
         /\ RowFor(s, sec, folio, gap, acked).offer.refs \subseteq RefsFor(s, sec)
         /\ RowFor(s, sec, folio, gap, acked).status = "user_acknowledged" => acked
<1>1. /\ NoRow.status = "none" /\ NoRow.offer.refs = {} BY DEF NoRow, NoIssue
<1>2. "none" \in Statuses BY DEF Statuses
<1>3. Detect(s, sec, folio, gap).refs \subseteq RefsFor(s, sec) BY DetectRefs
<1>. QED BY <1>1, <1>2, <1>3, VerdictStatus DEF RowFor

LEMMA ReconciledRowJudged ==
  ASSUME NEW s, NEW sec, NEW folio, NEW acknowledge, NEW clear
  PROVE  LET row == ReconciledRow(s, sec, folio, acknowledge, clear)
         IN /\ row.status \in Statuses
            /\ row.offer.refs \subseteq RefsFor(s, sec)
            /\ row.status = "user_acknowledged" =>
                 \/ acknowledge
                 \/ ~clear /\ s.integrity[<<folio, sec>>].status = "user_acknowledged"
BY RowJudged DEF ReconciledRow, KeepsAck

LEMMA RowReplaced ==
  ASSUME NEW s, IsStore(s), NEW p, NEW row
  PROVE  LET t == [s EXCEPT !.integrity[p] = row]
         IN /\ IsStore(t) /\ t.log = s.log /\ t.cached = s.cached /\ t.synced = s.synced
            /\ t.blocks = s.blocks
            /\ \A q \in Pairs : t.integrity[q] = IF q = p THEN row ELSE s.integrity[q]
BY DEF IsStore

LEMMA FolioKept ==
  ASSUME NEW s, IsStore(s), NEW sec, NEW folio
  PROVE  Kept(s, ReconcileFolio(s, sec, folio, FALSE, FALSE))
<1>. DEFINE row == ReconciledRow(s, sec, folio, FALSE, FALSE)
<1>1. Judged(s, <<folio, sec>>, row) BY ReconciledRowJudged DEF Judged
<1>. HIDE DEF row
<1>2. ReconcileFolio(s, sec, folio, FALSE, FALSE) = [s EXCEPT !.integrity[<<folio, sec>>] = row]
  BY DEF ReconcileFolio, row
<1>. DEFINE t == [s EXCEPT !.integrity[<<folio, sec>>] = row]
<1>3. /\ IsStore(t) /\ t.log = s.log /\ t.cached = s.cached /\ t.synced = s.synced
      /\ \A q \in Pairs : t.integrity[q] = IF q = <<folio, sec>> THEN row ELSE s.integrity[q]
  BY RowReplaced
<1>. HIDE DEF t
<1>4. Kept(s, t) BY <1>1, <1>3 DEF Kept
<1>. QED BY <1>2, <1>4 DEF t
-----------------------------------------------------------------------------
(* The bodies of the loops, one by one.  Changing the rows, or the blocks  *)
(* within the pairs, judges nothing.                                       *)
LEMMA RowsKept ==
  ASSUME NEW s, IsStore(s), NEW rows
  PROVE  Kept(s, [s EXCEPT !.rows = rows])
BY DEF IsStore, Kept

LEMMA BlocksKept ==
  ASSUME NEW s, IsStore(s), NEW rows, NEW blocks \in SUBSET Pairs
  PROVE  Kept(s, [s EXCEPT !.rows = rows, !.blocks = blocks])
<1>. DEFINE t == [s EXCEPT !.rows = rows]
<1>1. Kept(s, t) BY RowsKept
<1>2. IsStore(t) BY <1>1 DEF Kept
<1>3. [s EXCEPT !.rows = rows, !.blocks = blocks] = [t EXCEPT !.blocks = blocks] OBVIOUS
<1>. HIDE DEF t
<1>4. Kept(t, [t EXCEPT !.blocks = blocks]) BY <1>2 DEF IsStore, Kept
<1>. QED BY <1>1, <1>3, <1>4, KeptTransitive

LEMMA AttributeKept ==
  ASSUME NEW s, IsStore(s), NEW sec, NEW folio
  PROVE  Kept(s, AttributeDividends(s, sec, folio))
<1>1. Kept(s, s) BY KeptReflexive
<1>2. ASSUME NEW ledger PROVE Kept(s, Attributed(s, sec, folio, ledger))
  BY RowsKept DEF Attributed
<1>. QED BY <1>1, <1>2 DEF AttributeDividends

LEMMA AttributeLoop ==
  ASSUME NEW s, NEW sec
  PROVE  FoldSet(LAMBDA f, acc : AttributeDividends(acc, sec, f), s, Folios)
           = Loop("attribute", sec, s, Folios)
<1>. DEFINE S == Folios
            runs(g) == g = [T \in SUBSET S |-> IF T = {} THEN s
                         ELSE AttributeDividends(g[T \ {Chosen(T)}], sec, Chosen(T))]
<1>0. IsFiniteSet(S) BY TablesAssumption
<1>1. ASSUME NEW g PROVE runs(g) <=> IsLoop("attribute", sec, s, S, g)
  BY DEF IsLoop, Body, Pick
<1>2. \E g : runs(g) BY <1>0, <1>1, SetLoopPicks, LoopExists
<1>3. runs(CHOOSE g : runs(g)) BY <1>2
<1>4. FoldSet(LAMBDA f, acc : AttributeDividends(acc, sec, f), s, S) = (CHOOSE g : runs(g))[S]
  BY DEF FoldSet, MapThenFoldSet, Chosen
<1>. DEFINE c == CHOOSE g : runs(g)
<1>. HIDE DEF c
<1>5. IsLoop("attribute", sec, s, S, c) BY <1>1, <1>3 DEF c
<1>6. Loop("attribute", sec, s, S) = c[S] BY <1>0, <1>5, SetLoopPicks, LoopIs
<1>. QED BY <1>4, <1>6 DEF c

LEMMA SecurityKept ==
  ASSUME NEW s, IsStore(s), NEW sec
  PROVE  Kept(s, ReconcileSecurity(s, sec))
<1>. DEFINE rows == [p \in Pairs |->
              IF p[2] # sec THEN s.integrity[p]
              ELSE IF Holds(s, sec, p[1]) THEN ReconciledRow(s, sec, p[1], FALSE, FALSE)
              ELSE EmptyRow(s, p)]
            judged == [s EXCEPT !.integrity = rows]
<1>1. ASSUME NEW p \in Pairs PROVE rows[p] = s.integrity[p] \/ Judged(s, p, rows[p])
  <2>1. CASE p[2] # sec BY <2>1
  <2>2. CASE p[2] = sec /\ Holds(s, sec, p[1])
    <3>1. p = <<p[1], sec>> BY <2>2 DEF Pairs
    <3>2. rows[p] = ReconciledRow(s, sec, p[1], FALSE, FALSE) BY <2>2
    <3>3. Judged(s, <<p[1], sec>>, ReconciledRow(s, sec, p[1], FALSE, FALSE))
      BY ReconciledRowJudged DEF Judged
    <3>. QED BY <3>1, <3>2, <3>3
  <2>3. CASE p[2] = sec /\ ~Holds(s, sec, p[1])
    <3>1. rows[p] = NoRow BY <2>3 DEF EmptyRow
    <3>2. Judged(s, p, NoRow) BY DEF Judged, NoRow, NoIssue, Statuses
    <3>. QED BY <3>1, <3>2
  <2>. QED BY <2>1, <2>2, <2>3
<1>2. rows = [p \in Pairs |-> rows[p]] OBVIOUS
<1>. HIDE DEF rows
<1>3. Kept(s, judged)
  <2>1. IsStore(judged) /\ judged.integrity = rows BY <1>2 DEF IsStore
  <2>2. judged.log = s.log /\ judged.cached = s.cached /\ judged.synced = s.synced
    BY DEF IsStore
  <2>. QED BY <1>1, <2>1, <2>2 DEF Kept
<1>4. ReconcileSecurity(s, sec) = Loop("attribute", sec, judged, Folios)
  BY AttributeLoop DEF ReconcileSecurity, rows
<1>5. IsStore(judged) BY <1>3 DEF Kept
<1>. HIDE DEF judged
<1>6. \A x \in Folios : \A t : IsStore(t) => Kept(t, Body("attribute", sec, x, t))
  BY AttributeKept DEF Body
<1>7. Kept(judged, Loop("attribute", sec, judged, Folios))
  BY <1>5, <1>6, SetLoopPicks, LoopKept, TablesAssumption
<1>. QED BY <1>3, <1>4, <1>7, KeptTransitive

LEMMA CompletenessKept ==
  ASSUME NEW s, IsStore(s), NEW sec \in Securities
  PROVE  Kept(s, Completeness(s, sec))
<1>. DEFINE named == {f \in Folios : RowsIn(s, f, sec) # <<>>}
            good  == {f \in named : Solvent(s, sec, f)}
            rows  == [k \in DOMAIN s.rows |->
                       IF s.rows[k].sec = sec
                       THEN [s.rows[k] EXCEPT !.complete = s.rows[k].folio \in good]
                       ELSE s.rows[k]]
            blocks == (s.blocks \ {<<f, sec>> : f \in good}) \cup {<<f, sec>> : f \in named \ good}
<1>1. blocks \in SUBSET Pairs BY DEF IsStore, Pairs
<1>2. Kept(s, [s EXCEPT !.rows = rows, !.blocks = blocks]) BY <1>1, BlocksKept
<1>. QED BY <1>2, Zenon DEF Completeness

LEMMA SupersededKept ==
  ASSUME NEW s, IsStore(s), NEW sec
  PROVE  Kept(s, Superseded(s, sec))
BY KeptReflexive, RowsKept DEF Superseded

LEMMA SettleKept ==
  ASSUME NEW s, IsStore(s), NEW sec, NEW folio
  PROVE  Kept(s, Settle(s, sec, folio))
BY KeptReflexive, RowsKept DEF Settle, PaidOut

LEMMA FlagKept ==
  ASSUME NEW s, IsStore(s), NEW folio, NEW secs
  PROVE  Kept(s, FlagPre2016(s, folio, secs))
BY RowsKept DEF FlagPre2016
-----------------------------------------------------------------------------
(* The loops of the requests, and that each of them keeps the tables.      *)
LEMMA ReconcileLoop ==
  ASSUME NEW s, NEW S, IsFiniteSet(S)
  PROVE  FoldSet(LAMBDA sec, acc : ReconcileSecurity(acc, sec), s, S)
           = Loop("reconcile", NoFolio, s, S)
<1>. DEFINE runs(g) == g = [T \in SUBSET S |-> IF T = {} THEN s
                         ELSE ReconcileSecurity(g[T \ {Chosen(T)}], Chosen(T))]
            c == CHOOSE g : runs(g)
<1>1. ASSUME NEW g PROVE runs(g) <=> IsLoop("reconcile", NoFolio, s, S, g)
  BY DEF IsLoop, Body, Pick
<1>2. \E g : runs(g) BY <1>1, SetLoopPicks, LoopExists
<1>3. runs(c) BY <1>2
<1>4. FoldSet(LAMBDA sec, acc : ReconcileSecurity(acc, sec), s, S) = c[S]
  BY DEF FoldSet, MapThenFoldSet, Chosen
<1>. HIDE DEF c
<1>5. IsLoop("reconcile", NoFolio, s, S, c) BY <1>1, <1>3
<1>6. Loop("reconcile", NoFolio, s, S) = c[S] BY <1>5, SetLoopPicks, LoopIs
<1>. QED BY <1>4, <1>6

LEMMA CompleteLoop ==
  ASSUME NEW s, NEW S, IsFiniteSet(S)
  PROVE  FoldSet(LAMBDA sec, acc : Completeness(acc, sec), s, S)
           = Loop("complete", NoFolio, s, S)
<1>. DEFINE runs(g) == g = [T \in SUBSET S |-> IF T = {} THEN s
                         ELSE Completeness(g[T \ {Chosen(T)}], Chosen(T))]
            c == CHOOSE g : runs(g)
<1>1. ASSUME NEW g PROVE runs(g) <=> IsLoop("complete", NoFolio, s, S, g)
  BY DEF IsLoop, Body, Pick
<1>2. \E g : runs(g) BY <1>1, SetLoopPicks, LoopExists
<1>3. runs(c) BY <1>2
<1>4. FoldSet(LAMBDA sec, acc : Completeness(acc, sec), s, S) = c[S]
  BY DEF FoldSet, MapThenFoldSet, Chosen
<1>. HIDE DEF c
<1>5. IsLoop("complete", NoFolio, s, S, c) BY <1>1, <1>3
<1>6. Loop("complete", NoFolio, s, S) = c[S] BY <1>5, SetLoopPicks, LoopIs
<1>. QED BY <1>4, <1>6

LEMMA TidyLoop ==
  ASSUME NEW s, NEW S, IsFiniteSet(S)
  PROVE  FoldSet(LAMBDA sec, acc : Completeness(Superseded(acc, sec), sec), s, S)
           = Loop("tidy", NoFolio, s, S)
<1>. DEFINE runs(g) == g = [T \in SUBSET S |-> IF T = {} THEN s
                         ELSE Completeness(Superseded(g[T \ {Chosen(T)}], Chosen(T)), Chosen(T))]
            c == CHOOSE g : runs(g)
<1>1. ASSUME NEW g PROVE runs(g) <=> IsLoop("tidy", NoFolio, s, S, g)
  BY DEF IsLoop, Body, Pick
<1>2. \E g : runs(g) BY <1>1, SetLoopPicks, LoopExists
<1>3. runs(c) BY <1>2
<1>4. FoldSet(LAMBDA sec, acc : Completeness(Superseded(acc, sec), sec), s, S) = c[S]
  BY DEF FoldSet, MapThenFoldSet, Chosen
<1>. HIDE DEF c
<1>5. IsLoop("tidy", NoFolio, s, S, c) BY <1>1, <1>3
<1>6. Loop("tidy", NoFolio, s, S) = c[S] BY <1>5, SetLoopPicks, LoopIs
<1>. QED BY <1>4, <1>6

LEMMA ApplyLoop ==
  ASSUME NEW s, NEW folio, NEW S, IsFiniteSet(S)
  PROVE  FoldSet(LAMBDA sec, acc : ReconcileSecurity(Settle(acc, sec, folio), sec), s, S)
           = Loop("apply", folio, s, S)
<1>. DEFINE runs(g) == g = [T \in SUBSET S |-> IF T = {} THEN s
                         ELSE ReconcileSecurity(Settle(g[T \ {Chosen(T)}], Chosen(T), folio), Chosen(T))]
            c == CHOOSE g : runs(g)
<1>1. ASSUME NEW g PROVE runs(g) <=> IsLoop("apply", folio, s, S, g)
  BY DEF IsLoop, Body, Pick
<1>2. \E g : runs(g) BY <1>1, SetLoopPicks, LoopExists
<1>3. runs(c) BY <1>2
<1>4. FoldSet(LAMBDA sec, acc : ReconcileSecurity(Settle(acc, sec, folio), sec), s, S) = c[S]
  BY DEF FoldSet, MapThenFoldSet, Chosen
<1>. HIDE DEF c
<1>5. IsLoop("apply", folio, s, S, c) BY <1>1, <1>3
<1>6. Loop("apply", folio, s, S) = c[S] BY <1>5, SetLoopPicks, LoopIs
<1>. QED BY <1>4, <1>6

LEMMA FolioLoop ==
  ASSUME NEW s, NEW folio, NEW S, IsFiniteSet(S)
  PROVE  FoldSet(LAMBDA sec, acc : ReconcileFolio(acc, sec, folio, FALSE, FALSE), s, S)
           = Loop("folio", folio, s, S)
<1>. DEFINE runs(g) == g = [T \in SUBSET S |-> IF T = {} THEN s
                         ELSE ReconcileFolio(g[T \ {Chosen(T)}], Chosen(T), folio, FALSE, FALSE)]
            c == CHOOSE g : runs(g)
<1>1. ASSUME NEW g PROVE runs(g) <=> IsLoop("folio", folio, s, S, g)
  BY DEF IsLoop, Body, Pick
<1>2. \E g : runs(g) BY <1>1, SetLoopPicks, LoopExists
<1>3. runs(c) BY <1>2
<1>4. FoldSet(LAMBDA sec, acc : ReconcileFolio(acc, sec, folio, FALSE, FALSE), s, S) = c[S]
  BY DEF FoldSet, MapThenFoldSet, Chosen
<1>. HIDE DEF c
<1>5. IsLoop("folio", folio, s, S, c) BY <1>1, <1>3
<1>6. Loop("folio", folio, s, S) = c[S] BY <1>5, SetLoopPicks, LoopIs
<1>. QED BY <1>4, <1>6

LEMMA ReconciledKept ==
  ASSUME NEW s, IsStore(s), NEW S, IsFiniteSet(S)
  PROVE  Kept(s, Reconciled(s, S))
<1>1. \A x \in S : \A t : IsStore(t) => Kept(t, Body("reconcile", NoFolio, x, t))
  BY SecurityKept DEF Body
<1>. QED BY <1>1, SetLoopPicks, LoopKept, ReconcileLoop DEF Reconciled

LEMMA ReconcileAllKept ==
  ASSUME NEW s, IsStore(s), NEW S, IsFiniteSet(S), NEW folio
  PROVE  Kept(s, ReconcileAll(s, S, folio))
<1>1. \A x \in S : \A t : IsStore(t) => Kept(t, Body("folio", folio, x, t))
  BY FolioKept DEF Body
<1>2. Kept(s, Loop("folio", folio, s, S)) BY <1>1, SetLoopPicks, LoopKept
<1>3. ReconcileAll(s, S, folio) = Loop("folio", folio, s, S) BY FolioLoop DEF ReconcileAll
<1>. QED BY <1>2, <1>3

LEMMA CompleteAllKept ==
  ASSUME NEW s, IsStore(s), NEW S \in SUBSET Securities
  PROVE  Kept(s, FoldSet(LAMBDA sec, acc : Completeness(acc, sec), s, S))
<1>1. \A x \in S : \A t : IsStore(t) => Kept(t, Body("complete", NoFolio, x, t))
  BY CompletenessKept DEF Body
<1>2. IsFiniteSet(S) BY TablesAssumption, FS_Subset
<1>3. Kept(s, Loop("complete", NoFolio, s, S)) BY <1>1, <1>2, SetLoopPicks, LoopKept
<1>. QED BY <1>2, <1>3, CompleteLoop

LEMMA TidyAllKept ==
  ASSUME NEW s, IsStore(s), NEW S \in SUBSET Securities
  PROVE  Kept(s, FoldSet(LAMBDA sec, acc : Completeness(Superseded(acc, sec), sec), s, S))
<1>1. ASSUME NEW x \in S, NEW t, IsStore(t) PROVE Kept(t, Body("tidy", NoFolio, x, t))
  <2>1. Kept(t, Superseded(t, x)) BY <1>1, SupersededKept
  <2>2. Kept(Superseded(t, x), Completeness(Superseded(t, x), x))
    BY <2>1, CompletenessKept DEF Kept
  <2>3. Kept(t, Completeness(Superseded(t, x), x)) BY <2>1, <2>2, KeptTransitive
  <2>. QED BY <2>3 DEF Body
<1>2. IsFiniteSet(S) BY TablesAssumption, FS_Subset
<1>3. Kept(s, Loop("tidy", NoFolio, s, S)) BY <1>1, <1>2, SetLoopPicks, LoopKept
<1>. QED BY <1>2, <1>3, TidyLoop

LEMMA ApplyAllKept ==
  ASSUME NEW s, IsStore(s), NEW S, IsFiniteSet(S), NEW folio
  PROVE  Kept(s, SettleAll(s, S, folio))
<1>1. ASSUME NEW x \in S, NEW t, IsStore(t) PROVE Kept(t, Body("apply", folio, x, t))
  <2>1. Kept(t, Settle(t, x, folio)) BY <1>1, SettleKept
  <2>2. Kept(Settle(t, x, folio), ReconcileSecurity(Settle(t, x, folio), x))
    BY <2>1, SecurityKept DEF Kept
  <2>3. Kept(t, ReconcileSecurity(Settle(t, x, folio), x)) BY <2>1, <2>2, KeptTransitive
  <2>. QED BY <2>3 DEF Body
<1>2. Kept(s, Loop("apply", folio, s, S)) BY <1>1, SetLoopPicks, LoopKept
<1>3. SettleAll(s, S, folio) = Loop("apply", folio, s, S) BY ApplyLoop DEF SettleAll
<1>. QED BY <1>2, <1>3
-----------------------------------------------------------------------------
(* Sound requests follow one another.                                      *)
LEMMA SoundTransitive ==
  ASSUME NEW s, NEW t, NEW u, NEW w, Sound(s, t, w), Sound(t, u, w)
  PROVE  Sound(s, u, w)
BY DEF Sound

(* What the cache says to deduplicate is the first listing of all.         *)
LEMMA DedupedIsFirst ==
  ASSUME NEW i \in DOMAIN Worlds, NEW s, CacheClosed(s, Worlds[i]), NEW sec
  PROVE  DedupeScaling(s, sec) \subseteq s.cached \cap FirstListed(Worlds[i])
<1>. DEFINE w == Worlds[i]
<1>. SUFFICES ASSUME NEW r \in DedupeScaling(s, sec)
              PROVE  r \in s.cached /\ r \in FirstListed(w)
  OBVIOUS
<1>1. /\ r \in s.cached /\ r \in w.references /\ r.sec = sec
      /\ r.kind \in Scaling /\ ~r.review
  BY DEF DedupeScaling, Applicable, CachedFor, CacheClosed
<1>2. ASSUME NEW q \in w.references, q.sec = r.sec, q.kind \in Scaling, ~q.review,
             SameAction(r, q)
      PROVE  r.ref <= q.ref
  <2>1. CASE q \in s.cached
    BY <1>1, <1>2, <2>1 DEF DedupeScaling, Applicable, CachedFor
  <2>2. CASE q \notin s.cached
    <3>1. q.exchange \notin {r.exchange, "NSE"} BY <1>1, <1>2, <2>2 DEF CacheClosed
    <3>2. r.exchange = "NSE" /\ q.exchange = "BSE"
      BY <1>1, <3>1, ReferencesAssumption
    <3>3. r.ref < q.ref /\ r.ref \in Nat /\ q.ref \in Nat
      BY <1>1, <1>2, <3>2, ReferencesAssumption
    <3>. QED BY <3>3
  <2>. QED BY <2>1, <2>2
<1>3. r \in FirstListed(w) BY <1>1, <1>2 DEF FirstListed
<1>. QED BY <1>1, <1>3

LEMMA RefsForOfferable ==
  ASSUME NEW i \in DOMAIN Worlds, NEW s, CacheClosed(s, Worlds[i]), NEW sec
  PROVE  RefsFor(s, sec) \subseteq Offerable(s, Worlds[i])
BY DedupedIsFirst DEF RefsFor, Offerable

(* What keeps the tables is a sound step.                                  *)
LEMMA KeptIsSound ==
  ASSUME NEW i \in DOMAIN Worlds, NEW s, NEW t, StoreInv(s, Worlds[i]), Kept(s, t)
  PROVE  Sound(s, t, Worlds[i])
<1>. DEFINE w == Worlds[i]
<1>1. CacheClosed(t, w) /\ Offerable(t, w) = Offerable(s, w)
  BY DEF StoreInv, Kept, CacheClosed, Offerable
<1>2. \A sec : RefsFor(s, sec) \subseteq Offerable(s, w) BY RefsForOfferable DEF StoreInv
<1>. HIDE DEF w
<1>3. ASSUME NEW p \in Pairs
      PROVE  /\ t.integrity[p].status \in Statuses
             /\ t.integrity[p].offer.refs \subseteq Offerable(t, w)
             /\ t.integrity[p].status = "user_acknowledged"
                  => s.integrity[p].status = "user_acknowledged"
  <2>1. /\ s.integrity[p].status \in Statuses
        /\ s.integrity[p].offer.refs \subseteq Offerable(s, w)
    BY DEF StoreInv, OffersListed, w
  <2>2. CASE t.integrity[p] = s.integrity[p] BY <1>1, <2>1, <2>2
  <2>3. CASE Judged(s, p, t.integrity[p]) BY <1>1, <1>2, <2>3 DEF Judged
  <2>. QED BY <2>2, <2>3 DEF Kept
<1>4. /\ IsStore(t) /\ t.synced \subseteq Securities /\ \A e \in t.log : EventKnown(e, w)
  BY DEF StoreInv, Kept, w
<1>. QED BY <1>1, <1>3, <1>4 DEF Sound, StoreInv, OffersListed, w

LEMMA HoldingsKept ==
  ASSUME NEW s, IsStore(s), NEW holdings
  PROVE  Kept(s, [s EXCEPT !.holdings = holdings])
BY DEF IsStore, Kept

(* The log grows by known events, and may shrink.                          *)
LEMMA LogSound ==
  ASSUME NEW w, NEW s, StoreInv(s, w), NEW log, \A e \in log : EventKnown(e, w)
  PROVE  Sound(s, [s EXCEPT !.log = log], w)
<1>. DEFINE t == [s EXCEPT !.log = log]
<1>1. IsStore(t) /\ t.log = log BY DEF StoreInv, IsStore
<1>2. t.cached = s.cached /\ t.synced = s.synced /\ t.integrity = s.integrity
  BY DEF StoreInv, IsStore
<1>. HIDE DEF t
<1>3. StoreInv(t, w) BY <1>1, <1>2 DEF StoreInv, CacheClosed, OffersListed, Offerable
<1>4. Sound(s, t, w) BY <1>2, <1>3 DEF Sound
<1>. QED BY <1>4 DEF t

(* A refresh adds what an exchange lists of a security all at once.        *)
LEMMA FetchedSound ==
  ASSUME NEW s, world \in DOMAIN Worlds, StoreInv(s, here), NEW secs \in SUBSET Securities,
         NEW answer \in Answers
  PROVE  Sound(s, Fetched(s, secs, answer), here)
<1>. DEFINE w == here
            fresh == {r \in w.references : r.sec \in secs /\ r.exchange \in answer}
            synced == IF answer = {} THEN s.synced ELSE s.synced \cup secs
            t == [s EXCEPT !.cached = s.cached \cup fresh, !.synced = synced]
<1>1. Fetched(s, secs, answer) = t BY Zenon DEF Fetched
<1>2. /\ IsStore(t) /\ t.log = s.log /\ t.integrity = s.integrity
      /\ t.cached = s.cached \cup fresh /\ t.synced = synced
  <2>. HIDE DEF fresh, synced
  <2>. DEFINE u == [s EXCEPT !.cached = s.cached \cup fresh]
  <2>0. IsStore(s) BY DEF StoreInv
  <2>1. /\ IsStore(u) /\ u.log = s.log /\ u.integrity = s.integrity
        /\ u.cached = s.cached \cup fresh /\ u.synced = s.synced
    BY <2>0 DEF IsStore
  <2>2. t = [u EXCEPT !.synced = synced] OBVIOUS
  <2>. HIDE DEF u
  <2>3. LET v == [u EXCEPT !.synced = synced]
        IN /\ IsStore(v) /\ v.log = u.log /\ v.integrity = u.integrity
           /\ v.cached = u.cached /\ v.synced = synced
    BY <2>1 DEF IsStore
  <2>. HIDE DEF t
  <2>. QED BY <2>1, <2>2, <2>3
<1>3. CacheClosed(s, w) /\ s.synced \subseteq Securities BY DEF StoreInv
<1>4. synced \subseteq Securities BY <1>3
<1>5. CacheClosed(t, w)
  <2>1. ASSUME NEW r \in fresh, NEW q \in w.references, q.sec = r.sec,
               q.exchange \in {r.exchange, "NSE"}
        PROVE  q \in fresh
    <3>1. r.exchange \in answer BY <2>1
    <3>2. "NSE" \in answer BY <3>1 DEF Answers
    <3>. QED BY <2>1, <3>1, <3>2
  <2>2. fresh \subseteq w.references OBVIOUS
  <2>. HIDE DEF fresh, t, w
  <2>. QED BY <1>2, <1>3, <2>1, <2>2 DEF CacheClosed
<1>. HIDE DEF fresh, synced, t, w
<1>6. Offerable(s, w) \subseteq Offerable(t, w) BY <1>2 DEF Offerable
<1>7. StoreInv(t, w)
  BY <1>2, <1>4, <1>5, <1>6 DEF StoreInv, OffersListed, w
<1>8. Sound(s, t, w) BY <1>2, <1>7 DEF Sound
<1>. QED BY <1>1, <1>8 DEF w
-----------------------------------------------------------------------------
(* The requests that change the log.                                       *)
LEMMA AffectedSecurities ==
  ASSUME NEW w, NEW events, \A e \in events : EventKnown(e, w)
  PROVE  SecuritiesOf(events) \in SUBSET Securities
<1>. SUFFICES ASSUME NEW x \in SecuritiesOf(events) PROVE x \in Securities
  OBVIOUS
<1>1. x # NoSecurity /\ x \in UNION {{e.sec, e.into} : e \in events} BY DEF SecuritiesOf
<1>2. PICK e \in events : x \in {e.sec, e.into} BY <1>1
<1>. QED BY <1>1, <1>2 DEF EventKnown

LEMMA ApplySound ==
  ASSUME NEW i \in DOMAIN Worlds, NEW s, StoreInv(s, Worlds[i]), NEW folio,
         NEW events, \A e \in events : EventKnown(e, Worlds[i])
  PROVE  Sound(s, ApplyActions(s, folio, events), Worlds[i])
<1>. DEFINE w == Worlds[i]
            fresh    == Unapplied(s, folio, events)
            affected == SecuritiesOf(fresh)
            recorded == Recorded(s, fresh)
            logged   == FoldSet(LAMBDA sec, acc : Completeness(acc, sec), recorded, affected)
            flagged  == FlagPre2016(logged, folio, affected)
            closed   == SettleAll(flagged, affected, folio)
<1>1. \A e \in fresh : EventKnown(e, w) BY DEF Unapplied
<1>. HIDE DEF fresh
<1>2. affected \in SUBSET Securities BY <1>1, AffectedSecurities
<1>3. IsFiniteSet(affected) BY <1>2, FS_Subset, TablesAssumption
<1>. HIDE DEF affected
<1>4. Sound(s, recorded, w)
  BY <1>1, LogSound DEF Recorded, StoreInv
<1>. HIDE DEF recorded
<1>5. Sound(recorded, logged, w)
  <2>1. StoreInv(recorded, w) BY <1>4 DEF Sound
  <2>2. Kept(recorded, logged) BY <1>2, <2>1, CompleteAllKept DEF StoreInv
  <2>. HIDE DEF logged
  <2>. QED BY <2>1, <2>2, KeptIsSound
<1>. HIDE DEF logged
<1>6. Sound(logged, flagged, w)
  <2>1. StoreInv(logged, w) BY <1>5 DEF Sound
  <2>2. Kept(logged, flagged) BY <2>1, FlagKept DEF StoreInv
  <2>. HIDE DEF flagged
  <2>. QED BY <2>1, <2>2, KeptIsSound
<1>. HIDE DEF flagged
<1>7. Sound(flagged, closed, w)
  <2>1. StoreInv(flagged, w) BY <1>6 DEF Sound
  <2>2. IsStore(flagged) BY <2>1 DEF StoreInv
  <2>3. Kept(flagged, closed) BY <1>3, <2>2, ApplyAllKept
  <2>. HIDE DEF closed
  <2>. QED BY <2>1, <2>3, KeptIsSound
<1>. HIDE DEF closed, w
<1>8. Sound(s, closed, w) BY <1>4, <1>5, <1>6, <1>7, SoundTransitive
<1>9. Sound(s, s, w) BY DEF Sound, w
<1>10. ApplyActions(s, folio, events) \in {s, closed}
  BY DEF ApplyActions, closed, flagged, logged, recorded, affected, fresh
<1>. QED BY <1>8, <1>9, <1>10 DEF w

LEMMA ReceivedSound ==
  ASSUME NEW i \in DOMAIN Worlds, NEW s, StoreInv(s, Worlds[i]), NEW rc \in Worlds[i].receipts
  PROVE  Sound(s, Received(s, rc), Worlds[i])
<1>. DEFINE w == Worlds[i]
            lots   == WithLots(s, rc)
            sole   == {p \in ParentsOf(lots, rc) : ParentsOf(lots, rc) = {p}}
            links  == {LinkOf(rc, p) : p \in sole}
            linked == Recorded(lots, links)
            complete == Completeness(linked, rc.child)
            secs   == sole \cup {rc.child}
            done   == ReconcileAll(complete, secs, rc.folio)
<1>1. rc.child \in Securities /\ LotRef(rc.child) \notin RefsOf(w)
  <2>1. rc.child \in Securities BY WorldAssumption
  <2>. QED BY <2>1, RefsAssumption
<1>2. secs \in SUBSET Securities BY <1>1 DEF ParentsOf
<1>3. IsFiniteSet(secs) BY <1>2, FS_Subset, TablesAssumption
<1>4. \A e \in links : EventKnown(e, w)
  <2>1. ASSUME NEW p \in Securities PROVE EventKnown(LinkOf(rc, p), w)
    BY <1>1 DEF EventKnown, LinkOf
  <2>. QED BY <1>2, <2>1
<1>5. Sound(s, lots, w)
  <2>1. Kept(s, lots) BY RowsKept DEF WithLots, StoreInv
  <2>. HIDE DEF lots
  <2>. QED BY <2>1, KeptIsSound
<1>. HIDE DEF lots, secs, links
<1>6. Sound(lots, linked, w)
  <2>1. StoreInv(lots, w) BY <1>5 DEF Sound
  <2>2. \A e \in lots.log \cup links : EventKnown(e, w) BY <1>4, <2>1 DEF StoreInv
  <2>. QED BY <2>1, <2>2, LogSound DEF Recorded
<1>. HIDE DEF linked
<1>7. Sound(linked, complete, w)
  <2>1. StoreInv(linked, w) BY <1>6 DEF Sound
  <2>2. Kept(linked, complete) BY <1>1, <2>1, CompletenessKept DEF StoreInv
  <2>. HIDE DEF complete
  <2>. QED BY <2>1, <2>2, KeptIsSound
<1>. HIDE DEF complete
<1>8. Sound(complete, done, w)
  <2>1. StoreInv(complete, w) BY <1>7 DEF Sound
  <2>2. Kept(complete, done) BY <1>3, <2>1, ReconcileAllKept DEF StoreInv
  <2>. HIDE DEF done
  <2>. QED BY <2>1, <2>2, KeptIsSound
<1>9. Received(s, rc) = done
  BY DEF Received, LinkedTo, done, complete, linked, secs, links, lots
<1>. HIDE DEF done, w
<1>10. Sound(s, done, w) BY <1>5, <1>6, <1>7, <1>8, SoundTransitive
<1>. QED BY <1>9, <1>10 DEF w

LEMMA WithdrawnSound ==
  ASSUME NEW i \in DOMAIN Worlds, NEW s, StoreInv(s, Worlds[i]), NEW rc \in Worlds[i].receipts
  PROVE  Sound(s, Withdrawn(s, rc), Worlds[i])
<1>. DEFINE w == Worlds[i]
            gone == s.log \ Unlinked(s, rc).log
            rows == Keep(s.rows, LAMBDA t : ~(/\ t.folio = rc.folio /\ t.sec = rc.child
                                              /\ t.ref = LotRef(rc.child)))
            bare == [s EXCEPT !.rows = rows]
            freed == Unlinked(bare, rc)
            complete == Completeness(freed, rc.child)
            secs == {rc.child} \cup {e.sec : e \in gone}
            done == ReconcileAll(complete, secs, rc.folio)
<1>1. rc.child \in Securities BY WorldAssumption
<1>2. gone \subseteq s.log OBVIOUS
<1>. HIDE DEF gone, rows
<1>3. secs \in SUBSET Securities BY <1>1, <1>2 DEF StoreInv, EventKnown
<1>4. IsFiniteSet(secs) BY <1>3, FS_Subset, TablesAssumption
<1>. HIDE DEF secs
<1>5. Sound(s, bare, w)
  <2>1. Kept(s, bare) BY RowsKept DEF StoreInv
  <2>. HIDE DEF bare
  <2>. QED BY <2>1, KeptIsSound
<1>. HIDE DEF bare
<1>6. Sound(bare, freed, w)
  <2>1. StoreInv(bare, w) BY <1>5 DEF Sound
  <2>2. \A e \in {e \in bare.log : ~(e.kind = "demerger" /\ e.into = rc.child)} : EventKnown(e, w)
    BY <2>1 DEF StoreInv
  <2>. QED BY <2>1, <2>2, LogSound DEF Unlinked
<1>. HIDE DEF freed
<1>7. Sound(freed, complete, w)
  <2>1. StoreInv(freed, w) BY <1>6 DEF Sound
  <2>2. Kept(freed, complete) BY <1>1, <2>1, CompletenessKept DEF StoreInv
  <2>. HIDE DEF complete
  <2>. QED BY <2>1, <2>2, KeptIsSound
<1>. HIDE DEF complete
<1>8. Sound(complete, done, w)
  <2>1. StoreInv(complete, w) BY <1>7 DEF Sound
  <2>2. Kept(complete, done) BY <1>4, <2>1, ReconcileAllKept DEF StoreInv
  <2>. HIDE DEF done
  <2>. QED BY <2>1, <2>2, KeptIsSound
<1>9. Withdrawn(s, rc) = done
  BY DEF Withdrawn, done, complete, freed, secs, bare, rows, gone
<1>. HIDE DEF done, w
<1>10. Sound(s, done, w) BY <1>5, <1>6, <1>7, <1>8, SoundTransitive
<1>. QED BY <1>9, <1>10 DEF w
-----------------------------------------------------------------------------
(* Each request is a sound step, but the acknowledgement itself.           *)
LEMMA RowInv ==
  ASSUME NEW i \in DOMAIN Worlds, NEW s, StoreInv(s, Worlds[i]), NEW p, NEW row,
         row.status \in Statuses, row.offer.refs \subseteq RefsFor(s, p[2])
  PROVE  StoreInv([s EXCEPT !.integrity[p] = row], Worlds[i])
<1>. DEFINE w == Worlds[i]
            t == [s EXCEPT !.integrity[p] = row]
<1>1. /\ IsStore(t) /\ t.log = s.log /\ t.cached = s.cached /\ t.synced = s.synced
      /\ \A q \in Pairs : t.integrity[q] = IF q = p THEN row ELSE s.integrity[q]
  BY RowReplaced DEF StoreInv
<1>2. row.offer.refs \subseteq Offerable(s, w) BY RefsForOfferable DEF StoreInv
<1>. HIDE DEF t, w
<1>3. CacheClosed(t, w) /\ Offerable(t, w) = Offerable(s, w)
  BY <1>1 DEF StoreInv, CacheClosed, Offerable, w
<1>4. OffersListed(t, w) BY <1>1, <1>2, <1>3 DEF StoreInv, OffersListed, w
<1>5. StoreInv(t, w) BY <1>1, <1>3, <1>4 DEF StoreInv, w
<1>. QED BY <1>5 DEF t, w

LEMMA ImportSound ==
  ASSUME IInv, NEW b \in here.books, ImportBook(b)
  PROVE  Sound(store, store', here)
<1>. DEFINE secs  == {b[k].sec : k \in DOMAIN b}
            taken == [store EXCEPT !.rows = store.rows \o b]
            tidy  == FoldSet(LAMBDA sec, acc : Completeness(Superseded(acc, sec), sec), taken, secs)
<1>1. StoreInv(store, here) /\ IsStore(store) /\ world \in DOMAIN Worlds
  BY DEF IInv, StoreInv
<1>2. secs \in SUBSET Securities
  <2>1. b \in Seq(Trades) BY <1>1, WorldAssumption DEF here
  <2>2. \A k \in DOMAIN b : b[k] \in Trades BY <2>1, LenProperties, ElementOfSeq
  <2>. QED BY <2>2 DEF Trades
<1>. HIDE DEF secs
<1>3. IsFiniteSet(secs) BY <1>2, FS_Subset, TablesAssumption
<1>4. Kept(store, taken) BY <1>1, RowsKept
<1>. HIDE DEF taken
<1>5. Kept(taken, tidy)
  <2>1. IsStore(taken) BY <1>4 DEF Kept
  <2>. QED BY <1>2, <2>1, TidyAllKept
<1>. HIDE DEF tidy
<1>6. Kept(tidy, Reconciled(tidy, secs))
  <2>1. IsStore(tidy) BY <1>5 DEF Kept
  <2>. QED BY <1>3, <2>1, ReconciledKept
<1>7. Kept(store, tidy) BY <1>4, <1>5, KeptTransitive
<1>8. Kept(store, Reconciled(tidy, secs)) BY <1>6, <1>7, KeptTransitive
<1>9. store' = Reconciled(tidy, secs) BY DEF ImportBook, tidy, taken, secs
<1>. HIDE DEF here
<1>. QED BY <1>1, <1>8, <1>9, KeptIsSound DEF here

LEMMA ObserveSound ==
  ASSUME IInv, NEW a \in here.anchors, ObserveHolding(a)
  PROVE  Sound(store, store', here)
<1>. DEFINE seen == [store EXCEPT !.holdings[<<a.folio, a.sec>>] = a.units]
<1>1. StoreInv(store, here) /\ IsStore(store) /\ world \in DOMAIN Worlds
  BY DEF IInv, StoreInv
<1>2. Kept(store, seen) BY <1>1, HoldingsKept
<1>3. store' = ReconcileSecurity(seen, a.sec) BY DEF ObserveHolding
<1>. HIDE DEF seen
<1>4. Kept(seen, ReconcileSecurity(seen, a.sec)) BY <1>2, SecurityKept DEF Kept
<1>5. Kept(store, store') BY <1>2, <1>3, <1>4, KeptTransitive
<1>. QED BY <1>1, <1>5, KeptIsSound DEF here

LEMMA RefreshSound ==
  ASSUME IInv, NEW answer \in Answers, RefreshNow(answer) \/ RefreshTick(answer)
  PROVE  Sound(store, store', here)
<1>1. StoreInv(store, here) /\ world \in DOMAIN Worlds BY DEF IInv
<1>2. Mismatched \in SUBSET Securities /\ NeverSynced \in SUBSET Securities
  BY DEF Mismatched, NeverSynced
<1>3. CASE RefreshTick(answer)
  <2>1. store' = Fetched(store, Mismatched \cup NeverSynced, answer) BY <1>3 DEF RefreshTick
  <2>2. Mismatched \cup NeverSynced \in SUBSET Securities BY <1>2
  <2>. QED BY <1>1, <2>1, <2>2, FetchedSound
<1>4. CASE RefreshNow(answer)
  <2>. DEFINE fetched == Fetched(store, Mismatched, answer)
  <2>1. Sound(store, fetched, here) BY <1>1, <1>2, FetchedSound
  <2>2. store' = Reconciled(fetched, Mismatched) BY <1>4 DEF RefreshNow
  <2>3. IsFiniteSet(Mismatched) BY <1>2, FS_Subset, TablesAssumption
  <2>. HIDE DEF fetched
  <2>4. StoreInv(fetched, here) BY <2>1 DEF Sound
  <2>5. Kept(fetched, Reconciled(fetched, Mismatched))
    BY <2>3, <2>4, ReconciledKept DEF StoreInv
  <2>6. Sound(fetched, Reconciled(fetched, Mismatched), here)
    BY <1>1, <2>4, <2>5, KeptIsSound DEF here
  <2>. QED BY <2>1, <2>2, <2>6, SoundTransitive
<1>. QED BY <1>3, <1>4

LEMMA SuggestedSound ==
  ASSUME IInv, NEW p \in Pairs, ApplySuggested(p[1], p[2])
  PROVE  Sound(store, store', here)
<1>. DEFINE refs == store.integrity[<<p[1], p[2]>>].offer.refs
            offered == {r \in store.cached : r.ref \in refs}
            events == {EventOf(r, p[1]) : r \in offered}
<1>1. StoreInv(store, here) /\ world \in DOMAIN Worlds BY DEF IInv
<1>2. p = <<p[1], p[2]>> BY DEF Pairs
<1>3. refs \subseteq Offerable(store, here) BY <1>1, <1>2 DEF StoreInv, OffersListed
<1>4. store.cached \subseteq here.references BY <1>1 DEF StoreInv, CacheClosed
<1>5. ASSUME NEW r \in offered PROVE EventKnown(EventOf(r, p[1]), here)
  <2>1. r \in here.references BY <1>4
  <2>2. PICK q \in store.cached \cap FirstListed(here) : q.ref = r.ref
    BY <1>3 DEF Offerable
  <2>3. q = r BY <1>1, <1>4, <2>1, <2>2, ReferencesAssumption DEF here
  <2>4. r \in FirstListed(here) BY <2>2, <2>3
  <2>5. r.sec \in Securities BY <1>1, <2>1, ReferencesAssumption DEF here
  <2>6. /\ EventOf(r, p[1]).sec = r.sec /\ EventOf(r, p[1]).into = NoSecurity
        /\ EventOf(r, p[1]).folio = p[1]
    BY DEF EventOf
  <2>. QED BY <2>4, <2>5, <2>6 DEF EventKnown
<1>6. \A e \in events : EventKnown(e, here) BY <1>5
<1>7. store' = ApplyActions(store, p[1], events) BY DEF ApplySuggested
<1>. HIDE DEF events
<1>8. Sound(store, ApplyActions(store, p[1], events), Worlds[world])
  BY <1>1, <1>6, ApplySound DEF here
<1>. QED BY <1>7, <1>8 DEF here

LEMMA ManualSound ==
  ASSUME IInv, NEW ev \in here.authored, ApplyManual(ev)
  PROVE  Sound(store, store', here)
<1>1. StoreInv(store, here) /\ world \in DOMAIN Worlds BY DEF IInv
<1>2. IsEvent(ev) /\ ev.ref \notin RefsOf(here) BY <1>1, WorldAssumption DEF here
<1>. HIDE DEF here
<1>5. \A e \in {ev} : EventKnown(e, here) BY <1>2 DEF EventKnown, IsEvent
<1>3. store' = ApplyActions(store, ev.folio, {ev}) BY DEF ApplyManual
<1>4. Sound(store, ApplyActions(store, ev.folio, {ev}), Worlds[world])
  BY <1>1, <1>5, ApplySound DEF here
<1>. QED BY <1>3, <1>4 DEF here

LEMMA ReceiptSound ==
  ASSUME IInv, NEW rc \in here.receipts, RecordReceipt(rc) \/ RemoveReceipt(rc)
  PROVE  Sound(store, store', here)
<1>1. StoreInv(store, Worlds[world]) /\ world \in DOMAIN Worlds BY DEF IInv, here
<1>2. rc \in Worlds[world].receipts BY DEF here
<1>3. Sound(store, Received(store, rc), Worlds[world]) BY <1>1, <1>2, ReceivedSound
<1>4. Sound(store, Withdrawn(store, rc), Worlds[world]) BY <1>1, <1>2, WithdrawnSound
<1>5. store' = Received(store, rc) \/ store' = Withdrawn(store, rc)
  BY DEF RecordReceipt, RemoveReceipt
<1>. QED BY <1>3, <1>4, <1>5 DEF here

LEMMA RemapKept ==
  ASSUME NEW s, IsStore(s), NEW rows, NEW p, NEW x, NEW q, NEW y
  PROVE  Kept(s, [s EXCEPT !.rows = rows, !.holdings[p] = x, !.holdings[q] = y])
<1>. DEFINE t == [s EXCEPT !.rows = rows]
            u == [t EXCEPT !.holdings[p] = x]
            v == [u EXCEPT !.holdings[q] = y]
<1>1. Kept(s, t) BY RowsKept
<1>2. [s EXCEPT !.rows = rows, !.holdings[p] = x, !.holdings[q] = y] = v OBVIOUS
<1>. HIDE DEF t
<1>3. Kept(t, u) BY <1>1, HoldingsKept DEF Kept
<1>. HIDE DEF u
<1>4. Kept(u, v) BY <1>3, HoldingsKept DEF Kept
<1>. HIDE DEF v
<1>5. Kept(s, u) BY <1>1, <1>3, KeptTransitive
<1>. QED BY <1>2, <1>4, <1>5, KeptTransitive

LEMMA RemapSound ==
  ASSUME IInv, NEW folio, NEW from, NEW to, Remap(folio, from, to)
  PROVE  Sound(store, store', here)
<1>. DEFINE rows == [k \in DOMAIN store.rows |->
                       IF store.rows[k].folio = folio /\ store.rows[k].sec = from
                       THEN [store.rows[k] EXCEPT !.sec = to] ELSE store.rows[k]]
            moved == [store EXCEPT !.rows = rows,
                        !.holdings[<<folio, to>>] = store.holdings[folio, from],
                        !.holdings[<<folio, from>>] = NotHeld]
            first == ReconcileSecurity(moved, from)
<1>1. StoreInv(store, here) /\ IsStore(store) /\ world \in DOMAIN Worlds
  BY DEF IInv, StoreInv
<1>2. Kept(store, moved)
  <2>. HIDE DEF rows
  <2>. QED BY <1>1, RemapKept
<1>3. store' = ReconcileSecurity(first, to) BY DEF Remap
<1>. HIDE DEF moved
<1>4. Kept(moved, first) BY <1>2, SecurityKept DEF Kept
<1>. HIDE DEF first
<1>5. Kept(first, ReconcileSecurity(first, to)) BY <1>4, SecurityKept DEF Kept
<1>6. Kept(store, first) BY <1>2, <1>4, KeptTransitive
<1>7. Kept(store, store') BY <1>3, <1>5, <1>6, KeptTransitive
<1>. QED BY <1>1, <1>7, KeptIsSound DEF here

LEMMA UnacknowledgeSound ==
  ASSUME IInv, NEW folio, NEW sec, Unacknowledge(folio, sec)
  PROVE  Sound(store, store', here)
<1>. DEFINE row == ReconciledRow(store, sec, folio, FALSE, TRUE)
<1>1. StoreInv(store, here) /\ IsStore(store) /\ world \in DOMAIN Worlds
  BY DEF IInv, StoreInv
<1>2. Judged(store, <<folio, sec>>, row) BY ReconciledRowJudged DEF Judged
<1>3. store' = [store EXCEPT !.integrity[<<folio, sec>>] = row]
  BY DEF Unacknowledge, ReconcileFolio
<1>. HIDE DEF row
<1>4. Kept(store, store') BY <1>1, <1>2, <1>3, RowReplaced DEF Kept
<1>. QED BY <1>1, <1>4, KeptIsSound DEF here

LEMMA RecomputeSound ==
  ASSUME IInv, Recompute
  PROVE  Sound(store, store', here)
<1>1. StoreInv(store, here) /\ IsStore(store) /\ world \in DOMAIN Worlds
  BY DEF IInv, StoreInv
<1>2. Kept(store, store') BY <1>1, ReconciledKept, TablesAssumption DEF Recompute
<1>. QED BY <1>1, <1>2, KeptIsSound DEF here

LEMMA AcknowledgeStep ==
  ASSUME IInv, NEW p \in Pairs, Acknowledge(p[1], p[2])
  PROVE  /\ StoreInv(store', here)
         /\ \A q \in Pairs \ {p} : store'.integrity[q] = store.integrity[q]
<1>. DEFINE row == ReconciledRow(store, p[2], p[1], TRUE, FALSE)
<1>1. StoreInv(store, here) /\ IsStore(store) /\ world \in DOMAIN Worlds
  BY DEF IInv, StoreInv
<1>2. p = <<p[1], p[2]>> BY DEF Pairs
<1>3. row.status \in Statuses /\ row.offer.refs \subseteq RefsFor(store, p[2])
  BY ReconciledRowJudged
<1>4. store' = [store EXCEPT !.integrity[p] = row]
  BY <1>2 DEF Acknowledge, ReconcileFolio
<1>. HIDE DEF row
<1>5. StoreInv(store', here) BY <1>1, <1>3, <1>4, RowInv DEF here
<1>6. \A q \in Pairs \ {p} : store'.integrity[q] = store.integrity[q]
  BY <1>1, <1>4, RowReplaced
<1>. QED BY <1>5, <1>6
-----------------------------------------------------------------------------
(* Nothing but Acknowledge acknowledges, and every step keeps the          *)
(* invariant.                                                              *)
LEMMA StepSound ==
  ASSUME IInv, [Next]_vars
  PROVE  /\ StoreInv(store', here)
         /\ \A p \in Pairs :
              store'.integrity[p].status = "user_acknowledged"
                => \/ store.integrity[p].status = "user_acknowledged"
                   \/ Acknowledge(p[1], p[2])
<1>1. CASE \E b \in here.books : ImportBook(b) BY <1>1, ImportSound DEF Sound
<1>2. CASE \E a \in here.anchors : ObserveHolding(a) BY <1>2, ObserveSound DEF Sound
<1>3. CASE \E answer \in Answers : RefreshNow(answer) \/ RefreshTick(answer)
  BY <1>3, RefreshSound DEF Sound
<1>4. CASE \E p \in Pairs : ApplySuggested(p[1], p[2]) BY <1>4, SuggestedSound DEF Sound
<1>5. CASE \E ev \in here.authored : ApplyManual(ev) BY <1>5, ManualSound DEF Sound
<1>6. CASE \E rc \in here.receipts : RecordReceipt(rc) \/ RemoveReceipt(rc)
  BY <1>6, ReceiptSound DEF Sound
<1>7. CASE \E r \in here.renames : Remap(r[1], r[2], r[3]) BY <1>7, RemapSound DEF Sound
<1>8. CASE \E p \in Pairs : Acknowledge(p[1], p[2])
  <2>1. PICK p \in Pairs : Acknowledge(p[1], p[2]) BY <1>8
  <2>2. /\ StoreInv(store', here)
        /\ \A q \in Pairs \ {p} : store'.integrity[q] = store.integrity[q]
    BY <2>1, AcknowledgeStep
  <2>. QED BY <2>1, <2>2
<1>9. CASE \E p \in Pairs : Unacknowledge(p[1], p[2])
  BY <1>9, UnacknowledgeSound DEF Sound
<1>10. CASE Recompute BY <1>10, RecomputeSound DEF Sound
<1>11. CASE UNCHANGED vars BY <1>11 DEF IInv, vars
<1>. QED
  BY <1>1, <1>2, <1>3, <1>4, <1>5, <1>6, <1>7, <1>8, <1>9, <1>10, <1>11 DEF Next

LEMMA RestStep ==
  ASSUME IInv, [Next]_vars
  PROVE  /\ world' = world /\ imported' \subseteq here.books /\ moods' \in 0 .. Moods
<1>1. imported \subseteq here.books /\ moods \in 0 .. Moods BY DEF IInv
<1>2. CASE \E b \in here.books : ImportBook(b) BY <1>1, <1>2 DEF ImportBook
<1>3. CASE \E a \in here.anchors : ObserveHolding(a) BY <1>1, <1>3 DEF ObserveHolding
<1>4. CASE \E answer \in Answers : RefreshNow(answer) \/ RefreshTick(answer)
  BY <1>1, <1>4 DEF RefreshNow, RefreshTick
<1>5. CASE \E p \in Pairs : ApplySuggested(p[1], p[2]) BY <1>1, <1>5 DEF ApplySuggested
<1>6. CASE \E ev \in here.authored : ApplyManual(ev) BY <1>1, <1>6 DEF ApplyManual
<1>7. CASE \E rc \in here.receipts : RecordReceipt(rc) BY <1>1, <1>7 DEF RecordReceipt
<1>8. ASSUME moods < Moods, moods' = moods + 1 PROVE moods' \in 0 .. Moods
  BY <1>1, <1>8, TablesAssumption
<1>9. CASE \E rc \in here.receipts : RemoveReceipt(rc) BY <1>1, <1>8, <1>9 DEF RemoveReceipt
<1>10. CASE \E r \in here.renames : Remap(r[1], r[2], r[3]) BY <1>1, <1>10 DEF Remap
<1>11. CASE \E p \in Pairs : Acknowledge(p[1], p[2]) BY <1>1, <1>8, <1>11 DEF Acknowledge
<1>12. CASE \E p \in Pairs : Unacknowledge(p[1], p[2])
  BY <1>1, <1>8, <1>12 DEF Unacknowledge
<1>13. CASE Recompute BY <1>1, <1>13 DEF Recompute
<1>14. CASE UNCHANGED vars BY <1>1, <1>14 DEF vars
<1>. QED
  BY <1>2, <1>3, <1>4, <1>5, <1>6, <1>7, <1>9, <1>10, <1>11, <1>12, <1>13, <1>14 DEF Next

LEMMA InitInv == Init => IInv
<1>. SUFFICES ASSUME Init PROVE IInv
  OBVIOUS
<1>1. /\ store.rows = <<>> /\ store.log = {} /\ store.blocks = {}
      /\ store.cached = {} /\ store.synced = {}
      /\ store.integrity = [p \in Pairs |-> NoRow]
  BY DEF Init
<1>2. IsStore(store) BY <1>1 DEF IsStore, Init
<1>3. OffersListed(store, here) BY <1>1 DEF OffersListed, NoRow, NoIssue, Statuses
<1>4. StoreInv(store, here) BY <1>1, <1>2, <1>3 DEF StoreInv, CacheClosed
<1>5. world \in DOMAIN Worlds /\ imported = {} /\ moods \in 0 .. Moods
  BY TablesAssumption DEF Init
<1>. QED BY <1>4, <1>5 DEF IInv

LEMMA StepInv == IInv /\ [Next]_vars => IInv'
<1>. SUFFICES ASSUME IInv, [Next]_vars PROVE IInv'
  OBVIOUS
<1>1. StoreInv(store', here) BY StepSound
<1>2. world' = world /\ imported' \subseteq here.books /\ moods' \in 0 .. Moods BY RestStep
<1>3. here' = here BY <1>2 DEF here
<1>. QED BY <1>1, <1>2, <1>3 DEF IInv

THEOREM Invariance == Spec => []IInv
BY InitInv, StepInv, PTL DEF Spec

-----------------------------------------------------------------------------
(* The invariant gives the tables, and holds of every reachable state.     *)
LEMMA InvTables ==
  ASSUME IInv
  PROVE  TablesOK
<1>1. StoreInv(store, here) BY DEF IInv
<1>2. Offerable(store, here) \subseteq {r.ref : r \in store.cached} BY DEF Offerable
<1>. QED BY <1>1, <1>2
  DEF IInv, TablesOK, StoreInv, IsStore, CacheClosed, OffersListed

(* The tables keep their types: statuses, offers of cached references,     *)
(* blocks of known pairs, acknowledgements within their bound.             *)
THEOREM TablesCorrect == Spec => []TablesOK
<1>. QED BY InvTables, Invariance, PTL

(* Only Acknowledge turns a folio's status into user_acknowledged: no      *)
(* import, refresh, apply, receipt, remap or recompute of any number of    *)
(* securities does, reconcile_security_folio's preserved flag included.    *)
THEOREM AcknowledgedByTheUser == Spec => OnlyTheUserAcknowledges
<1>1. IInv /\ [Next]_vars =>
        [\A p \in Pairs :
           /\ store'.integrity[p].status = "user_acknowledged"
           /\ store.integrity[p].status # "user_acknowledged"
           => Acknowledge(p[1], p[2])]_vars
  BY StepSound
<1>. QED BY <1>1, Invariance, PTL DEF Spec, OnlyTheUserAcknowledges

(* An action that both exchanges list enters a folio's log once, however   *)
(* the refreshes, reconciliations and applications are interleaved: both   *)
(* entries would be the first listing of that action (_dedupe_scaling).    *)
THEOREM AppliedOnce == Spec => []ActionScalesOnce
<1>1. IInv => ActionScalesOnce
  <2>. SUFFICES ASSUME IInv, NEW a \in store.log, NEW b \in store.log,
                       a.folio = b.folio, a.sec = b.sec, SameAction(a, b),
                       {a.ref, b.ref} \subseteq {r.ref : r \in here.references}
                PROVE  a = b
    BY DEF ActionScalesOnce
  <2>1. StoreInv(store, here) /\ world \in DOMAIN Worlds BY DEF IInv
  <2>2. PICK r \in FirstListed(here) : a = EventOf(r, a.folio)
    BY <2>1 DEF StoreInv, EventKnown, RefsOf
  <2>3. PICK q \in FirstListed(here) : b = EventOf(q, b.folio)
    BY <2>1 DEF StoreInv, EventKnown, RefsOf
  <2>4. r \in here.references /\ q \in here.references BY DEF FirstListed
  <2>5. /\ a.sec = r.sec /\ a.day = r.day /\ a.num = r.num /\ a.den = r.den
        /\ b.sec = q.sec /\ b.day = q.day /\ b.num = q.num /\ b.den = q.den
    BY <2>2, <2>3 DEF EventOf
  <2>6. SameAction(r, q) /\ SameAction(q, r) BY <2>5 DEF SameAction
  <2>7. r.ref <= q.ref /\ q.ref <= r.ref BY <2>4, <2>5, <2>6 DEF FirstListed
  <2>8. r.ref \in Nat /\ q.ref \in Nat BY <2>1, <2>4, ReferencesAssumption DEF here
  <2>9. r.ref = q.ref BY <2>7, <2>8
  <2>10. r = q BY <2>1, <2>4, <2>9, ReferencesAssumption DEF here
  <2>. QED BY <2>2, <2>3, <2>10
<1>. QED BY <1>1, Invariance, PTL
-----------------------------------------------------------------------------
(* Stored rows are rows, and what leaves the tables typed.                 *)
LEMMA BookedRows ==
  ASSUME NEW D, NEW s, NEW rows \in Seq(StoredRows(s, D))
  PROVE  rows \in Seq(Rows(D))
<1>1. StoredRows(s, D) \subseteq Rows(D) BY DEF StoredRows
<1>. QED BY <1>1, SeqMonotonic

LEMMA BookedSame ==
  ASSUME NEW D, NEW s, NEW t, t.cached = s.cached
  PROVE  StoredRows(t, D) = StoredRows(s, D)
BY DEF StoredRows, BookedRefs

LEMMA TypedSame ==
  ASSUME NEW D, NEW s, Typed(s, D), NEW t, IsStore(t), t.rows = s.rows,
         t.holdings = s.holdings, t.log = s.log, t.cached = s.cached
  PROVE  Typed(t, D)
BY BookedSame DEF Typed

LEMMA RowsTyped ==
  ASSUME NEW D, NEW s, Typed(s, D), NEW rows \in Seq(StoredRows(s, D))
  PROVE  Typed([s EXCEPT !.rows = rows], D)
<1>. DEFINE t == [s EXCEPT !.rows = rows]
<1>1. IsStore(s) BY DEF Typed
<1>2. /\ IsStore(t) /\ t.rows = rows /\ t.holdings = s.holdings /\ t.log = s.log
      /\ t.cached = s.cached
  BY <1>1 DEF IsStore
<1>. HIDE DEF t
<1>3. Typed(t, D) BY <1>2, BookedSame DEF Typed
<1>. QED BY <1>3 DEF t

LEMMA LogTyped ==
  ASSUME NEW D, NEW s, Typed(s, D), NEW log, IsFiniteSet(log),
         \A e \in log : IsEvent(e) /\ e.day \in D
  PROVE  Typed([s EXCEPT !.log = log], D)
<1>. DEFINE t == [s EXCEPT !.log = log]
<1>1. IsStore(s) BY DEF Typed
<1>2. /\ IsStore(t) /\ t.rows = s.rows /\ t.holdings = s.holdings /\ t.log = log
      /\ t.cached = s.cached
  BY <1>1 DEF IsStore
<1>. HIDE DEF t
<1>3. Typed(t, D) BY <1>2, BookedSame DEF Typed
<1>. QED BY <1>3 DEF t

LEMMA HoldingTyped ==
  ASSUME NEW D, NEW s, Typed(s, D), NEW p, NEW x \in Int
  PROVE  Typed([s EXCEPT !.holdings[p] = x], D)
<1>. DEFINE t == [s EXCEPT !.holdings[p] = x]
            h == [s.holdings EXCEPT ![p] = x]
<1>1. IsStore(s) /\ s.holdings \in [Pairs -> Int] BY DEF Typed
<1>2. /\ IsStore(t) /\ t.rows = s.rows /\ t.holdings = h /\ t.log = s.log
      /\ t.cached = s.cached
  BY <1>1 DEF IsStore
<1>3. h \in [Pairs -> Int] BY <1>1
<1>. HIDE DEF t, h
<1>4. Typed(t, D) BY <1>2, <1>3, BookedSame DEF Typed
<1>. QED BY <1>4 DEF t

LEMMA FolioTyped ==
  ASSUME NEW D, NEW s, Typed(s, D), NEW sec, NEW folio, NEW acknowledge, NEW clear
  PROVE  Typed(ReconcileFolio(s, sec, folio, acknowledge, clear), D)
<1>. DEFINE row == ReconciledRow(s, sec, folio, acknowledge, clear)
            t == [s EXCEPT !.integrity[<<folio, sec>>] = row]
<1>1. IsStore(s) BY DEF Typed
<1>2. t = ReconcileFolio(s, sec, folio, acknowledge, clear) BY DEF ReconcileFolio
<1>. HIDE DEF row
<1>3. /\ IsStore(t) /\ t.rows = s.rows /\ t.holdings = s.holdings /\ t.log = s.log
      /\ t.cached = s.cached
  BY <1>1 DEF IsStore
<1>. HIDE DEF t
<1>4. Typed(t, D) BY <1>3, TypedSame
<1>. QED BY <1>2, <1>4

(* A loop keeps the types if its body does.                                *)
LEMMA LoopTyped ==
  ASSUME NEW D, NEW loop, NEW arg, NEW base, NEW S, IsFiniteSet(S), Picks(loop, arg, S),
         Typed(base, D), \A x \in S : \A s : Typed(s, D) => Typed(Body(loop, arg, x, s), D)
  PROVE  Typed(Loop(loop, arg, base, S), D)
<1>. DEFINE L(T) == Loop(loop, arg, base, T)
            Good == {T \in SUBSET S : Typed(L(T), D)}
<1>1. ASSUME NEW T \in SUBSET S, \A U \in SUBSET T : U # T => U \in Good
      PROVE  T \in Good
  <2>1. CASE T = {} BY <2>1, LoopEmpty
  <2>2. CASE T # {}
    <3>. DEFINE x == Pick(loop, arg, T)
    <3>1. x \in T /\ T \ {x} \in SUBSET T /\ T \ {x} # T BY <2>2 DEF Picks
    <3>2. Typed(L(T \ {x}), D) BY <3>1, <1>1
    <3>3. Typed(Body(loop, arg, x, L(T \ {x})), D) BY <3>1, <3>2
    <3>4. IsFiniteSet(T) /\ Picks(loop, arg, T) BY FS_Subset DEF Picks
    <3>5. L(T) = Body(loop, arg, x, L(T \ {x})) BY <2>2, <3>4, LoopStep
    <3>. QED BY <3>3, <3>5
  <2>. QED BY <2>1, <2>2
<1>. HIDE DEF Good
<1>2. \A T \in SUBSET S : T \in Good BY <1>1, SubsetInduction
<1>. QED BY <1>2 DEF Good

(* Completeness and the flags of old lots change rows in place; what a     *)
(* tradebook supersedes leaves.                                            *)
LEMMA CompleteTyped ==
  ASSUME NEW D, NEW s, Typed(s, D), NEW sec \in Securities
  PROVE  Typed(Completeness(s, sec), D)
<1>. DEFINE named == {f \in Folios : RowsIn(s, f, sec) # <<>>}
            good  == {f \in named : Solvent(s, sec, f)}
            rows  == [k \in DOMAIN s.rows |->
                       IF s.rows[k].sec = sec
                       THEN [s.rows[k] EXCEPT !.complete = s.rows[k].folio \in good]
                       ELSE s.rows[k]]
            blocks == (s.blocks \ {<<f, sec>> : f \in good}) \cup {<<f, sec>> : f \in named \ good}
            t == [s EXCEPT !.rows = rows]
            u == [t EXCEPT !.blocks = blocks]
<1>0. s.rows \in Seq(StoredRows(s, D)) /\ IsStore(s) BY DEF Typed
<1>1. blocks \in SUBSET Pairs BY <1>0 DEF IsStore, Pairs
<1>2. Completeness(s, sec) = [s EXCEPT !.rows = rows, !.blocks = blocks]
  BY Zenon DEF Completeness
<1>. HIDE DEF good, blocks
<1>3. [s EXCEPT !.rows = rows, !.blocks = blocks] = u OBVIOUS
<1>4. ASSUME NEW k \in DOMAIN s.rows, s.rows[k] \in StoredRows(s, D) PROVE rows[k] \in StoredRows(s, D)
  <2>. DEFINE r == s.rows[k]
              b == r.folio \in good
  <2>1. b \in BOOLEAN OBVIOUS
  <2>2. rows[k] \in {r, [r EXCEPT !.complete = b]} OBVIOUS
  <2>. HIDE DEF b, rows
  <2>3. \A x \in StoredRows(s, D) : [x EXCEPT !.complete = b] \in StoredRows(s, D) BY <2>1 DEF StoredRows, Rows
  <2>. QED BY <1>4, <2>2, <2>3
<1>5. rows = [k \in DOMAIN s.rows |-> rows[k]] OBVIOUS
<1>. HIDE DEF rows
<1>6. rows \in Seq(StoredRows(s, D)) BY <1>0, <1>4, <1>5, RowsMapped
<1>7. Typed(t, D) BY <1>6, RowsTyped
<1>. HIDE DEF t
<1>8. IsStore(t) BY <1>7 DEF Typed
<1>9. /\ IsStore(u) /\ u.rows = t.rows /\ u.holdings = t.holdings /\ u.log = t.log
      /\ u.cached = t.cached
  BY <1>1, <1>8 DEF IsStore
<1>. HIDE DEF u
<1>10. Typed(u, D) BY <1>7, <1>9, TypedSame
<1>. QED BY <1>2, <1>3, <1>10

LEMMA SupersededTyped ==
  ASSUME NEW D, NEW s, Typed(s, D), NEW sec
  PROVE  Typed(Superseded(s, sec), D)
<1>. DEFINE bought == {f \in Folios : \E k \in DOMAIN s.rows :
                   /\ s.rows[k].folio = f /\ s.rows[k].sec = sec
                   /\ s.rows[k].ref = NoRef /\ s.rows[k].type \in {"buy", "transfer_in"}}
            rows == Keep(s.rows, LAMBDA t : ~(/\ t.sec = sec /\ t.folio \in bought
                                              /\ t.ref = LotRef(sec)))
<1>1. s.rows \in Seq(StoredRows(s, D)) BY DEF Typed
<1>2. rows \in Seq(StoredRows(s, D)) BY <1>1, PickedPlaced DEF Keep
<1>3. Superseded(s, sec) \in {s, [s EXCEPT !.rows = rows]} BY DEF Superseded
<1>. HIDE DEF rows
<1>. QED BY <1>2, <1>3, RowsTyped

LEMMA FlagTyped ==
  ASSUME NEW D, NEW s, Typed(s, D), NEW folio, NEW secs
  PROVE  Typed(FlagPre2016(s, folio, secs), D)
<1>. DEFINE rows == [k \in DOMAIN s.rows |->
              IF /\ s.rows[k].folio = folio /\ s.rows[k].sec \in secs
                 /\ s.rows[k].type \in Inflows /\ s.rows[k].day < ReliableSince
              THEN [s.rows[k] EXCEPT !.complete = FALSE] ELSE s.rows[k]]
<1>1. s.rows \in Seq(StoredRows(s, D)) BY DEF Typed
<1>2. FlagPre2016(s, folio, secs) = [s EXCEPT !.rows = rows] BY DEF FlagPre2016
<1>3. \A x \in StoredRows(s, D) : [x EXCEPT !.complete = FALSE] \in StoredRows(s, D) BY DEF StoredRows, Rows
<1>4. ASSUME NEW k \in DOMAIN s.rows, s.rows[k] \in StoredRows(s, D) PROVE rows[k] \in StoredRows(s, D)
  BY <1>3, <1>4
<1>5. rows = [k \in DOMAIN s.rows |-> rows[k]] OBVIOUS
<1>. HIDE DEF rows
<1>6. rows \in Seq(StoredRows(s, D)) BY <1>1, <1>4, <1>5, RowsMapped
<1>. QED BY <1>2, <1>6, RowsTyped

(* A dividend in the ledger is priced by a reference that finds units held *)
(* at its ex-date.                                                         *)
LEMMA AttributedTyped ==
  ASSUME NEW D, NEW s, Typed(s, D), NEW sec \in Securities, NEW folio \in Folios,
         NEW ledger \in Seq(Rows(D))
  PROVE  Typed(Attributed(s, sec, folio, ledger), D)
<1>. DEFINE held(r) == HeldUnits(ledger, sec, folio, r.day)
            due     == {r \in Schedule(s, sec) : held(r) > 0}
            cash(r) == (held(r) * r.perShare) \div Share
            isMine(t)  == t.type = "dividend" /\ t.sec = sec /\ t.folio = folio
            refOf(t)   == CHOOSE r \in Schedule(s, sec) : r.ref = t.ref
            paid(t)    == isMine(t) => \E r \in due : r.ref = t.ref
            P       == {k \in DOMAIN s.rows : paid(s.rows[k])}
            Q       == {t \in StoredRows(s, D) : paid(t)}
            stays   == Keep(s.rows, LAMBDA t : paid(t))
            repriced == [k \in DOMAIN stays |->
              IF isMine(stays[k]) THEN [stays[k] EXCEPT !.value = cash(refOf(stays[k]))]
              ELSE stays[k]]
            missing == {r \in due : ~\E k \in DOMAIN stays : isMine(stays[k]) /\ stays[k].ref = r.ref}
            row(r)  == [sec |-> sec, folio |-> folio, day |-> r.day, type |-> "dividend",
                        units |-> 0, value |-> cash(r), ref |-> r.ref, complete |-> TRUE]
            added == [r \in missing |-> row(r)]
<1>1. /\ s.rows \in Seq(StoredRows(s, D)) /\ IsFiniteSet(s.cached)
      /\ \A r \in s.cached : IsReference(r, D)
      /\ \A r, q \in s.cached : r.ref = q.ref => r = q
  BY DEF Typed
<1>2. Schedule(s, sec) \subseteq s.cached BY DEF Schedule, CachedFor
<1>3. Attributed(s, sec, folio, ledger) = [s EXCEPT !.rows = AppendEach(repriced, added)]
  BY DEF Attributed
<1>4. ASSUME NEW r \in due PROVE cash(r) \in Nat
  <2>1. r.perShare \in Nat BY <1>1, <1>2 DEF IsReference
  <2>2. held(r) \in Int /\ held(r) > 0 BY HeldIsInt
  <2>. DEFINE n == held(r)
  <2>. HIDE DEF held
  <2>3. n \in Nat BY <2>2
  <2>4. cash(r) = (n * r.perShare) \div Share OBVIOUS
  <2>. HIDE DEF n, cash
  <2>5. (n * r.perShare) \div Share \in Nat BY <2>1, <2>3, Scaled, ShareAssumption
  <2>. QED BY <2>4, <2>5
<1>5. ASSUME NEW t \in Q, isMine(t) PROVE refOf(t) \in due
  <2>1. PICK r \in due : r.ref = t.ref BY <1>5
  <2>2. r \in Schedule(s, sec) BY <2>1
  <2>3. refOf(t) \in Schedule(s, sec) /\ refOf(t).ref = t.ref BY <2>1, <2>2
  <2>. HIDE DEF refOf, due
  <2>4. refOf(t) = r BY <1>1, <1>2, <2>1, <2>2, <2>3
  <2>. QED BY <2>1, <2>4
<1>6. stays \in Seq(Q)
  <2>1. stays = Picked(s.rows, P) BY DEF Keep
  <2>2. \A k \in DOMAIN s.rows : s.rows[k] \in StoredRows(s, D) BY <1>1, LenProperties, ElementOfSeq
  <2>3. P \in SUBSET DOMAIN s.rows /\ \A k \in P : s.rows[k] \in Q BY <2>2
  <2>. HIDE DEF P, Q, stays
  <2>4. Picked(s.rows, P) \in Seq(Q) BY <1>1, <2>3, PickedIn
  <2>. QED BY <2>1, <2>4
<1>. HIDE DEF cash, due, refOf, stays
<1>7. repriced \in Seq(StoredRows(s, D))
  <2>1. ASSUME NEW k \in DOMAIN stays, stays[k] \in Q PROVE repriced[k] \in StoredRows(s, D)
    <3>. DEFINE t == stays[k]
    <3>1. t \in StoredRows(s, D) BY <2>1
    <3>2. CASE ~isMine(t) BY <3>1, <3>2
    <3>3. CASE isMine(t)
      <4>. DEFINE v == cash(refOf(t))
      <4>1. t \in Q BY <2>1
      <4>2. v \in Nat
        <5>1. refOf(t) \in due
          <6>. HIDE DEF Q, t, isMine
          <6>. QED BY <1>5, <3>3, <4>1
        <5>. QED BY <1>4, <5>1
      <4>3. repriced[k] = [t EXCEPT !.value = v] BY <3>3
      <4>. HIDE DEF v, repriced, t
      <4>4. [t EXCEPT !.value = v] \in StoredRows(s, D) BY <3>1, <4>2 DEF StoredRows, Rows
      <4>. QED BY <4>3, <4>4
    <3>. QED BY <3>2, <3>3
  <2>2. repriced = [k \in DOMAIN stays |-> repriced[k]] OBVIOUS
  <2>. HIDE DEF repriced, Q
  <2>. QED BY <1>6, <2>1, <2>2, RowsMapped
<1>8. missing \subseteq due OBVIOUS
<1>9. IsFiniteSet(missing)
  <2>1. missing \in SUBSET s.cached BY <1>2, <1>8 DEF due
  <2>. HIDE DEF missing
  <2>. QED BY <1>1, <2>1, FS_Subset
<1>10. ASSUME NEW r \in missing PROVE added[r] \in StoredRows(s, D)
  <2>1. r \in due BY <1>8
  <2>2. r \in s.cached BY <1>2, <2>1 DEF due
  <2>3. r.day \in D /\ r.ref \in Nat BY <1>1, <2>2 DEF IsReference
  <2>6. r.ref \in BookedRefs(s) BY <1>2, <2>1, <2>2 DEF due, Schedule, BookedRefs
  <2>4. cash(r) \in Nat BY <1>4, <2>1
  <2>. DEFINE v == cash(r)
  <2>5. added[r] = [sec |-> sec, folio |-> folio, day |-> r.day, type |-> "dividend",
                    units |-> 0, value |-> v, ref |-> r.ref, complete |-> TRUE]
    OBVIOUS
  <2>. HIDE DEF v, added, missing
  <2>. QED BY <2>3, <2>4, <2>5, <2>6 DEF StoredRows, Rows, RowTypes, v
<1>11. DOMAIN added = missing OBVIOUS
<1>. HIDE DEF repriced, added, missing
<1>12. AppendEach(repriced, added) \in Seq(StoredRows(s, D)) BY <1>7, <1>9, <1>10, <1>11, AppendedIn
<1>. QED BY <1>3, <1>12, RowsTyped

LEMMA TypedLedger ==
  ASSUME NEW D \in SUBSET Nat, NEW s, Typed(s, D)
  PROVE  /\ ProjectedTransactions(s) \in Seq(Rows(D))
         /\ \A sec, folio, all : ComputeLedger(s, sec, folio, all) \in Seq(Rows(D))
         /\ \A sec, folio : RowsIn(s, folio, sec) \in Seq(Rows(D))
BY ProjectedIn, BookedRows DEF Typed

LEMMA AttributeTyped ==
  ASSUME NEW D \in SUBSET Nat, NEW s, Typed(s, D), NEW sec \in Securities, NEW folio \in Folios
  PROVE  Typed(AttributeDividends(s, sec, folio), D)
<1>. DEFINE ledger == ComputeLedger(s, sec, folio, FALSE)
<1>1. ledger \in Seq(Rows(D)) BY TypedLedger
<1>. HIDE DEF ledger
<1>2. Typed(Attributed(s, sec, folio, ledger), D) BY <1>1, AttributedTyped
<1>. QED BY <1>2 DEF AttributeDividends, ledger

LEMMA SecurityTyped ==
  ASSUME NEW D \in SUBSET Nat, NEW s, Typed(s, D), NEW sec \in Securities
  PROVE  Typed(ReconcileSecurity(s, sec), D)
<1>. DEFINE rows == [p \in Pairs |->
              IF p[2] # sec THEN s.integrity[p]
              ELSE IF Holds(s, sec, p[1]) THEN ReconciledRow(s, sec, p[1], FALSE, FALSE)
              ELSE EmptyRow(s, p)]
            judged == [s EXCEPT !.integrity = rows]
<1>1. IsStore(s) BY DEF Typed
<1>2. rows = [p \in Pairs |-> rows[p]] OBVIOUS
<1>3. ReconcileSecurity(s, sec) = Loop("attribute", sec, judged, Folios)
  BY AttributeLoop DEF ReconcileSecurity
<1>. HIDE DEF rows
<1>4. /\ IsStore(judged) /\ judged.rows = s.rows /\ judged.holdings = s.holdings
      /\ judged.log = s.log /\ judged.cached = s.cached
  BY <1>1, <1>2 DEF IsStore
<1>. HIDE DEF judged
<1>5. Typed(judged, D) BY <1>4, TypedSame
<1>6. \A x \in Folios : \A t : Typed(t, D) => Typed(Body("attribute", sec, x, t), D)
  BY AttributeTyped DEF Body
<1>7. Typed(Loop("attribute", sec, judged, Folios), D)
  BY <1>5, <1>6, SetLoopPicks, LoopTyped, TablesAssumption
<1>. QED BY <1>3, <1>7

(* What is paid out in cash is a row of the ledger's last day.             *)
LEMMA LastDayIn ==
  ASSUME NEW D \in SUBSET Nat, NEW ledger \in Seq(Rows(D)), ledger # <<>>
  PROVE  LastDay(ledger) \in D
<1>. DEFINE S == {ledger[k].day : k \in DOMAIN ledger}
<1>1. DOMAIN ledger = 1 .. Len(ledger) /\ Len(ledger) \in Nat BY LenProperties
<1>2. Len(ledger) # 0 BY EmptySeq
<1>3. 1 \in DOMAIN ledger BY <1>1, <1>2
<1>4. \A k \in DOMAIN ledger : ledger[k].day \in D BY <1>1, ElementOfSeq, RowFields
<1>5. S \in SUBSET D /\ S # {} BY <1>3, <1>4
<1>6. IsFiniteSet(1 .. Len(ledger)) BY <1>1, FS_Interval
<1>7. IsFiniteSet(S)
  <2>. DEFINE f == [k \in DOMAIN ledger |-> ledger[k].day]
  <2>1. f \in [DOMAIN ledger -> S] /\ \A y \in S : \E k \in DOMAIN ledger : f[k] = y
    OBVIOUS
  <2>2. IsFiniteSet(DOMAIN ledger) BY <1>1, <1>6
  <2>. HIDE DEF f, S
  <2>. QED BY <2>1, <2>2, ImageFinite
<1>8. \A k \in DOMAIN ledger : ledger[k].day \in S OBVIOUS
<1>9. LastDay(ledger) = CHOOSE d \in S : \A k \in DOMAIN ledger : ledger[k].day <= d
  BY DEF LastDay
<1>. HIDE DEF S
<1>10. S \in SUBSET Int BY <1>5
<1>11. Max(S) \in S /\ \A x \in S : x <= Max(S) BY <1>5, <1>7, <1>10, Greatest
<1>12. \E d \in S : \A k \in DOMAIN ledger : ledger[k].day <= d BY <1>8, <1>11
<1>. QED BY <1>5, <1>9, <1>12

LEMMA SettleTyped ==
  ASSUME NEW D \in SUBSET Nat, NEW s, Typed(s, D), NEW sec \in Securities, NEW folio \in Folios
  PROVE  Typed(Settle(s, sec, folio), D)
<1>. DEFINE ledger == ComputeLedger(s, sec, folio, FALSE)
            mine == RowsOf(ledger, sec, folio)
            book == Fifo(mine, <<>>)
            left == Remainder(s, sec, folio)
            lot  == book.lots[1]
            row  == [sec |-> sec, folio |-> folio, day |-> LastDay(ledger), type |-> "sell",
                     units |-> left.units, value |-> (left.units * lot.cost) \div lot.units,
                     ref |-> SettleRef(sec), complete |-> TRUE]
<1>1. ledger \in Seq(Rows(D)) BY TypedLedger
<1>2. s.rows \in Seq(StoredRows(s, D)) /\ s.holdings \in [Pairs -> Int] BY DEF Typed
<1>3. left.ledger = ledger /\ left.lots = book.lots BY DEF Remainder, LeftIn
<1>4. left.due => ledger # <<>> /\ book.lots # <<>> /\ left.units > 0
  BY Zenon DEF Remainder, LeftIn, SubShare
<1>5. left.units \in Int
  <2>1. left.units = NetUnits(ledger) - s.holdings[<<folio, sec>>] BY DEF Remainder, LeftIn
  <2>2. <<folio, sec>> \in Pairs BY DEF Pairs
  <2>3. s.holdings[<<folio, sec>>] \in Int BY <1>2, <2>2
  <2>. HIDE DEF left, ledger
  <2>4. NetUnits(ledger) \in Int BY <1>1, NetIsInt
  <2>. QED BY <2>1, <2>3, <2>4
<1>6. Settle(s, sec, folio) = IF left.due THEN [s EXCEPT !.rows = Append(s.rows, row)] ELSE s
  BY <1>3 DEF Settle, PaidOut, OldestLot
<1>7. mine \in Seq(Rows(D))
  <2>. HIDE DEF ledger
  <2>. QED BY <1>1, PickedPlaced DEF RowsOf, Keep
<1>8. ASSUME left.due PROVE row \in StoredRows(s, D)
  <2>. HIDE DEF ledger, mine, left
  <2>1. LastDay(ledger) \in D BY <1>1, <1>4, <1>8, LastDayIn
  <2>2. IsBook(book, Nat, D)
    <3>1. <<>> \in Seq(Sheds(D)) BY EmptySeq
    <3>2. Nat \in {Nat, Int} OBVIOUS
    <3>. QED BY <1>7, <3>1, <3>2, LotsHoldNetUnits
  <2>. HIDE DEF book
  <2>3. book.lots \in Seq(Lots(Nat, D)) BY <2>2 DEF IsBook
  <2>4. Len(book.lots) \in Nat /\ Len(book.lots) # 0
    BY <1>4, <1>8, <2>3, LenProperties, EmptySeq
  <2>5. lot \in Lots(Nat, D)
    <3>1. 1 \in 1 .. Len(book.lots) BY <2>4
    <3>. QED BY <2>3, <3>1, ElementOfSeq
  <2>. HIDE DEF lot
  <2>6. lot.units \in Nat /\ lot.units # 0 /\ lot.cost \in Nat BY <2>5 DEF Lots
  <2>7. left.units \in Nat BY <1>4, <1>5, <1>8
  <2>. DEFINE v == (left.units * lot.cost) \div lot.units
  <2>8. v \in Nat BY <2>6, <2>7, Scaled
  <2>. HIDE DEF v
  <2>9. "sell" \in RowTypes /\ SettleRef(sec) \in Nat BY DEF RowTypes, Outflows, SettleRef
  <2>10. SettleRef(sec) \in BookedRefs(s) BY DEF BookedRefs, KeptRefs
  <2>. QED BY <2>1, <2>7, <2>8, <2>9, <2>10 DEF StoredRows, Rows, v
<1>. HIDE DEF row, left
<1>9. CASE left.due
  <2>1. Append(s.rows, row) \in Seq(StoredRows(s, D)) BY <1>2, <1>8, <1>9, AppendProperties
  <2>. QED BY <1>6, <1>9, <2>1, RowsTyped
<1>. QED BY <1>6, <1>9

-----------------------------------------------------------------------------
(* The loops of the requests keep the types.                               *)
LEMMA ReconciledTyped ==
  ASSUME NEW D \in SUBSET Nat, NEW s, Typed(s, D), NEW S \in SUBSET Securities
  PROVE  Typed(Reconciled(s, S), D)
<1>1. \A x \in S : \A t : Typed(t, D) => Typed(Body("reconcile", NoFolio, x, t), D)
  BY SecurityTyped DEF Body
<1>2. IsFiniteSet(S) BY TablesAssumption, FS_Subset
<1>3. Typed(Loop("reconcile", NoFolio, s, S), D) BY <1>1, <1>2, SetLoopPicks, LoopTyped
<1>. QED BY <1>2, <1>3, ReconcileLoop DEF Reconciled

LEMMA ReconcileAllTyped ==
  ASSUME NEW D, NEW s, Typed(s, D), NEW S, IsFiniteSet(S), NEW folio
  PROVE  Typed(ReconcileAll(s, S, folio), D)
<1>1. \A x \in S : \A t : Typed(t, D) => Typed(Body("folio", folio, x, t), D)
  BY FolioTyped DEF Body
<1>2. Typed(Loop("folio", folio, s, S), D) BY <1>1, SetLoopPicks, LoopTyped
<1>3. ReconcileAll(s, S, folio) = Loop("folio", folio, s, S) BY FolioLoop DEF ReconcileAll
<1>. QED BY <1>2, <1>3

LEMMA CompleteAllTyped ==
  ASSUME NEW D, NEW s, Typed(s, D), NEW S \in SUBSET Securities
  PROVE  Typed(FoldSet(LAMBDA sec, acc : Completeness(acc, sec), s, S), D)
<1>1. \A x \in S : \A t : Typed(t, D) => Typed(Body("complete", NoFolio, x, t), D)
  BY CompleteTyped DEF Body
<1>2. IsFiniteSet(S) BY TablesAssumption, FS_Subset
<1>3. Typed(Loop("complete", NoFolio, s, S), D) BY <1>1, <1>2, SetLoopPicks, LoopTyped
<1>. QED BY <1>2, <1>3, CompleteLoop

LEMMA TidyAllTyped ==
  ASSUME NEW D, NEW s, Typed(s, D), NEW S \in SUBSET Securities
  PROVE  Typed(FoldSet(LAMBDA sec, acc : Completeness(Superseded(acc, sec), sec), s, S), D)
<1>1. \A x \in S : \A t : Typed(t, D) => Typed(Body("tidy", NoFolio, x, t), D)
  BY SupersededTyped, CompleteTyped DEF Body
<1>2. IsFiniteSet(S) BY TablesAssumption, FS_Subset
<1>3. Typed(Loop("tidy", NoFolio, s, S), D) BY <1>1, <1>2, SetLoopPicks, LoopTyped
<1>. QED BY <1>2, <1>3, TidyLoop

LEMMA SettleAllTyped ==
  ASSUME NEW D \in SUBSET Nat, NEW s, Typed(s, D), NEW S \in SUBSET Securities,
         NEW folio \in Folios
  PROVE  Typed(SettleAll(s, S, folio), D)
<1>1. ASSUME NEW x \in S, NEW t, Typed(t, D) PROVE Typed(Body("apply", folio, x, t), D)
  <2>1. x \in Securities OBVIOUS
  <2>2. Typed(Settle(t, x, folio), D) BY <1>1, <2>1, SettleTyped
  <2>3. Typed(ReconcileSecurity(Settle(t, x, folio), x), D) BY <2>1, <2>2, SecurityTyped
  <2>. QED BY <2>3 DEF Body
<1>2. IsFiniteSet(S) BY TablesAssumption, FS_Subset
<1>3. Typed(Loop("apply", folio, s, S), D) BY <1>1, <1>2, SetLoopPicks, LoopTyped
<1>4. SettleAll(s, S, folio) = Loop("apply", folio, s, S) BY <1>2, ApplyLoop DEF SettleAll
<1>. QED BY <1>3, <1>4

LEMMA WorldDays ==
  ASSUME NEW i \in DOMAIN Worlds
  PROVE  LET w == Worlds[i]
         IN /\ DaysOf(w) \in SUBSET Nat
            /\ \A b \in w.books : b \in Seq(Rows(DaysOf(w)))
            /\ \A e \in w.references \cup w.authored \cup w.receipts : e.day \in DaysOf(w)
            /\ \A rc \in w.receipts : \A a \in rc.lots : a.day \in DaysOf(w)
<1>. DEFINE w == Worlds[i]
            D == DaysOf(w)
<1>1. /\ w.books \subseteq Seq(Trades) /\ \A e \in w.authored : IsEvent(e)
      /\ \A rc \in w.receipts : rc.day \in Nat /\ \A a \in rc.lots : a.day \in Nat
      /\ \A r \in w.references : r.day \in Nat
  BY WorldAssumption, ReferencesAssumption
<1>. HIDE DEF w
<1>2. ASSUME NEW b \in w.books, NEW k \in DOMAIN b PROVE b[k] \in Trades
  BY <1>1, LenProperties, ElementOfSeq
<1>3. \A b \in w.books : \A k \in DOMAIN b : b[k].day \in Nat BY <1>2 DEF Trades
<1>4. \A e \in w.references \cup w.authored \cup w.receipts : e.day \in Nat
  BY <1>1 DEF IsEvent
<1>5. D \in SUBSET Nat
  <2>. SUFFICES ASSUME NEW d \in D PROVE d \in Nat OBVIOUS
  <2>1. CASE d \in UNION {{b[k].day : k \in DOMAIN b} : b \in w.books} BY <1>3, <2>1
  <2>2. CASE d \in {e.day : e \in w.references \cup w.authored \cup w.receipts}
    BY <1>4, <2>2
  <2>3. CASE d \in UNION {{a.day : a \in rc.lots} : rc \in w.receipts} BY <1>1, <2>3
  <2>. QED BY <2>1, <2>2, <2>3 DEF DaysOf
<1>6. ASSUME NEW b \in w.books PROVE b \in Seq(Rows(D))
  <2>1. b \in Seq(Trades) BY <1>1
  <2>2. DOMAIN b = 1 .. Len(b) /\ Len(b) \in Nat BY <2>1, LenProperties
  <2>3. ASSUME NEW k \in DOMAIN b PROVE b[k] \in Rows(D)
    <3>1. b[k] \in Trades BY <1>2
    <3>2. b[k].day \in D BY DEF DaysOf
    <3>. HIDE DEF D
    <3>. QED BY <3>1, <3>2 DEF Trades, Rows, RowTypes, NoRef
  <2>. HIDE DEF D
  <2>4. [k \in 1 .. Len(b) |-> b[k]] \in Seq(Rows(D)) BY <2>2, <2>3, IsASeq
  <2>5. b = [k \in DOMAIN b |-> b[k]] BY <2>1
  <2>. QED BY <2>2, <2>4, <2>5
<1>7. \A e \in w.references \cup w.authored \cup w.receipts : e.day \in D BY DEF DaysOf
<1>8. \A rc \in w.receipts : \A a \in rc.lots : a.day \in D BY DEF DaysOf
<1>. HIDE DEF D
<1>. QED BY <1>5, <1>6, <1>7, <1>8 DEF D, w

(* The requests that change the log or the cache.                          *)
LEMMA ApplyTyped ==
  ASSUME NEW D \in SUBSET Nat, NEW s, Typed(s, D), NEW folio \in Folios,
         NEW events, IsFiniteSet(events), \A e \in events : IsEvent(e) /\ e.day \in D
  PROVE  Typed(ApplyActions(s, folio, events), D)
<1>. DEFINE fresh    == Unapplied(s, folio, events)
            affected == SecuritiesOf(fresh)
            recorded == Recorded(s, fresh)
            logged   == FoldSet(LAMBDA sec, acc : Completeness(acc, sec), recorded, affected)
            flagged  == FlagPre2016(logged, folio, affected)
            closed   == SettleAll(flagged, affected, folio)
<1>1. fresh \in SUBSET events BY DEF Unapplied
<1>2. ApplyActions(s, folio, events) \in {s, closed} BY DEF ApplyActions
<1>. HIDE DEF fresh
<1>3. IsFiniteSet(fresh) /\ \A e \in fresh : IsEvent(e) /\ e.day \in D BY <1>1, FS_Subset
<1>4. affected \in SUBSET Securities
  <2>. SUFFICES ASSUME NEW x \in affected PROVE x \in Securities OBVIOUS
  <2>1. x # NoSecurity /\ x \in UNION {{e.sec, e.into} : e \in fresh} BY DEF SecuritiesOf
  <2>2. PICK e \in fresh : x \in {e.sec, e.into} BY <2>1
  <2>. QED BY <1>3, <2>1, <2>2 DEF IsEvent
<1>. HIDE DEF affected
<1>5. Typed(recorded, D)
  <2>1. IsFiniteSet(s.log) /\ \A e \in s.log : IsEvent(e) /\ e.day \in D BY DEF Typed
  <2>2. IsFiniteSet(s.log \cup fresh) BY <1>3, <2>1, FS_Union
  <2>3. \A e \in s.log \cup fresh : IsEvent(e) /\ e.day \in D BY <1>3, <2>1
  <2>. DEFINE log == s.log \cup fresh
  <2>. HIDE DEF log
  <2>4. Typed([s EXCEPT !.log = log], D) BY <2>2, <2>3, LogTyped DEF log
  <2>. QED BY <2>4 DEF Recorded, log
<1>. HIDE DEF recorded
<1>6. Typed(logged, D) BY <1>4, <1>5, CompleteAllTyped
<1>. HIDE DEF logged
<1>7. Typed(flagged, D) BY <1>6, FlagTyped
<1>. HIDE DEF flagged
<1>8. Typed(closed, D) BY <1>4, <1>7, SettleAllTyped
<1>. HIDE DEF closed
<1>. QED BY <1>2, <1>8

LEMMA FetchedTyped ==
  ASSUME world \in DOMAIN Worlds, NEW s, Typed(s, DaysOf(here)), s.cached \subseteq here.references,
         NEW secs, NEW answer
  PROVE  Typed(Fetched(s, secs, answer), DaysOf(here))
<1>. DEFINE w == here
            D == DaysOf(w)
            cached == s.cached \cup {r \in w.references : r.sec \in secs /\ r.exchange \in answer}
            synced == IF answer = {} THEN s.synced ELSE s.synced \cup secs
            t == [s EXCEPT !.cached = cached]
            u == [t EXCEPT !.synced = synced]
<1>1. Fetched(s, secs, answer) = [s EXCEPT !.cached = cached, !.synced = synced]
  BY Zenon DEF Fetched
<1>2. cached \in SUBSET w.references OBVIOUS
<1>3. /\ IsFiniteSet(w.references)
      /\ \A r \in w.references : IsReference(r, D)
      /\ \A r, q \in w.references : r.ref = q.ref => r = q
  <2>1. IsFiniteSet(w.references) BY WorldAssumption DEF here
  <2>2. \A r \in w.references : r.day \in D BY WorldDays DEF here
  <2>3. \A r \in w.references : {r.ref, r.perShare} \subseteq Nat BY ReferencesAssumption DEF here
  <2>4. \A r, q \in w.references : r.ref = q.ref => r = q BY ReferencesAssumption DEF here
  <2>. HIDE DEF w, D
  <2>. QED BY <2>1, <2>2, <2>3, <2>4 DEF IsReference
<1>4. /\ IsFiniteSet(cached) /\ \A r \in cached : IsReference(r, D)
      /\ \A r, q \in cached : r.ref = q.ref => r = q
  <2>. HIDE DEF cached, w, D
  <2>1. IsFiniteSet(cached) BY <1>2, <1>3, FS_Subset
  <2>. QED BY <1>2, <1>3, <2>1
<1>. HIDE DEF cached, synced
<1>5. [s EXCEPT !.cached = cached, !.synced = synced] = u OBVIOUS
<1>6. IsStore(s) BY DEF Typed
<1>7. /\ IsStore(t) /\ t.rows = s.rows /\ t.holdings = s.holdings /\ t.log = s.log
      /\ t.cached = cached
  BY <1>6 DEF IsStore
<1>. HIDE DEF t
<1>8. Typed(t, D)
  <2>1. StoredRows(s, D) \subseteq StoredRows(t, D) BY <1>7 DEF StoredRows, BookedRefs, cached
  <2>2. s.rows \in Seq(StoredRows(s, D)) BY DEF Typed, D
  <2>3. s.rows \in Seq(StoredRows(t, D)) BY <2>1, <2>2, SeqMonotonic
  <2>. QED BY <1>4, <1>7, <2>3 DEF Typed
<1>9. /\ IsStore(u) /\ u.rows = t.rows /\ u.holdings = t.holdings /\ u.log = t.log
      /\ u.cached = t.cached
  BY <1>7 DEF IsStore
<1>. HIDE DEF u, D
<1>10. Typed(u, D) BY <1>8, <1>9, TypedSame
<1>. QED BY <1>1, <1>5, <1>10 DEF D

LEMMA LinkIsEvent ==
  ASSUME NEW i \in DOMAIN Worlds, NEW rc \in Worlds[i].receipts, NEW p \in Securities
  PROVE  IsEvent(LinkOf(rc, p)) /\ LinkOf(rc, p).day = rc.day
<1>1. /\ rc.folio \in Folios /\ rc.child \in Securities /\ rc.day \in Nat
      /\ IsFiniteSet(rc.lots) /\ \A a \in rc.lots : {a.day, a.units, a.value} \subseteq Nat
  BY WorldAssumption
<1>. DEFINE sheds == {[day |-> a.day, value |-> a.value] : a \in rc.lots}
            f == [a \in rc.lots |-> [day |-> a.day, value |-> a.value]]
<1>2. IsFiniteSet(sheds)
  <2>1. f \in [rc.lots -> sheds] /\ \A y \in sheds : \E a \in rc.lots : f[a] = y OBVIOUS
  <2>. HIDE DEF f, sheds
  <2>. QED BY <1>1, <2>1, ImageFinite
<1>3. \A r \in sheds : {r.day, r.value} \subseteq Nat BY <1>1
<1>. DEFINE e == LinkOf(rc, p)
<1>4. /\ e.folio = rc.folio /\ e.sec = p /\ e.kind = "demerger" /\ e.day = rc.day /\ e.num = 1
      /\ e.den = 1 /\ e.exact = FALSE /\ e.into = rc.child /\ e.units = 0 /\ e.value = 0
      /\ e.ref = LotRef(rc.child) /\ e.sheds = sheds
  BY DEF LinkOf
<1>5. LotRef(rc.child) \in Nat /\ "demerger" \in DOMAIN EventOrder BY DEF LotRef, EventOrder
<1>. HIDE DEF e, sheds
<1>6. {e.day, e.num, e.den, e.units, e.value, e.ref} \subseteq Nat /\ e.den # 0
  BY <1>1, <1>4, <1>5
<1>7. /\ e.folio \in Folios /\ e.sec \in Securities /\ e.into \in Securities \cup {NoSecurity}
      /\ e.kind \in DOMAIN EventOrder /\ e.exact \in BOOLEAN
  BY <1>1, <1>4, <1>5
<1>8. IsFiniteSet(e.sheds) /\ \A r \in e.sheds : {r.day, r.value} \subseteq Nat
  BY <1>2, <1>3, <1>4
<1>9. IsEvent(e) BY <1>6, <1>7, <1>8 DEF IsEvent
<1>. QED BY <1>4, <1>9 DEF e

LEMMA LotRowsIn ==
  ASSUME NEW i \in DOMAIN Worlds, NEW rc \in Worlds[i].receipts, NEW s
  PROVE  LotRows(rc) \in Seq(StoredRows(s, DaysOf(Worlds[i])))
<1>. DEFINE D == DaysOf(Worlds[i])
            R == {p \in rc.lots \X rc.lots : p[1].day < p[2].day}
            lots == Sorted(rc.lots, R)
            row(a) == [sec |-> rc.child, folio |-> rc.folio, day |-> a.day,
                       type |-> "transfer_in", units |-> a.units, value |-> a.value,
                       ref |-> LotRef(rc.child), complete |-> TRUE]
<1>1. /\ rc.folio \in Folios /\ rc.child \in Securities /\ IsFiniteSet(rc.lots)
      /\ \A a \in rc.lots : {a.day, a.units, a.value} \subseteq Nat
  BY WorldAssumption
<1>2. \A a \in rc.lots : a.day \in D BY WorldDays
<1>3. LotRows(rc) = [k \in DOMAIN lots |-> row(lots[k])] BY DEF LotRows, Ordered
<1>4. \A a, b \in rc.lots : <<a, b>> \in R <=> a.day < b.day OBVIOUS
<1>. HIDE DEF R
<1>5. StrictOn(R, rc.lots)
  <2>1. \A a \in rc.lots : a.day \in Int BY <1>1
  <2>. QED BY <1>4, <2>1 DEF StrictOn
<1>6. Enumerates(lots, rc.lots) BY <1>1, <1>5, SortedEnumerates
<1>. HIDE DEF lots, D
<1>7. lots \in Seq(rc.lots) BY <1>6 DEF Enumerates
<1>8. ASSUME NEW a \in rc.lots PROVE row(a) \in StoredRows(s, D)
  <2>1. a.day \in D /\ a.units \in Nat /\ a.value \in Nat BY <1>1, <1>2
  <2>2. "transfer_in" \in RowTypes /\ LotRef(rc.child) \in Nat
    BY DEF RowTypes, Inflows, LotRef
  <2>3. LotRef(rc.child) \in BookedRefs(s) BY <1>1 DEF BookedRefs, KeptRefs
  <2>. QED BY <1>1, <2>1, <2>2, <2>3 DEF StoredRows, Rows
<1>. DEFINE out == [k \in DOMAIN lots |-> row(lots[k])]
<1>9. out = [k \in DOMAIN lots |-> out[k]] OBVIOUS
<1>10. \A k \in DOMAIN lots : lots[k] \in rc.lots => out[k] \in StoredRows(s, D) BY <1>8
<1>. HIDE DEF out
<1>11. out \in Seq(StoredRows(s, D)) BY <1>7, <1>9, <1>10, RowsMapped
<1>. QED BY <1>3, <1>11 DEF out, D

LEMMA ReceivedTyped ==
  ASSUME NEW i \in DOMAIN Worlds, NEW s, Typed(s, DaysOf(Worlds[i])),
         NEW rc \in Worlds[i].receipts
  PROVE  Typed(Received(s, rc), DaysOf(Worlds[i]))
<1>. DEFINE D == DaysOf(Worlds[i])
            rows   == s.rows \o LotRows(rc)
            lots   == WithLots(s, rc)
            sole   == {p \in ParentsOf(lots, rc) : ParentsOf(lots, rc) = {p}}
            links  == {LinkOf(rc, p) : p \in sole}
            linked == Recorded(lots, links)
            complete == Completeness(linked, rc.child)
            secs   == sole \cup {rc.child}
            done   == ReconcileAll(complete, secs, rc.folio)
<1>1. rc.child \in Securities BY WorldAssumption
<1>2. rc.day \in D BY WorldDays
<1>3. sole \in SUBSET Securities /\ secs \in SUBSET Securities BY <1>1 DEF ParentsOf
<1>4. LotRows(rc) \in Seq(StoredRows(s, D)) BY LotRowsIn
<1>5. Received(s, rc) = done BY DEF Received, LinkedTo
<1>6. lots = [s EXCEPT !.rows = rows] BY DEF WithLots
<1>. HIDE DEF D, lots, sole
<1>7. Typed(lots, D)
  <2>1. s.rows \in Seq(StoredRows(s, D)) BY DEF Typed, D
  <2>2. rows \in Seq(StoredRows(s, D)) BY <1>4, <2>1, ConcatProperties
  <2>. HIDE DEF rows
  <2>. QED BY <1>6, <2>2, RowsTyped DEF D
<1>8. IsFiniteSet(sole) /\ IsFiniteSet(secs)
  BY <1>3, FS_Subset, TablesAssumption
<1>9. IsFiniteSet(links)
  <2>. DEFINE f == [p \in sole |-> LinkOf(rc, p)]
  <2>1. f \in [sole -> links] /\ \A y \in links : \E p \in sole : f[p] = y OBVIOUS
  <2>. HIDE DEF f, links
  <2>. QED BY <1>8, <2>1, ImageFinite
<1>10. \A e \in links : IsEvent(e) /\ e.day \in D BY <1>2, <1>3, LinkIsEvent
<1>. HIDE DEF links, secs
<1>11. Typed(linked, D)
  <2>. DEFINE log == lots.log \cup links
  <2>1. IsFiniteSet(lots.log) /\ \A e \in lots.log : IsEvent(e) /\ e.day \in D
    BY <1>7 DEF Typed
  <2>2. IsFiniteSet(log) BY <1>9, <2>1, FS_Union
  <2>3. \A e \in log : IsEvent(e) /\ e.day \in D BY <1>10, <2>1
  <2>4. linked = [lots EXCEPT !.log = log] BY DEF Recorded
  <2>. HIDE DEF log, linked
  <2>. QED BY <1>7, <2>2, <2>3, <2>4, LogTyped
<1>. HIDE DEF linked
<1>12. Typed(complete, D) BY <1>1, <1>11, CompleteTyped
<1>. HIDE DEF complete
<1>13. Typed(done, D) BY <1>8, <1>12, ReconcileAllTyped
<1>. HIDE DEF done
<1>. QED BY <1>5, <1>13 DEF D

LEMMA WithdrawnTyped ==
  ASSUME NEW i \in DOMAIN Worlds, NEW s, Typed(s, DaysOf(Worlds[i])),
         NEW rc \in Worlds[i].receipts
  PROVE  Typed(Withdrawn(s, rc), DaysOf(Worlds[i]))
<1>. DEFINE D == DaysOf(Worlds[i])
            gone == s.log \ Unlinked(s, rc).log
            rows == Keep(s.rows, LAMBDA t : ~(/\ t.folio = rc.folio /\ t.sec = rc.child
                                              /\ t.ref = LotRef(rc.child)))
            bare == [s EXCEPT !.rows = rows]
            freed == Unlinked(bare, rc)
            complete == Completeness(freed, rc.child)
            secs == {rc.child} \cup {e.sec : e \in gone}
            done == ReconcileAll(complete, secs, rc.folio)
<1>1. rc.child \in Securities BY WorldAssumption
<1>2. Withdrawn(s, rc) = done BY DEF Withdrawn
<1>. HIDE DEF D
<1>3. /\ s.rows \in Seq(StoredRows(s, D)) /\ \A e \in s.log : IsEvent(e)
  BY DEF Typed, D
<1>4. gone \subseteq s.log OBVIOUS
<1>5. rows \in Seq(StoredRows(s, D)) BY <1>3, PickedPlaced DEF Keep
<1>. HIDE DEF gone, rows
<1>6. secs \in SUBSET Securities BY <1>1, <1>3, <1>4 DEF IsEvent
<1>7. IsFiniteSet(secs) BY <1>6, FS_Subset, TablesAssumption
<1>8. Typed(bare, D) BY <1>5, RowsTyped DEF D
<1>. HIDE DEF bare, secs
<1>9. Typed(freed, D)
  <2>. DEFINE log == {e \in bare.log : ~(e.kind = "demerger" /\ e.into = rc.child)}
  <2>1. IsFiniteSet(bare.log) /\ \A e \in bare.log : IsEvent(e) /\ e.day \in D
    BY <1>8 DEF Typed
  <2>2. log \in SUBSET bare.log OBVIOUS
  <2>3. freed = [bare EXCEPT !.log = log] BY DEF Unlinked
  <2>. HIDE DEF log, freed
  <2>4. IsFiniteSet(log) BY <2>1, <2>2, FS_Subset
  <2>. QED BY <1>8, <2>1, <2>2, <2>3, <2>4, LogTyped
<1>. HIDE DEF freed
<1>10. Typed(complete, D) BY <1>1, <1>9, CompleteTyped
<1>. HIDE DEF complete
<1>11. Typed(done, D) BY <1>7, <1>10, ReconcileAllTyped
<1>. HIDE DEF done
<1>. QED BY <1>2, <1>11 DEF D

-----------------------------------------------------------------------------
(* Every request keeps the amounts of the store.                           *)
LEMMA ImportTyped ==
  ASSUME IInv, Typed(store, DaysOf(here)), NEW b \in here.books, ImportBook(b)
  PROVE  Typed(store', DaysOf(here))
<1>. DEFINE secs  == {b[k].sec : k \in DOMAIN b}
            D == DaysOf(here)
            rows == store.rows \o b
            taken == [store EXCEPT !.rows = rows]
            tidy  == FoldSet(LAMBDA sec, acc : Completeness(Superseded(acc, sec), sec), taken, secs)
<1>1. world \in DOMAIN Worlds BY DEF IInv
<1>2. b \in Seq(Trades) BY <1>1, WorldAssumption DEF here
<1>3. \A k \in DOMAIN b : b[k] \in Trades BY <1>2, LenProperties, ElementOfSeq
<1>4. secs \in SUBSET Securities BY <1>3 DEF Trades
<1>5. D \in SUBSET Nat /\ b \in Seq(StoredRows(store, D))
  <2>1. D \in SUBSET Nat /\ b \in Seq(Rows(D)) BY <1>1, WorldDays DEF here
  <2>2. DOMAIN b = 1 .. Len(b) /\ Len(b) \in Nat BY <2>1, LenProperties
  <2>3. \A k \in 1 .. Len(b) : b[k] \in Rows(D) BY <2>1, ElementOfSeq
  <2>4. \A k \in 1 .. Len(b) : b[k].ref \in BookedRefs(store)
    BY <1>3, <2>2 DEF Trades, BookedRefs, KeptRefs
  <2>5. \A k \in 1 .. Len(b) : b[k] \in StoredRows(store, D)
    BY <1>3, <2>2, <2>3, <2>4 DEF StoredRows, Trades
  <2>6. [k \in 1 .. Len(b) |-> b[k]] \in Seq(StoredRows(store, D)) BY <2>2, <2>5, IsASeq
  <2>7. b = [k \in DOMAIN b |-> b[k]] BY <2>1
  <2>. QED BY <2>1, <2>2, <2>6, <2>7
<1>6. store' = Reconciled(tidy, secs) BY DEF ImportBook
<1>. HIDE DEF D, secs
<1>7. rows \in Seq(StoredRows(store, D))
  <2>1. store.rows \in Seq(StoredRows(store, D)) BY DEF Typed, D
  <2>. QED BY <1>5, <2>1, ConcatProperties
<1>. HIDE DEF rows
<1>8. Typed(taken, D) BY <1>7, RowsTyped DEF D
<1>. HIDE DEF taken
<1>9. Typed(tidy, D) BY <1>4, <1>8, TidyAllTyped
<1>. HIDE DEF tidy
<1>10. Typed(Reconciled(tidy, secs), D) BY <1>4, <1>5, <1>9, ReconciledTyped
<1>. QED BY <1>6, <1>10 DEF D

LEMMA ObserveTyped ==
  ASSUME IInv, Typed(store, DaysOf(here)), NEW a \in here.anchors, ObserveHolding(a)
  PROVE  Typed(store', DaysOf(here))
<1>. DEFINE D == DaysOf(here)
            seen == [store EXCEPT !.holdings[<<a.folio, a.sec>>] = a.units]
<1>1. world \in DOMAIN Worlds BY DEF IInv
<1>2. a.sec \in Securities /\ a.units \in Int BY <1>1, WorldAssumption DEF here
<1>3. D \in SUBSET Nat BY <1>1, WorldDays DEF here
<1>4. store' = ReconcileSecurity(seen, a.sec) BY DEF ObserveHolding
<1>. HIDE DEF D
<1>5. Typed(seen, D) BY <1>2, HoldingTyped DEF D
<1>. HIDE DEF seen
<1>6. Typed(ReconcileSecurity(seen, a.sec), D) BY <1>2, <1>3, <1>5, SecurityTyped
<1>. QED BY <1>4, <1>6 DEF D

LEMMA RefreshTyped ==
  ASSUME IInv, Typed(store, DaysOf(here)), NEW answer, RefreshNow(answer) \/ RefreshTick(answer)
  PROVE  Typed(store', DaysOf(here))
<1>. DEFINE D == DaysOf(here)
<1>1. world \in DOMAIN Worlds /\ store.cached \subseteq here.references
  BY DEF IInv, StoreInv, CacheClosed
<1>2. D \in SUBSET Nat BY <1>1, WorldDays DEF here
<1>3. \A secs : Typed(Fetched(store, secs, answer), D) BY <1>1, FetchedTyped
<1>4. CASE RefreshTick(answer) BY <1>3, <1>4 DEF RefreshTick
<1>5. CASE RefreshNow(answer)
  <2>. DEFINE fetched == Fetched(store, Mismatched, answer)
  <2>1. store' = Reconciled(fetched, Mismatched) BY <1>5 DEF RefreshNow
  <2>2. Mismatched \in SUBSET Securities BY DEF Mismatched
  <2>3. Typed(fetched, D) BY <1>3
  <2>. HIDE DEF fetched, D
  <2>4. Typed(Reconciled(fetched, Mismatched), D) BY <1>2, <2>2, <2>3, ReconciledTyped
  <2>. QED BY <2>1, <2>4 DEF D
<1>. QED BY <1>4, <1>5

LEMMA SuggestedTyped ==
  ASSUME IInv, Typed(store, DaysOf(here)), NEW p \in Pairs, ApplySuggested(p[1], p[2])
  PROVE  Typed(store', DaysOf(here))
<1>. DEFINE D == DaysOf(here)
            refs == store.integrity[<<p[1], p[2]>>].offer.refs
            offered == {r \in store.cached : r.ref \in refs}
            events == {EventOf(r, p[1]) : r \in offered}
<1>1. StoreInv(store, here) /\ world \in DOMAIN Worlds BY DEF IInv
<1>2. p = <<p[1], p[2]>> /\ p[1] \in Folios BY DEF Pairs
<1>3. refs \subseteq Offerable(store, here) BY <1>1, <1>2 DEF StoreInv, OffersListed
<1>4. store.cached \subseteq here.references BY <1>1 DEF StoreInv, CacheClosed
<1>5. ASSUME NEW r \in offered PROVE IsEvent(EventOf(r, p[1])) /\ EventOf(r, p[1]).day \in D
  <2>. DEFINE e == EventOf(r, p[1])
  <2>1. r \in here.references BY <1>4
  <2>2. PICK q \in store.cached \cap FirstListed(here) : q.ref = r.ref
    BY <1>3 DEF Offerable
  <2>3. q = r BY <1>1, <1>4, <2>1, <2>2, ReferencesAssumption DEF here
  <2>4. r.kind \in {"split", "bonus"} BY <2>2, <2>3 DEF FirstListed, Scaling
  <2>5. r.sec \in Securities /\ {r.ref, r.day, r.num, r.den} \subseteq Nat /\ r.den # 0
    BY <1>1, <2>1, ReferencesAssumption DEF here
  <2>6. r.day \in D BY <1>1, <2>1, WorldDays DEF here
  <2>7. /\ e.folio = p[1] /\ e.sec = r.sec /\ e.kind = r.kind /\ e.day = r.day
        /\ e.num = r.num /\ e.den = r.den /\ e.exact = (r.kind = "bonus")
        /\ e.into = NoSecurity /\ e.units = 0 /\ e.value = 0 /\ e.ref = r.ref /\ e.sheds = {}
    BY DEF EventOf
  <2>. HIDE DEF e, D
  <2>8. {e.day, e.num, e.den, e.units, e.value, e.ref} \subseteq Nat /\ e.den # 0
    BY <2>5, <2>7
  <2>9. e.exact \in BOOLEAN BY <2>7
  <2>10. e.kind \in DOMAIN EventOrder BY <2>4, <2>7 DEF EventOrder
  <2>11. IsFiniteSet(e.sheds) /\ e.sheds = {} BY <2>7, FS_EmptySet
  <2>12. e.folio \in Folios /\ e.sec \in Securities /\ e.into \in Securities \cup {NoSecurity}
    BY <1>2, <2>5, <2>7
  <2>13. IsEvent(e) BY <2>8, <2>9, <2>10, <2>11, <2>12 DEF IsEvent
  <2>. QED BY <2>6, <2>7, <2>13 DEF e
<1>6. D \in SUBSET Nat BY <1>1, WorldDays DEF here
<1>7. IsFiniteSet(events)
  <2>. DEFINE f == [r \in offered |-> EventOf(r, p[1])]
  <2>1. f \in [offered -> events] /\ \A y \in events : \E r \in offered : f[r] = y OBVIOUS
  <2>2. IsFiniteSet(store.cached) /\ offered \in SUBSET store.cached BY DEF Typed
  <2>. HIDE DEF f, events, offered
  <2>3. IsFiniteSet(offered) BY <2>2, FS_Subset
  <2>. QED BY <2>1, <2>3, ImageFinite
<1>8. \A e \in events : IsEvent(e) /\ e.day \in D BY <1>5
<1>9. store' = ApplyActions(store, p[1], events) BY DEF ApplySuggested
<1>. HIDE DEF events, D
<1>10. Typed(ApplyActions(store, p[1], events), D) BY <1>2, <1>6, <1>7, <1>8, ApplyTyped DEF D
<1>. QED BY <1>9, <1>10 DEF D

LEMMA ManualTyped ==
  ASSUME IInv, Typed(store, DaysOf(here)), NEW ev \in here.authored, ApplyManual(ev)
  PROVE  Typed(store', DaysOf(here))
<1>. DEFINE D == DaysOf(here)
            events == {ev}
<1>1. world \in DOMAIN Worlds BY DEF IInv
<1>2. IsEvent(ev) BY <1>1, WorldAssumption DEF here
<1>3. D \in SUBSET Nat /\ ev.day \in D BY <1>1, WorldDays DEF here
<1>4. store' = ApplyActions(store, ev.folio, events) BY DEF ApplyManual
<1>5. IsFiniteSet(events) BY FS_Singleton
<1>6. \A e \in events : IsEvent(e) /\ e.day \in D BY <1>2, <1>3
<1>7. ev.folio \in Folios BY <1>2 DEF IsEvent
<1>. HIDE DEF events, D
<1>8. Typed(ApplyActions(store, ev.folio, events), D) BY <1>3, <1>5, <1>6, <1>7, ApplyTyped DEF D
<1>. QED BY <1>4, <1>8 DEF D

LEMMA ReceiptTyped ==
  ASSUME IInv, Typed(store, DaysOf(here)), NEW rc \in here.receipts,
         RecordReceipt(rc) \/ RemoveReceipt(rc)
  PROVE  Typed(store', DaysOf(here))
<1>1. world \in DOMAIN Worlds /\ rc \in Worlds[world].receipts
      /\ Typed(store, DaysOf(Worlds[world]))
  BY DEF IInv, here
<1>2. Typed(Received(store, rc), DaysOf(Worlds[world])) BY <1>1, ReceivedTyped
<1>3. Typed(Withdrawn(store, rc), DaysOf(Worlds[world])) BY <1>1, WithdrawnTyped
<1>4. store' = Received(store, rc) \/ store' = Withdrawn(store, rc)
  BY DEF RecordReceipt, RemoveReceipt
<1>. QED BY <1>2, <1>3, <1>4 DEF here

LEMMA RemapTyped ==
  ASSUME IInv, Typed(store, DaysOf(here)), NEW folio \in Folios, NEW from \in Securities,
         NEW to \in Securities, Remap(folio, from, to)
  PROVE  Typed(store', DaysOf(here))
<1>. DEFINE D == DaysOf(here)
            rows == [k \in DOMAIN store.rows |->
                       IF store.rows[k].folio = folio /\ store.rows[k].sec = from
                       THEN [store.rows[k] EXCEPT !.sec = to] ELSE store.rows[k]]
            x == store.holdings[<<folio, from>>]
            t == [store EXCEPT !.rows = rows]
            u == [t EXCEPT !.holdings[<<folio, to>>] = x]
            moved == [u EXCEPT !.holdings[<<folio, from>>] = NotHeld]
            first == ReconcileSecurity(moved, from)
<1>1. D \in SUBSET Nat BY WorldDays DEF IInv, here
<1>2. store.rows \in Seq(StoredRows(store, D)) /\ store.holdings \in [Pairs -> Int] BY DEF Typed
<1>3. x \in Int
  <2>1. <<folio, from>> \in Pairs BY DEF Pairs
  <2>. QED BY <1>2, <2>1
<1>4. store' = ReconcileSecurity(first, to)
  <2>. HIDE DEF rows
  <2>1. moved = [store EXCEPT !.rows = rows, !.holdings[<<folio, to>>] = x,
                              !.holdings[<<folio, from>>] = NotHeld]
    OBVIOUS
  <2>. HIDE DEF moved
  <2>. QED BY <2>1 DEF Remap, rows
<1>5. \A r \in StoredRows(store, D) : [r EXCEPT !.sec = to] \in StoredRows(store, D) BY DEF StoredRows, Rows
<1>6. ASSUME NEW k \in DOMAIN store.rows, store.rows[k] \in StoredRows(store, D) PROVE rows[k] \in StoredRows(store, D)
  BY <1>5, <1>6
<1>7. rows = [k \in DOMAIN store.rows |-> rows[k]] OBVIOUS
<1>. HIDE DEF rows, x, D
<1>8. rows \in Seq(StoredRows(store, D)) BY <1>2, <1>6, <1>7, RowsMapped
<1>9. Typed(t, D) BY <1>8, RowsTyped DEF D
<1>. HIDE DEF t
<1>10. Typed(u, D) BY <1>3, <1>9, HoldingTyped
<1>. HIDE DEF u
<1>11. NotHeld \in Int BY DEF NotHeld
<1>12. Typed(moved, D) BY <1>10, <1>11, HoldingTyped
<1>. HIDE DEF moved
<1>13. Typed(first, D) BY <1>1, <1>12, SecurityTyped
<1>. HIDE DEF first
<1>14. Typed(ReconcileSecurity(first, to), D) BY <1>1, <1>13, SecurityTyped
<1>. QED BY <1>4, <1>14 DEF D

LEMMA StepTyped ==
  ASSUME IInv, Typed(store, DaysOf(here)), [Next]_vars
  PROVE  Typed(store', DaysOf(here))
<1>1. CASE \E b \in here.books : ImportBook(b) BY <1>1, ImportTyped
<1>2. CASE \E a \in here.anchors : ObserveHolding(a) BY <1>2, ObserveTyped
<1>3. CASE \E answer \in Answers : RefreshNow(answer) \/ RefreshTick(answer)
  BY <1>3, RefreshTyped
<1>4. CASE \E p \in Pairs : ApplySuggested(p[1], p[2]) BY <1>4, SuggestedTyped
<1>5. CASE \E ev \in here.authored : ApplyManual(ev) BY <1>5, ManualTyped
<1>6. CASE \E rc \in here.receipts : RecordReceipt(rc) \/ RemoveReceipt(rc)
  BY <1>6, ReceiptTyped
<1>7. CASE \E r \in here.renames : Remap(r[1], r[2], r[3])
  <2>1. PICK r \in here.renames : Remap(r[1], r[2], r[3]) BY <1>7
  <2>2. r \in Folios \X Securities \X Securities
    BY <2>1, WorldAssumption DEF IInv, here
  <2>3. r[1] \in Folios /\ r[2] \in Securities /\ r[3] \in Securities BY <2>2
  <2>. QED BY <2>1, <2>3, RemapTyped
<1>8. CASE \E p \in Pairs : Acknowledge(p[1], p[2]) \/ Unacknowledge(p[1], p[2])
  <2>1. PICK p \in Pairs : Acknowledge(p[1], p[2]) \/ Unacknowledge(p[1], p[2]) BY <1>8
  <2>2. \E acknowledge, clear :
          store' = ReconcileFolio(store, p[2], p[1], acknowledge, clear)
    BY <2>1 DEF Acknowledge, Unacknowledge
  <2>. QED BY <2>2, FolioTyped
<1>9. CASE Recompute
  <2>1. DaysOf(here) \in SUBSET Nat BY WorldDays DEF IInv, here
  <2>2. store' = Reconciled(store, Securities) BY <1>9 DEF Recompute
  <2>. QED BY <2>1, <2>2, ReconciledTyped
<1>10. CASE UNCHANGED vars BY <1>10 DEF vars
<1>. QED BY <1>1, <1>2, <1>3, <1>4, <1>5, <1>6, <1>7, <1>8, <1>9, <1>10 DEF Next

LEMMA InitTyped ==
  ASSUME Init
  PROVE  Typed(store, DaysOf(here))
<1>1. /\ store.rows = <<>> /\ store.log = {} /\ store.cached = {}
      /\ store.holdings = [p \in Pairs |-> NotHeld]
  BY DEF Init
<1>2. IsStore(store) BY InitInv DEF IInv, StoreInv
<1>3. <<>> \in Seq(StoredRows(store, DaysOf(here))) BY EmptySeq
<1>4. IsFiniteSet(store.log) /\ IsFiniteSet(store.cached) BY <1>1, FS_EmptySet
<1>5. store.holdings \in [Pairs -> Int] BY <1>1 DEF NotHeld
<1>. QED BY <1>1, <1>2, <1>3, <1>4, <1>5 DEF Typed

(* The rows of the store are rows of the world's days, with natural units  *)
(* and values: no request leaves a fraction, a price or a dividend below   *)
(* zero.                                                                   *)
THEOREM AmountsInvariant == Spec => [](IInv /\ Typed(store, DaysOf(here)))
<1>1. Init => IInv /\ Typed(store, DaysOf(here)) BY InitInv, InitTyped
<1>2. IInv /\ Typed(store, DaysOf(here)) /\ [Next]_vars
        => (IInv /\ Typed(store, DaysOf(here)))'
  <2>. SUFFICES ASSUME IInv, Typed(store, DaysOf(here)), [Next]_vars
                PROVE  (IInv /\ Typed(store, DaysOf(here)))'
    OBVIOUS
  <2>1. IInv' BY StepInv
  <2>2. Typed(store', DaysOf(here)) BY StepTyped
  <2>3. here' = here BY RestStep DEF here
  <2>. QED BY <2>1, <2>2, <2>3
<1>. QED BY <1>1, <1>2, PTL DEF Spec

(* The tables and the amounts of the rows keep their types.                *)
THEOREM TypeCorrect == Spec => []TypeOK
<1>1. IInv /\ Typed(store, DaysOf(here)) => TypeOK
  <2>. SUFFICES ASSUME IInv, Typed(store, DaysOf(here)) PROVE TypeOK OBVIOUS
  <2>1. TablesOK BY InvTables
  <2>2. store.rows \in Seq(Rows(DaysOf(here))) BY BookedRows DEF Typed
  <2>3. \A k \in DOMAIN store.rows : store.rows[k] \in Rows(DaysOf(here))
    BY <2>2, LenProperties, ElementOfSeq
  <2>. QED BY <2>1, <2>3, RowFields DEF TypeOK
<1>. QED BY <1>1, AmountsInvariant, PTL

-----------------------------------------------------------------------------
(* The units of a day's value are the net units of the ledger.             *)
LEMMA BucketUnits ==
  ASSUME NEW D \in SUBSET Nat, NEW s, NEW bucket \in Seq(Rows(D)), NEW shed \in Seq(Sheds(D))
  PROVE  BucketAsOf(s, bucket, shed).units = NetUnits(bucket)
<1>. DEFINE book == Fifo(bucket, shed)
<1>1. ~book.short => LotUnits(book.lots) = NetUnits(bucket)
  <2>1. Int \in {Nat, Int} OBVIOUS
  <2>. QED BY <2>1, LotsHoldNetUnits
<1>2. BucketAsOf(s, bucket, shed).units
        = IF book.short THEN NetUnits(bucket) ELSE LotUnits(book.lots)
  BY DEF BucketAsOf
<1>. QED BY <1>1, <1>2

LEMMA OwnersOf ==
  ASSUME NEW ledger, NEW sec
  PROVE  \A f : f \in Owned(ledger, sec) <=> \E k \in PlacesOf(ledger, sec) : ledger[k].folio = f
<1>. SUFFICES ASSUME NEW f
              PROVE  f \in Owned(ledger, sec) <=> \E k \in PlacesOf(ledger, sec) : ledger[k].folio = f
  OBVIOUS
<1>1. ASSUME f \in Owned(ledger, sec)
      PROVE  \E k \in PlacesOf(ledger, sec) : ledger[k].folio = f
  <2>1. PICK b \in Buckets(ledger) : b[2] = sec /\ f = b[1] BY <1>1 DEF Owned
  <2>2. PICK k \in DOMAIN ledger : b = <<ledger[k].folio, ledger[k].sec>> BY DEF Buckets
  <2>. QED BY <2>1, <2>2 DEF PlacesOf
<1>2. ASSUME NEW k \in PlacesOf(ledger, sec), ledger[k].folio = f
      PROVE  f \in Owned(ledger, sec)
  <2>. DEFINE b == <<ledger[k].folio, ledger[k].sec>>
  <2>1. b \in Buckets(ledger) /\ b[2] = sec /\ b[1] = f BY <1>2 DEF Buckets, PlacesOf
  <2>. HIDE DEF b
  <2>. QED BY <2>1 DEF Owned
<1>. QED BY <1>1, <1>2

LEMMA NetByFolio ==
  ASSUME NEW D \in SUBSET Nat, NEW s, NEW ledger \in Seq(Rows(D)), NEW sec, NEW day,
         \A d \in D : d <= day, NEW shed \in Seq(Sheds(D))
  PROVE  OwnedUnits(s, ledger, sec, day, shed) = NetUnits(RowsOf(ledger, sec, NoFolio))
<1>. DEFINE S == PlacesOf(ledger, sec)
            owners == Owned(ledger, sec)
            signed == [k \in DOMAIN ledger |-> Signed(ledger[k])]
            class == [k \in DOMAIN ledger |-> ledger[k].folio]
            past == SomeDays(shed, day)
            rows(f) == FolioRows(ledger, sec, f, day)
            g == [f \in owners |-> BucketAsOf(s, rows(f), past).units]
<1>1. \A k \in DOMAIN ledger : ledger[k] \in Rows(D) BY LenProperties, ElementOfSeq
<1>2. \A k \in DOMAIN ledger : signed[k] \in Int /\ Signed(ledger[k]) \in Int BY <1>1, RowFields
<1>3. S \in SUBSET DOMAIN ledger BY DEF PlacesOf
<1>4. IsFiniteSet(S) BY <1>3, PickedPlaced
<1>5. IsFiniteSet(owners) /\ \A k \in S : class[k] \in owners
  <2>1. \A k \in DOMAIN ledger : ledger[k].folio \in Folios \cup {NoFolio} BY <1>1, RowFields
  <2>2. owners \in SUBSET (Folios \cup {NoFolio}) BY <1>3, <2>1, OwnersOf
  <2>3. IsFiniteSet(Folios \cup {NoFolio}) BY TablesAssumption, FS_AddElement
  <2>4. IsFiniteSet(owners) BY <2>2, <2>3, FS_Subset
  <2>5. \A k \in S : class[k] \in owners BY <1>3, OwnersOf
  <2>. QED BY <2>4, <2>5
<1>6. past \in Seq(Sheds(D)) BY PickedPlaced DEF SomeDays, Keep
<1>7. ASSUME NEW P \in SUBSET DOMAIN ledger
      PROVE  /\ Picked(ledger, P) \in Seq(Rows(D))
             /\ NetUnits(Picked(ledger, P)) = SumFunctionOnSet(signed, P)
  <2>1. /\ IsFiniteSet(P) /\ Enumerates(Ordered(P, <), P)
        /\ Picked(ledger, P) = Placed(ledger, Ordered(P, <)) /\ Picked(ledger, P) \in Seq(Rows(D))
    BY PickedPlaced
  <2>. DEFINE order == Ordered(P, <)
  <2>. HIDE DEF order
  <2>2. NetUnits(Placed(ledger, order)) = UnitsIn(ledger, P)
    BY <1>2, <2>1, NetPlaced DEF order
  <2>. QED BY <2>1, <2>2 DEF UnitsIn, order
<1>8. ASSUME NEW f \in owners PROVE g[f] = SumFunctionOnSet(signed, ClassOf(S, class, f))
  <2>. DEFINE P == {k \in DOMAIN ledger :
                      ledger[k].sec = sec /\ ledger[k].folio = f /\ ledger[k].day <= day}
  <2>1. rows(f) = Picked(ledger, P) BY DEF FolioRows, Keep
  <2>2. \A k \in DOMAIN ledger : ledger[k].day <= day BY <1>1, RowFields
  <2>3. P = ClassOf(S, class, f) BY <2>2 DEF ClassOf, PlacesOf
  <2>4. P \in SUBSET DOMAIN ledger OBVIOUS
  <2>5. g[f] = BucketAsOf(s, rows(f), past).units OBVIOUS
  <2>. HIDE DEF P, g, rows, past, signed, S, class
  <2>6. rows(f) \in Seq(Rows(D)) BY <1>7, <2>1, <2>4
  <2>7. BucketAsOf(s, rows(f), past).units = NetUnits(rows(f)) BY <1>6, <2>6, BucketUnits
  <2>. QED BY <1>7, <2>1, <2>3, <2>4, <2>5, <2>7
<1>9. NetUnits(RowsOf(ledger, sec, NoFolio)) = SumFunctionOnSet(signed, S)
  <2>1. RowsOf(ledger, sec, NoFolio) = Picked(ledger, S)
    <3>1. {k \in DOMAIN ledger : ledger[k].sec = sec /\ NoFolio \in {NoFolio, ledger[k].folio}} = S
      BY DEF PlacesOf
    <3>. QED BY <3>1 DEF RowsOf, Keep
  <2>. HIDE DEF S, signed
  <2>. QED BY <1>3, <1>7, <2>1
<1>10. \A k \in S : signed[k] \in Int BY <1>2, <1>3
<1>11. OwnedUnits(s, ledger, sec, day, shed) = SumFunctionOnSet(g, owners)
  <2>1. DOMAIN g = owners OBVIOUS
  <2>2. OwnedUnits(s, ledger, sec, day, shed) = SumFunction(g) BY DEF OwnedUnits
  <2>. HIDE DEF g, owners
  <2>. QED BY <2>1, <2>2 DEF SumFunction
<1>. HIDE DEF S, owners, signed, class, past, rows, g
<1>12. SumFunctionOnSet(g, owners) = SumFunctionOnSet(signed, S)
  BY <1>4, <1>5, <1>8, <1>10, SumByClass
<1>. QED BY <1>9, <1>11, <1>12

(* The days of a world are finitely many, and end at the horizon.          *)
LEMMA DaysEnd ==
  ASSUME world \in DOMAIN Worlds
  PROVE  /\ DaysOf(here) \in SUBSET Nat /\ \A d \in DaysOf(here) : d <= Horizon
         /\ \E last \in Nat : \A d \in DaysOf(here) : d < last
<1>. DEFINE w == here
            F(b) == {b[k].day : k \in DOMAIN b}
            G(rc) == {a.day : a \in rc.lots}
            traded == UNION {F(b) : b \in w.books}
            dated == w.references \cup w.authored \cup w.receipts
            happened == {e.day : e \in dated}
            received == UNION {G(rc) : rc \in w.receipts}
            D == DaysOf(w)
<1>1. D \in SUBSET Nat BY WorldDays DEF here
<1>2. /\ IsFiniteSet(w.books) /\ IsFiniteSet(dated) /\ IsFiniteSet(w.receipts)
      /\ \A b \in w.books : b \in Seq(Trades)
      /\ \A rc \in w.receipts : IsFiniteSet(rc.lots)
  <2>1. /\ IsFiniteSet(w.books) /\ IsFiniteSet(w.references) /\ IsFiniteSet(w.authored)
        /\ IsFiniteSet(w.receipts)
        /\ \A b \in w.books : b \in Seq(Trades)
        /\ \A rc \in w.receipts : IsFiniteSet(rc.lots)
    BY WorldAssumption DEF here
  <2>. HIDE DEF w
  <2>2. IsFiniteSet(w.references \cup w.authored) BY <2>1, FS_Union
  <2>3. IsFiniteSet(dated) BY <2>1, <2>2, FS_Union
  <2>. QED BY <2>1, <2>3
<1>3. IsFiniteSet(traded)
  <2>. DEFINE all == {F(b) : b \in w.books}
              f == [b \in w.books |-> F(b)]
  <2>1. f \in [w.books -> all] /\ \A y \in all : \E b \in w.books : f[b] = y OBVIOUS
  <2>2. ASSUME NEW b \in w.books PROVE IsFiniteSet(F(b))
    <3>. DEFINE h == [k \in DOMAIN b |-> b[k].day]
                T == F(b)
    <3>1. h \in [DOMAIN b -> T] /\ \A y \in T : \E k \in DOMAIN b : h[k] = y OBVIOUS
    <3>2. DOMAIN b = 1 .. Len(b) /\ Len(b) \in Nat BY <1>2, LenProperties
    <3>3. IsFiniteSet(1 .. Len(b)) BY <3>2, FS_Interval
    <3>4. IsFiniteSet(DOMAIN b) BY <3>2, <3>3
    <3>. HIDE DEF h, T
    <3>5. IsFiniteSet(T) BY <3>1, <3>4, ImageFinite
    <3>. QED BY <3>5 DEF T
  <2>3. \A T \in all : IsFiniteSet(T) BY <2>2
  <2>. HIDE DEF f, all, F
  <2>4. IsFiniteSet(all) BY <1>2, <2>1, ImageFinite
  <2>5. IsFiniteSet(UNION all) BY <2>3, <2>4, FS_UNION
  <2>. QED BY <2>5 DEF all
<1>4. IsFiniteSet(happened)
  <2>. DEFINE f == [e \in dated |-> e.day]
  <2>1. f \in [dated -> happened] /\ \A y \in happened : \E e \in dated : f[e] = y OBVIOUS
  <2>. HIDE DEF f, dated, happened
  <2>. QED BY <1>2, <2>1, ImageFinite
<1>5. IsFiniteSet(received)
  <2>. DEFINE all == {G(rc) : rc \in w.receipts}
              f == [rc \in w.receipts |-> G(rc)]
  <2>1. f \in [w.receipts -> all] /\ \A y \in all : \E rc \in w.receipts : f[rc] = y OBVIOUS
  <2>2. ASSUME NEW rc \in w.receipts PROVE IsFiniteSet(G(rc))
    <3>. DEFINE h == [a \in rc.lots |-> a.day]
                T == G(rc)
    <3>1. h \in [rc.lots -> T] /\ \A y \in T : \E a \in rc.lots : h[a] = y OBVIOUS
    <3>. HIDE DEF h, T
    <3>5. IsFiniteSet(T) BY <1>2, <3>1, ImageFinite
    <3>. QED BY <3>5 DEF T
  <2>3. \A T \in all : IsFiniteSet(T) BY <2>2
  <2>. HIDE DEF f, all, G
  <2>4. IsFiniteSet(all) BY <1>2, <2>1, ImageFinite
  <2>5. IsFiniteSet(UNION all) BY <2>3, <2>4, FS_UNION
  <2>. QED BY <2>5 DEF all
<1>6. D = traded \cup happened \cup received BY DEF DaysOf
<1>7. Days = D BY DEF Days, DaysOf
<1>. HIDE DEF traded, happened, received
<1>8. IsFiniteSet(D)
  <2>1. IsFiniteSet(traded \cup happened) BY <1>3, <1>4, FS_Union
  <2>2. IsFiniteSet(traded \cup happened \cup received) BY <1>5, <2>1, FS_Union
  <2>. QED BY <1>6, <2>2
<1>. HIDE DEF D, w
<1>9. \A d \in D : d <= Horizon
  <2>1. CASE D = {} BY <2>1
  <2>2. CASE D # {}
    <3>1. D \in SUBSET Int BY <1>1
    <3>2. Max(D) \in D /\ \A x \in D : x <= Max(D) BY <1>8, <2>2, <3>1, Greatest
    <3>3. Horizon = CHOOSE d \in D : \A e \in D : e <= d BY <1>7 DEF Horizon
    <3>. QED BY <3>2, <3>3
  <2>. QED BY <2>1, <2>2
<1>10. \E last \in Nat : \A d \in D : d < last
  <2>1. CASE D = {} BY <2>1
  <2>2. CASE D # {}
    <3>1. D \in SUBSET Int BY <1>1
    <3>2. Max(D) \in D /\ \A x \in D : x <= Max(D) BY <1>8, <2>2, <3>1, Greatest
    <3>. DEFINE m == Max(D)
    <3>. HIDE DEF m
    <3>3. m \in Nat /\ \A x \in D : x \in Int /\ x <= m BY <1>1, <3>2, NaturalsIn DEF m
    <3>4. m + 1 \in Nat /\ \A x \in D : x < m + 1 BY <3>3
    <3>. QED BY <3>4
  <2>. QED BY <2>1, <2>2
<1>. QED BY <1>1, <1>9, <1>10 DEF D, w

(* What demergers took from the lots of a security is finite, and in the   *)
(* order of its days.                                                      *)
LEMMA ReductionsIn ==
  ASSUME NEW D \in SUBSET Nat, NEW s, Typed(s, D), NEW sec
  PROVE  Reductions(s, sec) \in Seq(Sheds(D))
<1>. DEFINE E == {e \in s.log : e.kind = "demerger" /\ e.sec = sec}
            shed(e, r) == [type |-> "shed", day |-> e.day, acquired |-> r.day, value |-> r.value]
            F(e) == {shed(e, r) : r \in e.sheds}
            sets == {F(e) : e \in E}
            all == UNION sets
            R == {p \in all \X all : \/ p[1].day < p[2].day
                                     \/ (p[1].day = p[2].day /\ p[1].acquired < p[2].acquired)}
<1>1. Reductions(s, sec) = Sorted(all, R) BY DEF Reductions, Ordered
<1>2. IsFiniteSet(E) /\ \A e \in E : IsEvent(e) /\ e.day \in D
  <2>1. IsFiniteSet(s.log) /\ \A e \in s.log : IsEvent(e) /\ e.day \in D BY DEF Typed
  <2>. QED BY <2>1, FS_Subset
<1>. HIDE DEF E
<1>3. ASSUME NEW e \in E PROVE IsFiniteSet(F(e)) /\ F(e) \in SUBSET Sheds(D)
  <2>1. IsFiniteSet(e.sheds) /\ \A r \in e.sheds : {r.day, r.value} \subseteq Nat
    BY <1>2 DEF IsEvent
  <2>. DEFINE T == F(e)
              f == [r \in e.sheds |-> shed(e, r)]
  <2>2. f \in [e.sheds -> T] /\ \A y \in T : \E r \in e.sheds : f[r] = y OBVIOUS
  <2>3. T \in SUBSET Sheds(D) BY <1>2, <2>1 DEF Sheds
  <2>. HIDE DEF f, T
  <2>4. IsFiniteSet(T) BY <2>1, <2>2, ImageFinite
  <2>. QED BY <2>3, <2>4 DEF T
<1>4. IsFiniteSet(sets)
  <2>. DEFINE f == [e \in E |-> F(e)]
  <2>1. f \in [E -> sets] /\ \A y \in sets : \E e \in E : f[e] = y OBVIOUS
  <2>. HIDE DEF f, sets
  <2>. QED BY <1>2, <2>1, ImageFinite
<1>5. \A T \in sets : IsFiniteSet(T) /\ T \in SUBSET Sheds(D) BY <1>3
<1>6. \A a, b \in all : <<a, b>> \in R <=>
        \/ a.day < b.day
        \/ (a.day = b.day /\ a.acquired < b.acquired)
  OBVIOUS
<1>. HIDE DEF sets
<1>7. IsFiniteSet(all) BY <1>4, <1>5, FS_UNION
<1>8. all \in SUBSET Sheds(D) BY <1>5
<1>. HIDE DEF all, R
<1>9. \A a \in all : a.day \in Int /\ a.acquired \in Int
  <2>1. \A a \in all : a.day \in D /\ a.acquired \in Nat BY <1>8 DEF Sheds
  <2>2. \A a \in all : a.day \in Nat BY <2>1
  <2>. QED BY <2>1, <2>2
<1>10. StrictOn(R, all) BY <1>6, <1>9 DEF StrictOn
<1>11. Enumerates(Sorted(all, R), all) BY <1>7, <1>10, SortedEnumerates
<1>12. Sorted(all, R) \in Seq(all) BY <1>11 DEF Enumerates
<1>13. Sorted(all, R) \in Seq(Sheds(D)) BY <1>8, <1>12, SeqMonotonic
<1>. QED BY <1>1, <1>13

LEMMA UnitsOfViews ==
  ASSUME NEW s, NEW ledger, NEW sec, NEW day, NEW shed, NEW folios
  PROVE  Positions(s, ledger, sec, day, shed, folios).units
           = OwnedUnits(s, ledger, sec, day, shed)
               + SnapshotUnits(s, sec, folios \ Owned(ledger, sec))
BY DEF Positions, SumOver, OwnedUnits, SnapshotUnits, FolioRows, SomeDays

LEMMA UnitsNow ==
  ASSUME NEW s, NEW sec
  PROVE  CurrentUnits(s, sec)
           = LET ledger == ProjectedTransactions(s)
             IN Most(0, NetUnits(RowsOf(ledger, sec, NoFolio))
                        + SnapshotUnits(s, sec, Snapshots(s, sec) \ Owned(ledger, sec)))
BY DEF CurrentUnits, SumOver, SnapshotUnits, Unledgered

(* The detail of a holding and the chart's last point, netted.             *)
LEMMA ValuedUnits ==
  ASSUME IInv, Typed(store, DaysOf(here)), NEW sec
  PROVE  LET ledger == ProjectedTransactions(store)
             net == NetUnits(RowsOf(ledger, sec, NoFolio))
         IN /\ net \in Int
            /\ HoldingExtras(store, sec, Horizon).units
                 = net + SnapshotUnits(store, sec, Snapshots(store, sec) \ Owned(ledger, sec))
            /\ SeriesPoint(store, sec, Horizon).units = net + SnapshotUnits(store, sec, {})
<1>. DEFINE D == DaysOf(here)
            ledger == ProjectedTransactions(store)
            net == NetUnits(RowsOf(ledger, sec, NoFolio))
            shed == Reductions(store, sec)
<1>1. world \in DOMAIN Worlds BY DEF IInv
<1>2. D \in SUBSET Nat /\ \A d \in D : d <= Horizon BY <1>1, DaysEnd
<1>3. HoldingExtras(store, sec, Horizon)
        = Positions(store, ledger, sec, Horizon, shed, Snapshots(store, sec))
  BY DEF HoldingExtras, PositionsAsOf
<1>4. SeriesPoint(store, sec, Horizon) = Positions(store, ledger, sec, Horizon, <<>>, {})
  BY DEF SeriesPoint, PositionsAsOf
<1>. HIDE DEF D, ledger, shed
<1>5. ledger \in Seq(Rows(D)) BY <1>2, TypedLedger DEF D, ledger
<1>6. net \in Int
  <2>1. RowsOf(ledger, sec, NoFolio) \in Seq(Rows(D)) BY <1>5, PickedPlaced DEF RowsOf, Keep
  <2>. QED BY <2>1, NetIsInt
<1>7. shed \in Seq(Sheds(D)) BY <1>2, ReductionsIn DEF D, shed
<1>8. <<>> \in Seq(Sheds(D)) BY EmptySeq
<1>9. OwnedUnits(store, ledger, sec, Horizon, shed) = net BY <1>2, <1>5, <1>7, NetByFolio
<1>10. OwnedUnits(store, ledger, sec, Horizon, <<>>) = net BY <1>2, <1>5, <1>8, NetByFolio
<1>. HIDE DEF net
<1>11. HoldingExtras(store, sec, Horizon).units
         = net + SnapshotUnits(store, sec, Snapshots(store, sec) \ Owned(ledger, sec))
  BY <1>3, <1>9, UnitsOfViews
<1>12. SeriesPoint(store, sec, Horizon).units
         = net + SnapshotUnits(store, sec, {} \ Owned(ledger, sec))
  BY <1>4, <1>10, UnitsOfViews
<1>13. {} \ Owned(ledger, sec) = {} OBVIOUS
<1>. QED BY <1>6, <1>11, <1>12, <1>13 DEF net, ledger

LEMMA WorthOfMost ==
  ASSUME NEW n \in Int, NEW sec, NEW day
  PROVE  Worth(Most(0, n), sec, day) = Worth(n, sec, day)
<1>1. CASE 0 < n BY <1>1 DEF Most
<1>2. CASE ~(0 < n)
  <2>1. Most(0, n) = 0 BY <1>2 DEF Most
  <2>2. Worth(0, sec, day) = 0 BY DEF Worth
  <2>3. Worth(n, sec, day) = 0 BY <1>2 DEF Worth
  <2>. QED BY <2>1, <2>2, <2>3
<1>. QED BY <1>1, <1>2

(* A holding is valued at the units its invested capital is computed from, *)
(* and the chart ends at that value: the netting of a security's ledger at *)
(* once (_current_folio_units) and FIFO folio by folio over what happened  *)
(* up to today (_holding_extras, _value_series) add up to the same, with   *)
(* mergers, demergers, oversold folios and rows of no folio.               *)
THEOREM ValuedAsHeld == Spec => []ValuedAsInvested
<1>1. IInv /\ Typed(store, DaysOf(here)) => ValuedAsInvested
  <2>. SUFFICES ASSUME IInv, Typed(store, DaysOf(here)) PROVE ValuedAsInvested
    OBVIOUS
  <2>. DEFINE ledger == ProjectedTransactions(store)
              net(sec) == NetUnits(RowsOf(ledger, sec, NoFolio))
              alone(sec) == Snapshots(store, sec) \ Owned(ledger, sec)
              kept(sec) == SnapshotUnits(store, sec, alone(sec))
              now(sec) == CurrentUnits(store, sec)
              last(sec) == SeriesPoint(store, sec, Horizon).units
  <2>1. \A sec : /\ net(sec) \in Int
                 /\ HoldingExtras(store, sec, Horizon).units = net(sec) + kept(sec)
                 /\ last(sec) = net(sec) + SnapshotUnits(store, sec, {})
    BY ValuedUnits
  <2>2. \A sec : now(sec) = Most(0, net(sec) + kept(sec)) BY UnitsNow
  <2>3. \A sec : alone(sec) = Unledgered(store, ledger, sec) BY DEF Unledgered
  <2>. HIDE DEF net, kept, now, last, alone
  <2>4. \A sec \in Securities :
          CurrentUnits(store, sec) = Most(0, HoldingExtras(store, sec, Horizon).units)
    BY <2>1, <2>2 DEF now
  <2>5. ASSUME AllLedgered
        PROVE  ValueSeries(store, Horizon)
                 = SumOver(Securities, LAMBDA sec : Worth(CurrentUnits(store, sec), sec, Horizon))
    <3>1. \A sec : SnapshotUnits(store, sec, {}) = 0
      <4>. SUFFICES ASSUME NEW sec PROVE SnapshotUnits(store, sec, {}) = 0 OBVIOUS
      <4>. DEFINE f == [x \in {} |-> store.holdings[x, sec]]
      <4>1. SnapshotUnits(store, sec, {}) = SumFunction(f) /\ DOMAIN f = {}
        BY DEF SnapshotUnits
      <4>. HIDE DEF f
      <4>. QED BY <4>1, SumEmpty DEF SumFunction
    <3>2. ASSUME NEW sec \in Securities
          PROVE  Worth(last(sec), sec, Horizon) = Worth(now(sec), sec, Horizon)
      <4>1. alone(sec) = {} BY <2>3, <2>5 DEF AllLedgered, ledger
      <4>2. kept(sec) = 0 BY <3>1, <4>1 DEF kept
      <4>3. last(sec) = net(sec) /\ now(sec) = Most(0, net(sec)) /\ net(sec) \in Int
        BY <2>1, <2>2, <3>1, <4>2
      <4>. QED BY <4>3, WorthOfMost
    <3>3. [sec \in Securities |-> Worth(last(sec), sec, Horizon)]
            = [sec \in Securities |-> Worth(now(sec), sec, Horizon)]
      BY <3>2
    <3>4. ValueSeries(store, Horizon)
            = SumFunction([sec \in Securities |-> Worth(last(sec), sec, Horizon)])
      BY DEF ValueSeries, SumOver, last
    <3>5. SumOver(Securities, LAMBDA sec : Worth(CurrentUnits(store, sec), sec, Horizon))
            = SumFunction([sec \in Securities |-> Worth(now(sec), sec, Horizon)])
      BY DEF SumOver, now
    <3>. QED BY <3>3, <3>4, <3>5
  <2>. QED BY <2>4, <2>5 DEF ValuedAsInvested
<1>. QED BY <1>1, AmountsInvariant, PTL

-----------------------------------------------------------------------------
(* What Sorted makes is in order.                                          *)
LEMMA SortedInOrder ==
  ASSUME NEW S, IsFiniteSet(S), NEW R, StrictOn(R, S)
  PROVE  InOrder(Sorted(S, R), R)
<1>. DEFINE L(T) == Loop("sort", R, <<>>, T)
            Good == {T \in SUBSET S : InOrder(L(T), R) /\ Enumerates(L(T), T)}
<1>1. ASSUME NEW T \in SUBSET S, \A U \in SUBSET T : U # T => U \in Good
      PROVE  T \in Good
  <2>1. CASE T = {}
    <3>1. L(T) = <<>> BY <2>1, LoopEmpty
    <3>2. <<>> \in Seq({}) /\ DOMAIN <<>> = {} OBVIOUS
    <3>3. Enumerates(<<>>, {}) /\ InOrder(<<>>, R) BY <3>2 DEF Enumerates, InOrder
    <3>. QED BY <2>1, <3>1, <3>3
  <2>2. CASE T # {}
    <3>. DEFINE x == Pick("sort", R, T)
                rest == L(T \ {x})
                all == <<x>> \o rest
    <3>1. IsFiniteSet(T) /\ StrictOn(R, T) BY FS_Subset DEF StrictOn
    <3>2. Picks("sort", R, T) BY <3>1, SortPicks
    <3>3. x \in T BY <2>2, <3>2 DEF Picks
    <3>4. InOrder(rest, R) /\ Enumerates(rest, T \ {x}) BY <3>3, <1>1
    <3>5. L(T) = Body("sort", R, x, rest) BY <2>2, <3>1, <3>2, LoopStep
    <3>6. L(T) = all BY <3>5 DEF Body
    <3>7. \A y \in T : <<y, x>> \notin R
      <4>1. \E z \in T : \A y \in T : <<y, z>> \notin R BY <2>2, <3>1, FirstElement
      <4>. QED BY <4>1 DEF Pick
    <3>. HIDE DEF x, rest
    <3>8. Enumerates(all, T) BY <3>3, <3>4, ConsEnumerates
    <3>9. rest \in Seq(T \ {x}) BY <3>4 DEF Enumerates
    <3>10. /\ DOMAIN rest = 1 .. Len(rest) /\ Len(rest) \in Nat
           /\ \A i \in 1 .. Len(rest) : rest[i] \in T \ {x}
      BY <3>9, LenProperties, ElementOfSeq
    <3>11. /\ DOMAIN all = 1 .. Len(rest) + 1
           /\ \A i \in 1 .. Len(rest) + 1 : all[i] = IF i = 1 THEN x ELSE rest[i - 1]
      <4>1. rest \in Seq(T) /\ <<x>> \in Seq(T) /\ Len(<<x>>) = 1 /\ <<x>>[1] = x
        <5>1. T \ {x} \subseteq T OBVIOUS
        <5>2. rest \in Seq(T) BY <3>9, <5>1, SeqMonotonic
        <5>. QED BY <3>3, <5>2
      <4>2. /\ all \in Seq(T) /\ Len(all) = 1 + Len(rest)
            /\ \A i \in 1 .. 1 + Len(rest) : all[i] = IF i <= 1 THEN <<x>>[i] ELSE rest[i - 1]
        BY <4>1, ConcatProperties
      <4>3. DOMAIN all = 1 .. Len(all) BY <4>2, LenProperties
      <4>. HIDE DEF all
      <4>. QED BY <3>10, <4>1, <4>2, <4>3
    <3>. HIDE DEF all
    <3>12. ASSUME NEW i \in DOMAIN all, NEW j \in DOMAIN all, i < j
           PROVE  <<all[j], all[i]>> \notin R
      <4>1. i \in 1 .. Len(rest) + 1 /\ j \in 1 .. Len(rest) + 1 BY <3>11
      <4>2. j - 1 \in 1 .. Len(rest) /\ all[j] = rest[j - 1] BY <3>10, <3>11, <3>12, <4>1
      <4>3. CASE i = 1
        <5>1. rest[j - 1] \in T BY <3>10, <4>2
        <5>. QED BY <3>7, <3>11, <4>1, <4>2, <4>3, <5>1
      <4>4. CASE i # 1
        <5>1. i - 1 \in 1 .. Len(rest) /\ all[i] = rest[i - 1] /\ i - 1 < j - 1
          BY <3>10, <3>11, <3>12, <4>1, <4>4
        <5>. QED BY <3>4, <3>10, <4>2, <5>1 DEF InOrder
      <4>. QED BY <4>3, <4>4
    <3>13. InOrder(all, R) BY <3>12 DEF InOrder
    <3>. QED BY <3>6, <3>8, <3>13
  <2>. QED BY <2>1, <2>2
<1>. HIDE DEF Good
<1>2. \A T \in SUBSET S : T \in Good BY <1>1, SubsetInduction
<1>3. InOrder(L(S), R) BY <1>2 DEF Good
<1>. QED BY <1>3, SortLoop

LEMMA PlacesRise ==
  ASSUME NEW P \in SUBSET Nat, IsFiniteSet(P)
  PROVE  Enumerates(Ordered(P, <), P) /\ Rising(Ordered(P, <))
<1>. DEFINE R == {p \in P \X P : p[1] < p[2]}
            order == Ordered(P, <)
<1>1. \A x, y \in P : <<x, y>> \in R <=> x < y OBVIOUS
<1>2. order = Sorted(P, R) BY DEF Ordered
<1>. HIDE DEF R
<1>3. StrictOn(R, P) BY <1>1 DEF StrictOn
<1>4. Enumerates(Sorted(P, R), P) BY <1>3, SortedEnumerates
<1>5. InOrder(Sorted(P, R), R) BY <1>3, SortedInOrder
<1>. HIDE DEF order
<1>6. order \in Seq(P) BY <1>2, <1>4 DEF Enumerates
<1>7. DOMAIN order = 1 .. Len(order) /\ Len(order) \in Nat BY <1>6, LenProperties
<1>8. \A i \in DOMAIN order : order[i] \in P BY <1>6, <1>7, ElementOfSeq
<1>9. ASSUME NEW i \in DOMAIN order, NEW j \in DOMAIN order, i < j
      PROVE  order[i] < order[j]
  <2>1. <<order[j], order[i]>> \notin R BY <1>2, <1>5, <1>9 DEF InOrder
  <2>2. ~(order[j] < order[i]) BY <1>1, <1>8, <2>1
  <2>3. order[i] # order[j] BY <1>2, <1>4, <1>7, <1>9 DEF Enumerates
  <2>4. order[i] \in Nat /\ order[j] \in Nat BY <1>8
  <2>. QED BY <2>2, <2>3, <2>4
<1>10. ASSUME NEW i \in DOMAIN order, NEW j \in DOMAIN order, order[i] < order[j]
       PROVE  i < j
  <2>1. /\ i \in Nat /\ j \in Nat
        /\ order[i] \in Nat /\ order[j] \in Nat
    <3>1. i \in 1 .. Len(order) /\ j \in 1 .. Len(order) BY <1>7
    <3>2. order[i] \in P /\ order[j] \in P BY <1>8
    <3>3. \A x \in P : x \in Nat OBVIOUS
    <3>4. order[i] \in Nat /\ order[j] \in Nat BY <3>2, <3>3
    <3>. QED BY <3>1, <3>4, <1>7
  <2>2. CASE j < i
    <3>1. order[j] < order[i] BY <1>9, <2>2
    <3>. QED BY <1>10, <2>1, <3>1
  <2>3. CASE j = i BY <1>10, <2>1, <2>3
  <2>. QED BY <2>1, <2>2, <2>3
<1>11. Rising(order) BY <1>9, <1>10 DEF Rising
<1>12. Enumerates(order, P) BY <1>2, <1>4
<1>. QED BY <1>11, <1>12 DEF order

(* The events replayed come in the order of their ex-dates.                *)
LEMMA EventsInOrder ==
  ASSUME NEW events, IsFiniteSet(events), \A e \in events : IsEvent(e)
  PROVE  LET q == InExDateOrder(events)
         IN /\ Enumerates(q, events)
            /\ \A i, j \in DOMAIN q : i < j => ~Earlier(q[j], q[i])
<1>. DEFINE R == {p \in events \X events : Earlier(p[1], p[2])}
            q == InExDateOrder(events)
<1>1. \A kind \in DOMAIN EventOrder : EventOrder[kind] \in Int BY DEF EventOrder
<1>2. \A e \in events : e.day \in Int /\ e.ref \in Int /\ EventOrder[e.kind] \in Int
  BY <1>1 DEF IsEvent
<1>3. \A a, b \in events : <<a, b>> \in R <=> Earlier(a, b) OBVIOUS
<1>4. q = Sorted(events, R) BY DEF InExDateOrder, Ordered
<1>. HIDE DEF R
<1>5. StrictOn(R, events)
  <2>1. \A a \in events : <<a, a>> \notin R BY <1>2, <1>3 DEF Earlier
  <2>2. \A a, b, c \in events : (<<a, b>> \in R /\ <<b, c>> \in R) => <<a, c>> \in R
    BY <1>2, <1>3 DEF Earlier
  <2>. QED BY <2>1, <2>2 DEF StrictOn
<1>. HIDE DEF q
<1>6. Enumerates(q, events) /\ InOrder(q, R)
  BY <1>4, <1>5, SortedEnumerates, SortedInOrder
<1>7. q \in Seq(events) BY <1>6 DEF Enumerates
<1>8. \A i \in DOMAIN q : q[i] \in events BY <1>7, LenProperties, ElementOfSeq
<1>9. \A i, j \in DOMAIN q : i < j => ~Earlier(q[j], q[i]) BY <1>3, <1>6, <1>8 DEF InOrder
<1>. QED BY <1>6, <1>9 DEF q

LEMMA AlikeSelf ==
  ASSUME NEW L, NEW K, NEW R
  PROVE  Alike(L, L, K, R)
<1>. DEFINE f == [k \in DOMAIN L |-> k]
<1>1. Matches(f, f, L, L, K) BY DEF Matches, PlacesIn
<1>. QED BY <1>1 DEF Alike, SameRefs

LEMMA AlikeSymmetric ==
  ASSUME NEW L, NEW M, NEW K, NEW R, Alike(L, M, K, R)
  PROVE  Alike(M, L, K, R)
<1>1. PICK f, g : Matches(f, g, L, M, K) BY DEF Alike
<1>2. Matches(g, f, M, L, K) BY <1>1 DEF Matches
<1>. QED BY <1>2 DEF Alike, SameRefs

LEMMA AlikeTransitive ==
  ASSUME NEW L, NEW M, NEW N, NEW K, NEW R, Alike(L, M, K, R), Alike(M, N, K, R)
  PROVE  Alike(L, N, K, R)
<1>1. PICK f, g : Matches(f, g, L, M, K) BY DEF Alike
<1>2. PICK p, q : Matches(p, q, M, N, K) BY DEF Alike
<1>. DEFINE to == [k \in PlacesIn(L, K) |-> p[f[k]]]
            from == [j \in PlacesIn(N, K) |-> g[q[j]]]
<1>3. Matches(to, from, L, N, K) BY <1>1, <1>2 DEF Matches
<1>4. SameRefs(L, N, R) BY DEF Alike, SameRefs
<1>. QED BY <1>3, <1>4 DEF Alike

(* The same change to the same rows; a change that leaves K alone.         *)
LEMMA ChangedAlike ==
  ASSUME NEW L, NEW M, NEW K, NEW R, Alike(L, M, K, R),
         NEW L2, DOMAIN L2 = DOMAIN L, NEW M2, DOMAIN M2 = DOMAIN M,
         \A k \in DOMAIN L : L2[k].sec \in K => L[k].sec \in K,
         \A k \in DOMAIN M : M2[k].sec \in K => M[k].sec \in K,
         \A k \in DOMAIN L, j \in DOMAIN M : L[k].sec \in K /\ L[k] = M[j] => L2[k] = M2[j],
         SameRefs(L2, M2, R)
  PROVE  Alike(L2, M2, K, R)
<1>1. PICK f, g : Matches(f, g, L, M, K) BY DEF Alike
<1>2. PlacesIn(L2, K) \subseteq PlacesIn(L, K) /\ PlacesIn(M2, K) \subseteq PlacesIn(M, K)
  BY DEF PlacesIn
<1>3. ASSUME NEW k \in PlacesIn(L2, K)
      PROVE  f[k] \in PlacesIn(M2, K) /\ M2[f[k]] = L2[k] /\ g[f[k]] = k
  <2>1. k \in PlacesIn(L, K) BY <1>2
  <2>2. f[k] \in PlacesIn(M, K) /\ M[f[k]] = L[k] /\ g[f[k]] = k BY <1>1, <2>1 DEF Matches
  <2>3. k \in DOMAIN L /\ f[k] \in DOMAIN M /\ L[k].sec \in K BY <2>1, <2>2 DEF PlacesIn
  <2>4. M2[f[k]] = L2[k] BY <2>2, <2>3
  <2>. QED BY <2>2, <2>3, <2>4 DEF PlacesIn
<1>4. ASSUME NEW j \in PlacesIn(M2, K)
      PROVE  g[j] \in PlacesIn(L2, K) /\ f[g[j]] = j
  <2>1. j \in PlacesIn(M, K) BY <1>2
  <2>2. g[j] \in PlacesIn(L, K) /\ f[g[j]] = j BY <1>1, <2>1 DEF Matches
  <2>3. M[j] = L[g[j]] BY <1>1, <2>2 DEF Matches
  <2>4. j \in DOMAIN M /\ g[j] \in DOMAIN L /\ L[g[j]].sec \in K BY <2>1, <2>2 DEF PlacesIn
  <2>5. M2[j] = L2[g[j]] BY <2>3, <2>4
  <2>. QED BY <2>2, <2>4, <2>5 DEF PlacesIn
<1>5. Matches(f, g, L2, M2, K) BY <1>3, <1>4 DEF Matches
<1>. QED BY <1>5 DEF Alike

LEMMA OutsideChanged ==
  ASSUME NEW L, NEW L2, DOMAIN L2 = DOMAIN L, NEW K, NEW R,
         \A k \in DOMAIN L : IF L[k].sec \in K THEN L2[k] = L[k] ELSE L2[k].sec \notin K,
         SameRefs(L2, L, R)
  PROVE  Alike(L2, L, K, R)
<1>. DEFINE f == [k \in DOMAIN L |-> k]
<1>1. PlacesIn(L2, K) = PlacesIn(L, K) BY DEF PlacesIn
<1>2. \A k \in PlacesIn(L, K) : f[k] = k /\ L2[k] = L[k] BY DEF PlacesIn
<1>. HIDE DEF f
<1>3. Matches(f, f, L2, L, K) BY <1>1, <1>2 DEF Matches
<1>. QED BY <1>3 DEF Alike

(* A row more: the same on both, or one of another security.               *)
LEMMA AppendedRef ==
  ASSUME NEW S, NEW L \in Seq(S), NEW t \in S, NEW r
  PROVE  HasRef(Append(L, t), r) <=> HasRef(L, r) \/ t.ref = r
<1>. DEFINE M == Append(L, t)
            n == Len(L)
<1>1. /\ n \in Nat /\ DOMAIN L = 1 .. n /\ DOMAIN M = 1 .. n + 1
      /\ \A k \in DOMAIN L : M[k] = L[k]
      /\ M[n + 1] = t
  BY Appended
<1>. HIDE DEF M, n
<1>2. \A k \in DOMAIN M : k \in DOMAIN L \/ k = n + 1 BY <1>1
<1>3. \A k \in DOMAIN L : k \in DOMAIN M BY <1>1
<1>4. n + 1 \in DOMAIN M BY <1>1
<1>5. HasRef(M, r) <=> HasRef(L, r) \/ t.ref = r BY <1>1, <1>2, <1>3, <1>4 DEF HasRef
<1>. QED BY <1>5 DEF M

LEMMA AppendedAlike ==
  ASSUME NEW S, NEW L \in Seq(S), NEW M \in Seq(S), NEW K, NEW R, Alike(L, M, K, R), NEW t \in S
  PROVE  Alike(Append(L, t), Append(M, t), K, R)
<1>. DEFINE L2 == Append(L, t)
            M2 == Append(M, t)
            l == Len(L)
            m == Len(M)
<1>1. /\ l \in Nat /\ DOMAIN L = 1 .. l /\ DOMAIN L2 = 1 .. l + 1
      /\ \A k \in DOMAIN L : L2[k] = L[k]
      /\ L2[l + 1] = t
  BY Appended
<1>2. /\ m \in Nat /\ DOMAIN M = 1 .. m /\ DOMAIN M2 = 1 .. m + 1
      /\ \A k \in DOMAIN M : M2[k] = M[k]
      /\ M2[m + 1] = t
  BY Appended
<1>3. SameRefs(L2, M2, R) BY AppendedRef DEF Alike, SameRefs
<1>4. PICK f, g : Matches(f, g, L, M, K) BY DEF Alike
<1>. HIDE DEF L2, M2, l, m
<1>. DEFINE to == [k \in DOMAIN L2 |-> IF k = l + 1 THEN m + 1 ELSE f[k]]
            from == [j \in DOMAIN M2 |-> IF j = m + 1 THEN l + 1 ELSE g[j]]
<1>5. /\ \A k \in DOMAIN L2 : k = l + 1 \/ (k # l + 1 /\ k \in DOMAIN L)
      /\ \A j \in DOMAIN M2 : j = m + 1 \/ (j # m + 1 /\ j \in DOMAIN M)
      /\ l + 1 \in DOMAIN L2 /\ m + 1 \in DOMAIN M2
      /\ \A k \in DOMAIN L : k \in DOMAIN L2 /\ k # l + 1
      /\ \A j \in DOMAIN M : j \in DOMAIN M2 /\ j # m + 1
  BY <1>1, <1>2
<1>6. ASSUME NEW k \in PlacesIn(L2, K)
      PROVE  to[k] \in PlacesIn(M2, K) /\ M2[to[k]] = L2[k] /\ from[to[k]] = k
  <2>1. k \in DOMAIN L2 /\ L2[k].sec \in K BY DEF PlacesIn
  <2>2. CASE k = l + 1
    <3>1. to[k] = m + 1 /\ from[m + 1] = l + 1 BY <1>5, <2>1, <2>2
    <3>. QED BY <1>1, <1>2, <1>5, <2>1, <2>2, <3>1 DEF PlacesIn
  <2>3. CASE k # l + 1
    <3>1. k \in DOMAIN L /\ L2[k] = L[k] BY <1>1, <1>5, <2>1, <2>3
    <3>2. k \in PlacesIn(L, K) BY <2>1, <3>1 DEF PlacesIn
    <3>3. f[k] \in PlacesIn(M, K) /\ M[f[k]] = L[k] /\ g[f[k]] = k BY <1>4, <3>2 DEF Matches
    <3>4. f[k] \in DOMAIN M BY <3>3 DEF PlacesIn
    <3>5. f[k] \in DOMAIN M2 /\ f[k] # m + 1 /\ M2[f[k]] = M[f[k]] BY <1>2, <1>5, <3>4
    <3>6. to[k] = f[k] /\ from[f[k]] = k BY <2>1, <2>3, <3>3, <3>5
    <3>. QED BY <2>1, <3>1, <3>3, <3>5, <3>6 DEF PlacesIn
  <2>. QED BY <2>2, <2>3
<1>7. ASSUME NEW j \in PlacesIn(M2, K)
      PROVE  from[j] \in PlacesIn(L2, K) /\ to[from[j]] = j
  <2>1. j \in DOMAIN M2 /\ M2[j].sec \in K BY DEF PlacesIn
  <2>2. CASE j = m + 1
    <3>1. from[j] = l + 1 /\ to[l + 1] = m + 1 BY <1>5, <2>1, <2>2
    <3>. QED BY <1>1, <1>2, <1>5, <2>1, <2>2, <3>1 DEF PlacesIn
  <2>3. CASE j # m + 1
    <3>1. j \in DOMAIN M /\ M2[j] = M[j] BY <1>2, <1>5, <2>1, <2>3
    <3>2. j \in PlacesIn(M, K) BY <2>1, <3>1 DEF PlacesIn
    <3>3. g[j] \in PlacesIn(L, K) /\ f[g[j]] = j BY <1>4, <3>2 DEF Matches
    <3>4. g[j] \in DOMAIN L /\ L[g[j]].sec \in K BY <3>3 DEF PlacesIn
    <3>5. g[j] \in DOMAIN L2 /\ g[j] # l + 1 /\ L2[g[j]] = L[g[j]] BY <1>1, <1>5, <3>4
    <3>6. from[j] = g[j] /\ to[g[j]] = j BY <2>1, <2>3, <3>3, <3>5
    <3>. QED BY <3>4, <3>5, <3>6 DEF PlacesIn
  <2>. QED BY <2>2, <2>3
<1>. HIDE DEF to, from
<1>8. Matches(to, from, L2, M2, K) BY <1>6, <1>7 DEF Matches
<1>9. Alike(L2, M2, K, R) BY <1>3, <1>8 DEF Alike
<1>. QED BY <1>9 DEF L2, M2

LEMMA AppendedOutside ==
  ASSUME NEW S, NEW L \in Seq(S), NEW t \in S, NEW K, t.sec \notin K, NEW R, t.ref \notin R
  PROVE  Alike(Append(L, t), L, K, R)
<1>. DEFINE L2 == Append(L, t)
            l == Len(L)
            f == [k \in DOMAIN L |-> k]
<1>1. /\ l \in Nat /\ DOMAIN L = 1 .. l /\ DOMAIN L2 = 1 .. l + 1
      /\ \A k \in DOMAIN L : L2[k] = L[k]
      /\ L2[l + 1] = t
  BY Appended
<1>2. SameRefs(L2, L, R) BY AppendedRef DEF SameRefs
<1>. HIDE DEF L2, l
<1>3. PlacesIn(L2, K) = PlacesIn(L, K)
  <2>1. \A k \in DOMAIN L2 : k = l + 1 \/ k \in DOMAIN L BY <1>1
  <2>2. \A k \in DOMAIN L : k \in DOMAIN L2 BY <1>1
  <2>. QED BY <1>1, <2>1, <2>2 DEF PlacesIn
<1>4. \A k \in PlacesIn(L, K) : f[k] = k /\ L2[k] = L[k] BY <1>1 DEF PlacesIn
<1>. HIDE DEF f
<1>5. Matches(f, f, L2, L, K) BY <1>3, <1>4 DEF Matches
<1>6. Alike(L2, L, K, R) BY <1>2, <1>5 DEF Alike
<1>. QED BY <1>6 DEF L2

LEMMA PlacedUnits ==
  ASSUME NEW D, NEW L \in Seq(Rows(D)), NEW P \in SUBSET DOMAIN L,
         NEW order, Enumerates(order, P), NEW Q \in SUBSET DOMAIN order, NEW T \in SUBSET P,
         \A i \in DOMAIN order : i \in Q <=> order[i] \in T
  PROVE  UnitsIn(Placed(L, order), Q) = UnitsIn(L, T)
<1>. DEFINE M == Placed(L, order)
            f == [k \in DOMAIN L |-> Signed(L[k])]
            g == [k \in DOMAIN M |-> Signed(M[k])]
<1>1. order \in Seq(P) BY DEF Enumerates
<1>2. \A k \in DOMAIN L : L[k] \in Rows(D) BY LenProperties, ElementOfSeq
<1>3. \A k \in DOMAIN L : Signed(L[k]) \in Int BY <1>2, RowFields
<1>4. IsFiniteSet(P) BY PickedPlaced
<1>5. DOMAIN order = 1 .. Len(order) /\ Len(order) \in Nat BY <1>1, LenProperties
<1>6. IsFiniteSet(1 .. Len(order)) BY <1>5, FS_Interval
<1>7. IsFiniteSet(Q) /\ IsFiniteSet(T) BY <1>4, <1>5, <1>6, FS_Subset
<1>8. DOMAIN M = DOMAIN order /\ \A i \in DOMAIN order : order[i] \in P /\ M[i] = L[order[i]]
  BY <1>1, PlacedIn
<1>. HIDE DEF M
<1>9. \A i \in Q : g[i] \in Int /\ order[i] \in T /\ f[order[i]] = g[i]
  BY <1>3, <1>8
<1>10. \A i, j \in Q : order[i] = order[j] => i = j BY DEF Enumerates
<1>11. \A k \in T : \E i \in Q : order[i] = k BY DEF Enumerates
<1>. HIDE DEF f, g
<1>12. SumFunctionOnSet(f, T) = SumFunctionOnSet(g, Q)
  BY <1>7, <1>9, <1>10, <1>11, SumRename
<1>. QED BY <1>12 DEF UnitsIn, f, g, M

LEMMA PickedNet ==
  ASSUME NEW D, NEW L \in Seq(Rows(D)), NEW P \in SUBSET DOMAIN L
  PROVE  NetUnits(Picked(L, P)) = UnitsIn(L, P)
<1>1. /\ IsFiniteSet(P) /\ Enumerates(Ordered(P, <), P)
      /\ Picked(L, P) = Placed(L, Ordered(P, <))
  BY PickedPlaced
<1>2. \A k \in DOMAIN L : Signed(L[k]) \in Int BY LenProperties, ElementOfSeq, RowFields
<1>. QED BY <1>1, <1>2, NetPlaced

LEMMA HeldIs ==
  ASSUME NEW D, NEW L \in Seq(Rows(D)), NEW sec, NEW folio, NEW day
  PROVE  HeldUnits(L, sec, folio, day) = UnitsIn(L, HeldPlaces(L, sec, folio, day))
<1>. DEFINE P == {k \in DOMAIN L : L[k].sec = sec /\ folio \in {NoFolio, L[k].folio}}
            M == Picked(L, P)
            Q == {i \in DOMAIN M : M[i].day < day}
            T == HeldPlaces(L, sec, folio, day)
<1>1. RowsOf(L, sec, folio) = M BY DEF RowsOf, Keep
<1>2. Before(M, day) = Picked(M, Q) BY DEF Before, Keep
<1>3. P \in SUBSET DOMAIN L /\ T \in SUBSET P BY DEF HeldPlaces
<1>4. \A k \in P : k \in T <=> L[k].day < day BY DEF HeldPlaces
<1>. HIDE DEF P, T
<1>5. PICK order : Enumerates(order, P) /\ M = Placed(L, order) /\ M \in Seq(Rows(D))
  BY <1>3, PickedPlaced
<1>6. order \in Seq(P) BY <1>5 DEF Enumerates
<1>. HIDE DEF M
<1>7. DOMAIN M = DOMAIN order /\ \A i \in DOMAIN order : order[i] \in P /\ M[i] = L[order[i]]
  BY <1>3, <1>5, <1>6, PlacedIn
<1>8. Q \in SUBSET DOMAIN order /\ \A i \in DOMAIN order : i \in Q <=> order[i] \in T
  BY <1>4, <1>7
<1>. HIDE DEF Q
<1>9. NetUnits(Picked(M, Q)) = UnitsIn(M, Q) BY <1>5, <1>7, <1>8, PickedNet
<1>10. UnitsIn(M, Q) = UnitsIn(L, T) BY <1>3, <1>5, <1>8, PlacedUnits
<1>. QED BY <1>1, <1>2, <1>9, <1>10 DEF HeldUnits, M, T

(* Alike ledgers hold the same and name the same folios.                   *)
LEMMA MatchedUnits ==
  ASSUME NEW D, NEW L \in Seq(Rows(D)), NEW M \in Seq(Rows(D)), NEW K, NEW f, NEW g,
         Matches(f, g, L, M, K), NEW P \in SUBSET PlacesIn(L, K), NEW Q \in SUBSET PlacesIn(M, K),
         \A k \in PlacesIn(L, K) : k \in P <=> f[k] \in Q
  PROVE  UnitsIn(L, P) = UnitsIn(M, Q)
<1>. DEFINE p == [k \in DOMAIN L |-> Signed(L[k])]
            q == [k \in DOMAIN M |-> Signed(M[k])]
<1>1. /\ P \in SUBSET DOMAIN L /\ Q \in SUBSET DOMAIN M BY DEF PlacesIn
<1>2. IsFiniteSet(P) /\ IsFiniteSet(Q) BY <1>1, PickedPlaced
<1>3. \A k \in DOMAIN L : Signed(L[k]) \in Int BY LenProperties, ElementOfSeq, RowFields
<1>4. \A k \in P : f[k] \in Q /\ f[k] \in DOMAIN M /\ M[f[k]] = L[k] /\ g[f[k]] = k
  BY <1>1 DEF Matches
<1>5. \A k \in P : p[k] \in Int /\ f[k] \in Q /\ q[f[k]] = p[k] BY <1>1, <1>3, <1>4
<1>6. \A j, k \in P : f[j] = f[k] => j = k BY <1>4
<1>7. \A j \in Q : \E k \in P : f[k] = j
  <2>. TAKE j \in Q
  <2>1. g[j] \in PlacesIn(L, K) /\ f[g[j]] = j BY DEF Matches
  <2>. QED BY <2>1
<1>. HIDE DEF p, q
<1>8. SumFunctionOnSet(q, Q) = SumFunctionOnSet(p, P) BY <1>2, <1>5, <1>6, <1>7, SumRename
<1>. QED BY <1>8 DEF UnitsIn, p, q

LEMMA HeldAlike ==
  ASSUME NEW D, NEW L \in Seq(Rows(D)), NEW M \in Seq(Rows(D)), NEW K, NEW R,
         Alike(L, M, K, R), NEW sec \in K, NEW folio, NEW day
  PROVE  HeldUnits(L, sec, folio, day) = HeldUnits(M, sec, folio, day)
<1>1. PICK f, g : Matches(f, g, L, M, K) BY DEF Alike
<1>. DEFINE P == HeldPlaces(L, sec, folio, day)
            Q == HeldPlaces(M, sec, folio, day)
<1>2. P \in SUBSET PlacesIn(L, K) /\ Q \in SUBSET PlacesIn(M, K) BY DEF HeldPlaces, PlacesIn
<1>3. \A k \in PlacesIn(L, K) : k \in P <=> f[k] \in Q
  BY <1>1 DEF Matches, HeldPlaces, PlacesIn
<1>. HIDE DEF P, Q
<1>4. UnitsIn(L, P) = UnitsIn(M, Q) BY <1>1, <1>2, <1>3, MatchedUnits
<1>. QED BY <1>4, HeldIs DEF P, Q

LEMMA NamedAlike ==
  ASSUME NEW L, NEW M, NEW K, NEW R, Alike(L, M, K, R), NEW sec \in K
  PROVE  /\ NamedFolios(L, sec) = NamedFolios(M, sec)
         /\ (\E k \in DOMAIN L : L[k].sec = sec) <=> (\E k \in DOMAIN M : M[k].sec = sec)
<1>1. PICK f, g : Matches(f, g, L, M, K) BY DEF Alike
<1>2. ASSUME NEW k \in DOMAIN L, L[k].sec = sec
      PROVE  f[k] \in DOMAIN M /\ M[f[k]] = L[k]
  BY <1>1, <1>2 DEF Matches, PlacesIn
<1>3. ASSUME NEW j \in DOMAIN M, M[j].sec = sec
      PROVE  g[j] \in DOMAIN L /\ L[g[j]] = M[j]
  BY <1>1, <1>3 DEF Matches, PlacesIn
<1>4. NamedFolios(L, sec) \subseteq NamedFolios(M, sec) BY <1>2 DEF NamedFolios
<1>5. NamedFolios(M, sec) \subseteq NamedFolios(L, sec) BY <1>3 DEF NamedFolios
<1>. QED BY <1>2, <1>3, <1>4, <1>5

(* Sorting a ledger moves its rows only.                                   *)
LEMMA ReorderedAlike ==
  ASSUME NEW L, NEW order, Enumerates(order, DOMAIN L), NEW K, NEW R
  PROVE  Alike(Placed(L, order), L, K, R)
<1>. DEFINE M == Placed(L, order)
            f == [i \in DOMAIN order |-> order[i]]
            g == [k \in DOMAIN L |-> CHOOSE i \in DOMAIN order : order[i] = k]
<1>1. order \in Seq(DOMAIN L) BY DEF Enumerates
<1>2. \A i \in DOMAIN order : order[i] \in DOMAIN L BY <1>1, LenProperties, ElementOfSeq
<1>3. DOMAIN M = DOMAIN order /\ \A i \in DOMAIN order : M[i] = L[order[i]] BY DEF Placed
<1>4. \A k \in DOMAIN L : g[k] \in DOMAIN order /\ order[g[k]] = k BY DEF Enumerates
<1>5. \A i \in DOMAIN order : f[i] = order[i] /\ g[order[i]] = i
  BY <1>2, <1>4 DEF Enumerates
<1>. HIDE DEF f, g, M
<1>6. Matches(f, g, M, L, K) BY <1>2, <1>3, <1>4, <1>5 DEF Matches, PlacesIn
<1>7. SameRefs(M, L, R) BY <1>2, <1>3, <1>4 DEF SameRefs, HasRef
<1>8. Alike(M, L, K, R) BY <1>6, <1>7 DEF Alike
<1>. QED BY <1>8 DEF M

LEMMA SortedAlike ==
  ASSUME NEW D \in SUBSET Nat, NEW L \in Seq(Rows(D)), NEW M \in Seq(Rows(D)), NEW K, NEW R,
         Alike(L, M, K, R)
  PROVE  /\ Alike(InTradingOrder(L), InTradingOrder(M), K, R)
         /\ Alike(InTradingOrder(L), M, K, R)
<1>1. Alike(InTradingOrder(L), L, K, R) BY TradingOrder, ReorderedAlike
<1>2. Alike(InTradingOrder(M), M, K, R) BY TradingOrder, ReorderedAlike
<1>3. Alike(InTradingOrder(L), M, K, R) BY <1>1, AlikeTransitive
<1>4. Alike(M, InTradingOrder(M), K, R) BY <1>2, AlikeSymmetric
<1>. QED BY <1>3, <1>4, AlikeTransitive

(* Rows for the members of a set, appended to both or of securities apart. *)
LEMMA AppendEachAlike ==
  ASSUME NEW S, NEW L \in Seq(S), NEW M \in Seq(S), NEW K, NEW R, Alike(L, M, K, R),
         NEW row, IsFiniteSet(DOMAIN row), \A x \in DOMAIN row : row[x] \in S
  PROVE  Alike(AppendEach(L, row), AppendEach(M, row), K, R)
<1>. DEFINE P == DOMAIN row
            A(T) == Loop("append", row, L, T)
            B(T) == Loop("append", row, M, T)
            Good == {T \in SUBSET P : A(T) \in Seq(S) /\ B(T) \in Seq(S) /\ Alike(A(T), B(T), K, R)}
<1>1. ASSUME NEW T \in SUBSET P, \A U \in SUBSET T : U # T => U \in Good
      PROVE  T \in Good
  <2>1. CASE T = {} BY <2>1, LoopEmpty
  <2>2. CASE T # {}
    <3>. DEFINE x == Pick("append", row, T)
                a == A(T \ {x})
                b == B(T \ {x})
    <3>1. IsFiniteSet(T) BY FS_Subset
    <3>2. Picks("append", row, T) BY SetLoopPicks
    <3>3. x \in T BY <2>2, <3>2 DEF Picks
    <3>4. T \ {x} \in Good BY <1>1, <3>3
    <3>5. A(T) = Body("append", row, x, a) BY <2>2, <3>1, <3>2, LoopStep
    <3>6. B(T) = Body("append", row, x, b) BY <2>2, <3>1, <3>2, LoopStep
    <3>7. A(T) = Append(a, row[x]) /\ B(T) = Append(b, row[x]) BY <3>5, <3>6 DEF Body
    <3>8. a \in Seq(S) /\ b \in Seq(S) /\ Alike(a, b, K, R) /\ row[x] \in S BY <3>3, <3>4
    <3>. DEFINE t == row[x]
    <3>. HIDE DEF a, b, x
    <3>9. t \in S BY <3>8
    <3>. HIDE DEF t
    <3>10. Append(a, t) \in Seq(S) /\ Append(b, t) \in Seq(S) BY <3>8, <3>9, AppendProperties
    <3>11. Alike(Append(a, t), Append(b, t), K, R) BY <3>8, <3>9, AppendedAlike
    <3>. QED BY <3>7, <3>10, <3>11 DEF t
  <2>. QED BY <2>1, <2>2
<1>. HIDE DEF Good
<1>2. \A T \in SUBSET P : T \in Good BY <1>1, SubsetInduction
<1>3. Alike(A(P), B(P), K, R) BY <1>2 DEF Good
<1>. QED BY <1>3, AppendLoop

LEMMA AppendEachOutside ==
  ASSUME NEW S, NEW L \in Seq(S), NEW K, NEW R, NEW row, IsFiniteSet(DOMAIN row),
         \A x \in DOMAIN row : row[x] \in S /\ row[x].sec \notin K /\ row[x].ref \notin R
  PROVE  Alike(AppendEach(L, row), L, K, R)
<1>. DEFINE Good == {M \in Seq(S) : Alike(M, L, K, R)}
<1>1. L \in Good BY AlikeSelf
<1>2. ASSUME NEW x \in DOMAIN row, NEW M \in Good
      PROVE  Body("append", row, x, M) \in Good
  <2>. DEFINE t == row[x]
  <2>1. Body("append", row, x, M) = Append(M, t) BY DEF Body
  <2>2. t \in S /\ t.sec \notin K /\ t.ref \notin R OBVIOUS
  <2>. HIDE DEF t
  <2>3. M \in Seq(S) /\ Alike(M, L, K, R) OBVIOUS
  <2>4. Append(M, t) \in Seq(S) BY <2>2, <2>3, AppendProperties
  <2>5. Alike(Append(M, t), M, K, R) BY <2>2, <2>3, AppendedOutside
  <2>6. Alike(Append(M, t), L, K, R) BY <2>3, <2>5, AlikeTransitive
  <2>. QED BY <2>1, <2>4, <2>6
<1>. HIDE DEF Good
<1>3. Loop("append", row, L, DOMAIN row) \in Good BY <1>1, <1>2, SetLoopPicks, LoopIn
<1>. QED BY <1>3, AppendLoop DEF Good

-----------------------------------------------------------------------------
(* An event of K, replayed over alike ledgers, leaves them alike.          *)
LEMMA ScaledAlike ==
  ASSUME NEW L, NEW M, NEW K, NEW R, Alike(L, M, K, R), NEW e
  PROVE  Alike(ScaleRows(L, e), ScaleRows(M, e), K, R)
<1>. DEFINE scaled(t) == [t EXCEPT !.units = (@ * e.num) \div e.den]
            moved(t) == IF t.sec = e.sec /\ t.day < e.day THEN scaled(t) ELSE t
            L2 == ScaleRows(L, e)
            M2 == ScaleRows(M, e)
<1>1. /\ DOMAIN L2 = DOMAIN L /\ \A k \in DOMAIN L : L2[k] = moved(L[k])
      /\ DOMAIN M2 = DOMAIN M /\ \A k \in DOMAIN M : M2[k] = moved(M[k])
  BY DEF ScaleRows
<1>2. \A t : scaled(t).sec = t.sec /\ scaled(t).ref = t.ref OBVIOUS
<1>. HIDE DEF scaled
<1>3. \A t : moved(t).sec = t.sec /\ moved(t).ref = t.ref BY <1>2
<1>. HIDE DEF moved, L2, M2
<1>4. SameRefs(L2, M2, R) BY <1>1, <1>3 DEF Alike, SameRefs, HasRef
<1>5. Alike(L2, M2, K, R) BY <1>1, <1>3, <1>4, ChangedAlike
<1>. QED BY <1>5 DEF L2, M2

LEMMA ScaledIn ==
  ASSUME NEW D, NEW L \in Seq(Rows(D)), NEW e, IsEvent(e)
  PROVE  ScaleRows(L, e) \in Seq(Rows(D))
<1>. DEFINE L2 == ScaleRows(L, e)
<1>1. L2 = [k \in DOMAIN L |-> L2[k]] BY DEF ScaleRows
<1>2. ASSUME NEW k \in DOMAIN L, L[k] \in Rows(D) PROVE L2[k] \in Rows(D)
  <2>1. [L[k] EXCEPT !.units = (@ * e.num) \div e.den] \in Rows(D)
    BY <1>2, RowScaled DEF IsEvent
  <2>. QED BY <1>2, <2>1 DEF ScaleRows
<1>. HIDE DEF L2
<1>3. L2 \in Seq(Rows(D)) BY <1>1, <1>2, RowsMapped
<1>. QED BY <1>3 DEF L2

LEMMA SplitAlike ==
  ASSUME NEW D, NEW L \in Seq(Rows(D)), NEW M \in Seq(Rows(D)), NEW K, NEW R,
         Alike(L, M, K, R), NEW e, IsEvent(e), e.day \in D, e.ref \in R
  PROVE  Alike(ApplySplit(L, e), ApplySplit(M, e), K, R)
<1>. DEFINE L2 == ScaleRows(L, e)
            M2 == ScaleRows(M, e)
            t == Marker(e, e.sec, "split")
<1>1. HasRef(L, e.ref) <=> HasRef(M, e.ref) BY DEF Alike, SameRefs
<1>2. L2 \in Seq(Rows(D)) /\ M2 \in Seq(Rows(D)) BY ScaledIn
<1>3. t \in Rows(D) BY EngineRowIn DEF Marker, RowTypes, IsEvent
<1>4. Alike(L2, M2, K, R) BY ScaledAlike
<1>5. ApplySplit(L, e) = IF HasRef(L, e.ref) THEN L ELSE Append(L2, t) BY DEF ApplySplit
<1>6. ApplySplit(M, e) = IF HasRef(M, e.ref) THEN M ELSE Append(M2, t) BY DEF ApplySplit
<1>. HIDE DEF L2, M2, t
<1>7. Alike(Append(L2, t), Append(M2, t), K, R) BY <1>2, <1>3, <1>4, AppendedAlike
<1>. QED BY <1>1, <1>5, <1>6, <1>7

LEMMA FractionAlike ==
  ASSUME NEW D, NEW L \in Seq(Rows(D)), NEW M \in Seq(Rows(D)), NEW K, NEW R,
         Alike(L, M, K, R), NEW e, IsEvent(e), e.day \in D, e.sec \in K
  PROVE  Alike(WithoutFraction(L, e), WithoutFraction(M, e), K, R)
<1>. DEFINE n == HeldUnits(L, e.sec, NoFolio, e.day) % Share
            t == EngineRow(e, e.sec, NoFolio, "sell", n, 0)
<1>1. HeldUnits(L, e.sec, NoFolio, e.day) = HeldUnits(M, e.sec, NoFolio, e.day) BY HeldAlike
<1>2. /\ WithoutFraction(L, e) = IF n = 0 THEN L ELSE Append(L, t)
      /\ WithoutFraction(M, e) = IF n = 0 THEN M ELSE Append(M, t)
  BY <1>1 DEF WithoutFraction
<1>3. n \in Nat BY HeldIsInt, Quotient, ShareAssumption
<1>. HIDE DEF n
<1>4. t \in Rows(D) BY <1>3, EngineRowIn DEF RowTypes, Outflows, IsEvent
<1>. HIDE DEF t
<1>5. Alike(Append(L, t), Append(M, t), K, R) BY <1>4, AppendedAlike
<1>. QED BY <1>2, <1>5

LEMMA BonusAlike ==
  ASSUME NEW D, NEW L \in Seq(Rows(D)), NEW M \in Seq(Rows(D)), NEW K, NEW R,
         Alike(L, M, K, R), NEW e, IsEvent(e), e.day \in D, e.sec \in K, e.ref \in R
  PROVE  Alike(ApplyBonus(L, e), ApplyBonus(M, e), K, R)
<1>. DEFINE named(N) == NamedFolios(N, e.sec)
            credited(N) == IF named(N) = {} THEN {NoFolio} ELSE named(N)
            held(N, f) == HeldUnits(N, e.sec, f, e.day)
            due(N, f) == BonusUnits(held(N, f), e)
            issued(N) == {f \in credited(N) : held(N, f) > 0 /\ due(N, f) > 0}
            row(N) == [f \in issued(N) |-> EngineRow(e, e.sec, f, "bonus", due(N, f), 0)]
<1>1. HasRef(L, e.ref) <=> HasRef(M, e.ref) BY DEF Alike, SameRefs
<1>2. \A N : ApplyBonus(N, e) = IF HasRef(N, e.ref) THEN N ELSE AppendEach(N, row(N))
  BY DEF ApplyBonus
<1>3. named(L) = named(M) BY NamedAlike
<1>4. \A f : held(L, f) = held(M, f) BY HeldAlike
<1>5. row(L) = row(M)
  <2>. HIDE DEF named, held
  <2>1. credited(L) = credited(M) BY <1>3
  <2>2. \A f : due(L, f) = due(M, f) BY <1>4
  <2>. HIDE DEF credited, due
  <2>3. issued(L) = issued(M) BY <1>4, <2>1, <2>2
  <2>. HIDE DEF issued
  <2>. QED BY <2>2, <2>3
<1>6. credited(L) \subseteq Folios \cup {NoFolio} /\ IsFiniteSet(credited(L))
  BY LedgerFolios, FS_Singleton
<1>7. IsFiniteSet(DOMAIN row(L)) BY <1>6, FS_Subset
<1>8. \A f \in DOMAIN row(L) : row(L)[f] \in Rows(D)
  <2>. SUFFICES ASSUME NEW f \in issued(L)
                PROVE  EngineRow(e, e.sec, f, "bonus", due(L, f), 0) \in Rows(D)
    OBVIOUS
  <2>. DEFINE n == due(L, f)
  <2>1. n \in Int /\ n > 0 BY HeldIsInt, BonusIsInt
  <2>2. f \in Folios \cup {NoFolio} BY <1>6
  <2>3. "bonus" \in RowTypes /\ e.sec \in Securities \cup {NoSecurity}
    BY DEF RowTypes, Inflows, IsEvent
  <2>. HIDE DEF n, issued
  <2>4. n \in Nat BY <2>1
  <2>5. EngineRow(e, e.sec, f, "bonus", n, 0) \in Rows(D) BY <2>2, <2>3, <2>4, EngineRowIn
  <2>. QED BY <2>5 DEF n
<1>. DEFINE due1 == row(L)
<1>. HIDE DEF row
<1>9. IsFiniteSet(DOMAIN due1) /\ \A x \in DOMAIN due1 : due1[x] \in Rows(D) BY <1>7, <1>8
<1>. HIDE DEF due1
<1>10. Alike(AppendEach(L, due1), AppendEach(M, due1), K, R) BY <1>9, AppendEachAlike
<1>. QED BY <1>1, <1>2, <1>5, <1>10 DEF due1

LEMMA ConvertedRow ==
  ASSUME NEW D, NEW e, IsEvent(e), NEW t \in Rows(D)
  PROVE  /\ Converted(t, e) \in Rows(D) /\ Converted(t, e).sec = e.into
         /\ Converted(t, e).ref = IF t.ref = NoRef THEN e.ref ELSE t.ref
<1>. DEFINE u == [t EXCEPT !.units = (@ * e.num) \div e.den]
            ref == IF t.ref = NoRef THEN e.ref ELSE t.ref
<1>1. u \in Rows(D) BY RowScaled DEF IsEvent
<1>2. Converted(t, e) = [[u EXCEPT !.sec = e.into] EXCEPT !.ref = ref] BY DEF Converted, Rows
<1>3. ref \in Nat BY RowFields DEF IsEvent
<1>4. e.into \in Securities \cup {NoSecurity} BY DEF IsEvent
<1>. HIDE DEF u, ref
<1>5. [u EXCEPT !.sec = e.into] \in Rows(D) /\ [u EXCEPT !.sec = e.into].sec = e.into
  BY <1>1, <1>4 DEF Rows
<1>6. \A v \in Rows(D) : /\ [v EXCEPT !.ref = ref] \in Rows(D)
                         /\ [v EXCEPT !.ref = ref].ref = ref
                         /\ [v EXCEPT !.ref = ref].sec = v.sec
  BY <1>3 DEF Rows
<1>. DEFINE v == [u EXCEPT !.sec = e.into]
            w == [v EXCEPT !.ref = ref]
<1>7. v \in Rows(D) /\ v.sec = e.into /\ Converted(t, e) = w BY <1>2, <1>5
<1>. HIDE DEF v
<1>8. w \in Rows(D) /\ w.ref = ref /\ w.sec = v.sec BY <1>6, <1>7
<1>. HIDE DEF w
<1>. QED BY <1>7, <1>8 DEF ref

LEMMA MergerIs ==
  ASSUME NEW D, NEW L \in Seq(Rows(D)), NEW e, IsEvent(e)
  PROVE  /\ ApplyMerger(L, e) = IF \E k \in DOMAIN L : L[k].sec = e.sec
                                THEN Append(ConvertRows(L, e), Marker(e, e.into, "merger"))
                                ELSE ConvertRows(L, e)
         /\ ConvertRows(L, e) \in Seq(Rows(D)) /\ DOMAIN ConvertRows(L, e) = DOMAIN L
         /\ \A k \in DOMAIN L : L[k] \in Rows(D)
         /\ \A k \in DOMAIN L : ConvertRows(L, e)[k]
                                  = IF L[k].sec = e.sec THEN Converted(L[k], e) ELSE L[k]
<1>. DEFINE L2 == ConvertRows(L, e)
<1>1. ApplyMerger(L, e) = IF \E k \in DOMAIN L : L[k].sec = e.sec
                          THEN Append(L2, Marker(e, e.into, "merger")) ELSE L2
  BY DEF ApplyMerger, ConvertRows, Converted
<1>2. L2 = [k \in DOMAIN L |-> L2[k]] BY DEF ConvertRows
<1>3. \A k \in DOMAIN L : L2[k] = IF L[k].sec = e.sec THEN Converted(L[k], e) ELSE L[k]
  BY DEF ConvertRows
<1>4. \A k \in DOMAIN L : L[k] \in Rows(D) BY LenProperties, ElementOfSeq
<1>. HIDE DEF L2
<1>5. \A k \in DOMAIN L : L[k] \in Rows(D) => L2[k] \in Rows(D) BY <1>3, ConvertedRow
<1>6. L2 \in Seq(Rows(D)) BY <1>2, <1>5, RowsMapped
<1>7. DOMAIN L2 = DOMAIN L BY <1>2
<1>. QED BY <1>1, <1>3, <1>4, <1>6, <1>7 DEF L2

LEMMA MergerAlike ==
  ASSUME NEW D, NEW L \in Seq(Rows(D)), NEW M \in Seq(Rows(D)), NEW K, NEW R, NoRef \notin R,
         Alike(L, M, K, R), NEW e, IsEvent(e), e.day \in D, e.sec \in K
  PROVE  Alike(ApplyMerger(L, e), ApplyMerger(M, e), K, R)
<1>. DEFINE L2 == ConvertRows(L, e)
            M2 == ConvertRows(M, e)
            t == Marker(e, e.into, "merger")
            Merging(N) == \E k \in DOMAIN N : N[k].sec = e.sec
            Unnamed(N) == \E k \in DOMAIN N : N[k].sec = e.sec /\ N[k].ref = NoRef
<1>1. /\ L2 \in Seq(Rows(D)) /\ DOMAIN L2 = DOMAIN L
      /\ \A k \in DOMAIN L : L[k] \in Rows(D)
      /\ \A k \in DOMAIN L : L2[k] = IF L[k].sec = e.sec THEN Converted(L[k], e) ELSE L[k]
      /\ ApplyMerger(L, e) = IF Merging(L) THEN Append(L2, t) ELSE L2
  BY MergerIs
<1>2. /\ M2 \in Seq(Rows(D)) /\ DOMAIN M2 = DOMAIN M
      /\ \A k \in DOMAIN M : M[k] \in Rows(D)
      /\ \A k \in DOMAIN M : M2[k] = IF M[k].sec = e.sec THEN Converted(M[k], e) ELSE M[k]
      /\ ApplyMerger(M, e) = IF Merging(M) THEN Append(M2, t) ELSE M2
  BY MergerIs
<1>3. Merging(L) <=> Merging(M) BY NamedAlike
<1>4. Unnamed(L) <=> Unnamed(M)
  <2>1. PICK f, g : Matches(f, g, L, M, K) BY DEF Alike
  <2>2. ASSUME NEW k \in DOMAIN L, L[k].sec = e.sec PROVE f[k] \in DOMAIN M /\ M[f[k]] = L[k]
    BY <2>1, <2>2 DEF Matches, PlacesIn
  <2>3. ASSUME NEW j \in DOMAIN M, M[j].sec = e.sec PROVE g[j] \in DOMAIN L /\ L[g[j]] = M[j]
    BY <2>1, <2>3 DEF Matches, PlacesIn
  <2>. QED BY <2>2, <2>3
<1>5. t \in Rows(D) BY EngineRowIn DEF Marker, RowTypes, IsEvent
<1>. HIDE DEF L2, M2, t
<1>6. \A u \in Rows(D) : /\ Converted(u, e).sec = e.into
                         /\ Converted(u, e).ref = IF u.ref = NoRef THEN e.ref ELSE u.ref
  BY ConvertedRow
<1>7. ASSUME NEW N, NEW N2, DOMAIN N2 = DOMAIN N, \A k \in DOMAIN N : N[k] \in Rows(D),
             \A k \in DOMAIN N : N2[k] = IF N[k].sec = e.sec THEN Converted(N[k], e) ELSE N[k],
             NEW r, r # NoRef
      PROVE  HasRef(N2, r) <=> HasRef(N, r) \/ (r = e.ref /\ Unnamed(N))
  <2>1. \A k \in DOMAIN N :
          N2[k].ref = IF N[k].sec = e.sec /\ N[k].ref = NoRef THEN e.ref ELSE N[k].ref
    BY <1>6, <1>7
  <2>. QED BY <1>7, <2>1 DEF HasRef
<1>8. SameRefs(L2, M2, R)
  <2>1. \A r \in R : HasRef(L2, r) <=> HasRef(L, r) \/ (r = e.ref /\ Unnamed(L)) BY <1>1, <1>7
  <2>2. \A r \in R : HasRef(M2, r) <=> HasRef(M, r) \/ (r = e.ref /\ Unnamed(M)) BY <1>2, <1>7
  <2>. HIDE DEF Unnamed
  <2>. QED BY <1>4, <2>1, <2>2 DEF Alike, SameRefs
<1>9. Alike(L2, M2, K, R)
  <2>1. \A k \in DOMAIN L : L2[k].sec \in K => L[k].sec \in K BY <1>1
  <2>2. \A k \in DOMAIN M : M2[k].sec \in K => M[k].sec \in K BY <1>2
  <2>3. \A k \in DOMAIN L, j \in DOMAIN M : L[k].sec \in K /\ L[k] = M[j] => L2[k] = M2[j]
    BY <1>1, <1>2
  <2>. QED BY <1>1, <1>2, <1>8, <2>1, <2>2, <2>3, ChangedAlike
<1>10. Alike(Append(L2, t), Append(M2, t), K, R) BY <1>1, <1>2, <1>5, <1>9, AppendedAlike
<1>. QED BY <1>1, <1>2, <1>3, <1>9, <1>10

LEMMA OfferAlike ==
  ASSUME NEW D, NEW L \in Seq(Rows(D)), NEW M \in Seq(Rows(D)), NEW K, NEW R,
         Alike(L, M, K, R), NEW e, IsEvent(e), e.day \in D, e.sec \in K,
         NEW type \in {"buy", "buyback"}
  PROVE  Alike(ApplyOffer(L, e, type), ApplyOffer(M, e, type), K, R)
<1>. DEFINE folio == SoleFolio(L, e.sec)
            t == EngineRow(e, e.sec, folio, type, e.units, e.value)
<1>1. NamedFolios(L, e.sec) = NamedFolios(M, e.sec) BY NamedAlike
<1>2. folio = SoleFolio(M, e.sec) BY <1>1 DEF SoleFolio
<1>3. ApplyOffer(L, e, type) = Append(L, t) /\ ApplyOffer(M, e, type) = Append(M, t)
  BY <1>2 DEF ApplyOffer
<1>4. folio \in Folios \cup {NoFolio} BY LedgerFolios DEF SoleFolio
<1>5. type \in RowTypes BY DEF RowTypes, Inflows, Outflows
<1>. HIDE DEF folio
<1>6. t \in Rows(D) BY <1>4, <1>5, EngineRowIn DEF IsEvent
<1>. HIDE DEF t
<1>7. Alike(Append(L, t), Append(M, t), K, R) BY <1>6, AppendedAlike
<1>. QED BY <1>3, <1>7

LEMMA EventAlike ==
  ASSUME NEW D \in SUBSET Nat, NEW L \in Seq(Rows(D)), NEW M \in Seq(Rows(D)), NEW K,
         NEW R, NoRef \notin R, Alike(L, M, K, R),
         NEW e, IsEvent(e), e.day \in D, e.sec \in K, e.ref \in R, e.kind # "demerger"
  PROVE  Alike(ApplyEvent(L, e), ApplyEvent(M, e), K, R)
<1>1. CASE e.kind = "split"
  <2>. DEFINE L2 == ApplySplit(L, e)
              M2 == ApplySplit(M, e)
  <2>1. Alike(L2, M2, K, R) BY SplitAlike
  <2>2. L2 \in Seq(Rows(D)) /\ M2 \in Seq(Rows(D)) BY SplitIn
  <2>3. HasRef(L, e.ref) <=> HasRef(M, e.ref) BY DEF Alike, SameRefs
  <2>4. /\ Rewritten(L, e) = IF e.num < e.den THEN IF HasRef(L, e.ref) THEN L
                                                   ELSE WithoutFraction(L2, e) ELSE L2
        /\ Rewritten(M, e) = IF e.num < e.den THEN IF HasRef(M, e.ref) THEN M
                                                   ELSE WithoutFraction(M2, e) ELSE M2
    BY <1>1 DEF Rewritten, ApplyReverseSplit
  <2>. HIDE DEF L2, M2
  <2>5. Alike(WithoutFraction(L2, e), WithoutFraction(M2, e), K, R) BY <2>1, <2>2, FractionAlike
  <2>6. Alike(Rewritten(L, e), Rewritten(M, e), K, R) BY <2>1, <2>3, <2>4, <2>5
  <2>. QED BY <2>6, RewrittenIn, SortedAlike DEF ApplyEvent
<1>2. CASE e.kind = "merger"
  <2>1. Alike(Rewritten(L, e), Rewritten(M, e), K, R) BY <1>2, MergerAlike DEF Rewritten
  <2>. QED BY <2>1, RewrittenIn, SortedAlike DEF ApplyEvent
<1>3. CASE e.kind = "bonus"
  <2>1. Alike(Rewritten(L, e), Rewritten(M, e), K, R) BY <1>3, BonusAlike DEF Rewritten
  <2>. QED BY <2>1, RewrittenIn, SortedAlike DEF ApplyEvent
<1>4. CASE e.kind = "rights"
  <2>1. Alike(Rewritten(L, e), Rewritten(M, e), K, R) BY <1>4, OfferAlike DEF Rewritten
  <2>. QED BY <2>1, RewrittenIn, SortedAlike DEF ApplyEvent
<1>5. CASE e.kind = "buyback"
  <2>1. Alike(Rewritten(L, e), Rewritten(M, e), K, R) BY <1>5, OfferAlike DEF Rewritten
  <2>. QED BY <2>1, RewrittenIn, SortedAlike DEF ApplyEvent
<1>. QED BY <1>1, <1>2, <1>3, <1>4, <1>5 DEF IsEvent, EventOrder

(* An event of another security leaves K as it was.                        *)
LEMMA ScaledOutside ==
  ASSUME NEW L, NEW K, NEW R, NEW e, e.sec \notin K
  PROVE  Alike(ScaleRows(L, e), L, K, R)
<1>. DEFINE scaled(t) == [t EXCEPT !.units = (@ * e.num) \div e.den]
            L2 == ScaleRows(L, e)
<1>1. /\ DOMAIN L2 = DOMAIN L
      /\ \A k \in DOMAIN L : L2[k] = IF L[k].sec = e.sec /\ L[k].day < e.day
                                     THEN scaled(L[k]) ELSE L[k]
  BY DEF ScaleRows
<1>2. \A t : scaled(t).sec = t.sec /\ scaled(t).ref = t.ref OBVIOUS
<1>. HIDE DEF scaled, L2
<1>3. SameRefs(L2, L, R) BY <1>1, <1>2 DEF SameRefs, HasRef
<1>4. \A k \in DOMAIN L : IF L[k].sec \in K THEN L2[k] = L[k] ELSE L2[k].sec \notin K
  BY <1>1, <1>2
<1>5. Alike(L2, L, K, R) BY <1>1, <1>3, <1>4, OutsideChanged
<1>. QED BY <1>5 DEF L2

LEMMA SplitOutside ==
  ASSUME NEW D, NEW L \in Seq(Rows(D)), NEW K, NEW R,
         NEW e, IsEvent(e), e.day \in D, e.sec \notin K, e.ref \notin R
  PROVE  /\ Alike(ApplySplit(L, e), L, K, R)
         /\ Alike(ApplyReverseSplit(L, e), L, K, R)
<1>. DEFINE L2 == ScaleRows(L, e)
            t == Marker(e, e.sec, "split")
            S == ApplySplit(L, e)
<1>1. L2 \in Seq(Rows(D)) BY ScaledIn
<1>2. t \in Rows(D) BY EngineRowIn DEF Marker, RowTypes, IsEvent
<1>3. t.sec = e.sec /\ t.ref = e.ref BY DEF Marker, EngineRow
<1>4. Alike(L2, L, K, R) BY ScaledOutside
<1>5. S = L \/ S = Append(L2, t) BY DEF ApplySplit
<1>. HIDE DEF L2, t
<1>6. Alike(Append(L2, t), L2, K, R) BY <1>1, <1>2, <1>3, AppendedOutside
<1>7. Alike(S, L, K, R)
  <2>1. Alike(Append(L2, t), L, K, R) BY <1>4, <1>6, AlikeTransitive
  <2>2. Alike(L, L, K, R) BY AlikeSelf
  <2>. QED BY <1>5, <2>1, <2>2
<1>. DEFINE n == HeldUnits(S, e.sec, NoFolio, e.day) % Share
            u == EngineRow(e, e.sec, NoFolio, "sell", n, 0)
<1>8. S \in Seq(Rows(D)) BY SplitIn
<1>9. ApplyReverseSplit(L, e) \in {L, S, Append(S, u)}
  BY DEF ApplyReverseSplit, WithoutFraction
<1>. HIDE DEF S
<1>10. n \in Nat BY <1>8, HeldIsInt, Quotient, ShareAssumption
<1>11. u.sec = e.sec /\ u.ref = e.ref BY DEF EngineRow
<1>. HIDE DEF n
<1>12. u \in Rows(D) BY <1>10, EngineRowIn DEF RowTypes, Outflows, IsEvent
<1>. HIDE DEF u
<1>13. Alike(Append(S, u), S, K, R) BY <1>8, <1>11, <1>12, AppendedOutside
<1>14. Alike(Append(S, u), L, K, R) BY <1>7, <1>13, AlikeTransitive
<1>. QED BY <1>7, <1>9, <1>14, AlikeSelf DEF S

LEMMA BonusOutside ==
  ASSUME NEW D, NEW L \in Seq(Rows(D)), NEW K, NEW R,
         NEW e, IsEvent(e), e.day \in D, e.sec \notin K, e.ref \notin R
  PROVE  Alike(ApplyBonus(L, e), L, K, R)
<1>. DEFINE named == NamedFolios(L, e.sec)
            credited == IF named = {} THEN {NoFolio} ELSE named
            due(f) == BonusUnits(HeldUnits(L, e.sec, f, e.day), e)
            issued == {f \in credited : HeldUnits(L, e.sec, f, e.day) > 0 /\ due(f) > 0}
            row == [f \in issued |-> EngineRow(e, e.sec, f, "bonus", due(f), 0)]
<1>1. ApplyBonus(L, e) = IF HasRef(L, e.ref) THEN L ELSE AppendEach(L, row)
  BY DEF ApplyBonus
<1>2. credited \subseteq Folios \cup {NoFolio} /\ IsFiniteSet(credited)
  BY LedgerFolios, FS_Singleton
<1>3. IsFiniteSet(DOMAIN row) BY <1>2, FS_Subset
<1>4. ASSUME NEW f \in DOMAIN row
      PROVE  row[f] \in Rows(D) /\ row[f].sec = e.sec /\ row[f].ref = e.ref
  <2>. DEFINE n == due(f)
              t == EngineRow(e, e.sec, f, "bonus", n, 0)
  <2>1. n \in Int /\ n > 0 BY HeldIsInt, BonusIsInt
  <2>2. f \in Folios \cup {NoFolio} BY <1>2
  <2>3. "bonus" \in RowTypes /\ e.sec \in Securities \cup {NoSecurity}
    BY DEF RowTypes, Inflows, IsEvent
  <2>4. row[f] = t BY <1>4
  <2>5. t.sec = e.sec /\ t.ref = e.ref BY DEF EngineRow
  <2>. HIDE DEF n, issued, row
  <2>6. n \in Nat BY <2>1
  <2>7. t \in Rows(D) BY <2>2, <2>3, <2>6, EngineRowIn
  <2>. QED BY <2>4, <2>5, <2>7
<1>. HIDE DEF row
<1>5. Alike(AppendEach(L, row), L, K, R) BY <1>3, <1>4, AppendEachOutside
<1>. QED BY <1>1, <1>5, AlikeSelf

LEMMA MergerOutside ==
  ASSUME NEW D, NEW L \in Seq(Rows(D)), NEW K, NEW R, NoRef \notin R,
         NEW e, IsEvent(e), e.day \in D, e.sec \notin K, e.into \notin K, e.ref \notin R
  PROVE  Alike(ApplyMerger(L, e), L, K, R)
<1>. DEFINE L2 == ConvertRows(L, e)
            t == Marker(e, e.into, "merger")
<1>1. /\ L2 \in Seq(Rows(D)) /\ DOMAIN L2 = DOMAIN L
      /\ \A k \in DOMAIN L : L[k] \in Rows(D)
      /\ \A k \in DOMAIN L : L2[k] = IF L[k].sec = e.sec THEN Converted(L[k], e) ELSE L[k]
      /\ ApplyMerger(L, e) \in {L2, Append(L2, t)}
  BY MergerIs
<1>2. t \in Rows(D) BY EngineRowIn DEF Marker, RowTypes, IsEvent
<1>3. t.sec = e.into /\ t.ref = e.ref BY DEF Marker, EngineRow
<1>. HIDE DEF L2, t
<1>4. \A u \in Rows(D) : /\ Converted(u, e).sec = e.into
                         /\ Converted(u, e).ref = IF u.ref = NoRef THEN e.ref ELSE u.ref
  BY ConvertedRow
<1>5. \A k \in DOMAIN L : L2[k].ref = L[k].ref \/ (L[k].ref = NoRef /\ L2[k].ref = e.ref)
  BY <1>1, <1>4
<1>6. SameRefs(L2, L, R) BY <1>1, <1>5 DEF SameRefs, HasRef
<1>7. \A k \in DOMAIN L : IF L[k].sec \in K THEN L2[k] = L[k] ELSE L2[k].sec \notin K
  BY <1>1, <1>4
<1>8. Alike(L2, L, K, R) BY <1>1, <1>6, <1>7, OutsideChanged
<1>9. Alike(Append(L2, t), L2, K, R) BY <1>1, <1>2, <1>3, AppendedOutside
<1>. QED BY <1>1, <1>8, <1>9, AlikeTransitive

LEMMA OfferOutside ==
  ASSUME NEW D, NEW L \in Seq(Rows(D)), NEW K, NEW R, NEW e, IsEvent(e), e.day \in D,
         e.sec \notin K, e.ref \notin R, NEW type \in {"buy", "buyback"}
  PROVE  Alike(ApplyOffer(L, e, type), L, K, R)
<1>. DEFINE folio == SoleFolio(L, e.sec)
            t == EngineRow(e, e.sec, folio, type, e.units, e.value)
<1>1. ApplyOffer(L, e, type) = Append(L, t) BY DEF ApplyOffer
<1>2. folio \in Folios \cup {NoFolio} BY LedgerFolios DEF SoleFolio
<1>3. type \in RowTypes BY DEF RowTypes, Inflows, Outflows
<1>4. t.sec = e.sec /\ t.ref = e.ref BY DEF EngineRow
<1>. HIDE DEF folio
<1>5. t \in Rows(D) BY <1>2, <1>3, EngineRowIn DEF IsEvent
<1>. HIDE DEF t
<1>. QED BY <1>1, <1>4, <1>5, AppendedOutside

LEMMA EventOutside ==
  ASSUME NEW D \in SUBSET Nat, NEW L \in Seq(Rows(D)), NEW K, NEW R, NoRef \notin R,
         NEW e, IsEvent(e), e.day \in D,
         \/ e.kind = "demerger"
         \/ e.sec \notin K /\ e.ref \notin R /\ (e.kind = "merger" => e.into \notin K)
  PROVE  Alike(ApplyEvent(L, e), L, K, R)
<1>1. CASE e.kind = "demerger" BY <1>1, AlikeSelf DEF ApplyEvent
<1>2. CASE e.kind # "demerger"
  <2>1. e.sec \notin K /\ e.ref \notin R /\ (e.kind = "merger" => e.into \notin K) BY <1>2
  <2>2. Alike(Rewritten(L, e), L, K, R)
    <3>1. CASE e.kind = "split" BY <2>1, <3>1, SplitOutside DEF Rewritten
    <3>2. CASE e.kind = "merger" BY <2>1, <3>2, MergerOutside DEF Rewritten
    <3>3. CASE e.kind = "bonus" BY <2>1, <3>3, BonusOutside DEF Rewritten
    <3>4. CASE e.kind = "rights" BY <2>1, <3>4, OfferOutside DEF Rewritten
    <3>5. CASE e.kind = "buyback" BY <2>1, <3>5, OfferOutside DEF Rewritten
    <3>. QED BY <1>2, <3>1, <3>2, <3>3, <3>4, <3>5 DEF IsEvent, EventOrder
  <2>3. Rewritten(L, e) \in Seq(Rows(D)) BY <1>2, RewrittenIn
  <2>. QED BY <1>2, <2>2, <2>3, SortedAlike DEF ApplyEvent
<1>. QED BY <1>1, <1>2

-----------------------------------------------------------------------------
(* Events that differ in the folio they are of, and in the costs they      *)
(* shed, rewrite a ledger alike.                                           *)
LEMMA TermsScale ==
  ASSUME NEW L, NEW a, NEW b, SameTerms(a, b)
  PROVE  ScaleRows(L, a) = ScaleRows(L, b)
BY DEF ScaleRows, SameTerms

LEMMA TermsRow ==
  ASSUME NEW a, NEW b, SameTerms(a, b)
  PROVE  /\ \A sec, folio, type, units, value :
              EngineRow(a, sec, folio, type, units, value) = EngineRow(b, sec, folio, type, units, value)
         /\ \A sec, type : Marker(a, sec, type) = Marker(b, sec, type)
BY DEF EngineRow, Marker, SameTerms

LEMMA TermsSplit ==
  ASSUME NEW L, NEW a, NEW b, SameTerms(a, b)
  PROVE  /\ ApplySplit(L, a) = ApplySplit(L, b)
         /\ ApplyReverseSplit(L, a) = ApplyReverseSplit(L, b)
<1>1. a.ref = b.ref /\ a.sec = b.sec /\ a.day = b.day BY DEF SameTerms
<1>2. ApplySplit(L, a) = ApplySplit(L, b) BY <1>1, TermsScale, TermsRow DEF ApplySplit
<1>3. \A M : WithoutFraction(M, a) = WithoutFraction(M, b)
  BY <1>1, TermsRow DEF WithoutFraction
<1>. QED BY <1>1, <1>2, <1>3 DEF ApplyReverseSplit

LEMMA TermsBonus ==
  ASSUME NEW L, NEW a, NEW b, SameTerms(a, b)
  PROVE  ApplyBonus(L, a) = ApplyBonus(L, b)
<1>. DEFINE named(e) == NamedFolios(L, e.sec)
            credited(e) == IF named(e) = {} THEN {NoFolio} ELSE named(e)
            held(e, f) == HeldUnits(L, e.sec, f, e.day)
            due(e, f) == BonusUnits(held(e, f), e)
            issued(e) == {f \in credited(e) : held(e, f) > 0 /\ due(e, f) > 0}
            row(e) == [f \in issued(e) |-> EngineRow(e, e.sec, f, "bonus", due(e, f), 0)]
<1>1. \A e : ApplyBonus(L, e) = IF HasRef(L, e.ref) THEN L ELSE AppendEach(L, row(e))
  BY DEF ApplyBonus
<1>2. a.ref = b.ref /\ a.sec = b.sec /\ a.day = b.day BY DEF SameTerms
<1>3. named(a) = named(b) /\ \A f : held(a, f) = held(b, f) BY <1>2
<1>4. \A n : BonusUnits(n, a) = BonusUnits(n, b) BY DEF BonusUnits, SameTerms
<1>5. row(a) = row(b)
  <2>. HIDE DEF named, held
  <2>1. credited(a) = credited(b) BY <1>3
  <2>2. \A f : due(a, f) = due(b, f) BY <1>3, <1>4
  <2>. HIDE DEF credited, due
  <2>3. issued(a) = issued(b) BY <1>3, <2>1, <2>2
  <2>. HIDE DEF issued
  <2>4. \A f : EngineRow(a, a.sec, f, "bonus", due(a, f), 0)
                 = EngineRow(b, b.sec, f, "bonus", due(b, f), 0)
    BY <1>2, <2>2, TermsRow
  <2>. QED BY <2>3, <2>4
<1>. HIDE DEF row
<1>. QED BY <1>1, <1>2, <1>5

LEMMA TermsMerger ==
  ASSUME NEW L, NEW a, NEW b, SameTerms(a, b)
  PROVE  ApplyMerger(L, a) = ApplyMerger(L, b)
<1>1. a.sec = b.sec /\ a.into = b.into /\ a.num = b.num /\ a.den = b.den /\ a.ref = b.ref
  BY DEF SameTerms
<1>2. \A t : Converted(t, a) = Converted(t, b) BY <1>1 DEF Converted
<1>3. ConvertRows(L, a) = ConvertRows(L, b) BY <1>1, <1>2 DEF ConvertRows
<1>4. Marker(a, a.into, "merger") = Marker(b, b.into, "merger") BY <1>1, TermsRow
<1>5. \A e : ApplyMerger(L, e) = IF \E k \in DOMAIN L : L[k].sec = e.sec
                                THEN Append(ConvertRows(L, e), Marker(e, e.into, "merger"))
                                ELSE ConvertRows(L, e)
  BY DEF ApplyMerger, ConvertRows, Converted
<1>. QED BY <1>1, <1>3, <1>4, <1>5

LEMMA TermsApply ==
  ASSUME NEW L, NEW a, NEW b, IsEvent(a), SameTerms(a, b)
  PROVE  ApplyEvent(L, a) = ApplyEvent(L, b)
<1>1. /\ a.kind = b.kind /\ a.num = b.num /\ a.den = b.den /\ a.sec = b.sec
      /\ a.units = b.units /\ a.value = b.value
  BY DEF SameTerms
<1>2. \A type : ApplyOffer(L, a, type) = ApplyOffer(L, b, type)
  BY <1>1, TermsRow DEF ApplyOffer
<1>3. a.kind # "demerger" => Rewritten(L, a) = Rewritten(L, b)
  <2>1. CASE a.kind = "split" BY <1>1, <2>1, TermsSplit DEF Rewritten
  <2>2. CASE a.kind = "merger" BY <1>1, <2>2, TermsMerger DEF Rewritten
  <2>3. CASE a.kind = "bonus" BY <1>1, <2>3, TermsBonus DEF Rewritten
  <2>4. CASE a.kind = "rights" BY <1>1, <1>2, <2>4 DEF Rewritten
  <2>5. CASE a.kind = "buyback" BY <1>1, <1>2, <2>5 DEF Rewritten
  <2>. QED BY <2>1, <2>2, <2>3, <2>4, <2>5 DEF IsEvent, EventOrder
<1>. QED BY <1>1, <1>3 DEF ApplyEvent

-----------------------------------------------------------------------------
(* A replay, event by event.                                               *)
LEMMA ReplaySteps ==
  ASSUME NEW D \in SUBSET Nat, NEW raw \in Seq(Rows(D)),
         NEW E, IsFiniteSet(E), \A e \in E : IsEvent(e) /\ e.day \in D
  PROVE  LET q == InExDateOrder(E)
         IN /\ DOMAIN q = 1 .. Len(q) /\ Len(q) \in Nat /\ \A i \in DOMAIN q : q[i] \in E
            /\ Replay(raw, E) = Upto(q, raw, Len(q)) /\ Upto(q, raw, 0) = raw
            /\ \A i \in 1 .. Len(q) : Upto(q, raw, i) = ApplyEvent(Upto(q, raw, i - 1), q[i])
            /\ \A i \in 0 .. Len(q) : Upto(q, raw, i) \in Seq(Rows(D))
<1>. DEFINE q == InExDateOrder(E)
            n == Len(q)
<1>1. q \in Seq(E) BY EventsOrder DEF Enumerates
<1>. HIDE DEF q
<1>2. DOMAIN q = 1 .. n /\ n \in Nat /\ \A i \in DOMAIN q : q[i] \in E
  BY <1>1, LenProperties, ElementOfSeq
<1>3. Replay(raw, E) = Upto(q, raw, n) BY <1>1, <1>2, ReplayLoop DEF Replay, Upto, q
<1>4. Upto(q, raw, 0) = raw
  <2>1. 1 .. 0 = {} OBVIOUS
  <2>. QED BY <2>1, LoopEmpty DEF Upto
<1>. HIDE DEF n
<1>5. ASSUME NEW i \in 1 .. n
      PROVE  Upto(q, raw, i) = ApplyEvent(Upto(q, raw, i - 1), q[i])
  <2>. DEFINE S == 1 .. i
              x == Pick("replay", q, S)
  <2>1. i \in Nat /\ i >= 1 BY <1>2
  <2>2. IsFiniteSet(S) BY <2>1, FS_Interval
  <2>3. S \in SUBSET Int /\ S # {}
    <3>1. i \in S BY <2>1
    <3>. QED BY <3>1
  <2>4. Picks("replay", q, S) BY <2>2, <2>3, PlacePicks
  <2>5. x = i
    <3>1. x = Max(S) BY DEF Pick
    <3>. HIDE DEF x
    <3>2. Max(S) \in S /\ \A y \in S : y <= Max(S) BY <2>2, <2>3, Greatest
    <3>3. x \in S /\ i <= x BY <2>1, <3>1, <3>2
    <3>. QED BY <2>1, <3>3
  <2>6. Loop("replay", q, raw, S) = Body("replay", q, x, Loop("replay", q, raw, S \ {x}))
    BY <2>2, <2>3, <2>4, LoopStep
  <2>7. S \ {i} = 1 .. (i - 1) BY <2>1
  <2>. QED BY <2>5, <2>6, <2>7 DEF Body, Upto
<1>6. ASSUME NEW i \in 0 .. n
      PROVE  Upto(q, raw, i) \in Seq(Rows(D))
  <2>. DEFINE S == 1 .. i
  <2>1. i \in Nat /\ S \subseteq DOMAIN q BY <1>2
  <2>2. IsFiniteSet(S) BY <2>1, FS_Interval
  <2>3. S \in SUBSET Int OBVIOUS
  <2>4. Picks("replay", q, S) BY <2>2, <2>3, PlacePicks
  <2>5. \A k \in S : q[k] \in E BY <1>2, <2>1
  <2>. HIDE DEF S
  <2>6. \A k \in S : \A s \in Seq(Rows(D)) : Body("replay", q, k, s) \in Seq(Rows(D))
    BY <2>5, ApplyIn DEF Body
  <2>7. Loop("replay", q, raw, S) \in Seq(Rows(D)) BY <2>2, <2>4, <2>6, LoopIn
  <2>. QED BY <2>7 DEF Upto, S
<1>. QED BY <1>2, <1>3, <1>4, <1>5, <1>6 DEF q, n

LEMMA PairsBefore ==
  ASSUME NEW b, NEW c, NEW i \in Nat, i > 0, NEW j \in Nat, NEW q, NEW p, NEW K,
         PairedBy(b, c, i, j, q, p, K)
  PROVE  /\ ~Moving(q[i], K) => Paired(i - 1, j, q, p, K)
         /\ Moving(q[i], K) /\ b[i] = j => Paired(i - 1, j - 1, q, p, K)
         /\ Moving(q[i], K) /\ b[i] # j /\ SameTerms(q[i], q[c[j]])
              => Paired(i - 1, j - 1, q, p, K)
<1>1. /\ \A k \in 1 .. i : Moving(q[k], K) =>
           b[k] \in 1 .. j /\ c[b[k]] = k /\ SameTerms(q[k], p[b[k]])
      /\ \A l \in 1 .. j : c[l] \in 1 .. i /\ Moving(q[c[l]], K) /\ b[c[l]] = l
  BY DEF PairedBy
<1>2. /\ \A k \in 1 .. (i - 1) : k \in 1 .. i /\ k # i
      /\ \A k \in 1 .. i : k # i => k \in 1 .. (i - 1)
      /\ \A l \in 1 .. (j - 1) : l \in 1 .. j /\ l # j
      /\ \A l \in 1 .. j : l # j => l \in 1 .. (j - 1)
      /\ i \in 1 .. i
  OBVIOUS
<1>3. ASSUME ~Moving(q[i], K) PROVE Paired(i - 1, j, q, p, K)
  <2>1. \A l \in 1 .. j : c[l] \in 1 .. (i - 1) BY <1>1, <1>2, <1>3
  <2>2. PairedBy(b, c, i - 1, j, q, p, K) BY <1>1, <1>2, <2>1 DEF PairedBy
  <2>. QED BY <2>2 DEF Paired
<1>4. ASSUME Moving(q[i], K), b[i] = j PROVE Paired(i - 1, j - 1, q, p, K)
  <2>1. c[j] = i BY <1>1, <1>2, <1>4
  <2>2. \A l \in 1 .. (j - 1) : c[l] \in 1 .. (i - 1) BY <1>1, <1>2, <1>4
  <2>3. \A k \in 1 .. (i - 1) : Moving(q[k], K) => b[k] \in 1 .. (j - 1) BY <1>1, <1>2, <2>1
  <2>4. PairedBy(b, c, i - 1, j - 1, q, p, K) BY <1>1, <1>2, <2>2, <2>3 DEF PairedBy
  <2>. QED BY <2>4 DEF Paired
<1>5. ASSUME Moving(q[i], K), b[i] # j, SameTerms(q[i], q[c[j]])
      PROVE  Paired(i - 1, j - 1, q, p, K)
  <2>. DEFINE h == c[j]
              l0 == b[i]
              b2 == [k \in 1 .. i |-> IF k = h THEN l0 ELSE b[k]]
              c2 == [l \in 1 .. j |-> IF l = l0 THEN h ELSE c[l]]
  <2>1. l0 \in 1 .. j /\ c[l0] = i /\ SameTerms(q[i], p[l0]) BY <1>1, <1>2, <1>5
  <2>2. j \in 1 .. j BY <2>1
  <2>3. h \in 1 .. i /\ Moving(q[h], K) /\ b[h] = j BY <1>1, <2>2
  <2>4. h # i /\ h \in 1 .. (i - 1) BY <1>2, <1>5, <2>3
  <2>5. l0 \in 1 .. (j - 1) BY <1>2, <1>5, <2>1
  <2>6. SameTerms(q[h], p[l0]) BY <1>5, <2>1 DEF SameTerms
  <2>7. /\ \A k \in 1 .. i : b2[k] = IF k = h THEN l0 ELSE b[k]
        /\ \A l \in 1 .. j : c2[l] = IF l = l0 THEN h ELSE c[l]
    OBVIOUS
  <2>. HIDE DEF h, b2, c2, l0
  <2>8. ASSUME NEW k \in 1 .. (i - 1), Moving(q[k], K)
        PROVE  b2[k] \in 1 .. (j - 1) /\ c2[b2[k]] = k /\ SameTerms(q[k], p[b2[k]])
    <3>0. k \in 1 .. i /\ k # i BY <1>2
    <3>1. CASE k = h
      <4>1. b2[k] = l0 /\ c2[l0] = h BY <2>1, <2>7, <3>0, <3>1
      <4>. QED BY <2>5, <2>6, <3>1, <4>1
    <3>2. CASE k # h
      <4>1. b[k] \in 1 .. j /\ c[b[k]] = k /\ SameTerms(q[k], p[b[k]])
        BY <1>1, <2>8, <3>0
      <4>2. b[k] # j BY <3>2, <4>1 DEF h
      <4>3. b[k] # l0 BY <2>1, <3>0, <4>1
      <4>4. b2[k] = b[k] /\ c2[b[k]] = c[b[k]] BY <2>7, <3>0, <3>2, <4>1, <4>3
      <4>. QED BY <1>2, <4>1, <4>2, <4>4
    <3>. QED BY <3>1, <3>2
  <2>9. ASSUME NEW l \in 1 .. (j - 1)
        PROVE  c2[l] \in 1 .. (i - 1) /\ Moving(q[c2[l]], K) /\ b2[c2[l]] = l
    <3>0. l \in 1 .. j /\ l # j BY <1>2
    <3>1. CASE l = l0
      <4>1. c2[l] = h /\ b2[h] = l0 BY <2>3, <2>7, <3>0, <3>1
      <4>. QED BY <2>3, <2>4, <3>1, <4>1
    <3>2. CASE l # l0
      <4>1. c[l] \in 1 .. i /\ Moving(q[c[l]], K) /\ b[c[l]] = l BY <1>1, <3>0
      <4>2. c[l] # i BY <3>2, <4>1 DEF l0
      <4>3. c[l] # h BY <2>3, <3>0, <4>1
      <4>4. c2[l] = c[l] /\ b2[c[l]] = b[c[l]] BY <2>7, <3>0, <3>2, <4>1, <4>3
      <4>. QED BY <1>2, <4>1, <4>2, <4>4
    <3>. QED BY <3>1, <3>2
  <2>10. PairedBy(b2, c2, i - 1, j - 1, q, p, K) BY <2>8, <2>9 DEF PairedBy
  <2>. QED BY <2>10 DEF Paired
<1>. QED BY <1>3, <1>4, <1>5

LEMMA NotEarlier ==
  ASSUME NEW x, IsEvent(x), NEW y, IsEvent(y), ~Earlier(x, y), ~Earlier(y, x)
  PROVE  x.kind = y.kind /\ x.day = y.day /\ x.ref = y.ref
<1>1. \A k \in DOMAIN EventOrder : EventOrder[k] \in Int BY DEF EventOrder
<1>2. \A k, l \in DOMAIN EventOrder : EventOrder[k] = EventOrder[l] => k = l BY DEF EventOrder
<1>3. /\ x.day \in Int /\ y.day \in Int /\ x.ref \in Int /\ y.ref \in Int
      /\ x.kind \in DOMAIN EventOrder /\ y.kind \in DOMAIN EventOrder
  BY DEF IsEvent
<1>4. x.day = y.day BY <1>3 DEF Earlier
<1>5. EventOrder[x.kind] = EventOrder[y.kind] BY <1>1, <1>3, <1>4 DEF Earlier
<1>6. x.kind = y.kind BY <1>2, <1>3, <1>5
<1>. QED BY <1>3, <1>4, <1>6 DEF Earlier

LEMMA AllPaired ==
  ASSUME NEW E, NEW K, NEW q, Enumerates(q, E),
         NEW p, Enumerates(p, {e \in E : Moving(e, K)})
  PROVE  Paired(Len(q), Len(p), q, p, K)
<1>. DEFINE F == {e \in E : Moving(e, K)}
            n == Len(q)
            m == Len(p)
            b == [k \in 1 .. n |-> CHOOSE l \in 1 .. m : p[l] = q[k]]
            c == [l \in 1 .. m |-> CHOOSE k \in 1 .. n : q[k] = p[l]]
<1>1. q \in Seq(E) /\ p \in Seq(F) BY DEF Enumerates
<1>2. DOMAIN q = 1 .. n /\ \A k \in 1 .. n : q[k] \in E BY <1>1, LenProperties, ElementOfSeq
<1>3. DOMAIN p = 1 .. m /\ \A l \in 1 .. m : p[l] \in F BY <1>1, LenProperties, ElementOfSeq
<1>4. ASSUME NEW k \in 1 .. n, Moving(q[k], K)
      PROVE  b[k] \in 1 .. m /\ p[b[k]] = q[k]
  <2>1. q[k] \in F BY <1>2, <1>4
  <2>2. \E l \in 1 .. m : p[l] = q[k] BY <1>3, <2>1 DEF Enumerates
  <2>. QED BY <2>2
<1>5. ASSUME NEW l \in 1 .. m
      PROVE  c[l] \in 1 .. n /\ q[c[l]] = p[l]
  <2>1. \E k \in 1 .. n : q[k] = p[l] BY <1>2, <1>3 DEF Enumerates
  <2>. QED BY <2>1
<1>. HIDE DEF b, c
<1>6. \A k, l \in 1 .. n : q[k] = q[l] => k = l BY <1>2 DEF Enumerates
<1>7. \A k, l \in 1 .. m : p[k] = p[l] => k = l BY <1>3 DEF Enumerates
<1>8. \A e : SameTerms(e, e) BY DEF SameTerms
<1>9. \A k \in 1 .. n : Moving(q[k], K) =>
        b[k] \in 1 .. m /\ c[b[k]] = k /\ SameTerms(q[k], p[b[k]])
  BY <1>4, <1>5, <1>6, <1>8
<1>10. \A l \in 1 .. m : c[l] \in 1 .. n /\ Moving(q[c[l]], K) /\ b[c[l]] = l
  BY <1>3, <1>4, <1>5, <1>7
<1>. QED BY <1>9, <1>10 DEF Paired, PairedBy

(* Replaying all events and replaying those that move K leave alike        *)
(* ledgers.                                                                *)
LEMMA ReplayAlike ==
  ASSUME NEW D \in SUBSET Nat, NEW L \in Seq(Rows(D)), NEW M \in Seq(Rows(D)),
         NEW K, NEW R, NoRef \notin R, Alike(L, M, K, R),
         NEW E, IsFiniteSet(E), \A e \in E : IsEvent(e) /\ e.day \in D,
         Ranked(E, K), Confined(E, K, R)
  PROVE  Alike(Replay(L, E), Replay(M, {e \in E : Moving(e, K)}), K, R)
<1>. DEFINE F == {e \in E : Moving(e, K)}
            q == InExDateOrder(E)
            p == InExDateOrder(F)
            n == Len(q)
            m == Len(p)
            A(i) == Upto(q, L, i)
            B(j) == Upto(p, M, j)
            Good == {T \in SUBSET (1 .. n) :
                       \A i \in 0 .. n : T = 1 .. i =>
                         \A j \in 0 .. m : Paired(i, j, q, p, K) => Alike(A(i), B(j), K, R)}
<1>1. IsFiniteSet(F) /\ \A e \in F : IsEvent(e) /\ e.day \in D BY FS_Subset
<1>2. /\ DOMAIN q = 1 .. n /\ n \in Nat /\ \A i \in DOMAIN q : q[i] \in E
      /\ Replay(L, E) = A(n) /\ A(0) = L
      /\ \A i \in 1 .. n : A(i) = ApplyEvent(A(i - 1), q[i])
      /\ \A i \in 0 .. n : A(i) \in Seq(Rows(D))
  BY ReplaySteps
<1>. HIDE DEF F
<1>3. /\ DOMAIN p = 1 .. m /\ m \in Nat /\ \A j \in DOMAIN p : p[j] \in F
      /\ Replay(M, F) = B(m) /\ B(0) = M
      /\ \A j \in 1 .. m : B(j) = ApplyEvent(B(j - 1), p[j])
      /\ \A j \in 0 .. m : B(j) \in Seq(Rows(D))
  BY <1>1, ReplaySteps
<1>4. Enumerates(q, E) /\ \A i, j \in DOMAIN q : i < j => ~Earlier(q[j], q[i])
  BY EventsInOrder
<1>5. Enumerates(p, F) /\ \A i, j \in DOMAIN p : i < j => ~Earlier(p[j], p[i])
  BY <1>1, EventsInOrder
<1>. HIDE DEF q, p, n, m, A, B
<1>6. ASSUME NEW T \in SUBSET (1 .. n), \A U \in SUBSET T : U # T => U \in Good
      PROVE  T \in Good
  <2>. SUFFICES ASSUME NEW i \in 0 .. n, T = 1 .. i, NEW j \in 0 .. m, Paired(i, j, q, p, K)
                PROVE  Alike(A(i), B(j), K, R)
    OBVIOUS
  <2>1. PICK b, c : PairedBy(b, c, i, j, q, p, K) BY DEF Paired
  <2>2. i \in Nat /\ j \in Nat BY <1>2, <1>3
  <2>3. CASE i = 0
    <3>1. 1 .. i = {} BY <2>3
    <3>2. \A l \in 1 .. j : c[l] \in 1 .. i BY <2>1 DEF PairedBy
    <3>3. 1 .. j = {} BY <3>1, <3>2
    <3>4. j = 0
      <4>1. j > 0 => 1 \in 1 .. j BY <2>2
      <4>. QED BY <2>2, <3>3, <4>1
    <3>. QED BY <1>2, <1>3, <2>3, <3>4
  <2>4. CASE i > 0
    <3>. DEFINE e == q[i]
    <3>1. /\ i \in 1 .. n /\ i - 1 \in 0 .. n /\ i \in 1 .. i BY <1>2, <2>2, <2>4
    <3>2. e \in E /\ IsEvent(e) /\ e.day \in D BY <1>2, <3>1
    <3>3. A(i) = ApplyEvent(A(i - 1), e) /\ A(i - 1) \in Seq(Rows(D)) BY <1>2, <3>1
    <3>4. \A l \in 0 .. m : Paired(i - 1, l, q, p, K) => Alike(A(i - 1), B(l), K, R)
      <4>. DEFINE U == 1 .. (i - 1)
      <4>1. U \in SUBSET T /\ U # T
        <5>1. i \notin U /\ i \in T BY <2>2, <2>4
        <5>2. U \subseteq T BY <2>2
        <5>. QED BY <5>1, <5>2
      <4>2. U \in Good BY <1>6, <4>1
      <4>. QED BY <3>1, <4>2
    <3>5. CASE ~Moving(e, K)
      <4>1. Paired(i - 1, j, q, p, K) BY <2>1, <2>2, <2>4, <3>5, PairsBefore
      <4>2. Alike(A(i - 1), B(j), K, R) BY <3>4, <4>1
      <4>3. \/ e.kind = "demerger"
            \/ e.sec \notin K /\ e.ref \notin R /\ (e.kind = "merger" => e.into \notin K)
        BY <3>2, <3>5 DEF Confined
      <4>. HIDE DEF e
      <4>4. Alike(A(i), A(i - 1), K, R) BY <3>2, <3>3, <4>3, EventOutside
      <4>. QED BY <4>2, <4>4, AlikeTransitive
    <3>6. CASE Moving(e, K)
      <4>. DEFINE g == p[j]
                  h == c[j]
      <4>1. b[i] \in 1 .. j /\ SameTerms(e, p[b[i]]) /\ c[b[i]] = i
        BY <2>1, <3>1, <3>6 DEF PairedBy
      <4>2. j \in 1 .. j /\ j \in 1 .. m /\ j - 1 \in 0 .. m BY <1>3, <2>2, <4>1
      <4>3. h \in 1 .. i /\ Moving(q[h], K) /\ b[h] = j BY <2>1, <4>2 DEF PairedBy
      <4>4. SameTerms(q[h], g) BY <2>1, <4>3 DEF PairedBy
      <4>5. SameTerms(e, q[h])
        <5>1. CASE h = i BY <5>1 DEF SameTerms
        <5>2. CASE h # i
          <6>. DEFINE l == b[i]
          <6>1. h < i /\ h \in DOMAIN q /\ i \in DOMAIN q BY <1>2, <2>2, <3>1, <4>3, <5>2
          <6>2. ~Earlier(q[i], q[h]) BY <1>4, <6>1
          <6>3. l # j BY <4>1, <5>2
          <6>4. l < j /\ l \in DOMAIN p /\ j \in DOMAIN p
            <7>1. j \in Nat /\ m \in Nat /\ j <= m BY <1>3, <2>2
            <7>2. l \in 1 .. j /\ l < j BY <4>1, <6>3, <7>1
            <7>3. l \in 1 .. m /\ j \in 1 .. m BY <4>2, <7>1, <7>2
            <7>. QED BY <1>3, <7>2, <7>3
          <6>5. ~Earlier(p[j], p[l]) BY <1>5, <6>4
          <6>6. ~Earlier(q[h], q[i]) BY <4>1, <4>4, <6>5 DEF Earlier, SameTerms
          <6>7. q[h] \in E /\ IsEvent(q[h]) BY <1>2, <6>1
          <6>8. e.kind = q[h].kind /\ e.day = q[h].day /\ e.ref = q[h].ref
            BY <3>2, <6>2, <6>6, <6>7, NotEarlier
          <6>. QED BY <3>2, <3>6, <4>3, <6>7, <6>8 DEF Ranked
        <5>. QED BY <5>1, <5>2
      <4>6. Paired(i - 1, j - 1, q, p, K) BY <2>1, <2>2, <2>4, <3>6, <4>5, PairsBefore
      <4>7. Alike(A(i - 1), B(j - 1), K, R) BY <3>4, <4>2, <4>6
      <4>8. SameTerms(e, g) BY <4>4, <4>5 DEF SameTerms
      <4>9. B(j) = ApplyEvent(B(j - 1), g) /\ B(j - 1) \in Seq(Rows(D)) BY <1>3, <4>2
      <4>10. e.ref \in R /\ e.sec \in K /\ e.kind # "demerger"
        BY <3>2, <3>6 DEF Confined, Moving
      <4>. HIDE DEF e, g, h
      <4>11. ApplyEvent(B(j - 1), g) = ApplyEvent(B(j - 1), e) BY <3>2, <4>8, TermsApply
      <4>. DEFINE a1 == A(i - 1)
                  b1 == B(j - 1)
      <4>12. Alike(a1, b1, K, R) /\ a1 \in Seq(Rows(D)) /\ b1 \in Seq(Rows(D))
        BY <3>3, <4>7, <4>9
      <4>. HIDE DEF a1, b1
      <4>13. Alike(ApplyEvent(a1, e), ApplyEvent(b1, e), K, R)
        BY <3>2, <4>10, <4>12, EventAlike
      <4>. QED BY <3>3, <4>9, <4>11, <4>13 DEF a1, b1
    <3>. QED BY <3>5, <3>6
  <2>. QED BY <2>2, <2>3, <2>4
<1>. HIDE DEF Good
<1>. DEFINE N == 1 .. n
<1>7. IsFiniteSet(N) BY <1>2, FS_Interval
<1>8. N \in Good
  <2>1. \A T \in SUBSET N : (\A U \in SUBSET T : U # T => U \in Good) => T \in Good BY <1>6
  <2>. HIDE DEF N
  <2>. QED BY <1>7, <2>1, SubsetInduction
<1>9. Paired(n, m, q, p, K) BY <1>4, <1>5, AllPaired DEF F, n, m
<1>10. n \in 0 .. n /\ m \in 0 .. m BY <1>2, <1>3
<1>11. Alike(A(n), B(m), K, R) BY <1>8, <1>9, <1>10 DEF Good
<1>. QED BY <1>2, <1>3, <1>11 DEF F

-----------------------------------------------------------------------------
(* The rows picked from ledgers that match are again matched.              *)
LEMMA PlacedMatches ==
  ASSUME NEW L, NEW M, NEW K, NEW f, NEW g, Matches(f, g, L, M, K),
         NEW P \in SUBSET DOMAIN L, NEW Q \in SUBSET DOMAIN M,
         \A k \in PlacesIn(L, K) : k \in P <=> f[k] \in Q,
         NEW u, Enumerates(u, P), Rising(u), NEW v, Enumerates(v, Q), Rising(v)
  PROVE  \E p, q : /\ Matches(p, q, Placed(L, u), Placed(M, v), K)
                   /\ InStep(f, L, K) => InStep(p, Placed(L, u), K)
<1>. DEFINE A == Placed(L, u)
            B == Placed(M, v)
            p == [i \in DOMAIN u |-> CHOOSE h \in DOMAIN v : v[h] = f[u[i]]]
            q == [h \in DOMAIN v |-> CHOOSE i \in DOMAIN u : u[i] = g[v[h]]]
<1>1. u \in Seq(P) /\ v \in Seq(Q) BY DEF Enumerates
<1>2. \A i \in DOMAIN u : u[i] \in P /\ u[i] \in DOMAIN L BY <1>1, LenProperties, ElementOfSeq
<1>3. \A h \in DOMAIN v : v[h] \in Q /\ v[h] \in DOMAIN M BY <1>1, LenProperties, ElementOfSeq
<1>4. /\ DOMAIN A = DOMAIN u /\ \A i \in DOMAIN u : A[i] = L[u[i]]
      /\ DOMAIN B = DOMAIN v /\ \A h \in DOMAIN v : B[h] = M[v[h]]
  BY DEF Placed
<1>. HIDE DEF A, B
<1>5. \A i \in DOMAIN u : i \in PlacesIn(A, K) <=> u[i] \in PlacesIn(L, K)
  BY <1>2, <1>4 DEF PlacesIn
<1>6. \A h \in DOMAIN v : h \in PlacesIn(B, K) <=> v[h] \in PlacesIn(M, K)
  BY <1>3, <1>4 DEF PlacesIn
<1>7. /\ \A k \in PlacesIn(L, K) : f[k] \in PlacesIn(M, K) /\ M[f[k]] = L[k] /\ g[f[k]] = k
      /\ \A j \in PlacesIn(M, K) : g[j] \in PlacesIn(L, K) /\ f[g[j]] = j
  BY DEF Matches
<1>8. ASSUME NEW i \in PlacesIn(A, K)
      PROVE  i \in DOMAIN u /\ p[i] \in DOMAIN v /\ v[p[i]] = f[u[i]] /\ p[i] \in PlacesIn(B, K)
  <2>1. i \in DOMAIN u BY <1>4 DEF PlacesIn
  <2>2. f[u[i]] \in PlacesIn(M, K) /\ f[u[i]] \in Q BY <1>2, <1>5, <1>7, <2>1
  <2>3. \E h \in DOMAIN v : v[h] = f[u[i]] BY <2>2 DEF Enumerates
  <2>4. p[i] \in DOMAIN v /\ v[p[i]] = f[u[i]] BY <2>1, <2>3
  <2>. QED BY <1>6, <2>1, <2>2, <2>4
<1>9. ASSUME NEW h \in PlacesIn(B, K)
      PROVE  h \in DOMAIN v /\ q[h] \in DOMAIN u /\ u[q[h]] = g[v[h]] /\ q[h] \in PlacesIn(A, K)
  <2>1. h \in DOMAIN v BY <1>4 DEF PlacesIn
  <2>2. g[v[h]] \in PlacesIn(L, K) /\ f[g[v[h]]] = v[h] BY <1>3, <1>6, <1>7, <2>1
  <2>3. g[v[h]] \in P BY <1>3, <2>1, <2>2
  <2>4. \E i \in DOMAIN u : u[i] = g[v[h]] BY <2>3 DEF Enumerates
  <2>5. q[h] \in DOMAIN u /\ u[q[h]] = g[v[h]] BY <2>1, <2>4
  <2>. QED BY <1>5, <2>1, <2>2, <2>5
<1>. HIDE DEF p, q
<1>10. ASSUME NEW i \in PlacesIn(A, K)
       PROVE  p[i] \in PlacesIn(B, K) /\ B[p[i]] = A[i] /\ q[p[i]] = i
  <2>1. u[i] \in PlacesIn(L, K) BY <1>5, <1>8
  <2>2. B[p[i]] = A[i] BY <1>4, <1>7, <1>8, <2>1
  <2>3. q[p[i]] \in DOMAIN u /\ u[q[p[i]]] = g[v[p[i]]] BY <1>8, <1>9
  <2>4. u[q[p[i]]] = u[i] BY <1>7, <1>8, <2>1, <2>3
  <2>. QED BY <1>8, <2>2, <2>3, <2>4 DEF Enumerates
<1>11. ASSUME NEW h \in PlacesIn(B, K)
       PROVE  q[h] \in PlacesIn(A, K) /\ p[q[h]] = h
  <2>1. v[h] \in PlacesIn(M, K) BY <1>6, <1>9
  <2>2. p[q[h]] \in DOMAIN v /\ v[p[q[h]]] = f[u[q[h]]] BY <1>8, <1>9
  <2>3. v[p[q[h]]] = v[h] BY <1>7, <1>9, <2>1, <2>2
  <2>. QED BY <1>9, <2>2, <2>3 DEF Enumerates
<1>12. Matches(p, q, A, B, K) BY <1>10, <1>11 DEF Matches
<1>13. ASSUME InStep(f, L, K) PROVE InStep(p, A, K)
  <2>. SUFFICES ASSUME NEW i \in PlacesIn(A, K), NEW j \in PlacesIn(A, K)
                PROVE  i < j <=> p[i] < p[j]
    BY DEF InStep
  <2>1. i < j <=> u[i] < u[j] BY <1>8 DEF Rising
  <2>2. u[i] < u[j] <=> f[u[i]] < f[u[j]] BY <1>5, <1>8, <1>13 DEF InStep
  <2>3. p[i] < p[j] <=> v[p[i]] < v[p[j]] BY <1>8 DEF Rising
  <2>. QED BY <1>8, <2>1, <2>2, <2>3
<1>. QED BY <1>12, <1>13 DEF A, B

LEMMA PickedMatches ==
  ASSUME NEW S, NEW L \in Seq(S), NEW M \in Seq(S), NEW K, NEW f, NEW g, Matches(f, g, L, M, K),
         NEW P \in SUBSET DOMAIN L, NEW Q \in SUBSET DOMAIN M,
         \A k \in PlacesIn(L, K) : k \in P <=> f[k] \in Q
  PROVE  \E p, q : /\ Matches(p, q, Picked(L, P), Picked(M, Q), K)
                   /\ InStep(f, L, K) => InStep(p, Picked(L, P), K)
<1>1. P \in SUBSET Nat /\ Q \in SUBSET Nat BY LenProperties
<1>2. IsFiniteSet(P) /\ IsFiniteSet(Q) BY PickedPlaced
<1>3. \E u : Enumerates(u, P) /\ Rising(u) /\ Picked(L, P) = Placed(L, u)
  BY <1>1, <1>2, PlacesRise DEF Picked
<1>4. \E v : Enumerates(v, Q) /\ Rising(v) /\ Picked(M, Q) = Placed(M, v)
  BY <1>1, <1>2, PlacesRise DEF Picked
<1>5. PICK u : Enumerates(u, P) /\ Rising(u) /\ Picked(L, P) = Placed(L, u) BY <1>3
<1>6. PICK v : Enumerates(v, Q) /\ Rising(v) /\ Picked(M, Q) = Placed(M, v) BY <1>4
<1>7. \E p, q : /\ Matches(p, q, Placed(L, u), Placed(M, v), K)
                /\ InStep(f, L, K) => InStep(p, Placed(L, u), K)
  BY <1>5, <1>6, PlacedMatches
<1>. QED BY <1>5, <1>6, <1>7

(* Same-day trades of K offset each other as they do among all trades.     *)
LEMMA MatchedAmounts ==
  ASSUME NEW D, NEW L \in Seq(Rows(D)), NEW M \in Seq(Rows(D)), NEW K, NEW f, NEW g,
         Matches(f, g, L, M, K), NEW P \in SUBSET PlacesIn(L, K), NEW Q \in SUBSET PlacesIn(M, K),
         \A k \in PlacesIn(L, K) : k \in P <=> f[k] \in Q
  PROVE  UnitsAt(L, P) = UnitsAt(M, Q)
<1>. DEFINE p == [k \in DOMAIN L |-> L[k].units]
            q == [k \in DOMAIN M |-> M[k].units]
<1>1. /\ P \in SUBSET DOMAIN L /\ Q \in SUBSET DOMAIN M BY DEF PlacesIn
<1>2. IsFiniteSet(P) /\ IsFiniteSet(Q) BY <1>1, PickedPlaced
<1>3. \A k \in DOMAIN L : L[k].units \in Int BY LenProperties, ElementOfSeq, RowFields
<1>4. \A k \in P : f[k] \in Q /\ f[k] \in DOMAIN M /\ M[f[k]] = L[k] /\ g[f[k]] = k
  BY <1>1 DEF Matches
<1>5. \A k \in P : p[k] \in Int /\ f[k] \in Q /\ q[f[k]] = p[k] BY <1>1, <1>3, <1>4
<1>6. \A j, k \in P : f[j] = f[k] => j = k BY <1>4
<1>7. \A j \in Q : \E k \in P : f[k] = j
  <2>. TAKE j \in Q
  <2>1. g[j] \in PlacesIn(L, K) /\ f[g[j]] = j BY DEF Matches
  <2>. QED BY <2>1
<1>. HIDE DEF p, q
<1>8. SumFunctionOnSet(q, Q) = SumFunctionOnSet(p, P) BY <1>2, <1>5, <1>6, <1>7, SumRename
<1>. QED BY <1>8 DEF UnitsAt, p, q

LEMMA OffsetMatches ==
  ASSUME NEW D, NEW L \in Seq(Rows(D)), NEW M \in Seq(Rows(D)), NEW K, NEW f, NEW g,
         Matches(f, g, L, M, K), InStep(f, L, K), NEW k \in PlacesIn(L, K)
  PROVE  OffsetAt(L, k) = OffsetAt(M, f[k])
<1>. DEFINE h == f[k]
            all(N, n, type) == DayTrades(N, n, type)
            ahead(N, n) == {j \in DayTrades(N, n, N[n].type) : j < n}
<1>1. \A n \in PlacesIn(L, K) : f[n] \in PlacesIn(M, K) /\ M[f[n]] = L[n] BY DEF Matches
<1>2. h \in PlacesIn(M, K) /\ M[h] = L[k] /\ L[k].sec \in K BY <1>1 DEF PlacesIn
<1>3. ASSUME NEW type
      PROVE  /\ all(L, k, type) \in SUBSET PlacesIn(L, K)
             /\ all(M, h, type) \in SUBSET PlacesIn(M, K)
             /\ \A n \in PlacesIn(L, K) : n \in all(L, k, type) <=> f[n] \in all(M, h, type)
  BY <1>1, <1>2 DEF DayTrades, PlacesIn
<1>4. \A type : UnitsAt(L, all(L, k, type)) = UnitsAt(M, all(M, h, type))
  <2>. HIDE DEF all, h
  <2>. QED BY <1>3, MatchedAmounts
<1>5. /\ ahead(L, k) \in SUBSET PlacesIn(L, K) /\ ahead(M, h) \in SUBSET PlacesIn(M, K)
      /\ \A n \in PlacesIn(L, K) : n \in ahead(L, k) <=> f[n] \in ahead(M, h)
  BY <1>2, <1>3 DEF InStep
<1>6. UnitsAt(L, ahead(L, k)) = UnitsAt(M, ahead(M, h))
  <2>. HIDE DEF ahead, h
  <2>. QED BY <1>5, MatchedAmounts
<1>. QED BY <1>2, <1>4, <1>6 DEF OffsetAt

LEMMA NetIntradayMatches ==
  ASSUME NEW D, NEW L \in Seq(Rows(D)), NEW M \in Seq(Rows(D)), NEW K, NEW f, NEW g,
         Matches(f, g, L, M, K), InStep(f, L, K)
  PROVE  \E p, q : Matches(p, q, NetIntraday(L), NetIntraday(M), K)
<1>. DEFINE all(N) == [k \in DOMAIN N |-> Trimmed(N[k], OffsetAt(N, k))]
            left(N) == {k \in DOMAIN N : OffsetAt(N, k) < N[k].units \/ N[k].units = 0}
            A == all(L)
            B == all(M)
            P == left(L)
            Q == left(M)
<1>1. NetIntraday(L) = Picked(A, P) /\ NetIntraday(M) = Picked(B, Q) BY DEF NetIntraday
<1>2. \A n \in PlacesIn(L, K) : f[n] \in PlacesIn(M, K) /\ M[f[n]] = L[n] BY DEF Matches
<1>3. \A n \in PlacesIn(L, K) : OffsetAt(L, n) = OffsetAt(M, f[n]) BY OffsetMatches
<1>4. \A t, x : Trimmed(t, x).sec = t.sec BY DEF Trimmed
<1>5. /\ DOMAIN A = DOMAIN L /\ \A k \in DOMAIN L : A[k] = Trimmed(L[k], OffsetAt(L, k))
      /\ DOMAIN B = DOMAIN M /\ \A k \in DOMAIN M : B[k] = Trimmed(M[k], OffsetAt(M, k))
  OBVIOUS
<1>6. A \in Seq(Rows(D)) /\ B \in Seq(Rows(D))
  <2>1. ASSUME NEW N \in Seq(Rows(D)) PROVE all(N) \in Seq(Rows(D))
    <3>. DEFINE out == all(N)
    <3>1. \A k \in DOMAIN N : N[k] \in Rows(D) => out[k] \in Rows(D) BY OffsetIn, TrimmedIn
    <3>2. out = [k \in DOMAIN N |-> out[k]] OBVIOUS
    <3>. HIDE DEF out
    <3>3. out \in Seq(Rows(D)) BY <3>1, <3>2, RowsMapped
    <3>. QED BY <3>3 DEF out
  <2>. QED BY <2>1
<1>7. P \in SUBSET DOMAIN A /\ Q \in SUBSET DOMAIN B BY <1>5
<1>8. \A k \in PlacesIn(L, K) : k \in P <=> f[k] \in Q BY <1>2, <1>3 DEF PlacesIn
<1>. HIDE DEF A, B, P, Q
<1>9. PlacesIn(A, K) = PlacesIn(L, K) /\ PlacesIn(B, K) = PlacesIn(M, K)
  BY <1>4, <1>5 DEF PlacesIn
<1>10. \A k \in PlacesIn(L, K) : B[f[k]] = A[k] BY <1>2, <1>3, <1>5 DEF PlacesIn
<1>11. Matches(f, g, A, B, K) BY <1>9, <1>10 DEF Matches
<1>12. \E p, q : Matches(p, q, Picked(A, P), Picked(B, Q), K)
  BY <1>6, <1>7, <1>8, <1>9, <1>11, PickedMatches
<1>. QED BY <1>1, <1>12

LEMMA NetRefs ==
  ASSUME NEW D, NEW L \in Seq(Rows(D)), NEW Q, \A k \in DOMAIN L : L[k].ref \in Q
  PROVE  \A k \in DOMAIN NetIntraday(L) : NetIntraday(L)[k].ref \in Q
<1>. DEFINE all == [k \in DOMAIN L |-> Trimmed(L[k], OffsetAt(L, k))]
            left == {k \in DOMAIN L : OffsetAt(L, k) < L[k].units \/ L[k].units = 0}
            T == {t \in Rows(D) : t.ref \in Q}
<1>1. NetIntraday(L) = Picked(all, left) BY DEF NetIntraday
<1>2. \A t, x : Trimmed(t, x).ref = t.ref BY DEF Trimmed
<1>3. \A k \in DOMAIN L : L[k] \in Rows(D) => all[k] \in Rows(D) BY OffsetIn, TrimmedIn
<1>4. \A k \in DOMAIN L : all[k].ref \in Q BY <1>2
<1>5. all = [k \in DOMAIN L |-> all[k]] /\ left \in SUBSET DOMAIN all OBVIOUS
<1>. HIDE DEF all, left
<1>6. all \in Seq(Rows(D)) BY <1>3, <1>5, RowsMapped
<1>7. DOMAIN all = DOMAIN L BY <1>5
<1>8. \A k \in left : all[k] \in T BY <1>4, <1>5, <1>6, <1>7, LenProperties, ElementOfSeq
<1>9. Picked(all, left) \in Seq(T) BY <1>5, <1>6, <1>8, PickedIn
<1>. HIDE DEF T
<1>10. \A k \in DOMAIN NetIntraday(L) : NetIntraday(L)[k] \in T
  BY <1>1, <1>9, LenProperties, ElementOfSeq
<1>. QED BY <1>10 DEF T

-----------------------------------------------------------------------------
(* An event that moves units has no ref that a stored row can have, and    *)
(* events of one ref have one set of terms.                                *)
LEMMA LoggedRef ==
  ASSUME IInv, NEW e \in store.log, e.kind # "demerger"
  PROVE  e.ref \notin BookedRefs(store)
<1>. DEFINE w == here
<1>1. world \in DOMAIN Worlds /\ store.cached \subseteq w.references /\ EventKnown(e, w)
  BY DEF IInv, StoreInv, CacheClosed
<1>2. KeptRefs \cap (RefsOf(w) \cup {a.ref : a \in w.authored}) = {}
  BY <1>1, RefsAssumption DEF KeptRefs, here
<1>3. \A a \in w.authored : a.ref \notin RefsOf(w) BY <1>1, WorldAssumption DEF here
<1>4. \A r, q \in w.references : r.ref = q.ref => r = q
  BY <1>1, ReferencesAssumption DEF here
<1>. HIDE DEF w
<1>5. \A r \in w.references : r.ref \in RefsOf(w) BY DEF RefsOf
<1>6. CASE e \in w.authored
  <2>1. e.ref \notin KeptRefs /\ e.ref \notin RefsOf(w) BY <1>2, <1>3, <1>6
  <2>. QED BY <1>1, <1>5, <2>1 DEF BookedRefs
<1>7. CASE \E r \in FirstListed(w) : e = EventOf(r, e.folio)
  <2>1. PICK r \in FirstListed(w) : e = EventOf(r, e.folio) BY <1>7
  <2>2. e.ref = r.ref /\ r \in w.references /\ r.kind \in Scaling
    BY <2>1 DEF EventOf, FirstListed
  <2>3. e.ref \notin KeptRefs BY <1>2, <1>5, <2>2
  <2>4. ASSUME NEW q \in store.cached, q.kind = "dividend" PROVE q.ref # e.ref
    <3>1. q \in w.references BY <1>1
    <3>2. q # r BY <2>2, <2>4 DEF Scaling
    <3>. QED BY <1>4, <2>2, <3>1, <3>2
  <2>. QED BY <2>3, <2>4 DEF BookedRefs
<1>. QED BY <1>1, <1>6, <1>7 DEF EventKnown

LEMMA LoggedTerms ==
  ASSUME OneTerms, IInv, NEW a \in store.log, a.kind # "demerger",
         NEW b \in store.log, b.kind # "demerger", a.ref = b.ref
  PROVE  SameTerms(a, b)
<1>. DEFINE w == here
<1>1. world \in DOMAIN Worlds /\ EventKnown(a, w) /\ EventKnown(b, w)
  BY DEF IInv, StoreInv
<1>2. \A x \in w.authored : x.ref \notin RefsOf(w) BY <1>1, WorldAssumption DEF here
<1>3. \A r, q \in w.references : r.ref = q.ref => r = q
  BY <1>1, ReferencesAssumption DEF here
<1>4. \A x, y \in w.authored : x.ref = y.ref => SameTerms(x, y)
  BY <1>1 DEF OneTerms, here
<1>. HIDE DEF w
<1>5. \A r \in FirstListed(w) : r \in w.references /\ r.ref \in RefsOf(w)
  BY DEF FirstListed, RefsOf
<1>6. CASE a \in w.authored
  <2>1. a.ref \notin RefsOf(w) BY <1>2, <1>6
  <2>2. ASSUME NEW r \in FirstListed(w) PROVE b # EventOf(r, b.folio)
    BY <1>5, <2>1 DEF EventOf
  <2>3. b \in w.authored BY <1>1, <2>2 DEF EventKnown
  <2>. QED BY <1>4, <1>6, <2>3
<1>7. CASE \E r \in FirstListed(w) : a = EventOf(r, a.folio)
  <2>1. PICK r \in FirstListed(w) : a = EventOf(r, a.folio) BY <1>7
  <2>2. a.ref = r.ref BY <2>1 DEF EventOf
  <2>3. b.ref \in RefsOf(w) BY <1>5, <2>2
  <2>4. PICK q \in FirstListed(w) : b = EventOf(q, b.folio) BY <1>1, <2>3 DEF EventKnown
  <2>5. b.ref = q.ref BY <2>4 DEF EventOf
  <2>6. r = q BY <1>3, <1>5, <2>2, <2>5
  <2>. QED BY <2>1, <2>4, <2>6 DEF EventOf, SameTerms
<1>. QED BY <1>1, <1>6, <1>7 DEF EventKnown

LEMMA LinkedHas ==
  ASSUME NEW log, NEW sec, NEW folio, NEW e \in Touching(log, {sec}, folio), e.sec # NoSecurity
  PROVE  e.sec \in Linked(log, sec, folio)
<1>. DEFINE T == Touching(log, {sec}, folio)
            pair(x) == {x.sec, x.into}
            U == UNION {pair(x) : x \in T}
<1>1. Linked(log, sec, folio) = {sec} \cup (U \ {NoSecurity}) BY DEF Linked
<1>2. e.sec \in pair(e) /\ e \in T OBVIOUS
<1>. HIDE DEF pair, T
<1>3. e.sec \in U BY <1>2
<1>. QED BY <1>1, <1>3

LEMMA SourcesLinked ==
  ASSUME IInv, NEW sec
  PROVE  LET K == Sources(store.log, sec)
             secs == Linked(store.log, sec, NoFolio)
         IN /\ sec \in K /\ K \subseteq secs
            /\ {e \in Touching(store.log, secs, NoFolio) : Moving(e, K)}
                 = {e \in store.log : Moving(e, K)}
<1>. DEFINE K == Sources(store.log, sec)
            secs == Linked(store.log, sec, NoFolio)
<1>1. \A e \in store.log : e.sec \in Securities BY DEF IInv, StoreInv, EventKnown
<1>2. NoSecurity \notin Securities BY TablesAssumption
<1>3. ASSUME NEW e \in store.log, e.kind = "merger", e.into = sec
      PROVE  e.sec \in secs
  <2>1. e \in Touching(store.log, {sec}, NoFolio) BY <1>3 DEF Touching, InScope
  <2>2. e.sec # NoSecurity BY <1>1, <1>2
  <2>. QED BY <2>1, <2>2, LinkedHas
<1>4. sec \in secs BY DEF Linked
<1>5. K \subseteq secs BY <1>3, <1>4 DEF Sources
<1>6. sec \in K BY DEF Sources
<1>. HIDE DEF K, secs
<1>7. Touching(store.log, secs, NoFolio) \subseteq store.log BY DEF Touching
<1>8. ASSUME NEW e \in store.log, Moving(e, K)
      PROVE  e \in Touching(store.log, secs, NoFolio)
  BY <1>5, <1>8 DEF Touching, InScope, Moving
<1>9. {e \in Touching(store.log, secs, NoFolio) : Moving(e, K)} = {e \in store.log : Moving(e, K)}
  BY <1>7, <1>8
<1>. QED BY <1>5, <1>6, <1>9 DEF K, secs

LEMMA LogConfined ==
  ASSUME OneTerms, IInv, NEW sec, ~Chained(sec), NEW E \in SUBSET store.log
  PROVE  LET K == Sources(store.log, sec)
         IN Ranked(E, K) /\ Confined(E, K, MovingRefs(store.log, K))
<1>. DEFINE K == Sources(store.log, sec)
            R == MovingRefs(store.log, K)
<1>1. Ranked(E, K)
  <2>. SUFFICES ASSUME NEW x \in E, NEW y \in E, Moving(x, K), Moving(y, K), x.ref = y.ref
                PROVE  SameTerms(x, y)
    BY DEF Ranked
  <2>1. x \in store.log /\ y \in store.log /\ x.kind # "demerger" /\ y.kind # "demerger"
    BY DEF Moving
  <2>. QED BY <2>1, LoggedTerms
<1>2. ASSUME NEW e \in E, e.kind # "demerger", e.sec \in K
      PROVE  Moving(e, K) /\ e.ref \in R
  BY <1>2 DEF Moving, MovingRefs
<1>3. ASSUME NEW e \in E, e.kind # "demerger", e.sec \notin K
      PROVE  e.ref \notin R /\ (e.kind = "merger" => e.into \notin K)
  <2>1. ASSUME e.ref \in R PROVE FALSE
    <3>1. PICK x \in store.log : Moving(x, K) /\ x.ref = e.ref BY <2>1 DEF MovingRefs
    <3>2. x.kind # "demerger" /\ x.sec \in K BY <3>1 DEF Moving
    <3>3. SameTerms(x, e) BY <1>3, <3>1, <3>2, LoggedTerms
    <3>. QED BY <1>3, <3>2, <3>3 DEF SameTerms
  <2>2. ASSUME e.kind = "merger", e.into \in K PROVE FALSE
    <3>1. CASE e.into = sec BY <1>3, <2>2, <3>1 DEF Sources
    <3>2. CASE e.into # sec
      <4>1. PICK x \in store.log : x.kind = "merger" /\ x.into = sec /\ x.sec = e.into
        BY <2>2, <3>2 DEF Sources
      <4>. QED BY <2>2, <4>1 DEF Chained
    <3>. QED BY <3>1, <3>2
  <2>. QED BY <2>1, <2>2
<1>. HIDE DEF K, R
<1>4. Confined(E, K, R) BY <1>2, <1>3 DEF Confined
<1>. QED BY <1>1, <1>4 DEF K, R

LEMMA RawAlike ==
  ASSUME NEW D \in SUBSET Nat, NEW s, Typed(s, D), NEW secs, NEW K \in SUBSET secs,
         NEW R, R \cap BookedRefs(s) = {}
  PROVE  /\ Alike(WholeRaw(s), LinkedRaw(s, secs), K, R)
         /\ WholeRaw(s) \in Seq(Rows(D)) /\ LinkedRaw(s, secs) \in Seq(Rows(D))
<1>. DEFINE rows == s.rows
            P == {k \in DOMAIN rows : rows[k].complete}
            Q == {k \in DOMAIN rows : /\ rows[k].sec \in secs
                                      /\ NoFolio \in {NoFolio, rows[k].folio}
                                      /\ (rows[k].complete \/ FALSE)}
            all == Picked(rows, P)
            some == Picked(rows, Q)
            f == [k \in DOMAIN rows |-> k]
            S == StoredRows(s, D)
<1>1. rows \in Seq(S) BY DEF Typed
<1>2. WholeRaw(s) = NetIntraday(all) /\ LinkedRaw(s, secs) = NetIntraday(some)
  BY DEF WholeRaw, LinkedRaw, Keep
<1>3. P \in SUBSET DOMAIN rows /\ Q \in SUBSET DOMAIN rows OBVIOUS
<1>4. \A k \in PlacesIn(rows, K) : k \in DOMAIN rows /\ rows[k].sec \in K BY DEF PlacesIn
<1>5. \A k \in PlacesIn(rows, K) : f[k] = k BY <1>4
<1>6. \A k \in PlacesIn(rows, K) : k \in P <=> f[k] \in Q BY <1>4, <1>5
<1>. HIDE DEF rows, P, Q, f, S
<1>7. Matches(f, f, rows, rows, K) BY <1>5 DEF Matches
<1>8. InStep(f, rows, K) BY <1>5 DEF InStep
<1>9. \E p, q : /\ Matches(p, q, Picked(rows, P), Picked(rows, Q), K)
                /\ InStep(f, rows, K) => InStep(p, Picked(rows, P), K)
  BY <1>1, <1>3, <1>6, <1>7, PickedMatches
<1>10. PICK p, q : Matches(p, q, all, some, K) /\ InStep(p, all, K) BY <1>8, <1>9
<1>11. all \in Seq(S) /\ some \in Seq(S) BY <1>1, <1>3, PickedPlaced
<1>12. all \in Seq(Rows(D)) /\ some \in Seq(Rows(D)) BY <1>11, BookedRows DEF S
<1>13. /\ \A k \in DOMAIN all : all[k] \in S
       /\ \A k \in DOMAIN some : some[k] \in S
  BY <1>11, LenProperties, ElementOfSeq
<1>14. \A t \in S : t.ref \in BookedRefs(s) BY DEF S, StoredRows
<1>. HIDE DEF all, some
<1>15. \E g, h : Matches(g, h, NetIntraday(all), NetIntraday(some), K)
  BY <1>10, <1>12, NetIntradayMatches
<1>16. /\ \A k \in DOMAIN NetIntraday(all) : NetIntraday(all)[k].ref \in BookedRefs(s)
       /\ \A k \in DOMAIN NetIntraday(some) : NetIntraday(some)[k].ref \in BookedRefs(s)
  BY <1>12, <1>13, <1>14, NetRefs
<1>17. SameRefs(NetIntraday(all), NetIntraday(some), R) BY <1>16 DEF SameRefs, HasRef
<1>18. NetIntraday(all) \in Seq(Rows(D)) /\ NetIntraday(some) \in Seq(Rows(D))
  BY <1>12, NetIntradayIn
<1>19. Alike(NetIntraday(all), NetIntraday(some), K, R) BY <1>15, <1>17 DEF Alike
<1>. QED BY <1>2, <1>18, <1>19

(* Alike ledgers show the same units of a security.                        *)
LEMMA OwnUnitsAlike ==
  ASSUME NEW D, NEW L \in Seq(Rows(D)), NEW M \in Seq(Rows(D)), NEW K, NEW R,
         Alike(L, M, K, R), NEW sec \in K
  PROVE  NetUnits(OwnRows(L, sec)) = NetUnits(OwnRows(M, sec))
<1>. DEFINE P == {k \in DOMAIN L : L[k].sec = sec}
            Q == {k \in DOMAIN M : M[k].sec = sec}
<1>1. PICK f, g : Matches(f, g, L, M, K) BY DEF Alike
<1>2. P \in SUBSET PlacesIn(L, K) /\ Q \in SUBSET PlacesIn(M, K) BY DEF PlacesIn
<1>3. \A k \in PlacesIn(L, K) : k \in P <=> f[k] \in Q BY <1>1 DEF Matches, PlacesIn
<1>4. OwnRows(L, sec) = Picked(L, P) /\ OwnRows(M, sec) = Picked(M, Q)
  BY DEF OwnRows, Keep
<1>5. P \in SUBSET DOMAIN L /\ Q \in SUBSET DOMAIN M OBVIOUS
<1>. HIDE DEF P, Q
<1>6. UnitsIn(L, P) = UnitsIn(M, Q) BY <1>1, <1>2, <1>3, MatchedUnits
<1>7. NetUnits(Picked(L, P)) = UnitsIn(L, P) /\ NetUnits(Picked(M, Q)) = UnitsIn(M, Q)
  BY <1>5, PickedNet
<1>. QED BY <1>4, <1>6, <1>7

LEMMA OneReading ==
  ASSUME OneTerms, IInv, Typed(store, DaysOf(here)), NEW sec, ~Chained(sec)
  PROVE  NetUnits(ComputeLedger(store, sec, NoFolio, FALSE)) = InvestorUnits(store, sec)
<1>. DEFINE D == DaysOf(here)
            log == store.log
            K == Sources(log, sec)
            R == MovingRefs(log, K)
            secs == Linked(log, sec, NoFolio)
            E == Touching(log, secs, NoFolio)
            F == {e \in log : Moving(e, K)}
            L == WholeRaw(store)
            M == LinkedRaw(store, secs)
<1>1. /\ InvestorUnits(store, sec) = NetUnits(OwnRows(Replay(L, log), sec))
      /\ ComputeLedger(store, sec, NoFolio, FALSE) = OwnRows(Replay(M, E), sec)
  BY DEF InvestorUnits, ProjectedTransactions, ComputeLedger, WholeRaw, LinkedRaw, OwnRows
<1>2. world \in DOMAIN Worlds BY DEF IInv
<1>3. D \in SUBSET Nat BY <1>2, WorldDays DEF here
<1>4. IsFiniteSet(log) /\ \A e \in log : IsEvent(e) /\ e.day \in D BY DEF Typed
<1>5. E \in SUBSET log BY DEF Touching
<1>6. sec \in K /\ K \in SUBSET secs /\ {e \in E : Moving(e, K)} = F BY SourcesLinked
<1>7. R \cap BookedRefs(store) = {}
  <2>1. \A e \in log : Moving(e, K) => e.ref \notin BookedRefs(store)
    BY LoggedRef DEF Moving
  <2>. QED BY <2>1 DEF MovingRefs
<1>8. NoRef \notin R BY <1>7 DEF BookedRefs, KeptRefs
<1>9. Ranked(log, K) /\ Confined(log, K, R) BY LogConfined
<1>10. Ranked(E, K) /\ Confined(E, K, R) BY <1>5, LogConfined
<1>11. IsFiniteSet(E) /\ \A e \in E : IsEvent(e) /\ e.day \in D BY <1>4, <1>5, FS_Subset
<1>. HIDE DEF K, R, secs, E
<1>12. Alike(L, M, K, R) /\ L \in Seq(Rows(D)) /\ M \in Seq(Rows(D))
  BY <1>3, <1>6, <1>7, RawAlike
<1>. HIDE DEF D, L, M, log
<1>13. Alike(Replay(L, log), Replay(M, F), K, R)
  BY <1>3, <1>4, <1>8, <1>9, <1>12, ReplayAlike DEF F
<1>14. Alike(Replay(M, E), Replay(M, {e \in E : Moving(e, K)}), K, R)
  BY <1>3, <1>8, <1>10, <1>11, <1>12, AlikeSelf, ReplayAlike
<1>. HIDE DEF F
<1>15. Alike(Replay(M, F), Replay(M, E), K, R) BY <1>6, <1>14, AlikeSymmetric
<1>16. Alike(Replay(L, log), Replay(M, E), K, R) BY <1>13, <1>15, AlikeTransitive
<1>17. Replay(L, log) \in Seq(Rows(D)) /\ Replay(M, E) \in Seq(Rows(D))
  BY <1>3, <1>4, <1>11, <1>12, ReplayIn
<1>18. NetUnits(OwnRows(Replay(L, log), sec)) = NetUnits(OwnRows(Replay(M, E), sec))
  BY <1>6, <1>16, <1>17, OwnUnitsAlike
<1>. QED BY <1>1, <1>18

(* Where events of one ref have one set of terms, reading one security and *)
(* reading the whole ledger give the same units, with any securities, any  *)
(* log and any trades: leaving out the rows and the events of securities   *)
(* that no merger joins to it changes nothing (compute_ledger and          *)
(* projected_transactions, services/projected_ledger.py).                  *)
THEOREM ReadingsAgree == OneTerms => (Spec => []ViewsAgree)
<1>. SUFFICES ASSUME OneTerms PROVE Spec => []ViewsAgree
  OBVIOUS
<1>1. IInv /\ Typed(store, DaysOf(here)) => ViewsAgree
  BY OneReading DEF ViewsAgree
<1>. QED BY <1>1, AmountsInvariant, PTL

-----------------------------------------------------------------------------
(* The two tax reports agree on every ledger: a long-term line is one of   *)
(* section 112A, and its gain is column 6 less column 13, grandfathered or *)
(* not (IndiaTaxPolicy.adjusted_cost, _build_row).                         *)
LEMMA SameLines ==
  ASSUME NEW year
  PROVE  Schedule112A(store, year)
           = {l \in InYear(GainLines(store, FALSE), year) : Term(Slice(l)) = "long"}
<1>1. ASSUME NEW d, Term(d) = "long" PROVE d.sec \in Eligible
  BY <1>1 DEF Term
<1>. QED BY <1>1 DEF Schedule112A

LEMMA SameBalance ==
  ASSUME NEW d, Term(d) = "long"
  PROVE  Gain(d) = Balance112A(d)
BY DEF Gain, AdjustedCost, Balance112A, CappedAtFmv, CostCap

THEOREM TaxReportsAgree == Spec => []ReportsAgree
<1>1. ReportsAgree
  <2>. SUFFICES ASSUME NEW year \in Years
                PROVE  CapitalGains(store, year)["long"]
                         = SumOver(Schedule112A(store, year), LAMBDA l : Balance112A(Slice(l)))
    BY DEF ReportsAgree
  <2>. DEFINE lines == InYear(GainLines(store, FALSE), year)
              long  == {l \in lines : Term(Slice(l)) = "long"}
  <2>1. CapitalGains(store, year)["long"] = SumFunction([l \in long |-> Gain(Slice(l))])
    BY DEF CapitalGains, TotalGain, SumOver
  <2>2. [l \in long |-> Gain(Slice(l))] = [l \in long |-> Balance112A(Slice(l))]
    BY SameBalance
  <2>3. Schedule112A(store, year) = long BY SameLines
  <2>4. SumOver(long, LAMBDA l : Balance112A(Slice(l)))
          = SumFunction([l \in long |-> Balance112A(Slice(l))])
    BY DEF SumOver
  <2>. HIDE DEF long
  <2>. QED BY <2>1, <2>2, <2>3, <2>4
<1>. QED BY <1>1, PTL

-----------------------------------------------------------------------------
(* What is taken from places in turn adds up.                              *)
LEMMA TakenInTurn ==
  ASSUME NEW S \in SUBSET Nat, IsFiniteSet(S), NEW u, \A k \in S : u[k] \in Nat, NEW n \in Nat
  PROVE  SumFunctionOnSet(TakenBy(u, S, n), S) = Least(n, SumFunctionOnSet(u, S))
<1>. DEFINE Good == {T \in SUBSET S :
              SumFunctionOnSet(TakenBy(u, T, n), T) = Least(n, SumFunctionOnSet(u, T))}
<1>0. ASSUME NEW T \in SUBSET S
      PROVE  IsFiniteSet(T) /\ SumFunctionOnSet(u, T) \in Nat
  <2>1. IsFiniteSet(T) BY FS_Subset
  <2>2. \A k \in T : u[k] \in Int /\ 0 <= u[k] OBVIOUS
  <2>. DEFINE z == [k \in T |-> 0]
  <2>3. \A k \in T : z[k] \in Int /\ u[k] \in Int /\ z[k] <= u[k] /\ z[k] = 0 BY <2>2
  <2>. HIDE DEF z
  <2>4. SumFunctionOnSet(z, T) = 0 /\ SumFunctionOnSet(z, T) <= SumFunctionOnSet(u, T)
    BY <2>1, <2>3, SumZero, SumMonotonic
  <2>5. SumFunctionOnSet(u, T) \in Int BY <2>1, <2>2, SumType
  <2>. QED BY <2>1, <2>4, <2>5
<1>1. ASSUME NEW T \in SUBSET S, \A U \in SUBSET T : U # T => U \in Good
      PROVE  T \in Good
  <2>1. CASE T = {}
    <3>1. SumFunctionOnSet(TakenBy(u, T, n), T) = 0 /\ SumFunctionOnSet(u, T) = 0
      BY <2>1, SumEmpty
    <3>. QED BY <3>1 DEF Least
  <2>2. CASE T # {}
    <3>. DEFINE x == Max(T)
                U == T \ {x}
                t == TakenBy(u, T, n)
                v == TakenBy(u, U, n)
    <3>1. x \in T /\ \A y \in T : y <= x
      <4>1. T \in SUBSET Int /\ IsFiniteSet(T) BY <1>0
      <4>. QED BY <2>2, <4>1, Greatest
    <3>. HIDE DEF x
    <3>2. U \in SUBSET S /\ U \in SUBSET T /\ U # T BY <3>1
    <3>3. SumFunctionOnSet(v, U) = Least(n, SumFunctionOnSet(u, U)) BY <3>2, <1>1
    <3>4. \A k \in U : {j \in T : j < k} = {j \in U : j < k} BY <3>1
    <3>5. {j \in T : j < x} = U
      <4>1. T \in SUBSET Int OBVIOUS
      <4>2. \A j \in T : j < x <=> j # x BY <3>1, <4>1
      <4>. QED BY <4>2
    <3>6. \A k \in U : t[k] = v[k] BY <3>4 DEF TakenBy, AheadOf
    <3>7. t[x] = Taken(u[x], SumFunctionOnSet(u, U), n) BY <3>1, <3>5 DEF TakenBy, AheadOf
    <3>8. ASSUME NEW k \in T PROVE t[k] \in Int
      <4>1. {j \in T : j < k} \in SUBSET S OBVIOUS
      <4>2. AheadOf(u, T, k) \in Nat BY <4>1, <1>0 DEF AheadOf
      <4>3. Taken(u[k], AheadOf(u, T, k), n) \in 0 .. u[k] BY <4>2, TakenIn
      <4>. QED BY <4>3 DEF TakenBy
    <3>9. /\ SumFunctionOnSet(u, U) \in Nat /\ IsFiniteSet(U) /\ IsFiniteSet(T)
          /\ u[x] \in Nat
      BY <3>1, <3>2, <1>0
    <3>. HIDE DEF t, v, U
    <3>10. SumFunctionOnSet(t, T) = t[x] + SumFunctionOnSet(t, U)
      BY <3>1, <3>8, <3>9, SumRemove DEF U
    <3>11. SumFunctionOnSet(t, U) = SumFunctionOnSet(v, U)
      <4>1. \A k \in U : v[k] \in Int /\ t[k] = v[k] BY <3>2, <3>6, <3>8
      <4>. QED BY <3>9, <4>1, SumSame
    <3>12. \A k \in T : u[k] \in Int OBVIOUS
    <3>13. SumFunctionOnSet(u, T) = u[x] + SumFunctionOnSet(u, U)
      BY <3>1, <3>9, <3>12, SumRemove DEF U
    <3>14. Least(n, SumFunctionOnSet(u, U)) + Taken(u[x], SumFunctionOnSet(u, U), n)
             = Least(n, SumFunctionOnSet(u, U) + u[x])
      BY <3>9, Telescope
    <3>15. Least(n, SumFunctionOnSet(u, U)) \in Int BY <3>9 DEF Least
    <3>16. Taken(u[x], SumFunctionOnSet(u, U), n) \in Int BY <3>1, <3>7, <3>8
    <3>17. SumFunctionOnSet(t, T) = Least(n, SumFunctionOnSet(u, T))
      BY <3>3, <3>7, <3>9, <3>10, <3>11, <3>13, <3>14, <3>15, <3>16
    <3>. QED BY <3>17 DEF t
  <2>. QED BY <2>1, <2>2
<1>. HIDE DEF Good
<1>2. \A T \in SUBSET S : T \in Good BY <1>1, SubsetInduction
<1>. QED BY <1>2 DEF Good

-----------------------------------------------------------------------------
(* What netting takes from a day's purchases it takes from its sales.      *)
LEMMA DayLoses ==
  ASSUME NEW D, NEW L \in Seq(Rows(D)), NEW k \in DOMAIN L, NEW type \in {"buy", "sell"},
         NEW g, NEW B, B = DayTrades(L, k, type),
         \A j \in B : g[j] = OffsetAt(L, j)
  PROVE  SumFunctionOnSet(g, B) = DayOffset(L, k) /\ DayOffset(L, k) \in Nat
<1>. DEFINE u == [j \in DOMAIN L |-> L[j].units]
            n == DayOffset(L, k)
            t == TakenBy(u, B, n)
<1>1. DOMAIN L = 1 .. Len(L) /\ Len(L) \in Nat BY LenProperties
<1>2. /\ DayTrades(L, k, "buy") \in SUBSET DOMAIN L
      /\ DayTrades(L, k, "sell") \in SUBSET DOMAIN L
      /\ B \in SUBSET DOMAIN L
  BY DEF DayTrades
<1>3. /\ UnitsAt(L, DayTrades(L, k, "buy")) \in Nat
      /\ UnitsAt(L, DayTrades(L, k, "sell")) \in Nat
  BY <1>2, UnitsAtNat
<1>4. n \in Nat /\ n <= UnitsAt(L, B) /\ UnitsAt(L, B) \in Nat BY <1>3 DEF DayOffset, Least
<1>5. B \in SUBSET Nat BY <1>1, <1>2
<1>6. IsFiniteSet(B) BY <1>2, PickedPlaced
<1>7. \A j \in DOMAIN L : L[j] \in Rows(D) BY LenProperties, ElementOfSeq
<1>8. \A j \in B : u[j] \in Nat BY <1>2, <1>7, RowFields
<1>9. ASSUME NEW j \in B PROVE g[j] = t[j] /\ OffsetAt(L, j) \in Int
  <2>1. /\ DayTrades(L, j, "buy") = DayTrades(L, k, "buy")
        /\ DayTrades(L, j, "sell") = DayTrades(L, k, "sell")
        /\ L[j].type = type /\ j \in DOMAIN L
    BY DEF DayTrades
  <2>2. DayTrades(L, j, L[j].type) = B BY <2>1
  <2>3. UnitsAt(L, {i \in B : i < j}) = AheadOf(u, B, j) BY DEF UnitsAt, AheadOf
  <2>4. OffsetAt(L, j) = Taken(L[j].units, AheadOf(u, B, j), n)
    BY <2>1, <2>2, <2>3 DEF OffsetAt, DayOffset
  <2>5. OffsetAt(L, j) \in 0 .. L[j].units BY <2>1, OffsetIn
  <2>6. u[j] = L[j].units BY <2>1
  <2>7. L[j].units \in Nat BY <2>1, <1>7, RowFields
  <2>. HIDE DEF u, n
  <2>. QED BY <2>4, <2>5, <2>6, <2>7 DEF TakenBy
<1>10. UnitsAt(L, B) = SumFunctionOnSet(u, B) BY DEF UnitsAt
<1>. HIDE DEF u, n
<1>11. SumFunctionOnSet(t, B) = Least(n, SumFunctionOnSet(u, B))
  BY <1>4, <1>5, <1>6, <1>8, TakenInTurn
<1>12. \A j \in B : t[j] \in Int /\ g[j] = t[j] BY <1>9
<1>. HIDE DEF t
<1>13. SumFunctionOnSet(g, B) = SumFunctionOnSet(t, B) BY <1>6, <1>12, SumSame
<1>14. SumFunctionOnSet(g, B) = n BY <1>4, <1>10, <1>11, <1>13 DEF Least
<1>. QED BY <1>4, <1>14 DEF n

LEMMA DayBalances ==
  ASSUME NEW D, NEW L \in Seq(Rows(D)), NEW P \in SUBSET DOMAIN L, NEW k \in P,
         \A j \in DOMAIN L : <<L[j].sec, L[j].folio, L[j].day>> = <<L[k].sec, L[k].folio, L[k].day>>
           <=> j \in P,
         NEW g, \A j \in P : g[j] = OffsetSigned(L, j)
  PROVE  SumFunctionOnSet(g, P) = 0
<1>. DEFINE B == DayTrades(L, k, "buy")
            S == DayTrades(L, k, "sell")
            O == P \ (B \cup S)
            n == DayOffset(L, k)
            minus == [j \in S |-> OffsetAt(L, j)]
<1>1. B \in SUBSET P /\ S \in SUBSET P /\ B \cap S = {} BY DEF DayTrades
<1>2. IsFiniteSet(P) BY PickedPlaced
<1>3. IsFiniteSet(B) /\ IsFiniteSet(S) /\ IsFiniteSet(O) /\ IsFiniteSet(B \cup S)
  BY <1>1, <1>2, FS_Subset, FS_Union
<1>4. \A j \in B : g[j] = OffsetAt(L, j)
  BY <1>1 DEF DayTrades, OffsetSigned
<1>5. \A j \in S : g[j] = 0 - OffsetAt(L, j) /\ minus[j] = OffsetAt(L, j)
  BY <1>1 DEF DayTrades, OffsetSigned
<1>6. \A j \in O : g[j] = 0
  <2>1. \A j \in P : L[j].type = "buy" => j \in B BY DEF DayTrades
  <2>2. \A j \in P : L[j].type = "sell" => j \in S BY DEF DayTrades
  <2>. HIDE DEF B, S
  <2>. QED BY <2>1, <2>2 DEF OffsetSigned
<1>7. \A j \in DOMAIN L : OffsetAt(L, j) \in Int
  <2>1. \A j \in DOMAIN L : L[j] \in Rows(D) BY LenProperties, ElementOfSeq
  <2>2. \A j \in DOMAIN L : L[j].units \in Nat BY <2>1, RowFields
  <2>. QED BY <2>2, OffsetIn
<1>8. \A j \in B : g[j] \in Int BY <1>1, <1>4, <1>7
<1>9. \A j \in S : g[j] \in Int /\ minus[j] \in Int /\ g[j] = (0 - 1) * minus[j]
  BY <1>1, <1>5, <1>7
<1>10. P = (B \cup S) \cup O /\ (B \cup S) \cap O = {} BY <1>1
<1>11. SumFunctionOnSet(g, B) = n /\ n \in Nat BY <1>4, DayLoses
<1>12. SumFunctionOnSet(minus, S) = n BY <1>5, DayLoses
<1>. HIDE DEF n, minus
<1>13. SumFunctionOnSet(g, S) = (0 - 1) * n
  <2>1. 0 - 1 \in Int OBVIOUS
  <2>. QED BY <2>1, <1>3, <1>9, <1>12, SumScale
<1>14. SumFunctionOnSet(g, O) = 0 BY <1>3, <1>6, SumZero
<1>. HIDE DEF B, S, O
<1>15. SumFunctionOnSet(g, B \cup S) = SumFunctionOnSet(g, B) + SumFunctionOnSet(g, S)
  BY <1>1, <1>3, <1>8, <1>9, SumUnion
<1>16. \A j \in (B \cup S) \cup O : g[j] \in Int BY <1>6, <1>8, <1>9
<1>17. SumFunctionOnSet(g, P) = SumFunctionOnSet(g, B \cup S) + SumFunctionOnSet(g, O)
  BY <1>3, <1>10, <1>16, SumUnion
<1>. QED BY <1>11, <1>13, <1>14, <1>15, <1>17

LEMMA OffsetsBalance ==
  ASSUME NEW D, NEW L \in Seq(Rows(D)), NEW sec, NEW folio, NEW day,
         NEW g, \A j \in DOMAIN L : g[j] = OffsetSigned(L, j)
  PROVE  SumFunctionOnSet(g, HeldPlaces(L, sec, folio, day)) = 0
<1>. DEFINE P == HeldPlaces(L, sec, folio, day)
            at(j) == <<L[j].sec, L[j].folio, L[j].day>>
            class == [j \in P |-> at(j)]
            C == {at(j) : j \in P}
            zero == [c \in C |-> 0]
<1>1. P \in SUBSET DOMAIN L BY DEF HeldPlaces
<1>2. IsFiniteSet(P) BY <1>1, PickedPlaced
<1>3. class \in [P -> C] /\ \A c \in C : \E j \in P : class[j] = c OBVIOUS
<1>4. IsFiniteSet(C)
  <2>. HIDE DEF class, C, P
  <2>. QED BY <1>2, <1>3, ImageFinite
<1>5. ASSUME NEW j \in DOMAIN L PROVE g[j] \in Int
  <2>1. \A k \in DOMAIN L : L[k] \in Rows(D) BY LenProperties, ElementOfSeq
  <2>2. L[j].units \in Nat BY <2>1, RowFields
  <2>3. OffsetAt(L, j) \in Int BY <2>2, OffsetIn
  <2>. QED BY <2>3 DEF OffsetSigned
<1>6. ASSUME NEW c \in C PROVE SumFunctionOnSet(g, ClassOf(P, class, c)) = 0
  <2>1. PICK k \in P : at(k) = c OBVIOUS
  <2>. DEFINE Q == ClassOf(P, class, c)
  <2>2. k \in Q BY <2>1 DEF ClassOf
  <2>3. Q \in SUBSET DOMAIN L BY <1>1 DEF ClassOf
  <2>4. \A j \in DOMAIN L : at(j) = at(k) <=> j \in Q
    <3>1. \A j \in Q : at(j) = at(k) BY <2>1 DEF ClassOf
    <3>2. ASSUME NEW j \in DOMAIN L, at(j) = at(k) PROVE j \in Q
      <4>1. L[j].sec = L[k].sec /\ L[j].folio = L[k].folio /\ L[j].day = L[k].day BY <3>2
      <4>2. j \in P BY <4>1 DEF HeldPlaces
      <4>. QED BY <2>1, <3>2, <4>2 DEF ClassOf
    <3>. QED BY <3>1, <3>2
  <2>5. \A j \in Q : g[j] = OffsetSigned(L, j) BY <2>3
  <2>. HIDE DEF Q, P, C
  <2>6. SumFunctionOnSet(g, Q) = 0 BY <2>2, <2>3, <2>4, <2>5, DayBalances
  <2>. QED BY <2>6 DEF Q
<1>7. \A c \in C : zero[c] = 0 OBVIOUS
<1>8. \A j \in P : g[j] \in Int BY <1>1, <1>5
<1>9. \A j \in P : class[j] \in C BY <1>3
<1>. HIDE DEF P, class, C, zero
<1>10. SumFunctionOnSet(zero, C) = 0 BY <1>4, <1>7, SumZero
<1>11. SumFunctionOnSet(zero, C) = SumFunctionOnSet(g, P)
  BY <1>2, <1>4, <1>6, <1>7, <1>8, <1>9, SumByClass
<1>. QED BY <1>10, <1>11 DEF P

LEMMA TrimmedSigned ==
  ASSUME NEW D, NEW L \in Seq(Rows(D)), NEW k \in DOMAIN L
  PROVE  LET t == Trimmed(L[k], OffsetAt(L, k))
         IN /\ t.sec = L[k].sec /\ t.folio = L[k].folio /\ t.day = L[k].day
            /\ t.units = L[k].units - OffsetAt(L, k)
            /\ Signed(L[k]) = Signed(t) + OffsetSigned(L, k)
            /\ Signed(t) \in Int /\ OffsetSigned(L, k) \in Int
            /\ t \in Rows(D)
            /\ ~(OffsetAt(L, k) < L[k].units \/ L[k].units = 0) => Signed(t) = 0
<1>. DEFINE n == OffsetAt(L, k)
            t == Trimmed(L[k], n)
<1>1. L[k] \in Rows(D) BY LenProperties, ElementOfSeq
<1>2. n \in 0 .. L[k].units BY OffsetIn
<1>3. L[k].units \in Nat /\ L[k].type \in RowTypes BY <1>1, RowFields
<1>4. t \in Rows(D) BY <1>1, <1>2, TrimmedIn
<1>5. /\ t.sec = L[k].sec /\ t.folio = L[k].folio /\ t.day = L[k].day /\ t.type = L[k].type
      /\ t.units = L[k].units - n
  BY <1>1, <1>2, <1>3 DEF Trimmed, Rows
<1>6. L[k].type \notin {"buy", "sell"} => n = 0 BY DEF OffsetAt
<1>. HIDE DEF n, t
<1>7. Signed(L[k]) = Signed(t) + OffsetSigned(L, k) /\ Signed(t) \in Int
      /\ OffsetSigned(L, k) \in Int
  BY <1>2, <1>3, <1>5, <1>6 DEF Signed, OffsetSigned, n, Inflows, Outflows
<1>8. ~(n < L[k].units \/ L[k].units = 0) => Signed(t) = 0
  BY <1>2, <1>3, <1>5 DEF Signed
<1>. QED BY <1>4, <1>5, <1>7, <1>8 DEF n, t

LEMMA IntradayHeld ==
  ASSUME NEW D, NEW L \in Seq(Rows(D)), NEW sec, NEW folio, NEW day
  PROVE  HeldUnits(NetIntraday(L), sec, folio, day) = HeldUnits(L, sec, folio, day)
<1>. DEFINE all == [k \in DOMAIN L |-> Trimmed(L[k], OffsetAt(L, k))]
            left == {k \in DOMAIN L : OffsetAt(L, k) < L[k].units \/ L[k].units = 0}
            N == Picked(all, left)
            P == HeldPlaces(L, sec, folio, day)
            Q == HeldPlaces(N, sec, folio, day)
            T == P \cap left
            f == [k \in DOMAIN all |-> Signed(all[k])]
            g == [k \in DOMAIN L |-> OffsetSigned(L, k)]
            h == [k \in DOMAIN L |-> Signed(L[k])]
<1>1. NetIntraday(L) = N BY DEF NetIntraday
<1>2. all \in Seq(Rows(D)) /\ DOMAIN all = DOMAIN L
  <2>1. all = [k \in DOMAIN L |-> all[k]] OBVIOUS
  <2>2. \A k \in DOMAIN L : all[k] \in Rows(D) BY TrimmedSigned
  <2>. HIDE DEF all
  <2>. QED BY <2>1, <2>2, RowsMapped
<1>3. P \in SUBSET DOMAIN L /\ left \in SUBSET DOMAIN L BY DEF HeldPlaces
<1>4. P = HeldPlaces(all, sec, folio, day) BY TrimmedSigned DEF HeldPlaces
<1>5. \A k \in P : f[k] \in Int /\ g[k] \in Int /\ h[k] = f[k] + g[k]
  BY <1>3, TrimmedSigned
<1>6. \A k \in P \ T : f[k] = 0 BY <1>3, TrimmedSigned
<1>7. \A k \in DOMAIN L : g[k] = OffsetSigned(L, k) OBVIOUS
<1>. HIDE DEF all, left, f, g
<1>8. PICK order : Enumerates(order, left) /\ N = Placed(all, order) /\ N \in Seq(Rows(D))
  BY <1>2, <1>3, PickedPlaced
<1>9. order \in Seq(left) BY <1>8 DEF Enumerates
<1>10. DOMAIN N = DOMAIN order /\ \A i \in DOMAIN order : order[i] \in left /\ N[i] = all[order[i]]
  BY <1>2, <1>3, <1>8, <1>9, PlacedIn
<1>. HIDE DEF N
<1>11. Q \in SUBSET DOMAIN order /\ \A i \in DOMAIN order : i \in Q <=> order[i] \in T
  BY <1>2, <1>3, <1>4, <1>10 DEF HeldPlaces
<1>. HIDE DEF P, Q
<1>12. UnitsIn(N, Q) = UnitsIn(all, T)
  <2>1. T \in SUBSET left /\ left \in SUBSET DOMAIN all BY <1>2, <1>3
  <2>. HIDE DEF T
  <2>. QED BY <1>2, <1>8, <1>11, <2>1, PlacedUnits
<1>13. IsFiniteSet(P) BY <1>3, PickedPlaced
<1>14. IsFiniteSet(T) /\ IsFiniteSet(P \ T) BY <1>13, FS_Subset
<1>15. SumFunctionOnSet(f, P \ T) = 0 BY <1>6, <1>14, SumZero
<1>16. SumFunctionOnSet(f, P) = SumFunctionOnSet(f, T) + SumFunctionOnSet(f, P \ T)
  <2>1. P = T \cup (P \ T) /\ T \cap (P \ T) = {} OBVIOUS
  <2>2. \A k \in T \cup (P \ T) : f[k] \in Int BY <1>5
  <2>. QED BY <1>14, <2>1, <2>2, SumUnion
<1>17. SumFunctionOnSet(h, P) = SumFunctionOnSet(f, P) + SumFunctionOnSet(g, P)
  <2>. HIDE DEF h
  <2>. QED BY <1>5, <1>13, SumPlus
<1>18. SumFunctionOnSet(g, P) = 0 BY <1>7, OffsetsBalance DEF P
<1>19. SumFunctionOnSet(f, T) \in Int BY <1>5, <1>14, SumType
<1>20. UnitsIn(L, P) = SumFunctionOnSet(h, P) BY DEF UnitsIn
<1>21. UnitsIn(all, T) = SumFunctionOnSet(f, T) BY DEF UnitsIn, f
<1>22. UnitsIn(L, P) = UnitsIn(N, Q) BY <1>12, <1>15, <1>16, <1>17, <1>18, <1>19, <1>20, <1>21
<1>. QED BY <1>1, <1>8, <1>22, HeldIs DEF P, Q

-----------------------------------------------------------------------------
(* Plain ledgers are ledgers.                                              *)
LEMMA PlainIn ==
  ASSUME NEW D, NEW sec, NEW L \in Seq(PlainRows(D, sec))
  PROVE  /\ L \in Seq(Rows(D)) /\ DOMAIN L = 1 .. Len(L) /\ Len(L) \in Nat
         /\ \A k \in DOMAIN L : L[k] \in PlainRows(D, sec) /\ L[k] \in Rows(D)
<1>1. PlainRows(D, sec) \subseteq Rows(D) BY DEF PlainRows
<1>2. L \in Seq(Rows(D)) BY <1>1, SeqMonotonic
<1>3. \A k \in DOMAIN L : L[k] \in PlainRows(D, sec) BY LenProperties, ElementOfSeq
<1>. QED BY <1>1, <1>2, <1>3, LenProperties

LEMMA AlikePlain ==
  ASSUME NEW D, NEW sec, NEW L \in Seq(PlainRows(D, sec)), NEW M \in Seq(Rows(D)), NEW R,
         Alike(M, L, {sec}, R)
  PROVE  M \in Seq(PlainRows(D, sec))
<1>1. PICK f, g : Matches(f, g, M, L, {sec}) BY DEF Alike
<1>2. \A k \in DOMAIN L : L[k] \in PlainRows(D, sec) BY PlainIn
<1>3. DOMAIN M = 1 .. Len(M) /\ Len(M) \in Nat BY LenProperties
<1>4. \A k \in DOMAIN M : M[k] \in Rows(D) BY LenProperties, ElementOfSeq
<1>5. ASSUME NEW k \in 1 .. Len(M) PROVE M[k] \in PlainRows(D, sec)
  <2>1. CASE M[k].sec = sec
    <3>1. k \in PlacesIn(M, {sec}) BY <1>3, <2>1 DEF PlacesIn
    <3>2. f[k] \in PlacesIn(L, {sec}) /\ L[f[k]] = M[k] BY <1>1, <3>1 DEF Matches
    <3>. QED BY <1>2, <3>2 DEF PlacesIn
  <2>2. CASE M[k].sec # sec BY <1>3, <1>4, <2>2 DEF PlainRows
  <2>. QED BY <2>1, <2>2
<1>6. [k \in 1 .. Len(M) |-> M[k]] \in Seq(PlainRows(D, sec)) BY <1>3, <1>5, IsASeq
<1>7. M = [k \in DOMAIN M |-> M[k]] OBVIOUS
<1>. QED BY <1>3, <1>6, <1>7

LEMMA SortedPlain ==
  ASSUME NEW D \in SUBSET Nat, NEW sec, NEW L \in Seq(PlainRows(D, sec))
  PROVE  /\ InTradingOrder(L) \in Seq(PlainRows(D, sec))
         /\ \A folio, day :
              HeldUnits(InTradingOrder(L), sec, folio, day) = HeldUnits(L, sec, folio, day)
<1>1. L \in Seq(Rows(D)) BY PlainIn
<1>2. Alike(L, L, {sec}, {}) BY AlikeSelf
<1>3. Alike(InTradingOrder(L), L, {sec}, {}) BY <1>1, <1>2, SortedAlike
<1>4. InTradingOrder(L) \in Seq(Rows(D))
  <2>1. PICK order : Enumerates(order, DOMAIN L) /\ InTradingOrder(L) = Placed(L, order)
    BY <1>1, TradingOrder
  <2>2. order \in Seq(DOMAIN L) BY <2>1 DEF Enumerates
  <2>3. DOMAIN L \in SUBSET DOMAIN L OBVIOUS
  <2>. DEFINE P == DOMAIN L
  <2>4. order \in Seq(P) /\ P \in SUBSET DOMAIN L BY <2>2, <2>3
  <2>. HIDE DEF P
  <2>5. Placed(L, order) \in Seq(Rows(D)) BY <1>1, <2>4, PlacedIn
  <2>. QED BY <2>1, <2>5
<1>5. sec \in {sec} OBVIOUS
<1>. QED BY <1>1, <1>3, <1>4, <1>5, AlikePlain, HeldAlike

LEMMA SignedWhole ==
  ASSUME NEW D, NEW sec, NEW t \in PlainRows(D, sec), t.sec = sec
  PROVE  \E c \in Int : Signed(t) = Share * c
<1>1. PICK c \in Int : t.units = Share * c BY DEF PlainRows, Whole
<1>2. Signed(t) \in {t.units, 0 - t.units, 0} BY DEF Signed
<1>3. Share \in Int BY ShareAssumption
<1>4. 0 - Share * c = Share * (0 - c) /\ 0 = Share * 0 /\ 0 - c \in Int BY <1>3
<1>. QED BY <1>1, <1>2, <1>4

LEMMA HeldWhole ==
  ASSUME NEW D, NEW sec, NEW L \in Seq(PlainRows(D, sec)), NEW folio, NEW day
  PROVE  \E c \in Int : HeldUnits(L, sec, folio, day) = Share * c
<1>. DEFINE P == HeldPlaces(L, sec, folio, day)
            f == [k \in DOMAIN L |-> Signed(L[k])]
            g == [k \in P |-> CHOOSE c \in Int : Signed(L[k]) = Share * c]
<1>1. L \in Seq(Rows(D)) /\ \A k \in DOMAIN L : L[k] \in PlainRows(D, sec) BY PlainIn
<1>2. P \in SUBSET DOMAIN L BY DEF HeldPlaces
<1>3. IsFiniteSet(P) BY <1>1, <1>2, PickedPlaced
<1>4. ASSUME NEW k \in P PROVE g[k] \in Int /\ f[k] = Share * g[k]
  <2>1. k \in DOMAIN L /\ L[k].sec = sec BY DEF HeldPlaces
  <2>2. \E c \in Int : Signed(L[k]) = Share * c BY <1>1, <2>1, SignedWhole
  <2>3. f[k] = Signed(L[k]) BY <2>1
  <2>4. g[k] = CHOOSE c \in Int : Signed(L[k]) = Share * c OBVIOUS
  <2>. QED BY <2>2, <2>3, <2>4
<1>5. HeldUnits(L, sec, folio, day) = SumFunctionOnSet(f, P) BY <1>1, HeldIs DEF UnitsIn
<1>6. Share \in Int BY ShareAssumption
<1>. HIDE DEF P, f, g
<1>7. SumFunctionOnSet(f, P) = Share * SumFunctionOnSet(g, P) BY <1>3, <1>4, <1>6, SumScale
<1>8. SumFunctionOnSet(g, P) \in Int BY <1>3, <1>4, SumType
<1>. QED BY <1>5, <1>7, <1>8

LEMMA HeldByFolio ==
  ASSUME NEW D, NEW sec, NEW L \in Seq(PlainRows(D, sec)), NEW day
  PROVE  HeldUnits(L, sec, NoFolio, day) = SumFunctionOnSet(FolioHeld(L, sec, day), Folios)
<1>. DEFINE P == HeldPlaces(L, sec, NoFolio, day)
            O == {k \in P : L[k].folio \notin Folios}
            Q == {k \in P : L[k].folio \in Folios}
            f == [k \in DOMAIN L |-> Signed(L[k])]
            class == [k \in DOMAIN L |-> L[k].folio]
            g == FolioHeld(L, sec, day)
<1>1. L \in Seq(Rows(D)) /\ \A k \in DOMAIN L : L[k] \in PlainRows(D, sec) /\ L[k] \in Rows(D)
  BY PlainIn
<1>2. P \in SUBSET DOMAIN L BY DEF HeldPlaces
<1>3. IsFiniteSet(P) BY <1>1, <1>2, PickedPlaced
<1>4. IsFiniteSet(O) /\ IsFiniteSet(Q) BY <1>3, FS_Subset
<1>5. \A k \in P : f[k] \in Int BY <1>1, <1>2, RowFields
<1>6. \A k \in O : f[k] = 0 BY <1>1 DEF PlainRows, HeldPlaces
<1>7. \A k \in Q : class[k] \in Folios /\ f[k] \in Int BY <1>2, <1>5
<1>8. ASSUME NEW p \in Folios
      PROVE  g[p] = SumFunctionOnSet(f, ClassOf(Q, class, p))
  <2>1. HeldPlaces(L, sec, p, day) = ClassOf(Q, class, p)
    BY TablesAssumption DEF HeldPlaces, ClassOf
  <2>2. HeldUnits(L, sec, p, day) = UnitsIn(L, HeldPlaces(L, sec, p, day)) BY <1>1, HeldIs
  <2>. QED BY <2>1, <2>2 DEF FolioHeld, UnitsIn
<1>9. P = Q \cup O /\ Q \cap O = {} OBVIOUS
<1>10. HeldUnits(L, sec, NoFolio, day) = SumFunctionOnSet(f, P) BY <1>1, HeldIs DEF UnitsIn
<1>. HIDE DEF P, O, Q, f, class, g
<1>11. SumFunctionOnSet(g, Folios) = SumFunctionOnSet(f, Q)
  BY <1>4, <1>7, <1>8, TablesAssumption, SumByClass
<1>12. \A k \in Q \cup O : f[k] \in Int BY <1>5, <1>9
<1>13. SumFunctionOnSet(f, P) = SumFunctionOnSet(f, Q) + SumFunctionOnSet(f, O)
  BY <1>4, <1>9, <1>12, SumUnion
<1>14. SumFunctionOnSet(f, O) = 0 BY <1>4, <1>6, SumZero
<1>15. SumFunctionOnSet(f, Q) \in Int BY <1>4, <1>7, SumType
<1>. QED BY <1>10, <1>11, <1>13, <1>14, <1>15 DEF g

-----------------------------------------------------------------------------
(* What a row more adds to what is held.                                   *)
LEMMA AppendHeld ==
  ASSUME NEW D, NEW L \in Seq(Rows(D)), NEW t \in Rows(D), NEW sec, NEW folio, NEW day
  PROVE  /\ HeldUnits(Append(L, t), sec, folio, day)
              = HeldUnits(L, sec, folio, day) + Counted(t, sec, folio, day)
         /\ Counted(t, sec, folio, day) \in Int
<1>. DEFINE M == Append(L, t)
            n == Len(L) + 1
            P == HeldPlaces(L, sec, folio, day)
            Q == HeldPlaces(M, sec, folio, day)
            f == [k \in DOMAIN L |-> Signed(L[k])]
            g == [k \in DOMAIN M |-> Signed(M[k])]
<1>1. /\ M \in Seq(Rows(D)) /\ n \in Nat /\ n >= 1 /\ DOMAIN L = 1 .. (n - 1) /\ DOMAIN M = 1 .. n
      /\ \A k \in DOMAIN L : M[k] = L[k]
      /\ M[n] = t
  BY Appended
<1>. HIDE DEF M, n
<1>2. /\ n \in DOMAIN M /\ n \notin DOMAIN L /\ DOMAIN L \subseteq DOMAIN M
      /\ \A k \in DOMAIN M : k = n \/ k \in DOMAIN L
  BY <1>1
<1>3. P \in SUBSET DOMAIN L /\ Q \in SUBSET DOMAIN M /\ n \notin P BY <1>2 DEF HeldPlaces
<1>4. IsFiniteSet(P) /\ IsFiniteSet(Q) BY <1>1, <1>3, PickedPlaced
<1>5. \A k \in DOMAIN M : g[k] \in Int
  <2>1. \A k \in DOMAIN M : M[k] \in Rows(D) BY <1>1, LenProperties, ElementOfSeq
  <2>. QED BY <2>1, RowFields
<1>6. \A k \in P : g[k] \in Int /\ f[k] = g[k] BY <1>1, <1>2, <1>3, <1>5
<1>7. g[n] = Signed(t) BY <1>1, <1>2
<1>8. UnitsIn(L, P) = SumFunctionOnSet(f, P) /\ UnitsIn(M, Q) = SumFunctionOnSet(g, Q)
  BY DEF UnitsIn
<1>9. \A k \in DOMAIN L : k \in Q <=> k \in P BY <1>1, <1>2 DEF HeldPlaces
<1>10. n \in Q <=> t.sec = sec /\ folio \in {NoFolio, t.folio} /\ t.day < day
  BY <1>1, <1>2 DEF HeldPlaces
<1>11. Counted(t, sec, folio, day) \in Int BY RowFields DEF Counted
<1>. HIDE DEF f, g, P, Q
<1>12. SumFunctionOnSet(f, P) = SumFunctionOnSet(g, P) BY <1>4, <1>6, SumSame
<1>13. SumFunctionOnSet(g, P) \in Int BY <1>4, <1>6, SumType
<1>14. CASE n \in Q
  <2>1. Q \ {n} = P BY <1>2, <1>3, <1>9
  <2>2. \A k \in Q : g[k] \in Int BY <1>3, <1>5
  <2>3. SumFunctionOnSet(g, Q) = g[n] + SumFunctionOnSet(g, P)
    BY <1>4, <1>14, <2>1, <2>2, SumRemove
  <2>4. Counted(t, sec, folio, day) = g[n] BY <1>7, <1>10, <1>14 DEF Counted
  <2>5. UnitsIn(M, Q) = UnitsIn(L, P) + Counted(t, sec, folio, day)
    BY <1>8, <1>11, <1>12, <1>13, <2>3, <2>4
  <2>. QED BY <1>1, <1>11, <2>5, HeldIs DEF P, Q, M
<1>15. CASE n \notin Q
  <2>1. Q = P BY <1>2, <1>3, <1>9, <1>15
  <2>2. Counted(t, sec, folio, day) = 0 BY <1>10, <1>15 DEF Counted
  <2>3. UnitsIn(M, Q) = UnitsIn(L, P) + Counted(t, sec, folio, day)
    BY <1>8, <1>12, <1>13, <2>1, <2>2
  <2>. QED BY <1>1, <1>11, <2>3, HeldIs DEF P, Q, M
<1>. QED BY <1>14, <1>15

LEMMA AppendEachHeld ==
  ASSUME NEW D, NEW L \in Seq(Rows(D)), NEW row, IsFiniteSet(DOMAIN row),
         \A x \in DOMAIN row : row[x] \in Rows(D), NEW sec, NEW folio, NEW day
  PROVE  HeldUnits(AppendEach(L, row), sec, folio, day)
           = HeldUnits(L, sec, folio, day)
               + SumFunctionOnSet(CountedOf(row, sec, folio, day), DOMAIN row)
<1>. DEFINE P == DOMAIN row
            A(T) == Loop("append", row, L, T)
            w == CountedOf(row, sec, folio, day)
            held(M) == HeldUnits(M, sec, folio, day)
            Good == {T \in SUBSET P :
                       A(T) \in Seq(Rows(D)) /\ held(A(T)) = held(L) + SumFunctionOnSet(w, T)}
<1>0. held(L) \in Int BY HeldIsInt
<1>1. ASSUME NEW T \in SUBSET P, \A U \in SUBSET T : U # T => U \in Good
      PROVE  T \in Good
  <2>1. CASE T = {}
    <3>1. A(T) = L BY <2>1, LoopEmpty
    <3>2. SumFunctionOnSet(w, T) = 0 BY <2>1, SumEmpty
    <3>. HIDE DEF w, A, held
    <3>3. held(A(T)) = held(L) + SumFunctionOnSet(w, T) BY <1>0, <3>1, <3>2
    <3>. QED BY <3>1, <3>3
  <2>2. CASE T # {}
    <3>. DEFINE x == Pick("append", row, T)
                a == A(T \ {x})
                t == row[x]
    <3>1. IsFiniteSet(T) /\ IsFiniteSet(T \ {x}) BY FS_Subset
    <3>2. Picks("append", row, T) BY SetLoopPicks
    <3>3. x \in T BY <2>2, <3>2 DEF Picks
    <3>4. T \ {x} \in Good BY <1>1, <3>3
    <3>5. A(T) = Body("append", row, x, a) BY <2>2, <3>1, <3>2, LoopStep
    <3>6. A(T) = Append(a, t) BY <3>5 DEF Body
    <3>7. a \in Seq(Rows(D)) /\ held(a) = held(L) + SumFunctionOnSet(w, T \ {x}) BY <3>4
    <3>8. t \in Rows(D) BY <3>3
    <3>9. w[x] = Counted(t, sec, folio, day) BY <3>3 DEF CountedOf
    <3>. HIDE DEF a, x, t, A
    <3>10. /\ Append(a, t) \in Seq(Rows(D))
           /\ HeldUnits(Append(a, t), sec, folio, day)
                = HeldUnits(a, sec, folio, day) + Counted(t, sec, folio, day)
      BY <3>7, <3>8, AppendProperties, AppendHeld
    <3>11. \A y \in T : w[y] \in Int BY AppendHeld DEF CountedOf
    <3>. HIDE DEF w
    <3>12. SumFunctionOnSet(w, T) = w[x] + SumFunctionOnSet(w, T \ {x})
      BY <3>1, <3>3, <3>11, SumRemove
    <3>13. SumFunctionOnSet(w, T \ {x}) \in Int BY <3>1, <3>11, SumType
    <3>14. w[x] \in Int BY <3>3, <3>11
    <3>15. held(Append(a, t)) = held(L) + SumFunctionOnSet(w, T)
      BY <1>0, <3>7, <3>9, <3>10, <3>12, <3>13, <3>14
    <3>. QED BY <3>6, <3>10, <3>15
  <2>. QED BY <2>1, <2>2
<1>. HIDE DEF Good
<1>2. \A T \in SUBSET P : T \in Good BY <1>1, SubsetInduction
<1>3. held(A(P)) = held(L) + SumFunctionOnSet(w, P) BY <1>2 DEF Good
<1>. QED BY <1>3, AppendLoop

-----------------------------------------------------------------------------
(* A whole multiple of the rows of a day is a multiple of what is held.    *)
LEMMA PlainQuotient ==
  ASSUME NEW a \in Int, NEW e, NEW sec, NEW m, PlainEvent(e, sec, m)
  PROVE  (a * e.num) \div e.den = m * a /\ (a * (e.num - e.den)) \div e.den = (m - 1) * a
<1>1. e.den \in Nat /\ e.den # 0 /\ e.num = m * e.den /\ m \in Int
  BY DEF PlainEvent, IsEvent
<1>2. a * (m * e.den) = (m * a) * e.den /\ a * (m * e.den - e.den) = ((m - 1) * a) * e.den
  BY <1>1
<1>3. m * a \in Int /\ (m - 1) * a \in Int BY <1>1
<1>. DEFINE x == m * a
            y == (m - 1) * a
<1>. HIDE DEF x, y
<1>4. (x * e.den) \div e.den = x /\ (y * e.den) \div e.den = y
  BY <1>1, <1>3, WholeQuotient DEF x, y
<1>. QED BY <1>1, <1>2, <1>4 DEF x, y

LEMMA RowTimes ==
  ASSUME NEW D, NEW sec, NEW t \in PlainRows(D, sec), NEW e, NEW m, PlainEvent(e, sec, m),
         t.sec = sec
  PROVE  LET u == [t EXCEPT !.units = (@ * e.num) \div e.den]
         IN /\ u \in PlainRows(D, sec) /\ Signed(u) = m * Signed(t)
            /\ u.sec = t.sec /\ u.folio = t.folio /\ u.day = t.day
<1>. DEFINE u == [t EXCEPT !.units = (@ * e.num) \div e.den]
<1>1. t \in Rows(D) /\ Whole(t.units) /\ (t.folio \in Folios \/ Signed(t) = 0)
  BY DEF PlainRows
<1>2. m \in Nat /\ e.num \in Nat /\ e.den \in Nat /\ e.den # 0 BY DEF PlainEvent, IsEvent
<1>3. u \in Rows(D) BY <1>1, <1>2, RowScaled
<1>4. t.units \in Nat BY <1>1, RowFields
<1>5. (t.units * e.num) \div e.den = m * t.units
  <2>. DEFINE a == t.units
  <2>1. a \in Int BY <1>4
  <2>. HIDE DEF a
  <2>2. (a * e.num) \div e.den = m * a BY <2>1, PlainQuotient
  <2>. QED BY <2>2 DEF a
<1>6. /\ u.sec = t.sec /\ u.folio = t.folio /\ u.day = t.day /\ u.type = t.type
      /\ u.units = m * t.units
  BY <1>1, <1>5 DEF Rows
<1>. HIDE DEF u
<1>7. Signed(u) = m * Signed(t)
  <2>1. CASE t.type \in Inflows BY <1>6, <2>1 DEF Signed
  <2>2. CASE t.type \notin Inflows /\ t.type \in Outflows
    <3>1. m * (0 - t.units) = 0 - m * t.units BY <1>2, <1>4
    <3>. QED BY <1>6, <2>2, <3>1 DEF Signed
  <2>3. CASE t.type \notin Inflows /\ t.type \notin Outflows
    <3>1. m * 0 = 0 BY <1>2
    <3>. QED BY <1>6, <2>3, <3>1 DEF Signed
  <2>. QED BY <2>1, <2>2, <2>3
<1>8. Whole(u.units)
  <2>1. PICK c \in Int : t.units = Share * c BY <1>1 DEF Whole
  <2>2. m * c \in Int /\ u.units = Share * (m * c) BY <1>2, <1>6, <2>1, ShareAssumption
  <2>. QED BY <2>2 DEF Whole
<1>9. u.folio \in Folios \/ Signed(u) = 0 BY <1>1, <1>2, <1>6, <1>7
<1>10. u \in PlainRows(D, sec) BY <1>3, <1>8, <1>9 DEF PlainRows
<1>. QED BY <1>6, <1>7, <1>10 DEF u

LEMMA ScaledEffect ==
  ASSUME NEW D \in SUBSET Nat, NEW sec, NEW L \in Seq(PlainRows(D, sec)),
         NEW e, NEW m, PlainEvent(e, sec, m)
  PROVE  /\ ScaleRows(L, e) \in Seq(PlainRows(D, sec))
         /\ \A folio : Effect(L, ScaleRows(L, e), sec, folio, e, m, m)
<1>. DEFINE M == ScaleRows(L, e)
            held(k) == L[k].sec = sec /\ L[k].day < e.day
            f == [k \in DOMAIN L |-> Signed(L[k])]
            g == [k \in DOMAIN L |-> Signed(M[k])]
            at(folio, day) == HeldPlaces(L, sec, folio, day)
<1>1. /\ L \in Seq(Rows(D))
      /\ \A k \in DOMAIN L : L[k] \in PlainRows(D, sec) /\ L[k] \in Rows(D)
  BY PlainIn
<1>2. e.sec = sec /\ e.day \in Int /\ m \in Int BY DEF PlainEvent, IsEvent
<1>3. ASSUME NEW k \in DOMAIN L
      PROVE  /\ M[k] \in PlainRows(D, sec)
             /\ M[k].sec = L[k].sec /\ M[k].folio = L[k].folio /\ M[k].day = L[k].day
             /\ f[k] \in Int /\ g[k] \in Int
             /\ g[k] = IF held(k) THEN m * f[k] ELSE f[k]
  <2>1. L[k] \in PlainRows(D, sec) BY <1>1
  <2>2. M[k] = IF held(k) THEN [L[k] EXCEPT !.units = (@ * e.num) \div e.den] ELSE L[k]
    BY <1>2 DEF ScaleRows
  <2>3. CASE held(k)
    <3>1. M[k] = [L[k] EXCEPT !.units = (@ * e.num) \div e.den] BY <2>2, <2>3
    <3>2. /\ M[k] \in PlainRows(D, sec) /\ Signed(M[k]) = m * Signed(L[k])
          /\ M[k].sec = L[k].sec /\ M[k].folio = L[k].folio /\ M[k].day = L[k].day
      BY <2>1, <2>3, <3>1, RowTimes
    <3>3. M[k] \in Rows(D) /\ L[k] \in Rows(D) BY <2>1, <3>2 DEF PlainRows
    <3>. QED BY <2>3, <3>2, <3>3, RowFields
  <2>4. CASE ~held(k)
    <3>1. M[k] = L[k] BY <2>2, <2>4
    <3>. QED BY <1>1, <2>1, <2>4, <3>1, RowFields
  <2>. QED BY <2>3, <2>4
<1>4. DOMAIN M = DOMAIN L /\ M = [k \in DOMAIN L |-> M[k]] BY DEF ScaleRows
<1>5. M \in Seq(PlainRows(D, sec))
  <2>. HIDE DEF M
  <2>. QED BY <1>3, <1>4, RowsMapped
<1>6. M \in Seq(Rows(D)) BY <1>5, PlainIn
<1>7. ASSUME NEW folio, NEW day
      PROVE  /\ HeldUnits(L, sec, folio, day) = SumFunctionOnSet(f, at(folio, day))
             /\ HeldUnits(M, sec, folio, day) = SumFunctionOnSet(g, at(folio, day))
             /\ IsFiniteSet(at(folio, day)) /\ at(folio, day) \in SUBSET DOMAIN L
  <2>1. HeldPlaces(M, sec, folio, day) = at(folio, day) BY <1>3, <1>4 DEF HeldPlaces
  <2>2. /\ HeldUnits(L, sec, folio, day) = UnitsIn(L, at(folio, day))
        /\ HeldUnits(M, sec, folio, day) = UnitsIn(M, at(folio, day))
    BY <1>1, <1>6, <2>1, HeldIs
  <2>3. at(folio, day) \in SUBSET DOMAIN L BY DEF HeldPlaces
  <2>4. IsFiniteSet(at(folio, day)) BY <1>1, <2>3, PickedPlaced
  <2>. QED BY <1>4, <2>2, <2>3, <2>4 DEF UnitsIn
<1>8. ASSUME NEW k \in DOMAIN L, NEW folio, NEW day
      PROVE  k \in at(folio, day) <=>
               L[k].sec = sec /\ folio \in {NoFolio, L[k].folio} /\ L[k].day < day
  BY DEF HeldPlaces
<1>9. \A k \in DOMAIN L : L[k].day \in Int
  <2>1. \A k \in DOMAIN L : L[k].day \in D BY <1>1, RowFields
  <2>2. \A d \in D : d \in Int OBVIOUS
  <2>. QED BY <2>1, <2>2
<1>. HIDE DEF M, f, g, at
<1>10. ASSUME NEW folio, NEW day \in Int, day <= e.day
       PROVE  HeldUnits(M, sec, folio, day) = m * HeldUnits(L, sec, folio, day)
  <2>. DEFINE P == at(folio, day)
  <2>1. \A k \in P : f[k] \in Int /\ g[k] = m * f[k]
    BY <1>2, <1>3, <1>7, <1>8, <1>9, <1>10
  <2>2. IsFiniteSet(P) BY <1>7
  <2>. HIDE DEF P
  <2>3. SumFunctionOnSet(g, P) = m * SumFunctionOnSet(f, P) BY <1>2, <2>1, <2>2, SumScale
  <2>. QED BY <1>7, <2>3 DEF P
<1>11. ASSUME NEW folio, NEW day \in Int, day > e.day
       PROVE  HeldUnits(M, sec, folio, day)
                = HeldUnits(L, sec, folio, day) + (m - 1) * HeldUnits(L, sec, folio, e.day)
  <2>. DEFINE P == at(folio, day)
              E == at(folio, e.day)
              R == P \ E
  <2>1. E \subseteq P BY <1>2, <1>7, <1>8, <1>9, <1>11
  <2>2. \A k \in E : f[k] \in Int /\ g[k] \in Int /\ g[k] = m * f[k] BY <1>3, <1>7, <1>8
  <2>3. \A k \in R : f[k] \in Int /\ g[k] \in Int /\ g[k] = f[k]
    BY <1>3, <1>7, <1>8
  <2>4. IsFiniteSet(P) /\ IsFiniteSet(E) /\ IsFiniteSet(R) BY <1>7, FS_Subset
  <2>5. P = E \cup R /\ E \cap R = {} BY <2>1
  <2>6. /\ HeldUnits(M, sec, folio, day) = SumFunctionOnSet(g, P)
        /\ HeldUnits(L, sec, folio, day) = SumFunctionOnSet(f, P)
        /\ HeldUnits(L, sec, folio, e.day) = SumFunctionOnSet(f, E)
    BY <1>7
  <2>. HIDE DEF P, E, R
  <2>7. SumFunctionOnSet(g, E) = m * SumFunctionOnSet(f, E)
    <3>1. \A k \in E : f[k] \in Int /\ g[k] = m * f[k] BY <2>2
    <3>. QED BY <1>2, <2>4, <3>1, SumScale
  <2>8. SumFunctionOnSet(g, R) = SumFunctionOnSet(f, R) BY <2>3, <2>4, SumSame
  <2>9. /\ SumFunctionOnSet(g, P) = SumFunctionOnSet(g, E) + SumFunctionOnSet(g, R)
        /\ SumFunctionOnSet(f, P) = SumFunctionOnSet(f, E) + SumFunctionOnSet(f, R)
    BY <2>2, <2>3, <2>4, <2>5, SumUnion
  <2>10. SumFunctionOnSet(f, E) \in Int /\ SumFunctionOnSet(f, R) \in Int
    BY <2>2, <2>3, <2>4, SumType
  <2>. QED BY <1>2, <2>6, <2>7, <2>8, <2>9, <2>10
<1>12. \A folio : Effect(L, M, sec, folio, e, m, m) BY <1>10, <1>11 DEF Effect
<1>. QED BY <1>5, <1>12 DEF M

LEMMA EffectKept ==
  ASSUME NEW L, NEW M, NEW N, NEW sec, NEW folio, NEW e, NEW m, NEW c,
         Effect(L, M, sec, folio, e, m, c),
         \A day : HeldUnits(N, sec, folio, day) = HeldUnits(M, sec, folio, day)
  PROVE  Effect(L, N, sec, folio, e, m, c)
BY DEF Effect

LEMMA SplitEffect ==
  ASSUME NEW D \in SUBSET Nat, NEW sec, NEW L \in Seq(PlainRows(D, sec)),
         NEW e, NEW m, PlainEvent(e, sec, m), e.day \in D, e.kind = "split", ~HasRef(L, e.ref)
  PROVE  /\ ApplyEvent(L, e) \in Seq(PlainRows(D, sec))
         /\ \A folio : Effect(L, ApplyEvent(L, e), sec, folio, e, m, m)
<1>. DEFINE M == ScaleRows(L, e)
            t == Marker(e, e.sec, "split")
            N == Append(M, t)
<1>1. IsEvent(e) /\ e.sec = sec /\ m \in Nat /\ m >= 1 /\ e.num = m * e.den
      /\ e.num \in Nat /\ e.den \in Nat
  BY DEF PlainEvent, IsEvent
<1>2. ~(e.num < e.den)
  <2>1. (m - 1) * e.den >= 0 BY <1>1, Product
  <2>2. (m - 1) * e.den = e.num - e.den BY <1>1
  <2>. QED BY <1>1, <2>1, <2>2
<1>3. ApplyEvent(L, e) = InTradingOrder(N) BY <1>2 DEF ApplyEvent, Rewritten, ApplySplit
<1>4. t \in Rows(D) BY <1>1, EngineRowIn DEF Marker, RowTypes, IsEvent
<1>5. t.units = 0 /\ t.type = "split" BY DEF Marker, EngineRow
<1>6. Signed(t) = 0 BY <1>5 DEF Signed, Inflows, Outflows
<1>7. Whole(t.units)
  <2>1. 0 \in Int /\ 0 = Share * 0 BY ShareAssumption
  <2>. QED BY <1>5, <2>1 DEF Whole
<1>8. t \in PlainRows(D, sec) BY <1>4, <1>6, <1>7 DEF PlainRows
<1>9. M \in Seq(PlainRows(D, sec)) /\ \A folio : Effect(L, M, sec, folio, e, m, m)
  BY ScaledEffect
<1>. HIDE DEF t, M
<1>10. N \in Seq(PlainRows(D, sec)) BY <1>8, <1>9, AppendProperties
<1>11. ASSUME NEW folio, NEW day
       PROVE  HeldUnits(N, sec, folio, day) = HeldUnits(M, sec, folio, day)
  <2>1. M \in Seq(Rows(D)) BY <1>9, PlainIn
  <2>2. HeldUnits(N, sec, folio, day)
          = HeldUnits(M, sec, folio, day) + Counted(t, sec, folio, day)
    BY <1>4, <2>1, AppendHeld
  <2>3. Counted(t, sec, folio, day) = 0 BY <1>6 DEF Counted
  <2>4. HeldUnits(M, sec, folio, day) \in Int BY <2>1, HeldIsInt
  <2>. QED BY <2>2, <2>3, <2>4
<1>. HIDE DEF N
<1>12. /\ InTradingOrder(N) \in Seq(PlainRows(D, sec))
       /\ \A folio, day :
            HeldUnits(InTradingOrder(N), sec, folio, day) = HeldUnits(N, sec, folio, day)
  BY <1>10, SortedPlain
<1>13. \A folio, day :
         HeldUnits(InTradingOrder(N), sec, folio, day) = HeldUnits(M, sec, folio, day)
  BY <1>11, <1>12
<1>. QED BY <1>3, <1>9, <1>12, <1>13, EffectKept

(* A bonus credits a folio with what it holds, (m - 1) times.              *)
LEMMA BonusDue ==
  ASSUME NEW e, NEW sec, NEW m, PlainEvent(e, sec, m), NEW held \in Int,
         \E c \in Int : held = Share * c
  PROVE  BonusUnits(held, e) = (m - 1) * held /\ Whole(BonusUnits(held, e))
<1>1. PICK c \in Int : held = Share * c OBVIOUS
<1>2. (held * (e.num - e.den)) \div e.den = (m - 1) * held BY PlainQuotient
<1>3. m \in Nat /\ Share \in Nat /\ Share # 0 BY ShareAssumption DEF PlainEvent
<1>. DEFINE x == (m - 1) * c
<1>4. x \in Int /\ (m - 1) * held = Share * x /\ Share * x = x * Share BY <1>1, <1>3
<1>. HIDE DEF x
<1>5. (x * Share) \div Share = x BY <1>3, <1>4, WholeQuotient
<1>6. WholeShares((m - 1) * held) = (m - 1) * held BY <1>4, <1>5 DEF WholeShares
<1>7. BonusUnits(held, e) = (m - 1) * held BY <1>2, <1>6 DEF BonusUnits
<1>. QED BY <1>4, <1>7 DEF Whole

LEMMA UnnamedHolds ==
  ASSUME NEW D, NEW L \in Seq(Rows(D)), NEW sec, NEW folio \in Folios,
         folio \notin NamedFolios(L, sec), NEW day
  PROVE  HeldUnits(L, sec, folio, day) = 0
<1>1. folio # NoFolio BY TablesAssumption
<1>2. HeldPlaces(L, sec, folio, day) = {} BY <1>1 DEF HeldPlaces, NamedFolios
<1>3. UnitsIn(L, {}) = 0 BY SumEmpty DEF UnitsIn
<1>. QED BY <1>2, <1>3, HeldIs

LEMMA BonusEffect ==
  ASSUME NEW D \in SUBSET Nat, NEW sec, NEW L \in Seq(PlainRows(D, sec)),
         NEW e, NEW m, PlainEvent(e, sec, m), e.day \in D, e.kind = "bonus", ~HasRef(L, e.ref)
  PROVE  /\ ApplyEvent(L, e) \in Seq(PlainRows(D, sec))
         /\ \A folio \in Folios : \A day \in Int : day <= e.day =>
              HeldUnits(ApplyEvent(L, e), sec, folio, day) = HeldUnits(L, sec, folio, day)
         /\ \A folio \in Folios : HeldUnits(L, sec, folio, e.day) >= 0 =>
              Effect(L, ApplyEvent(L, e), sec, folio, e, m, 1)
<1>. DEFINE named == NamedFolios(L, sec)
            credited == IF named = {} THEN {NoFolio} ELSE named
            held(f) == HeldUnits(L, sec, f, e.day)
            due(f) == BonusUnits(held(f), e)
            issued == {f \in credited : held(f) > 0 /\ due(f) > 0}
            row == [f \in issued |-> EngineRow(e, sec, f, "bonus", due(f), 0)]
            N == AppendEach(L, row)
            M == ApplyEvent(L, e)
<1>1. /\ IsEvent(e) /\ e.sec = sec /\ m \in Nat /\ m >= 1 /\ e.day \in Int
      /\ L \in Seq(Rows(D))
  BY PlainIn DEF PlainEvent, IsEvent
<1>2. ApplyEvent(L, e) = InTradingOrder(N) BY <1>1 DEF ApplyEvent, Rewritten, ApplyBonus
<1>3. named \subseteq Folios /\ IsFiniteSet(named) BY <1>1, LedgerFolios
<1>4. \A f : held(f) \in Int /\ due(f) = (m - 1) * held(f) /\ Whole(due(f)) /\ due(f) \in Int
  <2>. TAKE f
  <2>1. held(f) \in Int BY <1>1, HeldIsInt
  <2>2. \E c \in Int : held(f) = Share * c BY HeldWhole
  <2>. HIDE DEF held
  <2>3. due(f) = (m - 1) * held(f) /\ Whole(due(f)) BY <2>1, <2>2, BonusDue
  <2>4. (m - 1) * held(f) \in Int BY <1>1, <2>1
  <2>. QED BY <2>1, <2>3, <2>4
<1>5. \A f \in Folios : f \notin named => held(f) = 0 BY <1>1, UnnamedHolds
<1>6. named = {} => held(NoFolio) = 0
  <2>. SUFFICES ASSUME named = {} PROVE held(NoFolio) = 0 OBVIOUS
  <2>1. \A f \in Folios : FolioHeld(L, sec, e.day)[f] = 0 BY <1>5 DEF FolioHeld
  <2>2. SumFunctionOnSet(FolioHeld(L, sec, e.day), Folios) = 0
    BY <2>1, TablesAssumption, SumZero
  <2>. QED BY <2>2, HeldByFolio
<1>7. issued \subseteq named
  <2>. HIDE DEF named, held
  <2>. QED BY <1>6
<1>8. issued \subseteq Folios /\ IsFiniteSet(issued) /\ DOMAIN row = issued
  BY <1>3, <1>7, FS_Subset
<1>9. \A f \in Folios : f \notin issued => held(f) <= 0 \/ due(f) = 0
  <2>. TAKE f \in Folios
  <2>. HAVE f \notin issued
  <2>1. CASE f \in named
    <3>1. ~(held(f) > 0 /\ due(f) > 0) BY <2>1
    <3>2. ASSUME held(f) > 0 PROVE due(f) >= 0
      <4>. DEFINE h == held(f)
      <4>1. h \in Int /\ h >= 0 /\ m - 1 \in Int /\ m - 1 >= 0 /\ due(f) = (m - 1) * h
        BY <1>1, <1>4, <3>2
      <4>. HIDE DEF h, due
      <4>. QED BY <4>1, Product
    <3>. HIDE DEF held, due
    <3>. QED BY <1>4, <3>1, <3>2
  <2>2. CASE f \notin named BY <1>5, <2>2
  <2>. QED BY <2>1, <2>2
<1>10. ASSUME NEW f \in issued
       PROVE  /\ row[f] \in PlainRows(D, sec) /\ row[f] \in Rows(D) /\ Signed(row[f]) = due(f)
              /\ row[f].sec = sec /\ row[f].folio = f /\ row[f].day = e.day
  <2>1. due(f) \in Nat BY <1>4
  <2>2. f \in Folios BY <1>8
  <2>3. Whole(due(f)) BY <1>4
  <2>. DEFINE n == due(f)
              t == EngineRow(e, sec, f, "bonus", n, 0)
  <2>4. row[f] = t OBVIOUS
  <2>5. "bonus" \in RowTypes /\ sec \in Securities \cup {NoSecurity}
    BY <1>1 DEF RowTypes, Inflows, IsEvent
  <2>6. n \in Nat /\ Whole(n) BY <2>1, <2>3
  <2>. HIDE DEF n, row, issued, due
  <2>7. t \in Rows(D) BY <1>1, <2>2, <2>5, <2>6, EngineRowIn
  <2>8. /\ t.sec = sec /\ t.folio = f /\ t.day = e.day /\ t.units = n /\ t.type = "bonus"
    BY DEF EngineRow
  <2>9. Signed(t) = n BY <2>8 DEF Signed, Inflows
  <2>10. t \in PlainRows(D, sec) BY <2>2, <2>6, <2>7, <2>8 DEF PlainRows
  <2>. QED BY <2>4, <2>7, <2>8, <2>9, <2>10 DEF n
<1>. HIDE DEF named, credited, held, due, issued, row
<1>11. N \in Seq(PlainRows(D, sec)) BY <1>8, <1>10, AppendedIn
<1>12. ASSUME NEW folio \in Folios, NEW day
       PROVE  HeldUnits(N, sec, folio, day)
                = HeldUnits(L, sec, folio, day)
                    + IF folio \in issued /\ e.day < day THEN due(folio) ELSE 0
  <2>. DEFINE w == CountedOf(row, sec, folio, day)
              n == IF folio \in issued /\ e.day < day THEN due(folio) ELSE 0
  <2>1. \A f \in issued : w[f] = IF f = folio /\ e.day < day THEN due(f) ELSE 0
    <3>1. folio # NoFolio BY TablesAssumption
    <3>2. \A f \in issued : w[f] = Counted(row[f], sec, folio, day) BY <1>8 DEF CountedOf
    <3>. HIDE DEF w
    <3>. QED BY <1>10, <3>1, <3>2 DEF Counted
  <2>2. HeldUnits(N, sec, folio, day)
          = HeldUnits(L, sec, folio, day) + SumFunctionOnSet(w, issued)
    BY <1>1, <1>8, <1>10, AppendEachHeld
  <2>. HIDE DEF w
  <2>3. \A f \in issued : w[f] \in Int BY <1>4, <2>1
  <2>4. SumFunctionOnSet(w, issued) = n
    <3>1. CASE folio \in issued
      <4>1. SumFunctionOnSet(w, issued) = w[folio] + SumFunctionOnSet(w, issued \ {folio})
        BY <1>8, <2>3, <3>1, SumRemove
      <4>2. \A f \in issued \ {folio} : w[f] = 0 BY <2>1
      <4>3. IsFiniteSet(issued \ {folio}) BY <1>8, FS_Subset
      <4>4. SumFunctionOnSet(w, issued \ {folio}) = 0 BY <4>2, <4>3, SumZero
      <4>5. w[folio] = n BY <2>1, <3>1
      <4>. HIDE DEF n
      <4>. QED BY <2>3, <3>1, <4>1, <4>4, <4>5
    <3>2. CASE folio \notin issued
      <4>1. \A f \in issued : w[f] = 0 BY <2>1, <3>2
      <4>2. SumFunctionOnSet(w, issued) = 0 BY <1>8, <4>1, SumZero
      <4>. QED BY <3>2, <4>2
    <3>. QED BY <3>1, <3>2
  <2>. QED BY <2>2, <2>4
<1>. HIDE DEF N
<1>13. /\ M \in Seq(PlainRows(D, sec))
       /\ \A folio, day : HeldUnits(M, sec, folio, day) = HeldUnits(N, sec, folio, day)
  BY <1>2, <1>11, SortedPlain
<1>. HIDE DEF M
<1>14. ASSUME NEW folio \in Folios, NEW day \in Int, day <= e.day
       PROVE  HeldUnits(M, sec, folio, day) = HeldUnits(L, sec, folio, day)
  <2>1. ~(e.day < day) BY <1>1, <1>14
  <2>2. HeldUnits(L, sec, folio, day) \in Int BY <1>1, HeldIsInt
  <2>. QED BY <1>12, <1>13, <2>1, <2>2
<1>15. ASSUME NEW folio \in Folios, held(folio) >= 0
       PROVE  Effect(L, M, sec, folio, e, m, 1)
  <2>1. ASSUME NEW day \in Int, day > e.day
        PROVE  HeldUnits(M, sec, folio, day)
                 = HeldUnits(L, sec, folio, day) + (m - 1) * held(folio)
    <3>1. e.day < day BY <2>1, <1>1
    <3>2. HeldUnits(L, sec, folio, day) \in Int BY <1>1, HeldIsInt
    <3>3. CASE folio \in issued BY <1>4, <1>12, <1>13, <3>1, <3>3
    <3>4. CASE folio \notin issued
      <4>1. held(folio) = 0 \/ due(folio) = 0 BY <1>4, <1>9, <1>15, <3>4
      <4>2. (m - 1) * 0 = 0 BY <1>1
      <4>3. (m - 1) * held(folio) = 0 BY <1>4, <4>1, <4>2
      <4>. QED BY <1>12, <1>13, <3>2, <3>4, <4>3
    <3>. QED BY <3>3, <3>4
  <2>2. ASSUME NEW day \in Int, day <= e.day
        PROVE  HeldUnits(M, sec, folio, day) = 1 * HeldUnits(L, sec, folio, day)
    <3>1. HeldUnits(L, sec, folio, day) \in Int BY <1>1, HeldIsInt
    <3>. QED BY <1>14, <2>2, <3>1
  <2>. QED BY <2>1, <2>2 DEF Effect, held
<1>. QED BY <1>13, <1>14, <1>15 DEF M, held

-----------------------------------------------------------------------------
(* A plain event grows the holding by what was held at its ex-date.        *)
LEMMA GrownByFolio ==
  ASSUME NEW D, NEW sec, NEW L \in Seq(PlainRows(D, sec)), NEW M \in Seq(PlainRows(D, sec)),
         NEW e, NEW m \in Int, NEW day,
         \A folio \in Folios :
           HeldUnits(M, sec, folio, day)
             = HeldUnits(L, sec, folio, day) + (m - 1) * HeldUnits(L, sec, folio, e.day)
  PROVE  HeldUnits(M, sec, NoFolio, day)
           = HeldUnits(L, sec, NoFolio, day) + (m - 1) * HeldUnits(L, sec, NoFolio, e.day)
<1>. DEFINE f == FolioHeld(L, sec, day)
            g == FolioHeld(L, sec, e.day)
            h == FolioHeld(M, sec, day)
            s == [x \in Folios |-> (m - 1) * g[x]]
            n == m - 1
<1>1. L \in Seq(Rows(D)) /\ M \in Seq(Rows(D)) BY PlainIn
<1>2. \A x \in Folios : f[x] \in Int /\ g[x] \in Int /\ h[x] \in Int
  BY <1>1, HeldIsInt DEF FolioHeld
<1>3. \A x \in Folios : s[x] = n * g[x] OBVIOUS
<1>4. n \in Int OBVIOUS
<1>5. \A x \in Folios : h[x] = f[x] + s[x] BY DEF FolioHeld
<1>6. /\ HeldUnits(M, sec, NoFolio, day) = SumFunctionOnSet(h, Folios)
      /\ HeldUnits(L, sec, NoFolio, day) = SumFunctionOnSet(f, Folios)
      /\ HeldUnits(L, sec, NoFolio, e.day) = SumFunctionOnSet(g, Folios)
  BY HeldByFolio
<1>7. IsFiniteSet(Folios) BY TablesAssumption
<1>. HIDE DEF f, g, h, s, n
<1>8. \A x \in Folios : s[x] \in Int BY <1>2, <1>3, <1>4
<1>9. SumFunctionOnSet(h, Folios) = SumFunctionOnSet(f, Folios) + SumFunctionOnSet(s, Folios)
  BY <1>2, <1>5, <1>7, <1>8, SumPlus
<1>10. SumFunctionOnSet(s, Folios) = n * SumFunctionOnSet(g, Folios)
  BY <1>2, <1>3, <1>4, <1>7, SumScale
<1>. QED BY <1>6, <1>9, <1>10 DEF n

LEMMA PlainStep ==
  ASSUME NEW D \in SUBSET Nat, NEW sec, NEW L \in Seq(PlainRows(D, sec)),
         NEW e, NEW m, PlainEvent(e, sec, m), e.day \in D, ~HasRef(L, e.ref)
  PROVE  LET M == ApplyEvent(L, e)
         IN /\ M \in Seq(PlainRows(D, sec))
            /\ \E c \in Nat : c >= 1 /\ Multiplied(L, M, sec, e, c)
            /\ (\A folio \in Folios : HeldUnits(L, sec, folio, e.day) >= 0)
                 => Grown(L, M, sec, e, m)
<1>. DEFINE M == ApplyEvent(L, e)
<1>0. m \in Nat /\ m >= 1 /\ m \in Int BY DEF PlainEvent
<1>1. CASE e.kind = "split"
  <2>1. M \in Seq(PlainRows(D, sec)) /\ \A folio : Effect(L, M, sec, folio, e, m, m)
    BY <1>1, SplitEffect
  <2>. HIDE DEF M
  <2>2. Multiplied(L, M, sec, e, m) BY <2>1 DEF Effect, Multiplied
  <2>3. ASSUME NEW day \in Int, day > e.day
        PROVE  HeldUnits(M, sec, NoFolio, day)
                 = HeldUnits(L, sec, NoFolio, day) + (m - 1) * HeldUnits(L, sec, NoFolio, e.day)
    BY <2>1, <2>3 DEF Effect
  <2>4. Grown(L, M, sec, e, m) BY <2>3 DEF Grown
  <2>. QED BY <1>0, <2>1, <2>2, <2>4 DEF M
<1>2. CASE e.kind = "bonus"
  <2>1. /\ M \in Seq(PlainRows(D, sec))
        /\ \A folio \in Folios : \A day \in Int : day <= e.day =>
             HeldUnits(M, sec, folio, day) = HeldUnits(L, sec, folio, day)
        /\ \A folio \in Folios : HeldUnits(L, sec, folio, e.day) >= 0 =>
             Effect(L, M, sec, folio, e, m, 1)
    BY <1>2, BonusEffect
  <2>. HIDE DEF M
  <2>2. Multiplied(L, M, sec, e, 1)
    <3>. SUFFICES ASSUME NEW folio \in Folios, NEW day \in Int, day <= e.day
                  PROVE  HeldUnits(M, sec, folio, day) = 1 * HeldUnits(L, sec, folio, day)
      BY DEF Multiplied
    <3>1. L \in Seq(Rows(D)) BY PlainIn
    <3>2. HeldUnits(L, sec, folio, day) \in Int BY <3>1, HeldIsInt
    <3>. QED BY <2>1, <3>2
  <2>3. ASSUME \A folio \in Folios : HeldUnits(L, sec, folio, e.day) >= 0
        PROVE  Grown(L, M, sec, e, m)
    <3>. SUFFICES ASSUME NEW day \in Int, day > e.day
                  PROVE  HeldUnits(M, sec, NoFolio, day)
                           = HeldUnits(L, sec, NoFolio, day)
                               + (m - 1) * HeldUnits(L, sec, NoFolio, e.day)
      BY DEF Grown
    <3>1. \A folio \in Folios :
            HeldUnits(M, sec, folio, day)
              = HeldUnits(L, sec, folio, day) + (m - 1) * HeldUnits(L, sec, folio, e.day)
      BY <2>1, <2>3 DEF Effect
    <3>. QED BY <1>0, <2>1, <3>1, GrownByFolio
  <2>4. 1 \in Nat /\ 1 >= 1 OBVIOUS
  <2>. QED BY <2>1, <2>2, <2>3, <2>4 DEF M
<1>. QED BY <1>1, <1>2 DEF PlainEvent, Scaling

LEMMA OtherStep ==
  ASSUME NEW D \in SUBSET Nat, NEW sec, NEW L \in Seq(PlainRows(D, sec)),
         NEW e, IsEvent(e), e.day \in D,
         \/ e.kind = "demerger"
         \/ e.sec # sec /\ (e.kind = "merger" => e.into # sec)
  PROVE  /\ ApplyEvent(L, e) \in Seq(PlainRows(D, sec))
         /\ Unmoved(L, ApplyEvent(L, e), sec)
<1>. DEFINE M == ApplyEvent(L, e)
            K == {sec}
<1>1. L \in Seq(Rows(D)) BY PlainIn
<1>2. M \in Seq(Rows(D)) BY <1>1, ApplyIn
<1>3. sec \in K /\ (e.sec # sec => e.sec \notin K) /\ (e.into # sec => e.into \notin K) OBVIOUS
<1>. HIDE DEF M, K
<1>4. Alike(M, L, K, {}) BY <1>1, <1>3, EventOutside DEF M
<1>5. M \in Seq(PlainRows(D, sec)) BY <1>2, <1>4, AlikePlain DEF K
<1>6. \A folio, day : HeldUnits(M, sec, folio, day) = HeldUnits(L, sec, folio, day)
  BY <1>1, <1>2, <1>3, <1>4, HeldAlike
<1>. QED BY <1>5, <1>6 DEF M, Unmoved

LEMMA RefStep ==
  ASSUME NEW D \in SUBSET Nat, NEW L \in Seq(Rows(D)), NEW e, IsEvent(e), e.day \in D,
         NEW r, r # NoRef, e.kind = "demerger" \/ e.ref # r, ~HasRef(L, r)
  PROVE  ~HasRef(ApplyEvent(L, e), r)
<1>. DEFINE R == {r}
<1>1. NoRef \notin R /\ r \in R /\ (e.ref # r => e.ref \notin R) OBVIOUS
<1>. HIDE DEF R
<1>2. e.sec \notin {} /\ e.into \notin {} OBVIOUS
<1>3. Alike(ApplyEvent(L, e), L, {}, R) BY <1>1, <1>2, EventOutside
<1>. QED BY <1>1, <1>3 DEF Alike, SameRefs

-----------------------------------------------------------------------------
(* Replaying a log whose events on the security are plain, each under a    *)
(* ref and on a day of its own.                                            *)
(* The ledger stays plain, and no event finds its own ref.                 *)
LEMMA PlainUpto ==
  ASSUME NEW D \in SUBSET Nat, NEW sec, NEW raw \in Seq(PlainRows(D, sec)),
         NEW E, IsFiniteSet(E), \A e \in E : IsEvent(e) /\ e.day \in D,
         PlainLog(E, sec), \A e \in E : Scales(e, sec) => ~HasRef(raw, e.ref)
  PROVE  LET q == InExDateOrder(E)
         IN \A i \in 0 .. Len(q) :
              /\ Upto(q, raw, i) \in Seq(PlainRows(D, sec))
              /\ \A k \in 1 .. Len(q) : i < k /\ Scales(q[k], sec) => ~HasRef(Upto(q, raw, i), q[k].ref)
<1>. DEFINE q == InExDateOrder(E)
            n == Len(q)
            A(i) == Upto(q, raw, i)
            Good == {i \in 0 .. n :
                       /\ A(i) \in Seq(PlainRows(D, sec))
                       /\ \A k \in 1 .. n : i < k /\ Scales(q[k], sec) => ~HasRef(A(i), q[k].ref)}
<1>1. raw \in Seq(Rows(D)) BY PlainIn
<1>2. /\ DOMAIN q = 1 .. n /\ n \in Nat /\ \A i \in DOMAIN q : q[i] \in E
      /\ A(0) = raw /\ \A i \in 1 .. n : A(i) = ApplyEvent(A(i - 1), q[i])
      /\ \A i \in 0 .. n : A(i) \in Seq(Rows(D))
  BY <1>1, ReplaySteps
<1>3. Enumerates(q, E) BY EventsInOrder
<1>. HIDE DEF q, n, A
<1>4. 0 \in Good BY <1>2
<1>5. ASSUME NEW i \in 1 .. n, i - 1 \in Good PROVE i \in Good
  <2>. DEFINE e == q[i]
              L == A(i - 1)
  <2>1. e \in E /\ IsEvent(e) /\ e.day \in D BY <1>2
  <2>2. /\ L \in Seq(PlainRows(D, sec)) /\ L \in Seq(Rows(D)) /\ i \in 0 .. n
        /\ A(i) = ApplyEvent(L, e)
        /\ \A k \in 1 .. n : i - 1 < k /\ Scales(q[k], sec) => ~HasRef(L, q[k].ref)
    BY <1>2, <1>5, PlainIn
  <2>3. i \in Int /\ n \in Int /\ i - 1 < i BY <1>2
  <2>4. A(i) \in Seq(PlainRows(D, sec))
    <3>1. CASE Scales(e, sec)
      <4>1. PlainEvent(e, sec, Factor(e)) BY <2>1, <3>1 DEF PlainLog
      <4>2. ~HasRef(L, e.ref) BY <2>2, <2>3, <3>1
      <4>. HIDE DEF e, L
      <4>. QED BY <2>1, <2>2, <4>1, <4>2, PlainStep
    <3>2. CASE ~Scales(e, sec)
      <4>1. e.kind = "demerger" \/ e.sec # sec BY <3>2 DEF Scales
      <4>2. e.kind = "merger" => e.into # sec BY <2>1 DEF PlainLog
      <4>. HIDE DEF e, L
      <4>. QED BY <2>1, <2>2, <4>1, <4>2, OtherStep
    <3>. QED BY <3>1, <3>2
  <2>5. ASSUME NEW k \in 1 .. n, i < k, Scales(q[k], sec)
        PROVE  ~HasRef(A(i), q[k].ref)
    <3>. DEFINE r == q[k].ref
    <3>1. q[k] \in E /\ k \in DOMAIN q /\ i \in DOMAIN q BY <1>2
    <3>2. r # NoRef /\ \A x \in E : x.kind # "demerger" /\ x.ref = r => x = q[k]
      BY <2>5, <3>1 DEF PlainLog
    <3>3. i # k BY <2>3, <2>5
    <3>4. e # q[k] BY <1>3, <3>1, <3>3 DEF Enumerates
    <3>5. e.kind = "demerger" \/ e.ref # r BY <2>1, <3>2, <3>4
    <3>6. ~HasRef(L, r)
      <4>1. i - 1 < k BY <2>3, <2>5
      <4>. QED BY <2>2, <2>5, <4>1
    <3>. HIDE DEF r, e, L
    <3>7. ~HasRef(ApplyEvent(L, e), r) BY <2>1, <2>2, <3>2, <3>5, <3>6, RefStep
    <3>. QED BY <2>2, <3>7 DEF r
  <2>. QED BY <2>2, <2>4, <2>5
<1>6. \A i \in 0 .. n : i \in Good
  <2>1. n \in Nat BY <1>2
  <2>. HIDE DEF Good
  <2>. QED BY <1>4, <1>5, <2>1, CountingUp
<1>7. \A i \in 0 .. n :
        /\ A(i) \in Seq(PlainRows(D, sec))
        /\ \A k \in 1 .. n : i < k /\ Scales(q[k], sec) => ~HasRef(A(i), q[k].ref)
  BY <1>6
<1>. QED BY <1>7 DEF q, n, A

(* What it holds before and after each event; a folio that the finished    *)
(* projection has not oversold at an ex-date was not oversold at it when   *)
(* the event was replayed.                                                 *)
LEMMA PlainSteps ==
  ASSUME NEW D \in SUBSET Nat, NEW sec, NEW raw \in Seq(PlainRows(D, sec)),
         NEW E, IsFiniteSet(E), \A e \in E : IsEvent(e) /\ e.day \in D,
         PlainLog(E, sec), \A e \in E : Scales(e, sec) => ~HasRef(raw, e.ref)
  PROVE  LET q == InExDateOrder(E)
         IN \A i \in 1 .. Len(q) :
              LET L == Upto(q, raw, i - 1)
                  M == Upto(q, raw, i)
                  e == q[i]
              IN /\ ~Scales(e, sec) => \A folio, day :
                      HeldUnits(M, sec, folio, day) = HeldUnits(L, sec, folio, day)
                 /\ Scales(e, sec) => \E c \in Nat : c >= 1 /\ Multiplied(L, M, sec, e, c)
                 /\ Scales(e, sec) =>
                      ((\A folio \in Folios : HeldUnits(L, sec, folio, e.day) >= 0)
                         => Grown(L, M, sec, e, Factor(e)))
<1>. DEFINE q == InExDateOrder(E)
            n == Len(q)
            A(i) == Upto(q, raw, i)
<1>1. raw \in Seq(Rows(D)) BY PlainIn
<1>2. /\ DOMAIN q = 1 .. n /\ n \in Nat /\ \A i \in DOMAIN q : q[i] \in E
      /\ \A i \in 1 .. n : A(i) = ApplyEvent(A(i - 1), q[i])
  BY <1>1, ReplaySteps
<1>3. \A i \in 0 .. n :
        /\ A(i) \in Seq(PlainRows(D, sec))
        /\ \A k \in 1 .. n : i < k /\ Scales(q[k], sec) => ~HasRef(A(i), q[k].ref)
  BY PlainUpto
<1>. HIDE DEF q, n, A
<1>4. ASSUME NEW i \in 1 .. n
      PROVE  /\ ~Scales(q[i], sec) => \A folio, day :
                  HeldUnits(A(i), sec, folio, day) = HeldUnits(A(i - 1), sec, folio, day)
             /\ Scales(q[i], sec) =>
                  \E c \in Nat : c >= 1 /\ Multiplied(A(i - 1), A(i), sec, q[i], c)
             /\ Scales(q[i], sec) =>
                  ((\A folio \in Folios : HeldUnits(A(i - 1), sec, folio, q[i].day) >= 0)
                     => Grown(A(i - 1), A(i), sec, q[i], Factor(q[i])))
  <2>. DEFINE e == q[i]
              L == A(i - 1)
              M == A(i)
  <2>1. e \in E /\ IsEvent(e) /\ e.day \in D /\ M = ApplyEvent(L, e) BY <1>2
  <2>2. i - 1 \in 0 .. n /\ i - 1 < i BY <1>2
  <2>3. L \in Seq(PlainRows(D, sec)) /\ (Scales(e, sec) => ~HasRef(L, e.ref)) BY <1>3, <2>2
  <2>4. Scales(e, sec) => PlainEvent(e, sec, Factor(e)) BY <2>1 DEF PlainLog
  <2>5. ~Scales(e, sec) => \/ e.kind = "demerger"
                           \/ e.sec # sec /\ (e.kind = "merger" => e.into # sec)
    BY <2>1 DEF PlainLog, Scales
  <2>. HIDE DEF e, L, M
  <2>6. CASE Scales(e, sec)
    <3>. DEFINE m == Factor(e)
    <3>1. PlainEvent(e, sec, m) BY <2>4, <2>6
    <3>2. ~HasRef(L, e.ref) BY <2>3, <2>6
    <3>. HIDE DEF m
    <3>3. /\ \E c \in Nat : c >= 1 /\ Multiplied(L, M, sec, e, c)
          /\ (\A folio \in Folios : HeldUnits(L, sec, folio, e.day) >= 0) => Grown(L, M, sec, e, m)
      BY <2>1, <2>3, <3>1, <3>2, PlainStep
    <3>. QED BY <2>6, <3>3 DEF e, L, M, m
  <2>7. CASE ~Scales(e, sec)
    <3>1. \/ e.kind = "demerger"
          \/ e.sec # sec /\ (e.kind = "merger" => e.into # sec)
      BY <2>5, <2>7
    <3>2. Unmoved(L, ApplyEvent(L, e), sec) BY <2>1, <2>3, <3>1, OtherStep
    <3>. QED BY <2>1, <2>7, <3>2 DEF e, L, M, Unmoved
  <2>. QED BY <2>6, <2>7
<1>. QED BY <1>4 DEF q, n, A

LEMMA PlainGrowth ==
  ASSUME NEW D \in SUBSET Nat, NEW sec, NEW raw \in Seq(PlainRows(D, sec)),
         NEW E, IsFiniteSet(E), \A e \in E : IsEvent(e) /\ e.day \in D,
         PlainLog(E, sec), \A e \in E : Scales(e, sec) => ~HasRef(raw, e.ref),
         \A e \in E : Scales(e, sec) =>
           \A folio \in Folios : HeldUnits(Replay(raw, E), sec, folio, e.day) >= 0
  PROVE  LET q == InExDateOrder(E)
         IN \A i \in 1 .. Len(q) :
              LET L == Upto(q, raw, i - 1)
                  M == Upto(q, raw, i)
              IN /\ ~Scales(q[i], sec) => Unmoved(L, M, sec)
                 /\ Scales(q[i], sec) => Grown(L, M, sec, q[i], Factor(q[i]))
<1>. DEFINE q == InExDateOrder(E)
            n == Len(q)
            A(i) == Upto(q, raw, i)
            h(i, folio, day) == HeldUnits(A(i), sec, folio, day)
<1>1. raw \in Seq(Rows(D)) BY PlainIn
<1>2. /\ DOMAIN q = 1 .. n /\ n \in Nat /\ \A i \in DOMAIN q : q[i] \in E
      /\ Replay(raw, E) = A(n)
      /\ \A i \in 0 .. n : A(i) \in Seq(Rows(D))
  BY <1>1, ReplaySteps
<1>3. \A i, j \in DOMAIN q : i < j => ~Earlier(q[j], q[i]) BY EventsInOrder
<1>4. \A i \in 1 .. n :
        /\ ~Scales(q[i], sec) => \A folio, day : h(i, folio, day) = h(i - 1, folio, day)
        /\ Scales(q[i], sec) =>
             \E c \in Nat : c >= 1 /\ Multiplied(A(i - 1), A(i), sec, q[i], c)
        /\ Scales(q[i], sec) =>
             ((\A folio \in Folios : h(i - 1, folio, q[i].day) >= 0)
                => Grown(A(i - 1), A(i), sec, q[i], Factor(q[i])))
  BY PlainSteps
<1>. HIDE DEF q, n
<1>5. \A i \in 0 .. n : \A folio, day : h(i, folio, day) \in Int BY <1>2, HeldIsInt
<1>6. \A i \in 1 .. n : q[i] \in E /\ q[i].day \in Int
  <2>1. \A e \in E : e.day \in D OBVIOUS
  <2>2. \A d \in D : d \in Int OBVIOUS
  <2>. QED BY <1>2, <2>1, <2>2
<1>7. ASSUME NEW i \in 1 .. n, Scales(q[i], sec), NEW folio \in Folios,
             h(i - 1, folio, q[i].day) < 0
      PROVE  FALSE
  <2>. DEFINE d == q[i].day
              Good == {j \in 0 .. n : j >= i - 1 => h(j, folio, d) < 0}
  <2>1. i \in Int /\ i >= 1 /\ d \in Int /\ n \in Nat BY <1>2, <1>6
  <2>2. 0 \in Good BY <1>2, <1>7, <2>1
  <2>3. ASSUME NEW j \in 1 .. n, j - 1 \in Good PROVE j \in Good
    <3>. SUFFICES ASSUME j >= i - 1 PROVE h(j, folio, d) < 0 BY <2>1
    <3>1. CASE j - 1 < i - 1
      <4>1. j = i - 1 BY <2>1, <3>1
      <4>. QED BY <1>7, <4>1
    <3>2. CASE j - 1 >= i - 1
      <4>. DEFINE x == h(j - 1, folio, d)
      <4>1. x < 0 /\ x \in Int
        <5>1. j - 1 \in 0 .. n BY <2>1
        <5>. QED BY <1>5, <2>3, <3>2, <5>1
      <4>2. CASE Scales(q[j], sec)
        <5>1. d <= q[j].day
          <6>1. CASE j = i BY <2>1, <6>1
          <6>2. CASE j # i
            <7>1. i < j /\ i \in DOMAIN q /\ j \in DOMAIN q BY <1>2, <2>1, <3>2, <6>2
            <7>2. ~(q[j].day < q[i].day) BY <1>3, <7>1 DEF Earlier
            <7>. QED BY <1>6, <2>1, <7>2
          <6>. QED BY <6>1, <6>2
        <5>2. PICK c \in Nat : c >= 1 /\ Multiplied(A(j - 1), A(j), sec, q[j], c)
          BY <1>4, <4>2
        <5>3. h(j, folio, d) = c * x BY <2>1, <5>1, <5>2 DEF Multiplied
        <5>. HIDE DEF x, h, A
        <5>4. c * x < 0 BY <4>1, <5>2, NegativeTimes
        <5>. QED BY <5>3, <5>4
      <4>3. CASE ~Scales(q[j], sec) BY <1>4, <4>1, <4>3
      <4>. QED BY <4>2, <4>3
    <3>. QED BY <2>1, <3>1, <3>2
  <2>4. n \in Good
    <3>1. n \in 0 .. n BY <2>1
    <3>. HIDE DEF Good
    <3>. QED BY <2>1, <2>2, <2>3, <3>1, CountingUp
  <2>5. h(n, folio, d) < 0 BY <2>1, <2>4
  <2>6. h(n, folio, d) >= 0 BY <1>2, <1>6, <1>7
  <2>7. h(n, folio, d) \in Int BY <1>5, <2>1
  <2>. QED BY <2>5, <2>6, <2>7
<1>8. ASSUME NEW i \in 1 .. n, Scales(q[i], sec)
      PROVE  Grown(A(i - 1), A(i), sec, q[i], Factor(q[i]))
  <2>1. ASSUME NEW folio \in Folios PROVE h(i - 1, folio, q[i].day) >= 0
    <3>1. i - 1 \in 0 .. n BY <1>2
    <3>2. h(i - 1, folio, q[i].day) \in Int BY <1>5, <3>1
    <3>3. ~(h(i - 1, folio, q[i].day) < 0) BY <1>7, <1>8
    <3>. QED BY <3>2, <3>3
  <2>. QED BY <1>4, <1>8, <2>1
<1>9. ASSUME NEW i \in 1 .. n, ~Scales(q[i], sec) PROVE Unmoved(A(i - 1), A(i), sec)
  BY <1>4, <1>9 DEF Unmoved
<1>. QED BY <1>8, <1>9 DEF q, n, A

-----------------------------------------------------------------------------
(* The balance of the page, entry by entry.                                *)
LEMMA BalanceLoop ==
  ASSUME NEW S, NEW tl \in Seq(S)
  PROVE  /\ FoldLeft(RunningBalance, 0, tl) = Loop("balance", tl, 0, DOMAIN tl)
         /\ IsFiniteSet(DOMAIN tl) /\ Picks("balance", tl, DOMAIN tl)
<1>. DEFINE P == DOMAIN tl
            runs(g) == g = [T \in SUBSET P |-> IF T = {} THEN 0
                              ELSE RunningBalance(g[T \ {Max(T)}], tl[Max(T)])]
            c == CHOOSE g : runs(g)
<1>1. P = 1 .. Len(tl) /\ Len(tl) \in Nat BY LenProperties
<1>2. IsFiniteSet(1 .. Len(tl)) BY <1>1, FS_Interval
<1>3. IsFiniteSet(P) /\ P \in SUBSET Int BY <1>1, <1>2
<1>4. Picks("balance", tl, P) BY <1>3, PlacePicks
<1>5. ASSUME NEW g PROVE runs(g) <=> IsLoop("balance", tl, 0, P, g)
  BY DEF IsLoop, Body, Pick
<1>6. \E g : runs(g) BY <1>3, <1>4, <1>5, LoopExists
<1>7. runs(c) BY <1>6
<1>8. FoldLeft(RunningBalance, 0, tl) = c[P] BY DEF FoldLeft, MapThenFoldSet
<1>. HIDE DEF c
<1>9. IsLoop("balance", tl, 0, P, c) BY <1>5, <1>7
<1>10. Loop("balance", tl, 0, P) = c[P] BY <1>3, <1>4, <1>9, LoopIs
<1>. QED BY <1>3, <1>4, <1>8, <1>10

LEMMA BalanceSteps ==
  ASSUME NEW S, NEW tl \in Seq(S)
  PROVE  /\ DOMAIN tl = 1 .. Len(tl) /\ Len(tl) \in Nat
         /\ FoldLeft(RunningBalance, 0, tl) = Running(tl, Len(tl)) /\ Running(tl, 0) = 0
         /\ \A k \in 1 .. Len(tl) : Running(tl, k) = RunningBalance(Running(tl, k - 1), tl[k])
<1>. DEFINE n == Len(tl)
<1>1. DOMAIN tl = 1 .. n /\ n \in Nat BY LenProperties
<1>2. FoldLeft(RunningBalance, 0, tl) = Running(tl, n) BY <1>1, BalanceLoop DEF Running
<1>3. Running(tl, 0) = 0
  <2>1. 1 .. 0 = {} OBVIOUS
  <2>. QED BY <2>1, LoopEmpty DEF Running
<1>. HIDE DEF n
<1>4. ASSUME NEW k \in 1 .. n
      PROVE  Running(tl, k) = RunningBalance(Running(tl, k - 1), tl[k])
  <2>. DEFINE T == 1 .. k
              x == Pick("balance", tl, T)
  <2>1. k \in Nat /\ k >= 1 BY <1>1
  <2>2. IsFiniteSet(T) BY <2>1, FS_Interval
  <2>3. T \in SUBSET Int /\ T # {}
    <3>1. k \in T BY <2>1
    <3>. QED BY <3>1
  <2>4. Picks("balance", tl, T) BY <2>2, <2>3, PlacePicks
  <2>5. x = k
    <3>1. x = Max(T) BY DEF Pick
    <3>. HIDE DEF x
    <3>2. Max(T) \in T /\ \A y \in T : y <= Max(T) BY <2>2, <2>3, Greatest
    <3>3. x \in T /\ k <= x BY <2>1, <3>1, <3>2
    <3>. QED BY <2>1, <3>3
  <2>6. Loop("balance", tl, 0, T) = Body("balance", tl, x, Loop("balance", tl, 0, T \ {x}))
    <3>1. T # {} BY <2>3
    <3>. HIDE DEF T
    <3>. QED BY <2>2, <2>4, <3>1, LoopStep
  <2>7. T \ {k} = 1 .. (k - 1) BY <2>1
  <2>. QED BY <2>5, <2>6, <2>7 DEF Body, Running
<1>. QED BY <1>1, <1>2, <1>3, <1>4 DEF n

LEMMA ShownSteps ==
  ASSUME NEW S, NEW tl \in Seq(S), \A a \in DOMAIN tl : tl[a].units \in Int
  PROVE  /\ ShownUnits(tl, 0) = 0
         /\ \A k \in 1 .. Len(tl) :
              /\ ShownUnits(tl, k) = ShownUnits(tl, k - 1) + tl[k].units
              /\ ShownUnits(tl, k - 1) \in Int
<1>. DEFINE u == EntryUnits(tl)
            n == Len(tl)
<1>1. DOMAIN tl = 1 .. n /\ n \in Nat BY LenProperties
<1>2. \A a \in DOMAIN tl : u[a] = tl[a].units /\ u[a] \in Int BY DEF EntryUnits
<1>3. ShownUnits(tl, 0) = 0
  <2>1. 1 .. 0 = {} OBVIOUS
  <2>. QED BY <2>1, SumEmpty DEF ShownUnits
<1>. HIDE DEF u, n
<1>4. ASSUME NEW k \in 1 .. n
      PROVE  ShownUnits(tl, k) = ShownUnits(tl, k - 1) + tl[k].units /\ ShownUnits(tl, k - 1) \in Int
  <2>. DEFINE T == 1 .. k
              U == 1 .. (k - 1)
  <2>1. k \in Int /\ k >= 1 BY <1>1
  <2>2. k \in T /\ T \ {k} = U /\ T \subseteq DOMAIN tl /\ U \subseteq DOMAIN tl BY <1>1, <2>1
  <2>3. IsFiniteSet(T) /\ IsFiniteSet(U)
    <3>1. k \in Nat /\ k - 1 \in Nat BY <2>1
    <3>. QED BY <3>1, FS_Interval
  <2>. HIDE DEF T, U
  <2>4. \A a \in T : u[a] \in Int BY <1>2, <2>2
  <2>5. \A a \in U : u[a] \in Int BY <1>2, <2>2
  <2>6. SumFunctionOnSet(u, T) = u[k] + SumFunctionOnSet(u, U)
    BY <2>2, <2>3, <2>4, SumRemove
  <2>7. SumFunctionOnSet(u, U) \in Int BY <2>3, <2>5, SumType
  <2>8. u[k] = tl[k].units /\ u[k] \in Int BY <1>2, <2>2
  <2>. QED BY <2>6, <2>7, <2>8 DEF ShownUnits, u, T, U
<1>. QED BY <1>3, <1>4 DEF n

(* Where an event stands on the page, the entries so far are those of the  *)
(* days before it.                                                         *)
LEMMA ShownBefore ==
  ASSUME NEW S, NEW tl \in Seq(S), NEW F, NEW raw, NEW sec, PageOf(tl, F, raw, sec),
         NEW a \in DOMAIN tl, NEW e \in F, tl[a] = ScaleEntry(e),
         \A x \in F : x.day = e.day => x = e
  PROVE  ShownUnits(tl, a - 1) = HeldUnits(raw, sec, NoFolio, e.day)
<1>. DEFINE u == EntryUnits(tl)
            d == e.day
            T == 1 .. (a - 1)
            B == EntriesBefore(tl, d)
            R == T \ B
<1>1. DOMAIN tl = 1 .. Len(tl) /\ Len(tl) \in Nat BY LenProperties
<1>2. tl[a].day = d /\ d \in Int BY DEF PageOf, ScaleEntry
<1>3. T \subseteq DOMAIN tl /\ B \subseteq DOMAIN tl BY <1>1 DEF EntriesBefore
<1>4. B \subseteq T
  <2>. SUFFICES ASSUME NEW b \in B PROVE b \in T OBVIOUS
  <2>1. b \in DOMAIN tl /\ tl[b].day < d BY DEF EntriesBefore
  <2>2. ~(a < b)
    <3>. SUFFICES ASSUME a < b PROVE FALSE OBVIOUS
    <3>1. tl[a].day <= tl[b].day /\ tl[b].day \in Int BY <2>1 DEF PageOf
    <3>. QED BY <1>2, <2>1, <3>1
  <2>3. b # a BY <1>2, <2>1
  <2>. QED BY <1>1, <2>1, <2>2, <2>3
<1>5. ASSUME NEW b \in R PROVE u[b] = 0
  <2>1. b \in DOMAIN tl /\ b \in T /\ b \notin B BY <1>3
  <2>2. b < a BY <1>1, <2>1
  <2>3. tl[b].day <= d /\ tl[b].day \in Int BY <1>2, <2>1, <2>2 DEF PageOf
  <2>4. ~(tl[b].day < d) BY <2>1 DEF EntriesBefore
  <2>5. tl[b].day = d BY <1>2, <2>3, <2>4
  <2>6. PICK x \in F : tl[b] = ScaleEntry(x) BY <2>1, <2>5 DEF PageOf
  <2>. QED BY <2>1, <2>6 DEF EntryUnits, ScaleEntry
<1>6. \A b \in DOMAIN tl : u[b] \in Int BY DEF EntryUnits, PageOf
<1>7. IsFiniteSet(T)
  <2>1. a - 1 \in Nat BY <1>1
  <2>. QED BY <2>1, FS_Interval
<1>8. SumFunctionOnSet(u, B) = HeldUnits(raw, sec, NoFolio, d) BY <1>2 DEF PageOf
<1>9. ShownUnits(tl, a - 1) = SumFunctionOnSet(u, T) BY DEF ShownUnits
<1>. HIDE DEF u, T, B, d
<1>10. IsFiniteSet(B) /\ IsFiniteSet(R) BY <1>4, <1>7, FS_Subset
<1>11. T = B \cup R /\ B \cap R = {} BY <1>4
<1>12. \A b \in B \cup R : u[b] \in Int BY <1>3, <1>6
<1>13. SumFunctionOnSet(u, T) = SumFunctionOnSet(u, B) + SumFunctionOnSet(u, R)
  BY <1>10, <1>11, <1>12, SumUnion
<1>14. SumFunctionOnSet(u, R) = 0 BY <1>5, <1>10, SumZero
<1>15. SumFunctionOnSet(u, B) \in Int BY <1>10, <1>12, SumType
<1>. QED BY <1>8, <1>9, <1>13, <1>14, <1>15 DEF d

LEMMA Skipped ==
  ASSUME NEW q, NEW F, NEW raw, NEW sec, ReplayOf(q, F, raw, sec),
         NEW i \in 0 .. Len(q), NEW j \in 0 .. Len(q), i <= j,
         \A c \in 1 .. Len(q) : i < c /\ c <= j => ~Scales(q[c], sec),
         NEW day \in Int
  PROVE  HeldAfter(q, raw, sec, j, day) = HeldAfter(q, raw, sec, i, day)
<1>. DEFINE n == Len(q)
            h(c) == HeldAfter(q, raw, sec, c, day)
            Good == {c \in 0 .. n : i <= c /\ c <= j => h(c) = h(i)}
<1>1. n \in Nat /\ \A c \in 1 .. n : ~Scales(q[c], sec) => h(c) = h(c - 1) BY DEF ReplayOf
<1>2. \A c \in 1 .. n : i < c /\ c <= j => ~Scales(q[c], sec) OBVIOUS
<1>3. i \in 0 .. n /\ j \in 0 .. n OBVIOUS
<1>. HIDE DEF n, h
<1>4. 0 \in Good BY <1>1, <1>3
<1>5. ASSUME NEW c \in 1 .. n, c - 1 \in Good PROVE c \in Good
  <2>. SUFFICES ASSUME i <= c, c <= j PROVE h(c) = h(i) BY <1>1
  <2>1. CASE c = i BY <2>1
  <2>2. CASE c # i
    <3>1. i < c /\ i <= c - 1 /\ c - 1 <= j BY <1>1, <1>3, <2>2
    <3>2. h(c - 1) = h(i) BY <1>5, <3>1
    <3>3. h(c) = h(c - 1) BY <1>1, <1>2, <3>1
    <3>. QED BY <3>2, <3>3
  <2>. QED BY <2>1, <2>2
<1>6. j \in Good
  <2>. HIDE DEF Good
  <2>. QED BY <1>1, <1>3, <1>4, <1>5, CountingUp
<1>. QED BY <1>3, <1>6 DEF h

LEMMA TradeWalked ==
  ASSUME NEW q, NEW F, NEW raw, NEW sec, ReplayOf(q, F, raw, sec),
         NEW S, NEW tl \in Seq(S), PageOf(tl, F, raw, sec), NEW k \in 1 .. Len(tl),
         tl[k].num = 1, tl[k].den = 1, \A e \in F : tl[k].day # e.day,
         NEW i \in 0 .. Len(q), Walked(q, raw, sec, tl, k - 1, i), Running(tl, k - 1) \in Int
  PROVE  Walked(q, raw, sec, tl, k, i) /\ Running(tl, k) \in Int
<1>. DEFINE b == Running(tl, k - 1)
            u == tl[k].units
            w == b + u
<1>1. /\ DOMAIN tl = 1 .. Len(tl) /\ Len(tl) \in Nat
      /\ Running(tl, k) = RunningBalance(b, tl[k])
  BY BalanceSteps
<1>2. u \in Int /\ \A a \in DOMAIN tl : tl[a].units \in Int BY <1>1 DEF PageOf
<1>3. ShownUnits(tl, k) = ShownUnits(tl, k - 1) + u /\ ShownUnits(tl, k - 1) \in Int
  BY <1>2, ShownSteps
<1>4. Running(tl, k) = b + u
  <2>1. Running(tl, k) = (w * 1) \div 1 BY <1>1 DEF RunningBalance
  <2>2. w \in Int BY <1>2
  <2>. HIDE DEF w
  <2>3. 1 \in Nat /\ 1 # 0 OBVIOUS
  <2>4. (w * 1) \div 1 = w BY <2>2, <2>3, WholeQuotient
  <2>. QED BY <2>1, <2>4 DEF w
<1>5. ASSUME NEW c \in 1 .. Len(q), Scales(q[c], sec)
      PROVE  Shown(tl, k, q[c]) <=> Shown(tl, k - 1, q[c])
  <2>1. q[c] \in F BY <1>5 DEF ReplayOf
  <2>2. tl[k] # ScaleEntry(q[c]) BY <2>1 DEF ScaleEntry
  <2>3. \A a \in 1 .. k : a = k \/ a \in 1 .. (k - 1) BY <1>1
  <2>4. \A a \in 1 .. (k - 1) : a \in 1 .. k BY <1>1
  <2>. QED BY <2>2, <2>3, <2>4 DEF Shown
<1>. HIDE DEF b, u
<1>6. ASSUME NEW day \in Int, Later(q, sec, i, day)
      PROVE  Running(tl, k) = HeldAfter(q, raw, sec, i, day) - HeldAfter(q, raw, sec, 0, day)
                                + ShownUnits(tl, k)
  <2>. DEFINE x == HeldAfter(q, raw, sec, i, day)
              y == HeldAfter(q, raw, sec, 0, day)
  <2>1. b = x - y + ShownUnits(tl, k - 1) BY <1>6 DEF Walked, b
  <2>2. x \in Int /\ y \in Int
    <3>1. 0 \in 0 .. Len(q) BY DEF ReplayOf
    <3>. QED BY <3>1 DEF ReplayOf
  <2>. HIDE DEF x, y
  <2>3. Running(tl, k) = x - y + ShownUnits(tl, k) BY <1>2, <1>3, <1>4, <2>1, <2>2
  <2>. QED BY <2>3 DEF x, y
<1>7. Running(tl, k) \in Int BY <1>2, <1>4 DEF b
<1>. QED BY <1>5, <1>6, <1>7 DEF Walked

LEMMA ScaleWalked ==
  ASSUME NEW q, NEW F, NEW raw, NEW sec, ReplayOf(q, F, raw, sec),
         NEW S, NEW tl \in Seq(S), PageOf(tl, F, raw, sec), NEW k \in 1 .. Len(tl),
         NEW e \in F, tl[k] = ScaleEntry(e), \A x \in F : x.day = e.day => x = e,
         NEW i \in 0 .. Len(q), Walked(q, raw, sec, tl, k - 1, i), Running(tl, k - 1) \in Int
  PROVE  Running(tl, k) \in Int /\ \E j \in 0 .. Len(q) : Walked(q, raw, sec, tl, k, j)
<1>. DEFINE n == Len(q)
            h(c, day) == HeldAfter(q, raw, sec, c, day)
            b == Running(tl, k - 1)
            m == Factor(e)
            t == ShownUnits(tl, k - 1)
<1>1. /\ DOMAIN tl = 1 .. Len(tl) /\ Len(tl) \in Nat
      /\ Running(tl, k) = RunningBalance(b, tl[k])
  BY BalanceSteps
<1>2. n \in Nat /\ DOMAIN q = 1 .. n /\ i \in 0 .. n BY DEF ReplayOf
<1>3. PICK j \in 1 .. n : q[j] = e /\ Scales(e, sec) BY DEF ReplayOf
<1>4. tl[k].day = e.day /\ tl[k].units = 0 /\ tl[k].num = e.num /\ tl[k].den = e.den
      /\ e.day \in Int
  BY <1>1 DEF ScaleEntry, PageOf
<1>5. ShownUnits(tl, k) = t /\ t \in Int
  <2>1. \A a \in DOMAIN tl : tl[a].units \in Int BY DEF PageOf
  <2>2. ShownUnits(tl, k) = t + tl[k].units /\ t \in Int BY <2>1, ShownSteps
  <2>. HIDE DEF t
  <2>. QED BY <1>4, <2>2
<1>6. t = HeldUnits(raw, sec, NoFolio, e.day) BY <1>1, ShownBefore
<1>7. \A c \in 1 .. n : Scales(q[c], sec) => (c <= i <=> Shown(tl, k - 1, q[c]))
  BY DEF Walked
<1>8. \A c \in 1 .. n : Scales(q[c], sec) => q[c] \in F BY DEF ReplayOf
<1>9. \A c, d \in 1 .. n : c < d /\ Scales(q[c], sec) /\ Scales(q[d], sec) => q[c].day < q[d].day
  BY DEF ReplayOf
<1>10. ASSUME NEW c \in 1 .. n, Scales(q[c], sec), NEW a \in DOMAIN tl, tl[a] = ScaleEntry(q[c])
       PROVE  (c < j => a < k) /\ (a < k => c < j) /\ (c = j => a = k) /\ (a = k => c = j)
  <2>1. q[c] \in F /\ tl[a].day = q[c].day /\ tl[a].day \in Int
    BY <1>8, <1>10 DEF ScaleEntry, PageOf
  <2>2. a \in Int /\ k \in Int /\ c \in Int /\ j \in Int BY <1>1, <1>2
  <2>3. c < j => tl[a].day < tl[k].day BY <1>3, <1>4, <1>9, <1>10, <2>1
  <2>4. j < c => tl[k].day < tl[a].day BY <1>3, <1>4, <1>9, <1>10, <2>1
  <2>5. a < k => tl[a].day <= tl[k].day BY <1>1 DEF PageOf
  <2>6. k < a => tl[k].day <= tl[a].day BY <1>1 DEF PageOf
  <2>7. c = j => a = k BY <1>1, <1>3, <1>10 DEF PageOf
  <2>8. a = k => tl[a].day = tl[k].day OBVIOUS
  <2>. QED BY <1>4, <2>1, <2>2, <2>3, <2>4, <2>5, <2>6, <2>7, <2>8
<1>11. ASSUME NEW c \in 1 .. n, Scales(q[c], sec)
       PROVE  \E a \in DOMAIN tl : tl[a] = ScaleEntry(q[c])
  BY <1>8, <1>11 DEF PageOf
<1>12. \A c \in 1 .. n : Scales(q[c], sec) => (c <= i <=> c < j)
  <2>. SUFFICES ASSUME NEW c \in 1 .. n, Scales(q[c], sec)
                PROVE  Shown(tl, k - 1, q[c]) <=> c < j
    BY <1>7
  <2>1. ASSUME c < j PROVE Shown(tl, k - 1, q[c])
    <3>1. PICK a \in DOMAIN tl : tl[a] = ScaleEntry(q[c]) BY <1>11
    <3>2. a < k BY <1>10, <2>1, <3>1
    <3>3. a \in 1 .. (k - 1) BY <1>1, <3>2
    <3>. QED BY <3>1, <3>3 DEF Shown
  <2>2. ASSUME Shown(tl, k - 1, q[c]) PROVE c < j
    <3>1. PICK a \in 1 .. (k - 1) : tl[a] = ScaleEntry(q[c]) BY <2>2 DEF Shown
    <3>2. a \in DOMAIN tl /\ a < k BY <1>1
    <3>. QED BY <1>10, <3>1, <3>2
  <2>. QED BY <2>1, <2>2
<1>13. i < j
  <2>1. ~(j <= i) BY <1>2, <1>3, <1>12
  <2>. QED BY <1>2, <2>1
<1>14. \A c \in 1 .. n : Scales(q[c], sec) => (c <= j <=> Shown(tl, k, q[c]))
  <2>. SUFFICES ASSUME NEW c \in 1 .. n, Scales(q[c], sec)
                PROVE  Shown(tl, k, q[c]) <=> c <= j
    OBVIOUS
  <2>0. c \in Int /\ j \in Int BY <1>2
  <2>1. ASSUME c <= j PROVE Shown(tl, k, q[c])
    <3>1. PICK a \in DOMAIN tl : tl[a] = ScaleEntry(q[c]) BY <1>11
    <3>2. a < k \/ a = k BY <1>10, <2>0, <2>1, <3>1
    <3>3. a \in 1 .. k BY <1>1, <3>2
    <3>. QED BY <3>1, <3>3 DEF Shown
  <2>2. ASSUME Shown(tl, k, q[c]) PROVE c <= j
    <3>1. PICK a \in 1 .. k : tl[a] = ScaleEntry(q[c]) BY <2>2 DEF Shown
    <3>2. a \in DOMAIN tl /\ (a < k \/ a = k) BY <1>1
    <3>3. c < j \/ c = j BY <1>10, <3>1, <3>2
    <3>. QED BY <2>0, <3>3
  <2>. QED BY <2>1, <2>2
<1>15. ASSUME NEW day \in Int PROVE h(j - 1, day) = h(i, day)
  <2>1. j - 1 \in 0 .. n /\ i <= j - 1 BY <1>2, <1>13
  <2>2. ASSUME NEW c \in 1 .. n, i < c, c <= j - 1 PROVE ~Scales(q[c], sec)
    <3>1. c < j /\ ~(c <= i) BY <1>2, <2>2
    <3>. QED BY <1>12, <3>1
  <2>. QED BY <2>1, <2>2, Skipped
<1>16. \A c \in 0 .. n : \A day \in Int : h(c, day) \in Int BY DEF ReplayOf
<1>17. h(0, e.day) = t BY <1>4, <1>6 DEF ReplayOf
<1>18. PlainEvent(e, sec, m) BY <1>3 DEF ReplayOf
<1>19. m \in Nat BY <1>18 DEF PlainEvent
<1>20. \A day \in Int : Later(q, sec, i, day) => b = h(i, day) - h(0, day) + t BY DEF Walked
<1>21. \A day \in Int : day > e.day => h(j, day) = h(j - 1, day) + (m - 1) * h(j - 1, e.day)
  BY <1>3 DEF ReplayOf
<1>. HIDE DEF h, b, m, t, n
<1>22. Later(q, sec, i, e.day)
  <2>. SUFFICES ASSUME NEW c \in 1 .. i, Scales(q[c], sec) PROVE q[c].day < e.day BY DEF Later
  <2>1. c \in 1 .. n /\ c < j BY <1>2, <1>13
  <2>. QED BY <1>3, <1>9, <2>1
<1>23. b = h(i, e.day)
  <2>1. b = h(i, e.day) - t + t BY <1>4, <1>17, <1>20, <1>22
  <2>2. h(i, e.day) \in Int BY <1>2, <1>4, <1>16
  <2>. QED BY <1>5, <2>1, <2>2
<1>24. Running(tl, k) = m * b
  <2>1. b \in Int BY DEF b
  <2>2. Running(tl, k) = ((b + 0) * e.num) \div e.den BY <1>1, <1>4 DEF RunningBalance
  <2>3. b + 0 = b BY <2>1
  <2>. QED BY <1>18, <2>1, <2>2, <2>3, PlainQuotient
<1>25. ASSUME NEW day \in Int, Later(q, sec, j, day)
       PROVE  Running(tl, k) = h(j, day) - h(0, day) + ShownUnits(tl, k)
  <2>1. day > e.day
    <3>1. j \in 1 .. j BY <1>2
    <3>. QED BY <1>3, <1>4, <1>25, <3>1 DEF Later
  <2>2. Later(q, sec, i, day)
    <3>1. \A c \in 1 .. i : c \in 1 .. j BY <1>2, <1>13
    <3>. QED BY <1>25, <3>1 DEF Later
  <2>3. b = h(i, day) - h(0, day) + t BY <1>20, <2>2
  <2>4. h(j, day) = h(i, day) + (m - 1) * b BY <1>4, <1>15, <1>21, <1>23, <2>1
  <2>. DEFINE x == h(i, day)
              y == h(0, day)
              z == h(j, day)
  <2>5. x \in Int /\ y \in Int /\ b \in Int
    <3>1. 0 \in 0 .. n BY <1>2
    <3>. QED BY <1>2, <1>16, <3>1 DEF b
  <2>6. z = x + (m - 1) * b /\ b = x - y + t BY <2>3, <2>4
  <2>. HIDE DEF x, y, z
  <2>7. (m - 1) * b = m * b - b BY <1>19, <2>5
  <2>8. m * b \in Int BY <1>19, <2>5
  <2>9. m * b = z - y + t BY <1>5, <2>5, <2>6, <2>7, <2>8
  <2>. QED BY <1>5, <1>24, <2>9 DEF y, z
<1>26. Running(tl, k) \in Int
  <2>1. b \in Int BY DEF b
  <2>. QED BY <1>19, <1>24, <2>1
<1>27. j \in 0 .. Len(q) BY <1>2 DEF n
<1>28. Walked(q, raw, sec, tl, k, j) BY <1>14, <1>25 DEF Walked, h, n
<1>. QED BY <1>26, <1>27, <1>28

LEMMA ReplayIsPlain ==
  ASSUME NEW D \in SUBSET Nat, NEW sec, NEW raw \in Seq(PlainRows(D, sec)),
         NEW E, IsFiniteSet(E), \A e \in E : IsEvent(e) /\ e.day \in D,
         PlainLog(E, sec), \A e \in E : Scales(e, sec) => ~HasRef(raw, e.ref),
         \A e \in E : Scales(e, sec) =>
           \A folio \in Folios : HeldUnits(Replay(raw, E), sec, folio, e.day) >= 0
  PROVE  ReplayOf(InExDateOrder(E), {e \in E : Scales(e, sec)}, raw, sec)
<1>. DEFINE q == InExDateOrder(E)
            F == {e \in E : Scales(e, sec)}
            n == Len(q)
<1>1. raw \in Seq(Rows(D)) BY PlainIn
<1>2. /\ DOMAIN q = 1 .. n /\ n \in Nat /\ \A i \in DOMAIN q : q[i] \in E
      /\ Upto(q, raw, 0) = raw
      /\ \A i \in 0 .. n : Upto(q, raw, i) \in Seq(Rows(D))
  BY <1>1, ReplaySteps
<1>3. Enumerates(q, E) /\ \A i, j \in DOMAIN q : i < j => ~Earlier(q[j], q[i])
  BY EventsInOrder
<1>4. \A i \in 1 .. n :
        /\ ~Scales(q[i], sec) => Unmoved(Upto(q, raw, i - 1), Upto(q, raw, i), sec)
        /\ Scales(q[i], sec) => Grown(Upto(q, raw, i - 1), Upto(q, raw, i), sec, q[i], Factor(q[i]))
  BY PlainGrowth
<1>5. \A e \in E : e.day \in Int
  <2>1. \A d \in D : d \in Int OBVIOUS
  <2>. QED BY <2>1
<1>. HIDE DEF q, n
<1>6. \A i \in 0 .. n : \A day \in Int : HeldAfter(q, raw, sec, i, day) \in Int
  BY <1>2, HeldIsInt DEF HeldAfter
<1>7. \A day \in Int : HeldAfter(q, raw, sec, 0, day) = HeldUnits(raw, sec, NoFolio, day)
  BY <1>2 DEF HeldAfter
<1>8. ASSUME NEW i \in 1 .. n, ~Scales(q[i], sec), NEW day \in Int
      PROVE  HeldAfter(q, raw, sec, i, day) = HeldAfter(q, raw, sec, i - 1, day)
  BY <1>4, <1>8 DEF HeldAfter, Unmoved
<1>9. ASSUME NEW i \in 1 .. n, Scales(q[i], sec)
      PROVE  /\ q[i] \in F /\ PlainEvent(q[i], sec, Factor(q[i]))
             /\ \A day \in Int : day > q[i].day =>
                  HeldAfter(q, raw, sec, i, day)
                    = HeldAfter(q, raw, sec, i - 1, day)
                        + (Factor(q[i]) - 1) * HeldAfter(q, raw, sec, i - 1, q[i].day)
  <2>1. q[i] \in E BY <1>2
  <2>2. PlainEvent(q[i], sec, Factor(q[i])) BY <1>9, <2>1 DEF PlainLog
  <2>3. Grown(Upto(q, raw, i - 1), Upto(q, raw, i), sec, q[i], Factor(q[i])) BY <1>4, <1>9
  <2>. QED BY <1>9, <2>1, <2>2, <2>3 DEF Grown, HeldAfter
<1>10. ASSUME NEW i \in 1 .. n, NEW j \in 1 .. n, i < j, Scales(q[i], sec), Scales(q[j], sec)
       PROVE  q[i].day < q[j].day
  <2>1. q[i] \in E /\ q[j] \in E /\ i \in DOMAIN q /\ j \in DOMAIN q BY <1>2
  <2>2. i # j BY <1>2, <1>10
  <2>3. q[i] # q[j] BY <1>3, <2>1, <2>2 DEF Enumerates
  <2>4. q[j].day # q[i].day BY <1>10, <2>1, <2>3 DEF PlainLog
  <2>5. ~(q[j].day < q[i].day) BY <1>3, <1>10, <2>1 DEF Earlier
  <2>. QED BY <1>5, <2>1, <2>4, <2>5
<1>11. ASSUME NEW e \in F PROVE \E i \in 1 .. n : q[i] = e /\ Scales(e, sec)
  BY <1>2, <1>3 DEF Enumerates
<1>12. DOMAIN q = 1 .. Len(q) /\ Len(q) \in Nat BY <1>2 DEF n
<1>. HIDE DEF F
<1>. QED BY <1>6, <1>7, <1>8, <1>9, <1>10, <1>11, <1>12 DEF ReplayOf, q, n, F

(* The balance the page ends on is what the replay holds in the end.       *)
LEMMA PageWalks ==
  ASSUME NEW q, NEW F, NEW raw, NEW sec, ReplayOf(q, F, raw, sec),
         \A e, x \in F : x.day = e.day => x = e,
         NEW S, NEW tl \in Seq(S), PageOf(tl, F, raw, sec),
         NEW last \in Int, \A a \in DOMAIN tl : tl[a].day < last
  PROVE  FoldLeft(RunningBalance, 0, tl) = HeldAfter(q, raw, sec, Len(q), last)
<1>. DEFINE n == Len(tl)
            Good == {k \in 0 .. n : /\ Running(tl, k) \in Int
                                    /\ \E i \in 0 .. Len(q) : Walked(q, raw, sec, tl, k, i)}
<1>1. /\ DOMAIN tl = 1 .. n /\ n \in Nat
      /\ FoldLeft(RunningBalance, 0, tl) = Running(tl, n) /\ Running(tl, 0) = 0
  BY BalanceSteps
<1>2. Len(q) \in Nat /\ 0 \in 0 .. Len(q) /\ Len(q) \in 0 .. Len(q) BY DEF ReplayOf
<1>3. \A i \in 0 .. Len(q) : \A day \in Int : HeldAfter(q, raw, sec, i, day) \in Int
  BY DEF ReplayOf
<1>4. \A a \in DOMAIN tl : tl[a].units \in Int BY DEF PageOf
<1>5. ShownUnits(tl, 0) = 0 BY <1>4, ShownSteps
<1>6. 0 \in Good
  <2>1. \A c \in 1 .. Len(q) : ~(c <= 0) BY <1>2
  <2>2. \A e : ~Shown(tl, 0, e)
    <3>1. 1 .. 0 = {} OBVIOUS
    <3>. QED BY <3>1 DEF Shown
  <2>3. ASSUME NEW day \in Int
        PROVE  Running(tl, 0) = HeldAfter(q, raw, sec, 0, day) - HeldAfter(q, raw, sec, 0, day)
                                  + ShownUnits(tl, 0)
    BY <1>1, <1>2, <1>3, <1>5
  <2>4. Walked(q, raw, sec, tl, 0, 0) BY <2>1, <2>2, <2>3 DEF Walked
  <2>. QED BY <1>1, <1>2, <2>4
<1>7. ASSUME NEW k \in 1 .. n, k - 1 \in Good PROVE k \in Good
  <2>1. PICK i \in 0 .. Len(q) : Walked(q, raw, sec, tl, k - 1, i) BY <1>7
  <2>2. Running(tl, k - 1) \in Int /\ k \in 0 .. n /\ k \in DOMAIN tl BY <1>1, <1>7
  <2>3. CASE tl[k].num = 1 /\ tl[k].den = 1 /\ \A e \in F : tl[k].day # e.day
    <3>1. Walked(q, raw, sec, tl, k, i) /\ Running(tl, k) \in Int
      BY <2>1, <2>2, <2>3, TradeWalked
    <3>. QED BY <2>2, <3>1
  <2>4. CASE \E e \in F : tl[k] = ScaleEntry(e)
    <3>1. PICK e \in F : tl[k] = ScaleEntry(e) BY <2>4
    <3>2. \A x \in F : x.day = e.day => x = e OBVIOUS
    <3>3. Running(tl, k) \in Int /\ \E j \in 0 .. Len(q) : Walked(q, raw, sec, tl, k, j)
      BY <2>1, <2>2, <3>1, <3>2, ScaleWalked
    <3>. QED BY <2>2, <3>3
  <2>. QED BY <2>2, <2>3, <2>4 DEF PageOf
<1>8. n \in Good
  <2>. HIDE DEF Good, n
  <2>1. \A k \in 0 .. n : k \in Good BY <1>1, <1>6, <1>7, CountingUp
  <2>. QED BY <1>1, <2>1
<1>9. PICK i \in 0 .. Len(q) : Walked(q, raw, sec, tl, n, i) BY <1>8
<1>10. \A c \in 1 .. Len(q) : Scales(q[c], sec) => \E a \in 1 .. n : tl[a] = ScaleEntry(q[c])
  <2>1. \A c \in 1 .. Len(q) : Scales(q[c], sec) => q[c] \in F BY DEF ReplayOf
  <2>. QED BY <1>1, <2>1 DEF PageOf
<1>11. \A c \in 1 .. Len(q) : Scales(q[c], sec) => c <= i /\ q[c].day < last
  <2>. SUFFICES ASSUME NEW c \in 1 .. Len(q), Scales(q[c], sec) PROVE c <= i /\ q[c].day < last
    OBVIOUS
  <2>1. PICK a \in 1 .. n : tl[a] = ScaleEntry(q[c]) BY <1>10
  <2>2. c <= i BY <1>9, <2>1 DEF Walked, Shown
  <2>3. q[c].day < last BY <1>1, <2>1 DEF ScaleEntry
  <2>. QED BY <2>2, <2>3
<1>12. Later(q, sec, i, last)
  <2>1. \A c \in 1 .. i : c \in 1 .. Len(q) BY <1>2
  <2>. QED BY <1>11, <2>1 DEF Later
<1>13. Running(tl, n) = HeldAfter(q, raw, sec, i, last) - HeldAfter(q, raw, sec, 0, last)
                          + ShownUnits(tl, n)
  BY <1>9, <1>12 DEF Walked
<1>14. ShownUnits(tl, n) = HeldAfter(q, raw, sec, 0, last)
  <2>1. EntriesBefore(tl, last) = 1 .. n BY <1>1 DEF EntriesBefore
  <2>2. SumFunctionOnSet(EntryUnits(tl), EntriesBefore(tl, last)) = HeldUnits(raw, sec, NoFolio, last)
    BY DEF PageOf
  <2>. QED BY <2>1, <2>2 DEF ShownUnits, ReplayOf
<1>15. HeldAfter(q, raw, sec, Len(q), last) = HeldAfter(q, raw, sec, i, last)
  <2>1. \A c \in 1 .. Len(q) : i < c /\ c <= Len(q) => ~Scales(q[c], sec) BY <1>2, <1>11
  <2>2. i <= Len(q) BY <1>2
  <2>. QED BY <1>2, <2>1, <2>2, Skipped
<1>. DEFINE x == HeldAfter(q, raw, sec, i, last)
            y == HeldAfter(q, raw, sec, 0, last)
<1>16. x \in Int /\ y \in Int BY <1>2, <1>3
<1>. HIDE DEF n
<1>. QED BY <1>1, <1>13, <1>14, <1>15, <1>16

-----------------------------------------------------------------------------
(* The entries of the page: the stored trades of the security, then its    *)
(* events, put in the order of their days.                                 *)
LEMMA ByTheDay ==
  ASSUME NEW S, NEW all \in Seq(S),
         \A k \in DOMAIN all : all[k].day \in Int /\ all[k].rank \in Int
  PROVE  \E order : /\ Enumerates(order, DOMAIN all) /\ Chronological(all) = Placed(all, order)
                    /\ \A i, j \in DOMAIN order : i < j => all[order[i]].day <= all[order[j]].day
<1>. DEFINE P == DOMAIN all
            before(j, k) == \/ all[j].day < all[k].day
                            \/ all[j].day = all[k].day /\ all[j].rank < all[k].rank
                            \/ <<all[j].day, all[j].rank>> = <<all[k].day, all[k].rank>> /\ j < k
            R == {p \in P \X P : before(p[1], p[2])}
            order == Sorted(P, R)
<1>1. P = 1 .. Len(all) /\ Len(all) \in Nat BY LenProperties
<1>2. IsFiniteSet(1 .. Len(all)) BY <1>1, FS_Interval
<1>3. IsFiniteSet(P) /\ \A k \in P : k \in Int BY <1>1, <1>2
<1>4. Chronological(all) = Placed(all, order) BY DEF Chronological, Ordered
<1>5. \A j, k \in P : <<j, k>> \in R <=> before(j, k) OBVIOUS
<1>6. \A k \in P : all[k].day \in Int /\ all[k].rank \in Int OBVIOUS
<1>. HIDE DEF P, R
<1>7. \A k \in P : ~before(k, k) BY <1>3, <1>6
<1>8. \A i, j, k \in P : before(i, j) /\ before(j, k) => before(i, k) BY <1>3, <1>6
<1>9. StrictOn(R, P)
  <2>. HIDE DEF before
  <2>. QED BY <1>5, <1>7, <1>8 DEF StrictOn
<1>10. Enumerates(order, P) /\ InOrder(order, R) BY <1>3, <1>9, SortedEnumerates, SortedInOrder
<1>. HIDE DEF order
<1>11. order \in Seq(P) BY <1>10 DEF Enumerates
<1>12. \A i \in DOMAIN order : order[i] \in P BY <1>11, LenProperties, ElementOfSeq
<1>13. ASSUME NEW i \in DOMAIN order, NEW j \in DOMAIN order, i < j
       PROVE  all[order[i]].day <= all[order[j]].day
  <2>1. order[i] \in P /\ order[j] \in P /\ ~before(order[j], order[i])
    BY <1>5, <1>10, <1>12, <1>13 DEF InOrder
  <2>2. ~(all[order[j]].day < all[order[i]].day) BY <2>1
  <2>. QED BY <1>6, <2>1, <2>2
<1>. QED BY <1>4, <1>10, <1>13 DEF P

LEMMA PageEntries ==
  ASSUME NEW D, NEW s, s.rows \in Seq(Rows(D)), NEW sec,
         IsFiniteSet(s.log), \A e \in s.log : IsEvent(e) /\ e.kind \in DOMAIN EventOrder,
         \A e \in s.log : e.kind = "merger" => e.into # sec,
         NEW F, F = {e \in s.log : e.kind \in Scaling /\ e.sec = sec}
  PROVE  \E all, q : /\ Timeline(s, sec) = Chronological(all) /\ all \in Seq(Entries(D, F))
                     /\ Enumerates(q, F) /\ Entered(all, StoredOf(s.rows, sec), q)
<1>. DEFINE S == Entries(D, F)
            rows == StoredOf(s.rows, sec)
            none == {e \in s.log : e.kind = "merger" /\ e.into = sec}
            byDay(a, b) == a.day < b.day \/ (a.day = b.day /\ a.ref < b.ref)
            R0 == {p \in none \X none : byDay(p[1], p[2])}
            R1 == {p \in F \X F : byDay(p[1], p[2])}
            m == Sorted(none, R0)
            q == Sorted(F, R1)
            trades == [k \in DOMAIN rows |-> TradeEntry(rows[k])]
            receipts == [k \in DOMAIN m |-> ReceiptEntry(m[k].day, MergedIn(s, sec, m[k].sec))]
            scaled == [k \in DOMAIN q |-> ScaleEntry(q[k])]
            all == (trades \o receipts) \o scaled
<1>1. Timeline(s, sec) = Chronological(all) BY DEF Timeline, Ordered, Keep, StoredOf
<1>2. none = {} OBVIOUS
<1>3. rows \in Seq(Rows(D)) BY PickedPlaced DEF StoredOf
<1>4. DOMAIN rows = 1 .. Len(rows) /\ Len(rows) \in Nat /\ \A k \in 1 .. Len(rows) : rows[k] \in Rows(D)
  BY <1>3, LenProperties, ElementOfSeq
<1>5. F \in SUBSET s.log /\ IsFiniteSet(F) BY FS_Subset
<1>6. \A e \in F : e.day \in Int /\ e.ref \in Int BY <1>5 DEF IsEvent
<1>7. StrictOn(R1, F)
  <2>1. \A a, b \in F : <<a, b>> \in R1 <=> byDay(a, b) OBVIOUS
  <2>. HIDE DEF R1
  <2>2. \A a \in F : <<a, a>> \notin R1 BY <1>6, <2>1
  <2>3. \A a, b, c \in F : (<<a, b>> \in R1 /\ <<b, c>> \in R1) => <<a, c>> \in R1 BY <1>6, <2>1
  <2>. QED BY <2>2, <2>3 DEF StrictOn
<1>8. Enumerates(q, F)
  <2>. HIDE DEF R1
  <2>. QED BY <1>5, <1>7, SortedEnumerates
<1>9. Enumerates(m, {})
  <2>1. R0 = {} BY <1>2
  <2>2. StrictOn({}, {}) BY DEF StrictOn
  <2>3. IsFiniteSet({}) BY FS_EmptySet
  <2>. HIDE DEF none, R0
  <2>. QED BY <1>2, <2>1, <2>2, <2>3, SortedEnumerates
<1>. HIDE DEF rows, m, q, none
<1>10. q \in Seq(F) /\ m \in Seq({}) BY <1>8, <1>9 DEF Enumerates
<1>11. DOMAIN q = 1 .. Len(q) /\ Len(q) \in Nat /\ \A k \in 1 .. Len(q) : q[k] \in F
  BY <1>10, LenProperties, ElementOfSeq
<1>12. DOMAIN m = 1 .. Len(m) /\ Len(m) \in Nat /\ \A k \in 1 .. Len(m) : m[k] \in {}
  BY <1>10, LenProperties, ElementOfSeq
<1>13. Len(m) = 0
  <2>1. CASE Len(m) >= 1
    <3>1. 1 \in 1 .. Len(m) BY <1>12, <2>1
    <3>. QED BY <1>12, <3>1
  <2>. QED BY <1>12, <2>1
<1>14. trades \in Seq(S) /\ Len(trades) = Len(rows)
  <2>1. \A k \in 1 .. Len(rows) : TradeEntry(rows[k]) \in S BY <1>4 DEF Entries
  <2>. HIDE DEF S
  <2>2. [k \in 1 .. Len(rows) |-> TradeEntry(rows[k])] \in Seq(S) BY <1>4, <2>1, IsASeq
  <2>3. trades \in Seq(S) BY <1>4, <2>2
  <2>4. DOMAIN trades = 1 .. Len(rows) BY <1>4
  <2>. HIDE DEF trades
  <2>. QED BY <1>4, <2>3, <2>4, LenProperties
<1>15. scaled \in Seq(S) /\ Len(scaled) = Len(q)
  <2>1. \A k \in 1 .. Len(q) : ScaleEntry(q[k]) \in S BY <1>11 DEF Entries
  <2>. HIDE DEF S
  <2>2. [k \in 1 .. Len(q) |-> ScaleEntry(q[k])] \in Seq(S) BY <1>11, <2>1, IsASeq
  <2>3. scaled \in Seq(S) BY <1>11, <2>2
  <2>4. DOMAIN scaled = 1 .. Len(q) BY <1>11
  <2>. HIDE DEF scaled
  <2>. QED BY <1>11, <2>3, <2>4, LenProperties
<1>16. receipts \in Seq(S) /\ Len(receipts) = 0
  <2>1. DOMAIN m = 1 .. 0 BY <1>12, <1>13
  <2>2. \A k \in 1 .. 0 : ReceiptEntry(m[k].day, MergedIn(s, sec, m[k].sec)) \in S OBVIOUS
  <2>. HIDE DEF S
  <2>3. [k \in 1 .. 0 |-> ReceiptEntry(m[k].day, MergedIn(s, sec, m[k].sec))] \in Seq(S)
    BY <2>2, IsASeq
  <2>4. receipts \in Seq(S) BY <2>1, <2>3
  <2>5. DOMAIN receipts = 1 .. 0 BY <2>1
  <2>. HIDE DEF receipts
  <2>6. DOMAIN receipts = 1 .. Len(receipts) /\ Len(receipts) \in Nat BY <2>4, LenProperties
  <2>. QED BY <2>5, <2>6
<1>17. \A k \in 1 .. Len(rows) : trades[k] = TradeEntry(rows[k]) BY <1>4
<1>18. \A k \in 1 .. Len(q) : scaled[k] = ScaleEntry(q[k]) BY <1>11
<1>. HIDE DEF trades, receipts, scaled, S
<1>. DEFINE first == trades \o receipts
<1>19. /\ first \in Seq(S) /\ Len(first) = Len(rows)
       /\ \A k \in 1 .. Len(rows) : first[k] = trades[k]
  <2>1. /\ first \in Seq(S) /\ Len(first) = Len(trades) + Len(receipts)
        /\ \A k \in 1 .. Len(trades) : first[k] = trades[k]
    BY <1>14, <1>16, Joined
  <2>. HIDE DEF first
  <2>. QED BY <1>4, <1>14, <1>16, <2>1
<1>. HIDE DEF first
<1>20. /\ all \in Seq(S) /\ DOMAIN all = 1 .. (Len(rows) + Len(q))
       /\ \A k \in 1 .. Len(rows) : all[k] = trades[k]
       /\ \A k \in 1 .. Len(q) : all[Len(rows) + k] = scaled[k]
  <2>1. /\ first \o scaled \in Seq(S) /\ DOMAIN (first \o scaled) = 1 .. (Len(first) + Len(scaled))
        /\ \A k \in 1 .. Len(first) : (first \o scaled)[k] = first[k]
        /\ \A k \in 1 .. Len(scaled) : (first \o scaled)[Len(first) + k] = scaled[k]
    <3>1. first \in Seq(S) /\ scaled \in Seq(S) BY <1>15, <1>19
    <3>. HIDE DEF all
    <3>. QED BY <3>1, Joined
  <2>2. all = first \o scaled BY DEF first
  <2>. HIDE DEF all
  <2>. QED BY <1>15, <1>19, <2>1, <2>2
<1>. HIDE DEF all
<1>21. Entered(all, rows, q) BY <1>4, <1>11, <1>17, <1>18, <1>20 DEF Entered
<1>. QED BY <1>1, <1>8, <1>20, <1>21 DEF rows, S

LEMMA StoredHeld ==
  ASSUME NEW D, NEW L \in Seq(Rows(D)), NEW sec, NEW day
  PROVE  HeldUnits(CompleteOf(L), sec, NoFolio, day) = UnitsIn(L, CompletePlaces(L, sec, day))
<1>. DEFINE P == CompletePlaces(L, sec, day)
            C == {k \in DOMAIN L : L[k].complete}
            M == Picked(L, C)
            Q == HeldPlaces(M, sec, NoFolio, day)
<1>1. CompleteOf(L) = NetIntraday(M) BY DEF CompleteOf
<1>2. C \in SUBSET DOMAIN L /\ P \in SUBSET C BY DEF CompletePlaces
<1>3. \A k \in C : k \in P <=> L[k].sec = sec /\ L[k].day < day BY DEF CompletePlaces
<1>. HIDE DEF C, P
<1>4. PICK order : Enumerates(order, C) /\ M = Placed(L, order) /\ M \in Seq(Rows(D))
  BY <1>2, PickedPlaced
<1>. HIDE DEF M
<1>5. HeldUnits(NetIntraday(M), sec, NoFolio, day) = HeldUnits(M, sec, NoFolio, day)
  BY <1>4, IntradayHeld
<1>6. HeldUnits(M, sec, NoFolio, day) = UnitsIn(M, Q) BY <1>4, HeldIs
<1>7. order \in Seq(C) BY <1>4 DEF Enumerates
<1>8. DOMAIN M = DOMAIN order /\ \A i \in DOMAIN order : order[i] \in C /\ M[i] = L[order[i]]
  BY <1>2, <1>4, <1>7, PlacedIn
<1>9. Q \in SUBSET DOMAIN order /\ \A i \in DOMAIN order : i \in Q <=> order[i] \in P
  BY <1>3, <1>8 DEF HeldPlaces
<1>. HIDE DEF Q
<1>10. UnitsIn(M, Q) = UnitsIn(L, P) BY <1>2, <1>4, <1>9, PlacedUnits
<1>. QED BY <1>1, <1>5, <1>6, <1>10 DEF P

LEMMA TradeShown ==
  ASSUME NEW t
  PROVE  /\ TradeEntry(t).day = t.day /\ TradeEntry(t).rank = 0
         /\ TradeEntry(t).units = (IF t.complete THEN Signed(t) ELSE 0)
         /\ TradeEntry(t).num = 1 /\ TradeEntry(t).den = 1
BY DEF TradeEntry

LEMMA PickedPlaces ==
  ASSUME NEW R, NEW L \in Seq(R), NEW C \in SUBSET DOMAIN L
  PROVE  /\ Picked(L, C) \in Seq(R)
         /\ \E places : /\ Enumerates(places, C) /\ Picked(L, C) = Placed(L, places)
                        /\ DOMAIN Picked(L, C) = DOMAIN places
                        /\ \A i \in DOMAIN places :
                             places[i] \in C /\ Picked(L, C)[i] = L[places[i]]
<1>. DEFINE places == Ordered(C, <)
<1>1. Enumerates(places, C) /\ Picked(L, C) = Placed(L, places) /\ Picked(L, C) \in Seq(R)
  BY PickedPlaced
<1>. HIDE DEF places
<1>2. places \in Seq(C) BY <1>1 DEF Enumerates
<1>3. DOMAIN Placed(L, places) = DOMAIN places
      /\ \A i \in DOMAIN places : places[i] \in C /\ Placed(L, places)[i] = L[places[i]]
  BY <1>2, PlacedIn
<1>. QED BY <1>1, <1>3

LEMMA PlacedBefore ==
  ASSUME NEW all, NEW order, NEW tl, PutInOrder(tl, all, order), NEW day
  PROVE  SumFunctionOnSet(EntryUnits(tl), EntriesBefore(tl, day))
           = SumFunctionOnSet([k \in DOMAIN all |-> all[k].units],
                              {k \in DOMAIN all : all[k].day < day})
<1>. DEFINE g == EntryUnits(tl)
            Q == EntriesBefore(tl, day)
            u == [k \in DOMAIN all |-> all[k].units]
            B == {k \in DOMAIN all : all[k].day < day}
<1>1. \A i \in Q : i \in DOMAIN order /\ g[i] \in Int /\ order[i] \in B /\ u[order[i]] = g[i]
  BY DEF EntryUnits, EntriesBefore, PutInOrder
<1>2. \A i \in DOMAIN order : order[i] \in B => i \in Q BY DEF EntriesBefore, PutInOrder
<1>3. \A i, j \in DOMAIN order : order[i] = order[j] => i = j BY DEF Enumerates, PutInOrder
<1>4. \A k \in DOMAIN all : \E i \in DOMAIN order : order[i] = k BY DEF Enumerates, PutInOrder
<1>5. IsFiniteSet(B) BY FS_Subset DEF PutInOrder
<1>6. IsFiniteSet(Q)
  <2>1. order \in Seq(DOMAIN all) BY DEF Enumerates, PutInOrder
  <2>2. DOMAIN order = 1 .. Len(order) /\ Len(order) \in Nat BY <2>1, LenProperties
  <2>3. IsFiniteSet(DOMAIN order) BY <2>2, FS_Interval
  <2>4. Q \subseteq DOMAIN order BY <1>1
  <2>. QED BY <2>3, <2>4, FS_Subset
<1>7. B \subseteq DOMAIN all OBVIOUS
<1>. HIDE DEF g, Q, u, B
<1>8. \A i \in Q : g[i] \in Int /\ order[i] \in B /\ u[order[i]] = g[i] BY <1>1
<1>9. \A i, j \in Q : order[i] = order[j] => i = j BY <1>1, <1>3
<1>10. \A k \in B : \E i \in Q : order[i] = k BY <1>2, <1>4, <1>7
<1>11. SumFunctionOnSet(u, B) = SumFunctionOnSet(g, Q)
  BY <1>5, <1>6, <1>8, <1>9, <1>10, SumRename
<1>. QED BY <1>11 DEF g, Q, u, B

LEMMA EnteredBefore ==
  ASSUME NEW D, NEW L \in Seq(Rows(D)), NEW sec, NEW all, NEW q, Entered(all, StoredOf(L, sec), q),
         NEW order, Enumerates(order, DOMAIN all), NEW day
  PROVE  LET tl == Placed(all, order)
         IN SumFunctionOnSet(EntryUnits(tl), EntriesBefore(tl, day))
              = HeldUnits(CompleteOf(L), sec, NoFolio, day)
<1>. DEFINE tl == Placed(all, order)
            rows == StoredOf(L, sec)
            n == Len(rows)
            u == [k \in DOMAIN all |-> all[k].units]
            B == {k \in DOMAIN all : all[k].day < day}
            T == {k \in 1 .. n : rows[k].complete /\ rows[k].day < day}
            C == {k \in DOMAIN L : L[k].sec = sec}
            P == CompletePlaces(L, sec, day)
            f == [k \in DOMAIN rows |-> Signed(rows[k])]
<1>1. rows = Picked(L, C) BY DEF StoredOf
<1>2. C \in SUBSET DOMAIN L /\ P \in SUBSET C BY DEF CompletePlaces
<1>3. HeldUnits(CompleteOf(L), sec, NoFolio, day) = UnitsIn(L, P) BY StoredHeld
<1>4. \A k \in C : k \in P <=> L[k].complete /\ L[k].day < day BY DEF CompletePlaces
<1>. HIDE DEF C, P
<1>5. rows \in Seq(Rows(D)) BY <1>1, <1>2, PickedPlaces
<1>6. Entered(all, rows, q) OBVIOUS
<1>. HIDE DEF rows
<1>7. /\ DOMAIN all = 1 .. (n + Len(q)) /\ n \in Nat /\ Len(q) \in Nat /\ DOMAIN rows = 1 .. n
      /\ \A k \in 1 .. n : all[k] = TradeEntry(rows[k])
      /\ \A k \in 1 .. Len(q) : all[n + k] = ScaleEntry(q[k])
  BY <1>6 DEF Entered
<1>8. \A k \in 1 .. n : rows[k] \in Rows(D) BY <1>5, ElementOfSeq
<1>9. \A k \in 1 .. n : Signed(rows[k]) \in Int BY <1>8, RowFields
<1>10. UnitsIn(rows, T) = UnitsIn(L, P)
  <2>. DEFINE picked == Picked(L, C)
  <2>1. PICK places : /\ Enumerates(places, C) /\ picked = Placed(L, places)
                      /\ DOMAIN picked = DOMAIN places
                      /\ \A i \in DOMAIN places : places[i] \in C /\ picked[i] = L[places[i]]
    BY <1>1, <1>2, PickedPlaces
  <2>. HIDE DEF picked
  <2>2. rows = picked BY <1>1 DEF picked
  <2>3. T \in SUBSET DOMAIN places /\ \A i \in DOMAIN places : i \in T <=> places[i] \in P
    BY <1>4, <1>7, <2>1, <2>2
  <2>. HIDE DEF T
  <2>4. UnitsIn(Placed(L, places), T) = UnitsIn(L, P) BY <1>1, <1>2, <2>1, <2>3, PlacedUnits
  <2>. QED BY <2>1, <2>2, <2>4
<1>11. \A k \in DOMAIN all : (k \in 1 .. n) \/ (k - n \in 1 .. Len(q) /\ k = n + (k - n)) BY <1>7
<1>12. \A k \in DOMAIN all : u[k] \in Int /\ (k \in B \ T => u[k] = 0)
  <2>. TAKE k \in DOMAIN all
  <2>1. CASE k \in 1 .. n
    <3>1. all[k].day = rows[k].day /\ all[k].units = IF rows[k].complete THEN Signed(rows[k]) ELSE 0
      BY <1>7, <2>1, TradeShown
    <3>. QED BY <1>9, <2>1, <3>1
  <2>2. CASE k \notin 1 .. n
    <3>1. k - n \in 1 .. Len(q) /\ k = n + (k - n) BY <1>11, <2>2
    <3>2. all[k] = ScaleEntry(q[k - n]) BY <1>7, <3>1
    <3>. QED BY <3>2 DEF ScaleEntry
  <2>. QED BY <2>1, <2>2
<1>13. T \subseteq B /\ \A k \in T : u[k] = f[k]
  <2>. SUFFICES ASSUME NEW k \in T PROVE k \in B /\ u[k] = f[k]
    OBVIOUS
  <2>1. k \in 1 .. n /\ k \in DOMAIN all /\ rows[k].complete /\ rows[k].day < day BY <1>7
  <2>2. all[k].day = rows[k].day /\ all[k].units = Signed(rows[k])
    BY <1>7, <2>1, TradeShown
  <2>. QED BY <1>7, <2>1, <2>2
<1>14. IsFiniteSet(DOMAIN all) BY <1>7, FS_Interval
<1>15. B \subseteq DOMAIN all OBVIOUS
<1>16. IsFiniteSet(B) /\ IsFiniteSet(T) /\ IsFiniteSet(B \ T) BY <1>13, <1>14, <1>15, FS_Subset
<1>17. \A k \in T : f[k] \in Int BY <1>7, <1>9
<1>18. /\ DOMAIN tl = DOMAIN order /\ \A i \in DOMAIN order : tl[i] = all[order[i]]
       /\ \A i \in DOMAIN order : order[i] \in DOMAIN all
  <2>1. order \in Seq(DOMAIN all) BY DEF Enumerates
  <2>2. \A i \in DOMAIN order : order[i] \in DOMAIN all BY <2>1, LenProperties, ElementOfSeq
  <2>. QED BY <2>2 DEF Placed
<1>19. SumFunctionOnSet(EntryUnits(tl), EntriesBefore(tl, day)) = SumFunctionOnSet(u, B)
  <2>1. \A k \in DOMAIN all : all[k].units \in Int BY <1>12
  <2>2. Enumerates(order, DOMAIN all) OBVIOUS
  <2>. HIDE DEF T, f, tl
  <2>3. PutInOrder(tl, all, order) BY <1>14, <1>18, <2>1, <2>2 DEF PutInOrder
  <2>. QED BY <2>3, PlacedBefore
<1>. HIDE DEF u, B, T, f
<1>20. SumFunctionOnSet(u, B) = SumFunctionOnSet(u, T) + SumFunctionOnSet(u, B \ T)
  <2>1. B = T \cup (B \ T) /\ T \cap (B \ T) = {} BY <1>13
  <2>2. \A k \in T \cup (B \ T) : u[k] \in Int BY <1>12, <1>15, <2>1
  <2>. DEFINE R == B \ T
  <2>3. \A k \in T \cup R : u[k] \in Int /\ T \cap R = {} BY <2>1, <2>2
  <2>4. IsFiniteSet(R) BY <1>16
  <2>5. B = T \cup R BY <2>1
  <2>. HIDE DEF R
  <2>6. SumFunctionOnSet(u, T \cup R) = SumFunctionOnSet(u, T) + SumFunctionOnSet(u, R)
    <3>1. T \cap R = {} BY <2>1 DEF R
    <3>. QED BY <1>16, <2>3, <2>4, <3>1, SumUnion
  <2>. QED BY <2>5, <2>6 DEF R
<1>21. SumFunctionOnSet(u, B \ T) = 0
  <2>. DEFINE R == B \ T
  <2>1. \A k \in R : u[k] = 0 BY <1>12, <1>15
  <2>2. IsFiniteSet(R) BY <1>16
  <2>. HIDE DEF R
  <2>3. SumFunctionOnSet(u, R) = 0 BY <2>1, <2>2, SumZero
  <2>. QED BY <2>3 DEF R
<1>22. SumFunctionOnSet(u, T) = SumFunctionOnSet(f, T) BY <1>13, <1>16, <1>17, SumSame
<1>23. SumFunctionOnSet(f, T) = UnitsIn(rows, T) BY DEF UnitsIn, f
<1>24. SumFunctionOnSet(f, T) \in Int BY <1>16, <1>17, SumType
<1>. HIDE DEF tl
<1>25. SumFunctionOnSet(EntryUnits(tl), EntriesBefore(tl, day)) = HeldUnits(CompleteOf(L), sec, NoFolio, day)
  BY <1>3, <1>10, <1>19, <1>20, <1>21, <1>22, <1>23, <1>24
<1>. QED BY <1>25 DEF tl

LEMMA TimelineIsPage ==
  ASSUME NEW D \in SUBSET Nat, NEW s, s.rows \in Seq(Rows(D)), NEW sec,
         IsFiniteSet(s.log), \A e \in s.log : IsEvent(e) /\ e.kind \in DOMAIN EventOrder /\ e.day \in D,
         \A e \in s.log : e.kind = "merger" => e.into # sec,
         NEW F, F = {e \in s.log : e.kind \in Scaling /\ e.sec = sec},
         \A e, x \in F : x.day = e.day => x = e,
         \A e \in F : \A k \in DOMAIN s.rows : s.rows[k].sec = sec => s.rows[k].day # e.day
  PROVE  /\ Timeline(s, sec) \in Seq(Entries(D, F))
         /\ PageOf(Timeline(s, sec), F, WholeRaw(s), sec)
         /\ \A a \in DOMAIN Timeline(s, sec) : Timeline(s, sec)[a].day \in D
<1>. DEFINE L == s.rows
            rows == StoredOf(L, sec)
            C == {k \in DOMAIN L : L[k].sec = sec}
            n == Len(rows)
            raw == WholeRaw(s)
<1>1. PICK all, q : /\ Timeline(s, sec) = Chronological(all) /\ all \in Seq(Entries(D, F))
                    /\ Enumerates(q, F) /\ Entered(all, rows, q)
  BY PageEntries
<1>2. /\ L \in Seq(Rows(D)) /\ rows = Picked(L, C) /\ C \in SUBSET DOMAIN L
      /\ \A k \in C : \A e \in F : L[k].day # e.day
  BY DEF StoredOf
<1>. HIDE DEF L, C
<1>3. rows \in Seq(Rows(D)) BY <1>2, PickedPlaces
<1>4. \A i \in DOMAIN rows : \E k \in C : rows[i] = L[k]
  <2>. DEFINE picked == Picked(L, C)
  <2>1. PICK places : /\ DOMAIN picked = DOMAIN places
                      /\ \A i \in DOMAIN places : places[i] \in C /\ picked[i] = L[places[i]]
    BY <1>2, PickedPlaces
  <2>. HIDE DEF picked
  <2>2. rows = picked BY <1>2 DEF picked
  <2>. QED BY <2>1, <2>2
<1>7. \A e \in F : e \in s.log /\ e.day \in D /\ e.day \in Nat OBVIOUS
<1>8. \A k \in DOMAIN rows : rows[k] \in Rows(D) /\ \A e \in F : rows[k].day # e.day
  <2>1. \A k \in DOMAIN rows : rows[k] \in Rows(D) BY <1>3, LenProperties, ElementOfSeq
  <2>. QED BY <1>2, <1>4, <2>1
<1>. HIDE DEF rows, raw
<1>9. /\ DOMAIN all = 1 .. (n + Len(q)) /\ n \in Nat /\ Len(q) \in Nat
      /\ DOMAIN rows = 1 .. n /\ DOMAIN q = 1 .. Len(q)
      /\ \A k \in 1 .. n : all[k] = TradeEntry(rows[k])
      /\ \A k \in 1 .. Len(q) : all[n + k] = ScaleEntry(q[k])
  BY <1>1 DEF Entered
<1>10. q \in Seq(F) BY <1>1 DEF Enumerates
<1>11. \A k \in 1 .. Len(q) : q[k] \in F BY <1>10, ElementOfSeq
<1>. HIDE DEF n
<1>12. ASSUME NEW k \in DOMAIN all
       PROVE  /\ all[k].day \in D /\ all[k].day \in Int /\ all[k].rank \in Int /\ all[k].units \in Int
              /\ \/ /\ all[k].num = 1 /\ all[k].den = 1 /\ all[k].rank = 0
                    /\ \A e \in F : all[k].day # e.day
                 \/ \E i \in 1 .. Len(q) : all[k] = ScaleEntry(q[i]) /\ k = n + i
  <2>1. CASE k \in 1 .. n
    <3>1. k \in DOMAIN rows /\ all[k] = TradeEntry(rows[k]) BY <1>9, <2>1
    <3>2. rows[k].day \in D /\ Signed(rows[k]) \in Int BY <1>8, <3>1, RowFields
    <3>3. \A d \in D : d \in Int BY NaturalsIn
    <3>4. /\ all[k].day = rows[k].day /\ all[k].rank = 0 /\ all[k].num = 1 /\ all[k].den = 1
          /\ all[k].units = (IF rows[k].complete THEN Signed(rows[k]) ELSE 0)
      BY <3>1, TradeShown
    <3>5. all[k].units \in Int BY <3>2, <3>4
    <3>6. all[k].day \in D /\ all[k].day \in Int BY <3>2, <3>3, <3>4
    <3>7. \A e \in F : all[k].day # e.day BY <1>8, <3>1, <3>4
    <3>8. all[k].rank \in Int BY <3>4
    <3>. QED BY <3>4, <3>5, <3>6, <3>7, <3>8
  <2>2. CASE k \notin 1 .. n
    <3>. DEFINE i == k - n
    <3>1. i \in 1 .. Len(q) /\ k = n + i BY <1>9, <2>2
    <3>2. all[k] = ScaleEntry(q[i]) /\ q[i] \in F BY <1>9, <1>11, <3>1
    <3>. HIDE DEF i
    <3>3. \A d \in D : d \in Int BY NaturalsIn
    <3>4. q[i].day \in D /\ q[i].day \in Int BY <1>7, <3>2, <3>3
    <3>5. all[k].day = q[i].day /\ all[k].rank = 2 /\ all[k].units = 0 BY <3>2 DEF ScaleEntry
    <3>. QED BY <3>1, <3>2, <3>4, <3>5
  <2>. QED BY <2>1, <2>2
<1>13. PICK order : /\ Enumerates(order, DOMAIN all) /\ Chronological(all) = Placed(all, order)
                    /\ \A i, j \in DOMAIN order : i < j => all[order[i]].day <= all[order[j]].day
  BY <1>1, <1>12, ByTheDay
<1>. DEFINE tl == Placed(all, order)
<1>14. order \in Seq(DOMAIN all) BY <1>13 DEF Enumerates
<1>15. /\ tl \in Seq(Entries(D, F)) /\ DOMAIN tl = DOMAIN order
       /\ \A i \in DOMAIN order : order[i] \in DOMAIN all /\ tl[i] = all[order[i]]
  BY <1>1, <1>14, PlacedIn
<1>16. ASSUME NEW day
       PROVE  SumFunctionOnSet(EntryUnits(tl), EntriesBefore(tl, day)) = HeldUnits(raw, sec, NoFolio, day)
  <2>1. Entered(all, StoredOf(L, sec), q) BY <1>1 DEF rows
  <2>2. raw = CompleteOf(L) BY DEF raw, L, WholeRaw, CompleteOf, Keep
  <2>. HIDE DEF tl
  <2>3. SumFunctionOnSet(EntryUnits(tl), EntriesBefore(tl, day)) = HeldUnits(CompleteOf(L), sec, NoFolio, day)
    BY <1>2, <1>13, <2>1, EnteredBefore DEF tl
  <2>. QED BY <2>2, <2>3
<1>. HIDE DEF tl
<1>17. \A a \in DOMAIN tl : tl[a].day \in D /\ tl[a].day \in Int /\ tl[a].units \in Int
  BY <1>12, <1>15
<1>18. \A a, b \in DOMAIN tl : a < b => tl[a].day <= tl[b].day BY <1>13, <1>15
<1>19. ASSUME NEW a \in DOMAIN tl
       PROVE  \/ tl[a].num = 1 /\ tl[a].den = 1 /\ \A e \in F : tl[a].day # e.day
              \/ \E e \in F : tl[a] = ScaleEntry(e)
  <2>. DEFINE k == order[a]
  <2>1. k \in DOMAIN all /\ tl[a] = all[k] BY <1>15
  <2>. HIDE DEF k
  <2>. QED BY <1>11, <1>12, <2>1
<1>20. ASSUME NEW e \in F PROVE \E a \in DOMAIN tl : tl[a] = ScaleEntry(e)
  <2>1. PICK i \in DOMAIN q : q[i] = e BY <1>1 DEF Enumerates
  <2>2. n + i \in DOMAIN all /\ all[n + i] = ScaleEntry(e) BY <1>9, <2>1
  <2>3. PICK a \in DOMAIN order : order[a] = n + i BY <1>13, <2>2 DEF Enumerates
  <2>. QED BY <1>15, <2>2, <2>3
<1>21. ASSUME NEW e \in F, NEW a \in DOMAIN tl, tl[a] = ScaleEntry(e)
       PROVE  \E i \in 1 .. Len(q) : q[i] = e /\ order[a] = n + i
  <2>. DEFINE k == order[a]
  <2>1. k \in DOMAIN all /\ tl[a] = all[k] BY <1>15
  <2>. HIDE DEF k
  <2>2. all[k].rank = 2 /\ all[k].day = e.day BY <1>21, <2>1 DEF ScaleEntry
  <2>3. PICK i \in 1 .. Len(q) : all[k] = ScaleEntry(q[i]) /\ k = n + i BY <1>12, <2>1, <2>2
  <2>4. q[i] \in F /\ q[i].day = e.day BY <1>11, <2>2, <2>3 DEF ScaleEntry
  <2>5. q[i] = e BY <2>4
  <2>. QED BY <2>3, <2>5 DEF k
<1>22. ASSUME NEW e \in F, NEW a \in DOMAIN tl, NEW b \in DOMAIN tl,
              tl[a] = ScaleEntry(e), tl[b] = ScaleEntry(e)
       PROVE  a = b
  <2>1. PICK i \in 1 .. Len(q) : q[i] = e /\ order[a] = n + i BY <1>21, <1>22
  <2>2. PICK j \in 1 .. Len(q) : q[j] = e /\ order[b] = n + j BY <1>21, <1>22
  <2>3. i = j BY <1>1, <1>9, <2>1, <2>2 DEF Enumerates
  <2>. QED BY <1>13, <1>15, <2>1, <2>2, <2>3 DEF Enumerates
<1>23. PageOf(tl, F, raw, sec)
  BY <1>16, <1>17, <1>18, <1>19, <1>20, <1>22 DEF PageOf
<1>24. Timeline(s, sec) = tl BY <1>1, <1>13 DEF tl
<1>. QED BY <1>15, <1>17, <1>23, <1>24 DEF raw

-----------------------------------------------------------------------------
(* Netting within a day leaves whole shares whole.                         *)
LEMMA WholeSum ==
  ASSUME NEW a, NEW b, Whole(a), Whole(b)
  PROVE  /\ a \in Int /\ b \in Int /\ Whole(a - b) /\ Whole(0)
         /\ Whole(Least(a, b)) /\ Whole(Most(0, a)) /\ Whole(Least(a, Most(0, b)))
<1>1. Share \in Int BY ShareAssumption
<1>2. PICK c \in Int, d \in Int : a = Share * c /\ b = Share * d BY DEF Whole
<1>3. a - b = Share * (c - d) /\ 0 = Share * 0 /\ a \in Int /\ b \in Int /\ c - d \in Int
  BY <1>1, <1>2
<1>4. Whole(a - b) /\ Whole(0) BY <1>3 DEF Whole
<1>5. Least(a, b) \in {a, b} /\ Most(0, a) \in {0, a} /\ Most(0, b) \in {0, b}
  BY DEF Least, Most
<1>6. Least(a, Most(0, b)) \in {a, Most(0, b)} BY DEF Least
<1>. QED BY <1>3, <1>4, <1>5, <1>6

LEMMA WholeUnitsAt ==
  ASSUME NEW D, NEW L \in Seq(Rows(D)), NEW P \in SUBSET DOMAIN L,
         \A k \in P : Whole(L[k].units)
  PROVE  Whole(UnitsAt(L, P))
<1>. DEFINE f == [k \in DOMAIN L |-> L[k].units]
            g == [k \in P |-> CHOOSE c \in Int : L[k].units = Share * c]
<1>1. IsFiniteSet(P) BY PickedPlaced
<1>2. ASSUME NEW k \in P PROVE g[k] \in Int /\ f[k] = Share * g[k]
  <2>1. \E c \in Int : L[k].units = Share * c BY DEF Whole
  <2>2. f[k] = L[k].units OBVIOUS
  <2>3. g[k] = CHOOSE c \in Int : L[k].units = Share * c OBVIOUS
  <2>. QED BY <2>1, <2>2, <2>3
<1>3. UnitsAt(L, P) = SumFunctionOnSet(f, P) BY DEF UnitsAt
<1>4. Share \in Int BY ShareAssumption
<1>. HIDE DEF f, g
<1>5. SumFunctionOnSet(f, P) = Share * SumFunctionOnSet(g, P) BY <1>1, <1>2, <1>4, SumScale
<1>6. SumFunctionOnSet(g, P) \in Int BY <1>1, <1>2, SumType
<1>. QED BY <1>3, <1>5, <1>6 DEF Whole

LEMMA OffsetWhole ==
  ASSUME NEW D, NEW L \in Seq(Rows(D)), NEW sec, \A k \in DOMAIN L : L[k].sec = sec => Whole(L[k].units),
         NEW k \in DOMAIN L, L[k].sec = sec
  PROVE  Whole(OffsetAt(L, k))
<1>. DEFINE all(type) == UnitsAt(L, DayTrades(L, k, type))
            T == {j \in DayTrades(L, k, L[k].type) : j < k}
            offset == Least(all("buy"), all("sell"))
            left == offset - UnitsAt(L, T)
<1>1. \A type : \A j \in DayTrades(L, k, type) : j \in DOMAIN L /\ L[j].sec = sec
  BY DEF DayTrades
<1>2. ASSUME NEW type PROVE Whole(all(type))
  <2>. DEFINE P == DayTrades(L, k, type)
  <2>1. P \in SUBSET DOMAIN L /\ \A j \in P : Whole(L[j].units) BY <1>1
  <2>. HIDE DEF P
  <2>2. Whole(UnitsAt(L, P)) BY <2>1, WholeUnitsAt
  <2>. QED BY <2>2 DEF P
<1>3. T \in SUBSET DOMAIN L /\ \A j \in T : Whole(L[j].units) BY <1>1
<1>4. OffsetAt(L, k) \in {0, Least(L[k].units, Most(0, left))} BY DEF OffsetAt, Taken
<1>5. Whole(L[k].units) OBVIOUS
<1>. HIDE DEF all, T
<1>6. Whole(UnitsAt(L, T)) BY <1>3, WholeUnitsAt
<1>7. Whole(offset) BY <1>2, WholeSum
<1>. HIDE DEF offset
<1>8. Whole(left) BY <1>6, <1>7, WholeSum
<1>. HIDE DEF left
<1>9. Whole(Least(L[k].units, Most(0, left))) /\ Whole(0) BY <1>5, <1>8, WholeSum
<1>. QED BY <1>4, <1>9

LEMMA NetWhole ==
  ASSUME NEW D, NEW L \in Seq(Rows(D)), NEW sec,
         \A k \in DOMAIN L : L[k].folio \in Folios /\ (L[k].sec = sec => Whole(L[k].units))
  PROVE  NetIntraday(L) \in Seq(PlainRows(D, sec))
<1>. DEFINE all == [k \in DOMAIN L |-> Trimmed(L[k], OffsetAt(L, k))]
            left == {k \in DOMAIN L : OffsetAt(L, k) < L[k].units \/ L[k].units = 0}
<1>1. NetIntraday(L) = Picked(all, left) BY DEF NetIntraday
<1>2. ASSUME NEW k \in DOMAIN L PROVE all[k] \in PlainRows(D, sec)
  <2>. DEFINE t == Trimmed(L[k], OffsetAt(L, k))
  <2>1. /\ t.sec = L[k].sec /\ t.folio = L[k].folio /\ t.units = L[k].units - OffsetAt(L, k)
        /\ t \in Rows(D)
    BY TrimmedSigned
  <2>2. ASSUME L[k].sec = sec PROVE Whole(t.units)
    <3>1. Whole(OffsetAt(L, k)) BY <2>2, OffsetWhole
    <3>2. Whole(L[k].units) BY <2>2
    <3>3. Whole(L[k].units - OffsetAt(L, k)) BY <3>1, <3>2, WholeSum
    <3>. QED BY <2>1, <3>3
  <2>3. all[k] = t OBVIOUS
  <2>. HIDE DEF t, all
  <2>. QED BY <2>1, <2>2, <2>3 DEF PlainRows
<1>3. all = [k \in DOMAIN L |-> all[k]] /\ left \in SUBSET DOMAIN L OBVIOUS
<1>. HIDE DEF all, left
<1>4. all \in Seq(PlainRows(D, sec)) BY <1>2, <1>3, RowsMapped
<1>5. left \in SUBSET DOMAIN all BY <1>3
<1>. QED BY <1>1, <1>4, <1>5, PickedPlaced

-----------------------------------------------------------------------------
(* What the page promises finds: logged events of one ref are of one       *)
(* security, the complete rows are plain and have no ref of an event.      *)
LEMMA LoggedSecurity ==
  ASSUME IInv, NEW a \in store.log, a.kind # "demerger",
         NEW b \in store.log, b.kind # "demerger", a.ref = b.ref
  PROVE  a.sec = b.sec
<1>. DEFINE w == here
<1>1. world \in DOMAIN Worlds /\ EventKnown(a, w) /\ EventKnown(b, w)
  BY DEF IInv, StoreInv
<1>2. \A x \in w.authored : x.ref \notin RefsOf(w) BY <1>1, WorldAssumption DEF here
<1>3. \A r, q \in w.references : r.ref = q.ref => r = q
  BY <1>1, ReferencesAssumption DEF here
<1>4. \A x, y \in w.authored : x.ref = y.ref => <<x.kind, x.day, x.sec>> = <<y.kind, y.day, y.sec>>
  BY <1>1, RefsAssumption DEF here
<1>5. \A x, y \in w.authored : x.ref = y.ref => x.sec = y.sec BY <1>4
<1>. HIDE DEF w
<1>6. \A r \in FirstListed(w) : r \in w.references /\ r.ref \in RefsOf(w)
  BY DEF FirstListed, RefsOf
<1>7. CASE a \in w.authored
  <2>1. a.ref \notin RefsOf(w) BY <1>2, <1>7
  <2>2. ASSUME NEW r \in FirstListed(w) PROVE b # EventOf(r, b.folio)
    BY <1>6, <2>1 DEF EventOf
  <2>3. b \in w.authored BY <1>1, <2>2 DEF EventKnown
  <2>. QED BY <1>5, <1>7, <2>3
<1>8. CASE \E r \in FirstListed(w) : a = EventOf(r, a.folio)
  <2>1. PICK r \in FirstListed(w) : a = EventOf(r, a.folio) BY <1>8
  <2>2. a.ref = r.ref /\ a.sec = r.sec BY <2>1 DEF EventOf
  <2>3. b.ref \in RefsOf(w) BY <1>6, <2>2
  <2>4. PICK q \in FirstListed(w) : b = EventOf(q, b.folio) BY <1>1, <2>3 DEF EventKnown
  <2>5. b.ref = q.ref /\ b.sec = q.sec BY <2>4 DEF EventOf
  <2>6. r = q BY <1>3, <1>6, <2>2, <2>5
  <2>. QED BY <2>2, <2>5, <2>6
<1>. QED BY <1>1, <1>7, <1>8 DEF EventKnown

LEMMA WholeLedger ==
  ASSUME NEW D \in SUBSET Nat, NEW s, Typed(s, D), NEW sec, WholeRows(s, sec)
  PROVE  /\ WholeRaw(s) \in Seq(PlainRows(D, sec))
         /\ \A k \in DOMAIN WholeRaw(s) : WholeRaw(s)[k].ref \in BookedRefs(s)
<1>. DEFINE rows == s.rows
            P == {k \in DOMAIN rows : rows[k].complete}
            all == Picked(rows, P)
            S == StoredRows(s, D)
            T == {t \in S : t.sec = sec => Whole(t.units)}
<1>1. rows \in Seq(S) BY DEF Typed
<1>2. WholeRaw(s) = NetIntraday(all) BY DEF WholeRaw, Keep
<1>3. \A t \in S : t \in Rows(D) /\ t.folio \in Folios /\ t.ref \in BookedRefs(s)
  BY DEF StoredRows
<1>4. ASSUME NEW k \in DOMAIN rows PROVE rows[k] \in T
  <2>1. rows[k] \in S BY <1>1, LenProperties, ElementOfSeq
  <2>2. ASSUME rows[k].sec = sec PROVE Whole(rows[k].units)
    <3>1. rows[k].units % Share = 0 BY <2>2 DEF WholeRows
    <3>2. rows[k].units \in Nat BY <1>3, <2>1, RowFields
    <3>3. Share \in Nat /\ Share # 0 BY ShareAssumption
    <3>. DEFINE u == rows[k].units
    <3>. HIDE DEF u
    <3>4. u = Share * (u \div Share) /\ u \div Share \in Nat
      BY <3>1, <3>2, <3>3, WholeMultiple DEF u
    <3>5. Whole(u) BY <3>4 DEF Whole
    <3>. QED BY <3>5 DEF u
  <2>. HIDE DEF rows, S
  <2>. QED BY <2>1, <2>2
<1>5. P \in SUBSET DOMAIN rows OBVIOUS
<1>. HIDE DEF rows, P, S, T
<1>6. all \in Seq(T) BY <1>1, <1>4, <1>5, PickedIn
<1>7. T \subseteq Rows(D) /\ T \subseteq S BY <1>3 DEF T
<1>8. all \in Seq(Rows(D)) BY <1>6, <1>7, SeqMonotonic
<1>. HIDE DEF all
<1>9. \A k \in DOMAIN all : all[k] \in T BY <1>6, LenProperties, ElementOfSeq
<1>10. \A k \in DOMAIN all :
         all[k].folio \in Folios /\ (all[k].sec = sec => Whole(all[k].units))
  BY <1>3, <1>7, <1>9 DEF T
<1>11. \A k \in DOMAIN all : all[k].ref \in BookedRefs(s) BY <1>3, <1>7, <1>9
<1>12. NetIntraday(all) \in Seq(PlainRows(D, sec)) BY <1>8, <1>10, NetWhole
<1>13. \A k \in DOMAIN NetIntraday(all) : NetIntraday(all)[k].ref \in BookedRefs(s)
  BY <1>8, <1>11, NetRefs
<1>. QED BY <1>2, <1>12, <1>13

LEMMA ActsAlone ==
  ASSUME IInv, Typed(store, DaysOf(here)), NEW sec \in Securities, ActsPlainly(sec)
  PROVE  LET F == {e \in store.log : e.kind \in Scaling /\ e.sec = sec}
         IN /\ PlainLog(store.log, sec)
            /\ F = {e \in store.log : Scales(e, sec)}
            /\ \A e, x \in F : x.day = e.day => x = e
            /\ \A e \in F : \A k \in DOMAIN store.rows :
                 store.rows[k].sec = sec => store.rows[k].day # e.day
            /\ \A e \in F : \A folio \in Folios :
                 HeldUnits(ProjectedTransactions(store), sec, folio, e.day) >= 0
<1>. DEFINE log == store.log
            F == {e \in log : e.kind \in Scaling /\ e.sec = sec}
<1>1. \A e \in log : IsEvent(e) BY DEF Typed
<1>2. \A e \in log : e.sec = sec \/ e.into = sec => e.kind \in Scaling /\ e.num >= e.den /\ e.num % e.den = 0
  BY DEF ActsPlainly
<1>3. \A e, x \in log : e.sec = sec /\ x.sec = sec /\ (x.ref = e.ref \/ x.day = e.day) => x = e
  BY DEF ActsPlainly
<1>4. Scaling = {"split", "bonus"} BY DEF Scaling
<1>5. ASSUME NEW e \in log, e.kind = "merger" PROVE e.into # sec BY <1>2, <1>4, <1>5
<1>6. ASSUME NEW e \in log PROVE e \in F <=> Scales(e, sec) BY <1>2, <1>4 DEF Scales
<1>7. ASSUME NEW e \in log, Scales(e, sec)
      PROVE  /\ PlainEvent(e, sec, Factor(e)) /\ e.ref # NoRef
             /\ \A x \in log : x.kind # "demerger" /\ x.ref = e.ref => x = e
             /\ \A x \in log : Scales(x, sec) /\ x.day = e.day => x = e
  <2>1. e.sec = sec /\ e.kind # "demerger" BY <1>7 DEF Scales
  <2>2. e.kind \in Scaling /\ e.num >= e.den /\ e.num % e.den = 0 BY <1>2, <2>1
  <2>3. e.num \in Nat /\ e.den \in Nat /\ e.den # 0 BY <1>1 DEF IsEvent
  <2>4. Factor(e) \in Nat /\ Factor(e) >= 1 /\ e.num = e.den * Factor(e)
    BY <2>2, <2>3, WholeMultiple DEF Factor
  <2>5. e.num = Factor(e) * e.den BY <2>3, <2>4
  <2>6. PlainEvent(e, sec, Factor(e)) BY <1>1, <2>1, <2>2, <2>4, <2>5 DEF PlainEvent
  <2>7. e.ref \notin BookedRefs(store) BY <2>1, LoggedRef
  <2>8. e.ref # NoRef BY <2>7 DEF BookedRefs, KeptRefs
  <2>9. ASSUME NEW x \in log, x.kind # "demerger", x.ref = e.ref PROVE x = e
    <3>1. x.sec = sec BY <2>1, <2>9, LoggedSecurity
    <3>. QED BY <1>3, <2>1, <2>9, <3>1
  <2>10. ASSUME NEW x \in log, Scales(x, sec), x.day = e.day PROVE x = e
    BY <1>3, <2>1, <2>10 DEF Scales
  <2>. QED BY <2>6, <2>8, <2>9, <2>10
<1>8. PlainLog(log, sec) BY <1>5, <1>7 DEF PlainLog
<1>9. F = {e \in log : Scales(e, sec)} BY <1>6
<1>10. \A e, x \in F : x.day = e.day => x = e BY <1>3
<1>11. \A e \in F : /\ \A k \in DOMAIN store.rows : store.rows[k].sec = sec => store.rows[k].day # e.day
                    /\ \A f \in Folios : HeldUnits(ProjectedTransactions(store), sec, f, e.day) >= 0
  BY DEF ActsPlainly
<1>. QED BY <1>8, <1>9, <1>10, <1>11

(* Once every day has passed, all units of a security are held.            *)
LEMMA HeldInTheEnd ==
  ASSUME NEW D, NEW L \in Seq(Rows(D)), NEW sec, NEW last, \A d \in D : d < last
  PROVE  HeldUnits(L, sec, NoFolio, last) = NetUnits(OwnRows(L, sec))
<1>. DEFINE P == {k \in DOMAIN L : L[k].sec = sec}
<1>1. \A k \in DOMAIN L : L[k] \in Rows(D) BY LenProperties, ElementOfSeq
<1>2. \A k \in DOMAIN L : L[k].day < last BY <1>1 DEF Rows
<1>3. HeldPlaces(L, sec, NoFolio, last) = P BY <1>2 DEF HeldPlaces
<1>4. OwnRows(L, sec) = Picked(L, P) BY DEF OwnRows, Keep
<1>5. P \in SUBSET DOMAIN L OBVIOUS
<1>. HIDE DEF P
<1>. QED BY <1>3, <1>4, <1>5, HeldIs, PickedNet

LEMMA PlainPage ==
  ASSUME IInv, Typed(store, DaysOf(here)), NEW sec \in Securities, ActsPlainly(sec)
  PROVE  SchemeBalance(store, sec) = InvestorUnits(store, sec)
<1>. DEFINE D == DaysOf(here)
            log == store.log
            raw == WholeRaw(store)
            q == InExDateOrder(log)
            tl == Timeline(store, sec)
            F == {e \in log : e.kind \in Scaling /\ e.sec = sec}
            G == {e \in log : Scales(e, sec)}
<1>1. PICK last \in Nat : D \in SUBSET Nat /\ \A d \in D : d < last BY DaysEnd DEF IInv
<1>2. /\ PlainLog(log, sec) /\ F = G
      /\ \A e, x \in F : x.day = e.day => x = e
      /\ \A e \in F : \A k \in DOMAIN store.rows : store.rows[k].sec = sec => store.rows[k].day # e.day
      /\ \A e \in F : \A folio \in Folios :
           HeldUnits(ProjectedTransactions(store), sec, folio, e.day) >= 0
  BY ActsAlone
<1>3. /\ raw \in Seq(PlainRows(D, sec))
      /\ \A k \in DOMAIN raw : raw[k].ref \in BookedRefs(store)
  <2>1. WholeRows(store, sec) BY DEF ActsPlainly
  <2>. QED BY <1>1, <2>1, WholeLedger
<1>4. /\ IsFiniteSet(log) /\ \A e \in log : IsEvent(e) /\ e.day \in D
      /\ store.rows \in Seq(StoredRows(store, D))
  BY DEF Typed
<1>5. store.rows \in Seq(Rows(D)) BY <1>4, BookedRows
<1>6. \A e \in log : IsEvent(e) /\ e.kind \in DOMAIN EventOrder /\ e.day \in D
  BY <1>4 DEF IsEvent
<1>7. \A e \in log : e.kind = "merger" => e.into # sec BY <1>2 DEF PlainLog
<1>8. ProjectedTransactions(store) = Replay(raw, log) BY DEF ProjectedTransactions, WholeRaw
<1>9. \A e \in log : Scales(e, sec) => ~HasRef(raw, e.ref)
  <2>1. \A e \in log : Scales(e, sec) => e.ref \notin BookedRefs(store)
    BY LoggedRef DEF Scales
  <2>. QED BY <1>3, <2>1 DEF HasRef
<1>10. \A e \in log : Scales(e, sec) =>
         \A folio \in Folios : HeldUnits(Replay(raw, log), sec, folio, e.day) >= 0
  BY <1>2, <1>8
<1>11. InvestorUnits(store, sec) = NetUnits(OwnRows(Replay(raw, log), sec))
  BY <1>8 DEF InvestorUnits, OwnRows
<1>12. /\ tl \in Seq(Entries(D, F)) /\ PageOf(tl, F, raw, sec)
       /\ \A a \in DOMAIN tl : tl[a].day \in D
  <2>. HIDE DEF F, D
  <2>. QED BY <1>1, <1>2, <1>4, <1>5, <1>6, <1>7, TimelineIsPage DEF F
<1>. HIDE DEF D, log, raw, F
<1>13. ReplayOf(q, G, raw, sec) BY <1>1, <1>2, <1>3, <1>4, <1>9, <1>10, ReplayIsPlain
<1>14. ReplayOf(q, F, raw, sec) BY <1>2, <1>13
<1>15. raw \in Seq(Rows(D)) BY <1>3, PlainIn
<1>16. Replay(raw, log) = Upto(q, raw, Len(q)) /\ Replay(raw, log) \in Seq(Rows(D))
  BY <1>1, <1>4, <1>15, ReplaySteps, ReplayIn
<1>17. \A a \in DOMAIN tl : tl[a].day < last BY <1>1, <1>12
<1>18. SchemeBalance(store, sec) = FoldLeft(RunningBalance, 0, tl) BY DEF SchemeBalance
<1>. HIDE DEF q, tl, G
<1>19. last \in Int BY <1>1
<1>20. FoldLeft(RunningBalance, 0, tl) = HeldAfter(q, raw, sec, Len(q), last)
  BY <1>2, <1>12, <1>14, <1>17, <1>19, PageWalks
<1>21. HeldAfter(q, raw, sec, Len(q), last) = HeldUnits(Replay(raw, log), sec, NoFolio, last)
  BY <1>16 DEF HeldAfter
<1>22. HeldUnits(Replay(raw, log), sec, NoFolio, last) = NetUnits(OwnRows(Replay(raw, log), sec))
  BY <1>1, <1>16, HeldInTheEnd
<1>. QED BY <1>11, <1>18, <1>20, <1>21, <1>22

(* The balance the scheme page walks from day to day, all folios at once   *)
(* (_scheme_ledger), ends at the units the replay gives the investor.      *)
THEOREM PageBalances == Spec => []PageReachesHeld
<1>1. IInv /\ Typed(store, DaysOf(here)) => PageReachesHeld
  BY PlainPage DEF PageReachesHeld
<1>. QED BY <1>1, AmountsInvariant, PTL
=============================================================================
