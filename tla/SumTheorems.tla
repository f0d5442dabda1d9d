----------------------------- MODULE SumTheorems -----------------------------
(***************************************************************************)
(* Facts about the sums the models are built from: SumFunctionOnSet of     *)
(* module Functions, over a finite set of days or of rows.  The induction  *)
(* is done by hand, with the set of the instances for which a fact holds   *)
(* in the place of the predicate an induction rule would take.  Then what  *)
(* the proofs need of quotients, orders and sequences.                     *)
(***************************************************************************)
EXTENDS Integers, Sequences, FiniteSets, Functions, FiniteSetTheorems,
        SequenceTheorems, WellFoundedInduction, TLAPS

(* What passes from every smaller subset to a subset holds of all subsets. *)
LEMMA SubsetInduction ==
  ASSUME NEW S, IsFiniteSet(S), NEW Good,
         \A T \in SUBSET S : (\A U \in SUBSET T : U # T => U \in Good) => T \in Good
  PROVE  \A T \in SUBSET S : T \in Good
<1>. DEFINE Bad == {T \in SUBSET S : T \notin Good}
<1>1. IsWellFoundedOn(StrictSubsetOrdering(S), SUBSET S)
  BY FS_StrictSubsetOrderingWellFounded, FS_FiniteSubsetsOfFinite
<1>2. SUFFICES ASSUME Bad # {} PROVE FALSE
  OBVIOUS
<1>3. Bad \subseteq SUBSET S
  OBVIOUS
<1>4. \A T \in SUBSET S : \A U \in SUBSET T : U # T => <<U, T>> \in StrictSubsetOrdering(S)
  BY DEF StrictSubsetOrdering
<1>5. PICK T \in Bad : \A U \in Bad : ~(<<U, T>> \in StrictSubsetOrdering(S))
  <2>. HIDE DEF Bad
  <2>. QED BY <1>1, <1>2, <1>3, WFMin
<1>6. ASSUME NEW U \in SUBSET T, U # T, U \notin Good PROVE FALSE
  <2>1. T \in SUBSET S /\ U \in Bad
    BY <1>6
  <2>2. <<U, T>> \in StrictSubsetOrdering(S)
    BY <1>4, <1>6, <2>1
  <2>. HIDE DEF Bad
  <2>. QED BY <1>5, <2>1, <2>2
<1>7. T \in SUBSET S /\ T \notin Good
  OBVIOUS
<1>. QED BY <1>6, <1>7

-----------------------------------------------------------------------------
(* The library defines a sum by a function on all subsets that takes out   *)
(* one chosen element at a time.                                           *)
Chosen(T) == CHOOSE x \in T : TRUE
IsFold(f, S, g) ==
  g = [T \in SUBSET S |-> IF T = {} THEN 0 ELSE f[Chosen(T)] + g[T \ {Chosen(T)}]]

LEMMA SumIsFold ==
  ASSUME NEW f, NEW S
  PROVE  SumFunctionOnSet(f, S) = (CHOOSE g : IsFold(f, S, g))[S]
BY DEF SumFunctionOnSet, FoldFunctionOnSet, MapThenFoldSet, IsFold, Chosen

(* There is at most one such fold, and it restricts to every subset.       *)
LEMMA FoldUnique ==
  ASSUME NEW f, NEW S, IsFiniteSet(S), NEW g, NEW h, IsFold(f, S, g), IsFold(f, S, h)
  PROVE  g = h
<1>. DEFINE Good == {T \in SUBSET S : g[T] = h[T]}
<1>1. ASSUME NEW T \in SUBSET S, \A U \in SUBSET T : U # T => U \in Good
      PROVE  T \in Good
  <2>1. CASE T = {} BY <2>1 DEF IsFold
  <2>2. CASE T # {}
    <3>1. Chosen(T) \in T BY <2>2 DEF Chosen
    <3>2. g[T \ {Chosen(T)}] = h[T \ {Chosen(T)}] BY <3>1, <1>1
    <3>3. g[T] = f[Chosen(T)] + g[T \ {Chosen(T)}] BY <2>2 DEF IsFold
    <3>4. h[T] = f[Chosen(T)] + h[T \ {Chosen(T)}] BY <2>2 DEF IsFold
    <3>. QED BY <3>2, <3>3, <3>4
  <2>. QED BY <2>1, <2>2
<1>. HIDE DEF Good
<1>2. \A T \in SUBSET S : T \in Good BY <1>1, SubsetInduction
<1>3. \A T \in SUBSET S : g[T] = h[T] BY <1>2 DEF Good
<1>4. g = [T \in SUBSET S |-> g[T]] /\ h = [T \in SUBSET S |-> h[T]] BY DEF IsFold
<1>. QED BY <1>3, <1>4

(* A sum whose fold exists takes the value of that fold.                   *)
LEMMA SumByFold ==
  ASSUME NEW f, NEW S, IsFiniteSet(S), NEW g, IsFold(f, S, g)
  PROVE  SumFunctionOnSet(f, S) = g[S]
<1>. DEFINE c == CHOOSE x : IsFold(f, S, x)
<1>1. IsFold(f, S, c) OBVIOUS
<1>2. c = g BY <1>1, FoldUnique
<1>. QED BY <1>2, SumIsFold

LEMMA SubFold ==
  ASSUME NEW f, NEW S, NEW U \in SUBSET S, NEW g, IsFold(f, S, g)
  PROVE  IsFold(f, U, [T \in SUBSET U |-> g[T]])
BY DEF IsFold, Chosen

(* The defining equation of the fold, in terms of the sums themselves.     *)
LEMMA SumsFold ==
  ASSUME NEW f, NEW S, IsFiniteSet(S)
  PROVE  IsFold(f, S, [T \in SUBSET S |-> SumFunctionOnSet(f, T)])
<1>. DEFINE sums(T) == [U \in SUBSET T |-> SumFunctionOnSet(f, U)]
            Good == {T \in SUBSET S : IsFold(f, T, sums(T))}
<1>1. ASSUME NEW T \in SUBSET S, \A U \in SUBSET T : U # T => U \in Good
      PROVE  T \in Good
  <2>. DEFINE g == [U \in SUBSET T |-> IF U = {} THEN 0
                     ELSE f[Chosen(U)] + SumFunctionOnSet(f, U \ {Chosen(U)})]
  <2>1. ASSUME NEW U \in SUBSET T, U # T PROVE g[U] = SumFunctionOnSet(f, U)
    <3>1. IsFold(f, U, sums(U)) BY <2>1, <1>1
    <3>2. sums(U)[U] = IF U = {} THEN 0
                       ELSE f[Chosen(U)] + sums(U)[U \ {Chosen(U)}]
      BY <3>1 DEF IsFold
    <3>. QED BY <3>2
  <2>2. \A U \in SUBSET T : U # {} => Chosen(U) \in U BY DEF Chosen
  <2>3. \A U \in SUBSET T : U # {} => /\ U \ {Chosen(U)} \in SUBSET T
                                      /\ U \ {Chosen(U)} # T
    BY <2>2
  <2>4. \A U \in SUBSET T :
          U # {} => g[U \ {Chosen(U)}] = SumFunctionOnSet(f, U \ {Chosen(U)})
    BY <2>1, <2>3
  <2>5. IsFold(f, T, g)
    <3>1. \A U \in SUBSET T : g[U] = IF U = {} THEN 0 ELSE f[Chosen(U)] + g[U \ {Chosen(U)}]
      BY <2>4
    <3>2. g = [U \in SUBSET T |-> g[U]] OBVIOUS
    <3>. HIDE DEF g
    <3>. QED BY <3>1, <3>2 DEF IsFold
  <2>6. IsFiniteSet(T) BY FS_Subset
  <2>7. SumFunctionOnSet(f, T) = g[T] BY <2>5, <2>6, SumByFold
  <2>8. \A U \in SUBSET T : g[U] = SumFunctionOnSet(f, U) BY <2>1, <2>7
  <2>9. sums(T) = g
    <3>1. g = [U \in SUBSET T |-> g[U]] OBVIOUS
    <3>. HIDE DEF g
    <3>. QED BY <3>1, <2>8
  <2>. QED BY <2>5, <2>9
<1>. HIDE DEF Good
<1>2. \A T \in SUBSET S : T \in Good BY <1>1, SubsetInduction
<1>. QED BY <1>2 DEF Good

(* The two cases of the definition.                                        *)
LEMMA SumEmpty ==
  ASSUME NEW f
  PROVE  SumFunctionOnSet(f, {}) = 0
<1>1. IsFold(f, {}, [T \in SUBSET {} |-> SumFunctionOnSet(f, T)])
  BY SumsFold, FS_EmptySet
<1>. QED BY <1>1 DEF IsFold

LEMMA SumChosen ==
  ASSUME NEW f, NEW S, IsFiniteSet(S), S # {}
  PROVE  SumFunctionOnSet(f, S) = f[Chosen(S)] + SumFunctionOnSet(f, S \ {Chosen(S)})
<1>. DEFINE sums == [T \in SUBSET S |-> SumFunctionOnSet(f, T)]
<1>1. IsFold(f, S, sums) BY SumsFold
<1>2. sums[S] = f[Chosen(S)] + sums[S \ {Chosen(S)}] BY <1>1 DEF IsFold
<1>. QED BY <1>2
-----------------------------------------------------------------------------
(* The sum of integers is an integer.                                      *)
THEOREM SumType ==
  ASSUME NEW S, IsFiniteSet(S), NEW f, \A x \in S : f[x] \in Int
  PROVE  SumFunctionOnSet(f, S) \in Int
<1>. DEFINE Good == {T \in SUBSET S : SumFunctionOnSet(f, T) \in Int}
<1>1. ASSUME NEW T \in SUBSET S, \A U \in SUBSET T : U # T => U \in Good
      PROVE  T \in Good
  <2>1. CASE T = {} BY <2>1, SumEmpty
  <2>2. CASE T # {}
    <3>1. Chosen(T) \in T BY <2>2 DEF Chosen
    <3>2. SumFunctionOnSet(f, T \ {Chosen(T)}) \in Int BY <3>1, <1>1
    <3>3. IsFiniteSet(T) BY FS_Subset
    <3>4. f[Chosen(T)] \in Int BY <3>1
    <3>. QED BY <2>2, <3>2, <3>3, <3>4, SumChosen
  <2>. QED BY <2>1, <2>2
<1>. HIDE DEF Good
<1>2. \A T \in SUBSET S : T \in Good BY <1>1, SubsetInduction
<1>. QED BY <1>2 DEF Good

(* Any element can be taken out of a sum.                                  *)
THEOREM SumRemove ==
  ASSUME NEW S, IsFiniteSet(S), NEW f, \A x \in S : f[x] \in Int, NEW x \in S
  PROVE  SumFunctionOnSet(f, S) = f[x] + SumFunctionOnSet(f, S \ {x})
<1>. DEFINE Good == {T \in SUBSET S :
              \A y \in T : SumFunctionOnSet(f, T) = f[y] + SumFunctionOnSet(f, T \ {y})}
<1>1. ASSUME NEW T \in SUBSET S, \A U \in SUBSET T : U # T => U \in Good
      PROVE  T \in Good
  <2>. SUFFICES ASSUME NEW y \in T
                PROVE  SumFunctionOnSet(f, T) = f[y] + SumFunctionOnSet(f, T \ {y})
    OBVIOUS
  <2>. DEFINE c == Chosen(T)
  <2>0. \A U \in SUBSET S : IsFiniteSet(U) /\ SumFunctionOnSet(f, U) \in Int
    BY SumType, FS_Subset
  <2>1. c \in T BY DEF Chosen
  <2>2. SumFunctionOnSet(f, T) = f[c] + SumFunctionOnSet(f, T \ {c}) BY <2>0, SumChosen
  <2>3. CASE y = c BY <2>2, <2>3
  <2>4. CASE y # c
    <3>1. SumFunctionOnSet(f, T \ {c}) = f[y] + SumFunctionOnSet(f, (T \ {c}) \ {y})
      <4>1. T \ {c} \in Good BY <2>1, <1>1
      <4>2. y \in T \ {c} BY <2>4
      <4>. QED BY <4>1, <4>2
    <3>2. SumFunctionOnSet(f, T \ {y}) = f[c] + SumFunctionOnSet(f, (T \ {y}) \ {c})
      <4>1. T \ {y} \in Good BY <1>1
      <4>2. c \in T \ {y} BY <2>1, <2>4
      <4>. QED BY <4>1, <4>2
    <3>3. (T \ {c}) \ {y} = (T \ {y}) \ {c} OBVIOUS
    <3>4. f[c] \in Int /\ f[y] \in Int BY <2>1
    <3>5. SumFunctionOnSet(f, (T \ {y}) \ {c}) \in Int BY <2>0
    <3>6. SumFunctionOnSet(f, T \ {c}) = f[y] + SumFunctionOnSet(f, (T \ {y}) \ {c})
      BY <3>1, <3>3
    <3>. HIDE DEF c
    <3>. QED BY <2>2, <3>2, <3>4, <3>5, <3>6
  <2>. QED BY <2>3, <2>4
<1>. HIDE DEF Good
<1>2. \A T \in SUBSET S : T \in Good BY <1>1, SubsetInduction
<1>3. S \in Good BY <1>2
<1>. QED BY <1>3 DEF Good

(* The sum over two disjoint sets.                                         *)
THEOREM SumUnion ==
  ASSUME NEW S, NEW R, IsFiniteSet(S), IsFiniteSet(R), S \cap R = {},
         NEW f, \A x \in S \cup R : f[x] \in Int
  PROVE  SumFunctionOnSet(f, S \cup R) = SumFunctionOnSet(f, S) + SumFunctionOnSet(f, R)
<1>. DEFINE Good == {T \in SUBSET R :
       SumFunctionOnSet(f, S \cup T) = SumFunctionOnSet(f, S) + SumFunctionOnSet(f, T)}
<1>0. IsFiniteSet(S \cup R) BY FS_Union
<1>1. \A U \in SUBSET (S \cup R) : IsFiniteSet(U) /\ SumFunctionOnSet(f, U) \in Int
  BY <1>0, SumType, FS_Subset
<1>2. ASSUME NEW T \in SUBSET R, \A U \in SUBSET T : U # T => U \in Good
      PROVE  T \in Good
  <2>1. CASE T = {}
    <3>1. S \cup T = S BY <2>1
    <3>. QED BY <2>1, <3>1, <1>1, SumEmpty
  <2>2. CASE T # {}
    <3>1. PICK y : y \in T BY <2>2
    <3>2. T \ {y} \in Good BY <3>1, <1>2
    <3>3. SumFunctionOnSet(f, S \cup (T \ {y}))
            = SumFunctionOnSet(f, S) + SumFunctionOnSet(f, T \ {y})
      BY <3>2
    <3>4. SumFunctionOnSet(f, S \cup T) = f[y] + SumFunctionOnSet(f, (S \cup T) \ {y})
      BY <3>1, <1>1, SumRemove
    <3>5. SumFunctionOnSet(f, T) = f[y] + SumFunctionOnSet(f, T \ {y})
      BY <3>1, <1>1, SumRemove
    <3>6. (S \cup T) \ {y} = S \cup (T \ {y}) BY <3>1
    <3>7. /\ SumFunctionOnSet(f, S) \in Int
          /\ SumFunctionOnSet(f, T \ {y}) \in Int
          /\ f[y] \in Int
      BY <3>1, <1>1
    <3>8. SumFunctionOnSet(f, S \cup T)
            = f[y] + (SumFunctionOnSet(f, S) + SumFunctionOnSet(f, T \ {y}))
      BY <3>3, <3>4, <3>6
    <3>9. SumFunctionOnSet(f, S \cup T) = SumFunctionOnSet(f, S) + SumFunctionOnSet(f, T)
      BY <3>5, <3>7, <3>8
    <3>. QED BY <3>9
  <2>. QED BY <2>1, <2>2
<1>. HIDE DEF Good
<1>3. \A T \in SUBSET R : T \in Good BY <1>2, SubsetInduction
<1>4. R \in Good BY <1>3
<1>. QED BY <1>4 DEF Good

(* Terms that are all zero add nothing.                                    *)
THEOREM SumZero ==
  ASSUME NEW S, IsFiniteSet(S), NEW f, \A x \in S : f[x] = 0
  PROVE  SumFunctionOnSet(f, S) = 0
<1>. DEFINE Good == {T \in SUBSET S : SumFunctionOnSet(f, T) = 0}
<1>1. ASSUME NEW T \in SUBSET S, \A U \in SUBSET T : U # T => U \in Good
      PROVE  T \in Good
  <2>1. CASE T = {} BY <2>1, SumEmpty
  <2>2. CASE T # {}
    <3>1. Chosen(T) \in T BY <2>2 DEF Chosen
    <3>2. SumFunctionOnSet(f, T \ {Chosen(T)}) = 0 BY <3>1, <1>1
    <3>3. IsFiniteSet(T) BY FS_Subset
    <3>4. f[Chosen(T)] = 0 BY <3>1
    <3>. QED BY <2>2, <3>2, <3>3, <3>4, SumChosen
  <2>. QED BY <2>1, <2>2
<1>. HIDE DEF Good
<1>2. \A T \in SUBSET S : T \in Good BY <1>1, SubsetInduction
<1>. QED BY <1>2 DEF Good

(* Two sums over one set whose terms are in order are in order.            *)
THEOREM SumMonotonic ==
  ASSUME NEW S, IsFiniteSet(S), NEW f, NEW g,
         \A x \in S : f[x] \in Int /\ g[x] \in Int /\ f[x] <= g[x]
  PROVE  SumFunctionOnSet(f, S) <= SumFunctionOnSet(g, S)
<1>. DEFINE Good == {T \in SUBSET S : SumFunctionOnSet(f, T) <= SumFunctionOnSet(g, T)}
<1>0. \A U \in SUBSET S : IsFiniteSet(U) BY FS_Subset
<1>1. ASSUME NEW T \in SUBSET S, \A U \in SUBSET T : U # T => U \in Good
      PROVE  T \in Good
  <2>1. CASE T = {} BY <2>1, SumEmpty
  <2>2. CASE T # {}
    <3>1. PICK y : y \in T BY <2>2
    <3>2. T \ {y} \in Good BY <3>1, <1>1
    <3>3. SumFunctionOnSet(f, T) = f[y] + SumFunctionOnSet(f, T \ {y}) BY <3>1, <1>0, SumRemove
    <3>4. SumFunctionOnSet(g, T) = g[y] + SumFunctionOnSet(g, T \ {y}) BY <3>1, <1>0, SumRemove
    <3>5. SumFunctionOnSet(f, T \ {y}) \in Int /\ SumFunctionOnSet(g, T \ {y}) \in Int
      BY <1>0, SumType
    <3>6. f[y] \in Int /\ g[y] \in Int /\ f[y] <= g[y] BY <3>1
    <3>7. SumFunctionOnSet(f, T \ {y}) <= SumFunctionOnSet(g, T \ {y}) BY <3>2
    <3>. QED BY <3>3, <3>4, <3>5, <3>6, <3>7
  <2>. QED BY <2>1, <2>2
<1>. HIDE DEF Good
<1>2. \A T \in SUBSET S : T \in Good BY <1>1, SubsetInduction
<1>. QED BY <1>2 DEF Good

(* Summing over other names of the same terms gives the same sum.          *)
THEOREM SumRename ==
  ASSUME NEW S, IsFiniteSet(S), NEW R, IsFiniteSet(R), NEW f, NEW g, NEW name,
         \A x \in S : g[x] \in Int /\ name[x] \in R /\ f[name[x]] = g[x],
         \A x, y \in S : name[x] = name[y] => x = y,
         \A r \in R : \E x \in S : name[x] = r
  PROVE  SumFunctionOnSet(f, R) = SumFunctionOnSet(g, S)
<1>. DEFINE image(T) == {name[x] : x \in T}
            Good == {T \in SUBSET S : SumFunctionOnSet(f, image(T)) = SumFunctionOnSet(g, T)}
<1>0. \A U \in SUBSET S : /\ IsFiniteSet(U) /\ image(U) \subseteq R /\ IsFiniteSet(image(U))
  BY FS_Subset
<1>1. \A r \in R : f[r] \in Int OBVIOUS
<1>2. ASSUME NEW T \in SUBSET S, \A U \in SUBSET T : U # T => U \in Good
      PROVE  T \in Good
  <2>1. CASE T = {}
    <3>1. image(T) = {} BY <2>1
    <3>. QED BY <2>1, <3>1, SumEmpty
  <2>2. CASE T # {}
    <3>1. PICK y : y \in T BY <2>2
    <3>2. T \ {y} \in Good BY <3>1, <1>2
    <3>3. SumFunctionOnSet(g, T) = g[y] + SumFunctionOnSet(g, T \ {y}) BY <3>1, <1>0, SumRemove
    <3>4. SumFunctionOnSet(f, image(T)) = f[name[y]] + SumFunctionOnSet(f, image(T) \ {name[y]})
      <4>1. name[y] \in image(T) BY <3>1
      <4>2. \A r \in image(T) : f[r] \in Int BY <1>0, <1>1
      <4>. HIDE DEF image
      <4>. QED BY <4>1, <4>2, <1>0, SumRemove
    <3>5. image(T) \ {name[y]} = image(T \ {y}) BY <3>1
    <3>6. f[name[y]] = g[y] BY <3>1
    <3>7. SumFunctionOnSet(f, image(T \ {y})) = SumFunctionOnSet(g, T \ {y}) BY <3>2
    <3>. QED BY <3>3, <3>4, <3>5, <3>6, <3>7
  <2>. QED BY <2>1, <2>2
<1>. HIDE DEF Good
<1>3. \A T \in SUBSET S : T \in Good BY <1>2, SubsetInduction
<1>4. SumFunctionOnSet(f, image(S)) = SumFunctionOnSet(g, S) BY <1>3 DEF Good
<1>5. image(S) = R OBVIOUS
<1>. QED BY <1>4, <1>5

(* A sum taken class by class: the members of a set fall into classes, and *)
(* g has what each of them adds up to.                                     *)
ClassOf(S, class, c) == {x \in S : class[x] = c}
Classified(S, class, C) == {x \in S : class[x] \in C}

THEOREM SumByClass ==
  ASSUME NEW S, IsFiniteSet(S), NEW f, \A x \in S : f[x] \in Int,
         NEW class, NEW C, IsFiniteSet(C), \A x \in S : class[x] \in C,
         NEW g, \A c \in C : g[c] = SumFunctionOnSet(f, ClassOf(S, class, c))
  PROVE  SumFunctionOnSet(g, C) = SumFunctionOnSet(f, S)
<1>. DEFINE In(T) == Classified(S, class, T)
            Good == {T \in SUBSET C : SumFunctionOnSet(g, T) = SumFunctionOnSet(f, In(T))}
<1>1. ASSUME NEW c \in C PROVE g[c] \in Int
  <2>1. ClassOf(S, class, c) \in SUBSET S BY DEF ClassOf
  <2>2. IsFiniteSet(ClassOf(S, class, c)) BY <2>1, FS_Subset
  <2>3. \A x \in ClassOf(S, class, c) : f[x] \in Int BY <2>1
  <2>. QED BY <2>2, <2>3, SumType
<1>2. ASSUME NEW T \in SUBSET C, \A U \in SUBSET T : U # T => U \in Good
      PROVE  T \in Good
  <2>1. CASE T = {}
    <3>1. In(T) = {} BY <2>1 DEF Classified
    <3>. QED BY <2>1, <3>1, SumEmpty
  <2>2. CASE T # {}
    <3>1. PICK c \in T : TRUE BY <2>2
    <3>. DEFINE rest == In(T \ {c})
                mine == ClassOf(S, class, c)
    <3>2. T \ {c} \in Good BY <1>2, <3>1
    <3>3. SumFunctionOnSet(g, T \ {c}) = SumFunctionOnSet(f, rest) BY <3>2
    <3>4. rest \cup mine = In(T) /\ rest \cap mine = {} /\ rest \in SUBSET S /\ mine \in SUBSET S
      BY <3>1 DEF Classified, ClassOf
    <3>5. IsFiniteSet(rest) /\ IsFiniteSet(mine) BY <3>4, FS_Subset
    <3>6. \A x \in rest \cup mine : f[x] \in Int BY <3>4
    <3>. HIDE DEF rest, mine, In
    <3>7. SumFunctionOnSet(f, rest \cup mine)
            = SumFunctionOnSet(f, rest) + SumFunctionOnSet(f, mine)
      BY <3>4, <3>5, <3>6, SumUnion
    <3>8. IsFiniteSet(T) /\ \A d \in T : g[d] \in Int BY <1>1, FS_Subset
    <3>9. SumFunctionOnSet(g, T) = g[c] + SumFunctionOnSet(g, T \ {c})
      BY <3>1, <3>8, SumRemove
    <3>10. g[c] = SumFunctionOnSet(f, mine) BY <3>1 DEF mine
    <3>11. g[c] \in Int BY <3>1, <3>8
    <3>12. SumFunctionOnSet(f, rest) \in Int
      <4>1. \A x \in rest : f[x] \in Int BY <3>4
      <4>. QED BY <3>5, <4>1, SumType
    <3>13. SumFunctionOnSet(f, In(T)) = SumFunctionOnSet(f, rest \cup mine) BY <3>4
    <3>14. SumFunctionOnSet(g, T) = SumFunctionOnSet(f, rest) + g[c]
      BY <3>3, <3>9, <3>11, <3>12
    <3>15. SumFunctionOnSet(g, T) = SumFunctionOnSet(f, In(T))
      BY <3>7, <3>10, <3>13, <3>14
    <3>. QED BY <3>15 DEF In
  <2>. QED BY <2>1, <2>2
<1>. HIDE DEF Good
<1>3. \A T \in SUBSET C : T \in Good BY <1>2, SubsetInduction
<1>4. C \in Good BY <1>3
<1>5. Classified(S, class, C) = S BY DEF Classified
<1>. QED BY <1>4, <1>5 DEF Good

LEMMA SumSame ==
  ASSUME NEW S, IsFiniteSet(S), NEW f, NEW g, \A x \in S : g[x] \in Int /\ f[x] = g[x]
  PROVE  SumFunctionOnSet(f, S) = SumFunctionOnSet(g, S)
<1>. DEFINE name == [x \in S |-> x]
<1>1. \A x \in S : g[x] \in Int /\ name[x] \in S /\ f[name[x]] = g[x] OBVIOUS
<1>2. /\ \A x, y \in S : name[x] = name[y] => x = y
      /\ \A r \in S : \E x \in S : name[x] = r
  OBVIOUS
<1>. HIDE DEF name
<1>. QED BY <1>1, <1>2, SumRename

LEMMA SumPlus ==
  ASSUME NEW S, IsFiniteSet(S), NEW f, NEW g, NEW h,
         \A x \in S : f[x] \in Int /\ g[x] \in Int /\ h[x] = f[x] + g[x]
  PROVE  SumFunctionOnSet(h, S) = SumFunctionOnSet(f, S) + SumFunctionOnSet(g, S)
<1>. DEFINE F(T) == SumFunctionOnSet(f, T)
            G(T) == SumFunctionOnSet(g, T)
            H(T) == SumFunctionOnSet(h, T)
            Good == {T \in SUBSET S : H(T) = F(T) + G(T)}
<1>0. \A T \in SUBSET S : IsFiniteSet(T) BY FS_Subset
<1>1. ASSUME NEW T \in SUBSET S, \A U \in SUBSET T : U # T => U \in Good
      PROVE  T \in Good
  <2>1. CASE T = {} BY <2>1, SumEmpty
  <2>2. CASE T # {}
    <3>1. PICK x \in T : TRUE BY <2>2
    <3>2. T \ {x} \in Good BY <3>1, <1>1
    <3>3. /\ \A y \in T : f[y] \in Int /\ g[y] \in Int /\ h[y] \in Int
          /\ IsFiniteSet(T) /\ IsFiniteSet(T \ {x})
      BY <1>0
    <3>4. F(T) = f[x] + F(T \ {x}) BY <3>1, <3>3, SumRemove
    <3>5. G(T) = g[x] + G(T \ {x}) BY <3>1, <3>3, SumRemove
    <3>6. H(T) = h[x] + H(T \ {x}) BY <3>1, <3>3, SumRemove
    <3>7. F(T \ {x}) \in Int BY <3>3, SumType
    <3>8. G(T \ {x}) \in Int BY <3>3, SumType
    <3>9. f[x] \in Int /\ g[x] \in Int /\ h[x] = f[x] + g[x] BY <3>1
    <3>10. H(T \ {x}) = F(T \ {x}) + G(T \ {x}) BY <3>2
    <3>. HIDE DEF F, G, H
    <3>11. H(T) = F(T) + G(T) BY <3>4, <3>5, <3>6, <3>7, <3>8, <3>9, <3>10
    <3>. QED BY <3>11
  <2>. QED BY <2>1, <2>2
<1>. HIDE DEF Good
<1>2. \A T \in SUBSET S : T \in Good BY <1>1, SubsetInduction
<1>. QED BY <1>2 DEF Good

LEMMA SumScale ==
  ASSUME NEW S, IsFiniteSet(S), NEW m \in Int, NEW f, NEW g,
         \A x \in S : g[x] \in Int /\ f[x] = m * g[x]
  PROVE  SumFunctionOnSet(f, S) = m * SumFunctionOnSet(g, S)
<1>. DEFINE Good == {T \in SUBSET S : SumFunctionOnSet(f, T) = m * SumFunctionOnSet(g, T)}
<1>1. ASSUME NEW T \in SUBSET S, \A U \in SUBSET T : U # T => U \in Good
      PROVE  T \in Good
  <2>1. CASE T = {}
    <3>1. SumFunctionOnSet(f, {}) = 0 /\ SumFunctionOnSet(g, {}) = 0 BY SumEmpty
    <3>. QED BY <2>1, <3>1
  <2>2. CASE T # {}
    <3>1. PICK x \in T : TRUE BY <2>2
    <3>2. IsFiniteSet(T) /\ IsFiniteSet(T \ {x}) BY FS_Subset
    <3>3. \A y \in T : f[y] \in Int /\ g[y] \in Int OBVIOUS
    <3>4. /\ SumFunctionOnSet(f, T) = f[x] + SumFunctionOnSet(f, T \ {x})
          /\ SumFunctionOnSet(g, T) = g[x] + SumFunctionOnSet(g, T \ {x})
      BY <3>2, <3>3, SumRemove
    <3>5. SumFunctionOnSet(f, T \ {x}) = m * SumFunctionOnSet(g, T \ {x}) BY <3>1, <1>1
    <3>6. SumFunctionOnSet(g, T \ {x}) \in Int BY <3>2, <3>3, SumType
    <3>7. f[x] = m * g[x] /\ g[x] \in Int OBVIOUS
    <3>8. SumFunctionOnSet(f, T) = m * SumFunctionOnSet(g, T)
      BY <3>4, <3>5, <3>6, <3>7
    <3>. QED BY <3>8
  <2>. QED BY <2>1, <2>2
<1>. HIDE DEF Good
<1>2. \A T \in SUBSET S : T \in Good BY <1>1, SubsetInduction
<1>. QED BY <1>2 DEF Good

-----------------------------------------------------------------------------
(* Products, quotients and remainders.                                     *)
LEMMA Quotient ==
  ASSUME NEW a \in Int, NEW b \in Nat, b # 0
  PROVE  a \div b \in Int /\ (a >= 0 => a \div b \in Nat) /\ a % b \in Nat
OBVIOUS

LEMMA Product ==
  ASSUME NEW a \in Int, NEW b \in Int
  PROVE  a * b \in Int /\ (a >= 0 /\ b >= 0 => a * b \in Nat)
<1>1. a * b \in Int OBVIOUS
<1>2. ASSUME a >= 0, b >= 0 PROVE a * b >= 0
  <2>1. CASE a = 0 \/ b = 0 BY <2>1
  <2>2. CASE a > 0 /\ b > 0 BY <2>2, SMTT(20)
  <2>. QED BY <1>2, <2>1, <2>2
<1>. QED BY <1>1, <1>2

LEMMA Scaled ==
  ASSUME NEW a \in Nat, NEW b \in Nat, NEW c \in Nat, c # 0
  PROVE  (a * b) \div c \in Nat
<1>1. a * b \in Nat BY Product
<1>. QED BY <1>1, Quotient

LEMMA NaturalsIn ==
  ASSUME NEW D \in SUBSET Nat
  PROVE  \A d \in D : d \in Nat /\ d \in Int
OBVIOUS

LEMMA PartOf ==
  ASSUME NEW a \in Nat, NEW c \in Nat, c # 0, NEW b \in 0 .. c
  PROVE  (a * b) \div c \in 0 .. a
<1>1. b \in Nat /\ c - b \in Nat OBVIOUS
<1>2. a * (c - b) \in Nat /\ a * b \in Nat BY <1>1, Product
<1>3. a * c = a * b + a * (c - b) OBVIOUS
<1>4. a * b <= a * c BY <1>2, <1>3
<1>. DEFINE q == (a * b) \div c
            m == a * b
<1>5. q \in Nat /\ q = m \div c BY <1>2, Quotient
<1>. HIDE DEF m
<1>6. q * c <= m BY <1>2, <1>5 DEF m
<1>. HIDE DEF q
<1>7. ASSUME q > a PROVE FALSE
  <2>1. q - a - 1 \in Nat BY <1>5, <1>7
  <2>2. (q - a - 1) * c \in Nat BY <2>1, Product
  <2>3. q * c = (q - a - 1) * c + a * c + c BY <1>5
  <2>4. a * c \in Int /\ q * c \in Int BY <1>5, Product
  <2>. QED BY <1>4, <1>6, <2>2, <2>3, <2>4 DEF m
<1>8. q \in 0 .. a BY <1>5, <1>7
<1>. QED BY <1>8 DEF q, m

LEMMA WholeQuotient ==
  ASSUME NEW a \in Int, NEW b \in Nat, b # 0
  PROVE  (a * b) \div b = a
<1>. DEFINE c == a * b
            q == c \div b
<1>1. c \in Int OBVIOUS
<1>2. \A x \in Int : x \div b \in Int /\ x = b * (x \div b) + (x % b) /\ 0 <= x % b /\ x % b < b
  OBVIOUS
<1>. HIDE DEF c
<1>3. q \in Int /\ c - b * q >= 0 /\ c - b * q < b BY <1>1, <1>2
<1>. HIDE DEF q
<1>4. b * (a - q) >= 0 /\ b * (a - q) < b BY <1>3 DEF c
<1>5. CASE a - q >= 1
  <2>1. b * (a - q - 1) >= 0 BY <1>3, <1>5, Product
  <2>2. b * (a - q) >= b BY <1>3, <2>1
  <2>. QED BY <1>3, <1>4, <2>2
<1>6. CASE a - q <= 0 - 1
  <2>1. b * (q - a - 1) >= 0 BY <1>3, <1>6, Product
  <2>2. b * (a - q) <= 0 - b BY <1>3, <2>1
  <2>. QED BY <1>3, <1>4, <2>2
<1>7. CASE q = a BY <1>7 DEF q, c
<1>. QED BY <1>3, <1>5, <1>6, <1>7

LEMMA WholeMultiple ==
  ASSUME NEW a \in Nat, NEW b \in Nat, b # 0, a % b = 0
  PROVE  /\ a = b * (a \div b) /\ a \div b \in Nat
         /\ a >= b => a \div b >= 1
<1>1. a \div b \in Int /\ a = b * (a \div b) + (a % b) /\ a \div b >= 0 OBVIOUS
<1>2. a = b * (a \div b) BY <1>1
<1>3. a >= b => a \div b # 0 BY <1>2
<1>. QED BY <1>1, <1>2, <1>3

LEMMA NegativeTimes ==
  ASSUME NEW x \in Int, x < 0, NEW c \in Nat, c >= 1
  PROVE  c * x < 0
<1>. DEFINE y == 0 - x
            b == c - 1
<1>1. y \in Int /\ y >= 1 /\ b \in Int /\ b >= 0 BY SMT
<1>. HIDE DEF y, b
<1>2. b * y >= 0 BY <1>1, Product
<1>3. (c - 1) * (0 - x) >= 0 BY <1>2 DEF b, y
<1>4. (c - 1) * (0 - x) = x - c * x BY SMT
<1>. QED BY <1>3, <1>4

-----------------------------------------------------------------------------
(* Finite sets and sequences.  A finite set has a first element in any     *)
(* strict order.                                                           *)
StrictOn(R, S) == /\ \A x \in S : <<x, x>> \notin R
                  /\ \A x, y, z \in S : (<<x, y>> \in R /\ <<y, z>> \in R) => <<x, z>> \in R

LEMMA FirstElement ==
  ASSUME NEW S, IsFiniteSet(S), S # {}, NEW R, StrictOn(R, S)
  PROVE  \E x \in S : \A y \in S : <<y, x>> \notin R
<1>. DEFINE First(x, T) == \A y \in T : <<y, x>> \notin R
            Good == {T \in SUBSET S : T = {} \/ \E x \in T : First(x, T)}
<1>1. ASSUME NEW T \in SUBSET S, \A U \in SUBSET T : U # T => U \in Good
      PROVE  T \in Good
  <2>1. CASE T = {} BY <2>1
  <2>2. CASE T # {}
    <3>1. PICK z \in T : TRUE BY <2>2
    <3>2. CASE T = {z} BY <3>2 DEF StrictOn
    <3>3. CASE T # {z}
      <4>1. T \ {z} \in Good BY <3>1, <1>1
      <4>2. PICK x \in T \ {z} : First(x, T \ {z}) BY <3>1, <3>3, <4>1
      <4>3. CASE <<z, x>> \notin R BY <4>2, <4>3
      <4>4. CASE <<z, x>> \in R
        <5>1. ASSUME NEW y \in T PROVE <<y, z>> \notin R
          <6>1. x \in S /\ y \in S /\ z \in S BY <3>1, <4>2
          <6>2. CASE y = z BY <6>1, <6>2 DEF StrictOn
          <6>3. CASE y # z
            <7>1. <<y, x>> \notin R BY <4>2, <6>3
            <7>. QED BY <4>4, <6>1, <7>1 DEF StrictOn
          <6>. QED BY <6>2, <6>3
        <5>. QED BY <3>1, <5>1
      <4>. QED BY <4>3, <4>4
    <3>. QED BY <3>2, <3>3
  <2>. QED BY <2>1, <2>2
<1>. HIDE DEF Good
<1>2. \A T \in SUBSET S : T \in Good BY <1>1, SubsetInduction
<1>3. S \in Good BY <1>2
<1>. QED BY <1>3 DEF Good

LEMMA ImageFinite ==
  ASSUME NEW S, IsFiniteSet(S), NEW T, NEW f \in [S -> T], \A y \in T : \E x \in S : f[x] = y
  PROVE  IsFiniteSet(T)
<1>1. f \in Surjection(S, T) BY DEF Surjection
<1>. QED BY <1>1, FS_Surjection

LEMMA CountingUp ==
  ASSUME NEW n \in Nat, NEW Good, 0 \in Good, \A i \in 1 .. n : i - 1 \in Good => i \in Good
  PROVE  \A i \in 0 .. n : i \in Good
<1>. DEFINE S == 1 .. n
            Fine == {T \in SUBSET S : \A i \in 0 .. n : T = 1 .. i => i \in Good}
<1>1. IsFiniteSet(S) BY FS_Interval
<1>2. ASSUME NEW T \in SUBSET S, \A U \in SUBSET T : U # T => U \in Fine
      PROVE  T \in Fine
  <2>. SUFFICES ASSUME NEW i \in 0 .. n, T = 1 .. i PROVE i \in Good OBVIOUS
  <2>1. CASE i = 0 BY <2>1
  <2>2. CASE i # 0
    <3>. DEFINE U == 1 .. (i - 1)
    <3>1. U \in SUBSET T /\ i \in T /\ i \notin U BY <2>2
    <3>2. U \in Fine BY <1>2, <3>1
    <3>3. i - 1 \in 0 .. n /\ i \in 1 .. n BY <2>2
    <3>4. i - 1 \in Good BY <3>2, <3>3
    <3>. QED BY <3>3, <3>4
  <2>. QED BY <2>1, <2>2
<1>. HIDE DEF Fine, S
<1>3. \A T \in SUBSET S : T \in Fine BY <1>1, <1>2, SubsetInduction
<1>4. ASSUME NEW i \in 0 .. n PROVE i \in Good
  <2>1. 1 .. i \in SUBSET S BY DEF S
  <2>. QED BY <1>3, <2>1 DEF Fine
<1>. QED BY <1>4

(* A sequence that has every element of a set once; in whatever order they *)
(* come, sums are the same.                                                *)
Enumerates(order, S) ==
  /\ order \in Seq(S)
  /\ \A i, j \in DOMAIN order : order[i] = order[j] => i = j
  /\ \A x \in S : \E i \in DOMAIN order : order[i] = x

LEMMA ConsEnumerates ==
  ASSUME NEW T, NEW x \in T, NEW order, Enumerates(order, T \ {x})
  PROVE  Enumerates(<<x>> \o order, T)
<1>. DEFINE all == <<x>> \o order
<1>1. order \in Seq(T) /\ order \in Seq(T \ {x}) /\ <<x>> \in Seq(T)
  <2>1. order \in Seq(T \ {x}) BY DEF Enumerates
  <2>2. T \ {x} \subseteq T OBVIOUS
  <2>. QED BY <2>1, <2>2, SeqMonotonic
<1>2. /\ all \in Seq(T) /\ Len(all) = 1 + Len(order) /\ Len(order) \in Nat
      /\ \A i \in 1 .. 1 + Len(order) : all[i] = IF i <= 1 THEN x ELSE order[i - 1]
  BY <1>1, ConcatProperties
<1>3. DOMAIN all = 1 .. 1 + Len(order) /\ DOMAIN order = 1 .. Len(order)
  BY <1>1, <1>2, LenProperties
<1>. HIDE DEF all
<1>4. \A i \in 1 .. Len(order) : order[i] \in T \ {x} BY <1>1, ElementOfSeq
<1>5. ASSUME NEW i \in DOMAIN all, NEW j \in DOMAIN all, all[i] = all[j] PROVE i = j
  <2>1. CASE i = 1 /\ j = 1 BY <2>1
  <2>2. CASE i = 1 /\ j # 1 BY <1>2, <1>3, <1>4, <1>5, <2>2
  <2>3. CASE i # 1 /\ j = 1 BY <1>2, <1>3, <1>4, <1>5, <2>3
  <2>4. CASE i # 1 /\ j # 1
    <3>1. i - 1 \in DOMAIN order /\ j - 1 \in DOMAIN order BY <1>2, <1>3, <2>4
    <3>2. order[i - 1] = order[j - 1] BY <1>2, <1>3, <1>5, <2>4
    <3>3. i - 1 = j - 1 BY <3>1, <3>2 DEF Enumerates
    <3>. QED BY <3>3, <1>2, <1>3
  <2>. QED BY <2>1, <2>2, <2>3, <2>4
<1>6. ASSUME NEW y \in T PROVE \E i \in DOMAIN all : all[i] = y
  <2>1. CASE y = x
    <3>1. 1 \in DOMAIN all /\ all[1] = x BY <1>2, <1>3
    <3>. QED BY <2>1, <3>1
  <2>2. CASE y # x
    <3>1. PICK i \in DOMAIN order : order[i] = y BY <2>2 DEF Enumerates
    <3>2. i + 1 \in DOMAIN all /\ all[i + 1] = y BY <1>2, <1>3, <3>1
    <3>. QED BY <3>2
  <2>. QED BY <2>1, <2>2
<1>7. Enumerates(all, T) BY <1>2, <1>5, <1>6 DEF Enumerates
<1>. QED BY <1>7 DEF all

LEMMA PlacedSum ==
  ASSUME NEW P, IsFiniteSet(P), NEW order, Enumerates(order, P),
         NEW f, \A k \in P : f[k] \in Int
  PROVE  SumFunctionOnSet([i \in DOMAIN order |-> f[order[i]]], DOMAIN order)
           = SumFunctionOnSet(f, P)
<1>. DEFINE g == [i \in DOMAIN order |-> f[order[i]]]
<1>1. order \in Seq(P) BY DEF Enumerates
<1>2. DOMAIN order = 1 .. Len(order) /\ Len(order) \in Nat BY <1>1, LenProperties
<1>3. IsFiniteSet(1 .. Len(order)) BY <1>2, FS_Interval
<1>4. IsFiniteSet(DOMAIN order) BY <1>2, <1>3
<1>5. \A i \in DOMAIN order : order[i] \in P BY <1>1, <1>2, ElementOfSeq
<1>6. \A i \in DOMAIN order : g[i] \in Int /\ order[i] \in P /\ f[order[i]] = g[i]
  BY <1>5
<1>7. /\ \A i, j \in DOMAIN order : order[i] = order[j] => i = j
      /\ \A k \in P : \E i \in DOMAIN order : order[i] = k
  BY DEF Enumerates
<1>. HIDE DEF g
<1>8. SumFunctionOnSet(f, P) = SumFunctionOnSet(g, DOMAIN order)
  BY <1>4, <1>6, <1>7, SumRename
<1>. QED BY <1>8 DEF g

(* A sequence changed, extended and joined.                                *)
LEMMA RowsMapped ==
  ASSUME NEW R, NEW rows \in Seq(R), NEW out, out = [k \in DOMAIN rows |-> out[k]], NEW Q,
         \A k \in DOMAIN rows : rows[k] \in R => out[k] \in Q
  PROVE  out \in Seq(Q) /\ Len(out) = Len(rows)
<1>1. DOMAIN rows = 1 .. Len(rows) /\ Len(rows) \in Nat BY LenProperties
<1>2. \A k \in 1 .. Len(rows) : out[k] \in Q BY <1>1, ElementOfSeq
<1>3. [k \in 1 .. Len(rows) |-> out[k]] \in Seq(Q) BY <1>1, <1>2, IsASeq
<1>4. out \in Seq(Q) BY <1>1, <1>3
<1>. QED BY <1>1, <1>4, LenProperties

LEMMA Appended ==
  ASSUME NEW S, NEW L \in Seq(S), NEW t \in S
  PROVE  /\ Append(L, t) \in Seq(S) /\ Len(L) \in Nat /\ DOMAIN L = 1 .. Len(L)
         /\ DOMAIN Append(L, t) = 1 .. Len(L) + 1
         /\ \A k \in DOMAIN L : Append(L, t)[k] = L[k]
         /\ Append(L, t)[Len(L) + 1] = t
BY AppendProperties, LenProperties

LEMMA Joined ==
  ASSUME NEW S, NEW a \in Seq(S), NEW b \in Seq(S)
  PROVE  /\ a \o b \in Seq(S) /\ Len(a \o b) = Len(a) + Len(b)
         /\ Len(a) \in Nat /\ Len(b) \in Nat
         /\ DOMAIN a = 1 .. Len(a) /\ DOMAIN b = 1 .. Len(b)
         /\ DOMAIN (a \o b) = 1 .. (Len(a) + Len(b))
         /\ \A i \in 1 .. Len(a) : (a \o b)[i] = a[i]
         /\ \A i \in 1 .. Len(b) : (a \o b)[Len(a) + i] = b[i]
<1>1. /\ a \o b \in Seq(S) /\ Len(a \o b) = Len(a) + Len(b)
      /\ \A i \in 1 .. Len(a) + Len(b) : (a \o b)[i] = IF i <= Len(a) THEN a[i] ELSE b[i - Len(a)]
  BY ConcatProperties
<1>2. /\ Len(a) \in Nat /\ Len(b) \in Nat /\ DOMAIN a = 1 .. Len(a) /\ DOMAIN b = 1 .. Len(b)
      /\ DOMAIN (a \o b) = 1 .. Len(a \o b)
  BY <1>1, LenProperties
<1>. DEFINE ab == a \o b
<1>. HIDE DEF ab
<1>3. \A i \in 1 .. Len(a) : ab[i] = a[i]
  <2>. TAKE i \in 1 .. Len(a)
  <2>1. i \in 1 .. Len(a) + Len(b) /\ i <= Len(a) BY <1>2
  <2>. QED BY <1>1, <2>1 DEF ab
<1>4. \A i \in 1 .. Len(b) : ab[Len(a) + i] = b[i]
  <2>. TAKE i \in 1 .. Len(b)
  <2>1. Len(a) + i \in 1 .. Len(a) + Len(b) /\ ~(Len(a) + i <= Len(a)) /\ (Len(a) + i) - Len(a) = i
    BY <1>2
  <2>. QED BY <1>1, <2>1 DEF ab
<1>. QED BY <1>1, <1>2, <1>3, <1>4 DEF ab
=============================================================================
