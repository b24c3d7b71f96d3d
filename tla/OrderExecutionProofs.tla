------------------------- MODULE OrderExecutionProofs -------------------------
(***************************************************************************)
(* Proofs about OrderExecution for any assets, markets, targets, costs and *)
(* number of rebalances.                                                    *)
(*                                                                         *)
(*   Basic     types, solvency, and the week of the session                *)
(*   RowsInv   no answer before the decision, one answer after it          *)
(*   BookInv   ledgers, evidence, digests and rows belong together         *)
(*   Found     a changed value keeps the next run from beginning           *)
(*   WorthInv  no order makes the account worth more                       *)
(*   FitInv    the cash covers the buys to come                            *)
(*                                                                         *)
(* The sums of the ledgers are folds over sets.  What is needed of them,   *)
(* that an element more adds its amount, is derived from the definition of *)
(* the fold by choosing smallest counterexamples.                           *)
(***************************************************************************)
EXTENDS OrderExecution, FiniteSetTheorems, WellFoundedInduction, TLAPS

-----------------------------------------------------------------------------
(* Sums over a finite set *)

First(s) == CHOOSE x \in s : TRUE

\* h sums up g over every subset of S, one element after the other.
SumsUp(h, g, S) ==
    h = [s \in SUBSET S |-> IF s = {} THEN 0 ELSE g[First(s)] + h[s \ {First(s)}]]

\* A set of subsets of a finite set has a smallest element.
LEMMA SmallestSet ==
    ASSUME NEW S, IsFiniteSet(S), NEW T, T \subseteq SUBSET S, T # {}
    PROVE  \E s \in T : \A t \in SUBSET s : t # s => t \notin T
<1>1. FiniteSubsetsOf(S) = SUBSET S
  BY FS_FiniteSubsetsOfFinite
<1>2. PICK s \in T : \A t \in T : ~ (<<t, s>> \in StrictSubsetOrdering(S))
  BY <1>1, FS_StrictSubsetOrderingWellFounded, WFMin
<1>3. ASSUME NEW t \in SUBSET s, t # s, t \in T
      PROVE  FALSE
  <2>1. t \subseteq S /\ s \subseteq S
    OBVIOUS
  <2>2. <<t, s>> \in StrictSubsetOrdering(S)
    BY <1>3, <2>1 DEF StrictSubsetOrdering
  <2> QED
    BY <1>2, <1>3, <2>2
<1> QED
  BY <1>3

LEMMA FirstIn == ASSUME NEW s, s # {} PROVE First(s) \in s
BY DEF First

LEMMA SumsStep ==
    ASSUME NEW S, NEW g, NEW h, SumsUp(h, g, S), NEW s \in SUBSET S
    PROVE  /\ s = {} => h[s] = 0
           /\ s # {} => h[s] = g[First(s)] + h[s \ {First(s)}]
BY DEF SumsUp

LEMMA SumsNext ==
    ASSUME NEW S, NEW g, NEW h, SumsUp(h, g, S), NEW s \in SUBSET S, s # {}
    PROVE  h[s] = g[First(s)] + h[s \ {First(s)}]
BY SumsStep

\* The sum over a part of S does not depend on the rest of S.
LEMMA SumsRestrict ==
    ASSUME NEW S, IsFiniteSet(S), NEW S0 \in SUBSET S, NEW g, NEW h, NEW h0,
           SumsUp(h, g, S), SumsUp(h0, g, S0)
    PROVE  h0[S0] = h[S0]
<1> DEFINE T == {s \in SUBSET S0 : h0[s] # h[s]}
<1> SUFFICES ASSUME T # {} PROVE FALSE
  BY S0 \in SUBSET S0
<1>1. IsFiniteSet(S0)
  BY FS_Subset
<1>2. PICK s \in SUBSET S0 : h0[s] # h[s] /\ \A t \in SUBSET s : t # s => h0[t] = h[t]
  <2>1. T \subseteq SUBSET S0 /\ \A t \in SUBSET S0 : t \in T <=> h0[t] # h[t]
    OBVIOUS
  <2> HIDE DEF T
  <2>2. PICK s \in T : \A t \in SUBSET s : t # s => t \notin T
    BY <1>1, <2>1, SmallestSet
  <2> QED
    BY <2>1, <2>2
<1>3. s # {}
  <2>1. s \in SUBSET S
    OBVIOUS
  <2>2. s = {} => h0[s] = 0
    BY SumsStep
  <2>3. s = {} => h[s] = 0
    BY <2>1, SumsStep
  <2> QED
    BY <1>2, <2>2, <2>3
<1>4. s \ {First(s)} \in SUBSET s /\ s \ {First(s)} # s
  BY <1>3, FirstIn
<1>5. h0[s \ {First(s)}] = h[s \ {First(s)}]
  BY <1>2, <1>4
<1> HIDE DEF T
<1>6. h0[s] = g[First(s)] + h0[s \ {First(s)}]
  BY <1>3 DEF SumsUp
<1>7. s \in SUBSET S
  OBVIOUS
<1>8. h[s] = g[First(s)] + h[s \ {First(s)}]
  BY <1>3, <1>7, SumsStep
<1> QED
  BY <1>2, <1>5, <1>6, <1>8

\* Over a finite set the recursive equation of a sum has a solution.
LEMMA SumExists ==
    ASSUME NEW S, IsFiniteSet(S), NEW g
    PROVE  \E h : SumsUp(h, g, S)
<1> DEFINE T == {s \in SUBSET S : ~ \E h : SumsUp(h, g, s)}
<1> SUFFICES ASSUME T # {} PROVE FALSE
  OBVIOUS
<1>0. /\ T \subseteq SUBSET S
      /\ \A t \in SUBSET S : t \in T <=> ~ \E h : SumsUp(h, g, t)
  OBVIOUS
<1> HIDE DEF T
<1>1. PICK s \in T : \A t \in SUBSET s : t # s => t \notin T
  BY <1>0, SmallestSet
<1>2. s \in SUBSET S /\ ~ \E h : SumsUp(h, g, s)
  BY <1>0
<1> DEFINE H(t) == CHOOSE h : SumsUp(h, g, t)
<1>3. ASSUME NEW t \in SUBSET s, t # s
      PROVE  SumsUp(H(t), g, t)
  <2>1. \E h : SumsUp(h, g, t)
    BY <1>0, <1>1, <1>2, <1>3
  <2> QED
    BY <2>1
<1> DEFINE p == First(s)
           hh == [t \in SUBSET s |-> IF t = {} THEN 0
                                     ELSE IF t = s THEN g[p] + H(s \ {p})[s \ {p}] ELSE H(t)[t]]
<1>4. SumsUp(hh, g, s)
  <2>1. ASSUME NEW t \in SUBSET s, t # {}
        PROVE  hh[t] = g[First(t)] + hh[t \ {First(t)}]
    <3> DEFINE u == t \ {First(t)}
    <3>1. u \in SUBSET t /\ u # t /\ u \in SUBSET s /\ u # s
      BY <2>1, FirstIn
    <3>2. hh[u] = H(u)[u]
      <4>1. SumsUp(H(u), g, u)
        BY <1>3, <3>1
      <4>2. u = {} => H(u)[u] = 0
        BY <4>1, SumsStep
      <4> HIDE DEF u, H
      <4> QED
        BY <3>1, <4>2
    <3>3. CASE t = s
      BY <3>2, <3>3, <2>1
    <3>4. CASE t # s
      <4>1. SumsUp(H(t), g, t) /\ SumsUp(H(u), g, u)
        BY <1>3, <3>1, <3>4
      <4>2. IsFiniteSet(t)
        BY <1>2, FS_Subset
      <4>3. H(u)[u] = H(t)[u]
        BY <3>1, <4>1, <4>2, SumsRestrict
      <4>4. H(t)[t] = g[First(t)] + H(t)[u]
        BY <2>1, <4>1, SumsStep
      <4>5. hh[t] = H(t)[t]
        BY <2>1, <3>4
      <4>6. hh[u] = H(t)[u]
        BY <3>2, <4>3
      <4> HIDE DEF u, H, hh
      <4>7. hh[t] = g[First(t)] + hh[u]
        BY <4>4, <4>5, <4>6
      <4> QED
        BY <4>7 DEF u
    <3> QED
      BY <3>3, <3>4
  <2>2. hh[{}] = 0
    OBVIOUS
  <2>3. hh = [t \in SUBSET s |-> hh[t]]
    OBVIOUS
  <2> HIDE DEF hh
  <2> QED
    BY <2>1, <2>2, <2>3 DEF SumsUp
<1> QED
  BY <1>2, <1>4

\* A sum of integers is an integer.
LEMMA SumType ==
    ASSUME NEW S, IsFiniteSet(S), NEW g \in [S -> Int], NEW h, SumsUp(h, g, S)
    PROVE  \A s \in SUBSET S : h[s] \in Int
<1> DEFINE T == {s \in SUBSET S : h[s] \notin Int}
<1> SUFFICES ASSUME T # {} PROVE FALSE
  OBVIOUS
<1>0. T \subseteq SUBSET S /\ \A t \in SUBSET S : t \in T <=> h[t] \notin Int
  OBVIOUS
<1> HIDE DEF T
<1>1. PICK s \in T : \A t \in SUBSET s : t # s => t \notin T
  BY <1>0, SmallestSet
<1>2. s # {} /\ s \in SUBSET S
  <2>1. s \in SUBSET S /\ h[s] \notin Int
    BY <1>0
  <2>2. s = {} => h[s] = 0
    BY <2>1, SumsStep
  <2> QED
    BY <2>1, <2>2
<1>3. s \ {First(s)} \in SUBSET s /\ s \ {First(s)} # s /\ First(s) \in S
  BY <1>2, FirstIn
<1>4. h[s \ {First(s)}] \in Int /\ g[First(s)] \in Int
  BY <1>0, <1>1, <1>2, <1>3
<1>5. h[s] = g[First(s)] + h[s \ {First(s)}]
  BY <1>2, SumsStep
<1> QED
  BY <1>0, <1>2, <1>4, <1>5

\* The order does not matter.
LEMMA SumAny ==
    ASSUME NEW S, IsFiniteSet(S), NEW g \in [S -> Int], NEW h, SumsUp(h, g, S),
           NEW s0 \in SUBSET S, NEW y0 \in s0
    PROVE  h[s0] = g[y0] + h[s0 \ {y0}]
<1> DEFINE Off(s) == \E y \in s : h[s] # g[y] + h[s \ {y}]
           T == {s \in SUBSET S : Off(s)}
<1>0. T \subseteq SUBSET S /\ \A t \in SUBSET S : t \in T <=> Off(t)
  OBVIOUS
<1> SUFFICES ASSUME h[s0] # g[y0] + h[s0 \ {y0}] PROVE FALSE
  OBVIOUS
<1> HIDE DEF T
<1>1. PICK s \in T : \A t \in SUBSET s : t # s => t \notin T
  <2>1. s0 \in T
    BY <1>0
  <2> QED
    BY <1>0, <2>1, SmallestSet
<1>2. s \in SUBSET S /\ Off(s)
  BY <1>0
<1>9. PICK y \in s : h[s] # g[y] + h[s \ {y}]
  BY <1>2
<1>8. ASSUME NEW t \in SUBSET s, t # s, NEW z \in t
      PROVE  h[t] = g[z] + h[t \ {z}]
  BY <1>0, <1>1, <1>2, <1>8
<1> HIDE DEF Off
<1> DEFINE x == First(s)
           r == (s \ {x}) \ {y}
<1>3. x \in s /\ h[s] = g[x] + h[s \ {x}]
  <2>1. s # {}
    OBVIOUS
  <2> QED
    BY <1>2, <2>1, FirstIn, SumsStep
<1> HIDE DEF x
<1>4. x # y
  BY <1>9, <1>3
<1>5. h[s \ {x}] = g[y] + h[r]
  <2>1. s \ {x} \in SUBSET s /\ s \ {x} # s /\ y \in s \ {x} /\ s \ {x} \in SUBSET S
    BY <1>2, <1>3, <1>4
  <2> QED
    BY <1>8, <2>1
<1>6. h[s \ {y}] = g[x] + h[r]
  <2>1. s \ {y} \in SUBSET s /\ s \ {y} # s /\ x \in s \ {y} /\ s \ {y} \in SUBSET S
    BY <1>2, <1>3, <1>4
  <2>2. (s \ {y}) \ {x} = r
    OBVIOUS
  <2>3. h[s \ {y}] = g[x] + h[(s \ {y}) \ {x}]
    BY <1>8, <2>1
  <2> QED
    BY <2>2, <2>3
<1>7. g[x] \in Int /\ g[y] \in Int /\ h[r] \in Int
  <2>1. r \in SUBSET S /\ x \in S /\ y \in S
    BY <1>2, <1>3
  <2> QED
    BY <2>1, SumType
<1> QED
  BY <1>9, <1>3, <1>5, <1>6, <1>7

\* One element more, by two sums of their own.
LEMMA SumTotal ==
    ASSUME NEW S, IsFiniteSet(S), NEW g \in [S -> Int], NEW h, SumsUp(h, g, S),
           NEW y \in S, NEW R, R = S \ {y}, NEW h0, SumsUp(h0, g, R)
    PROVE  h[S] = g[y] + h0[R]
<1>1. S \in SUBSET S /\ R \in SUBSET S
  OBVIOUS
<1>2. ASSUME NEW s \in SUBSET S, NEW z \in s
      PROVE  h[s] = g[z] + h[s \ {z}]
  BY SumAny
<1>3. h[S] = g[y] + h[S \ {y}]
  BY <1>1, <1>2
<1>4. h0[R] = h[R]
  BY <1>1, SumsRestrict
<1> QED
  BY <1>3, <1>4

CashSum(S) == MapThenSumSet(LAMBDA o : o.cash, S)

\* The fold that the ledger of the cash is summed up with is such a sum.
LEMMA CashSumIs ==
    ASSUME NEW S, IsFiniteSet(S), NEW g, \A o \in S : g[o] = o.cash
    PROVE  \E h : SumsUp(h, g, S) /\ CashSum(S) = h[S]
<1> DEFINE Body(h) == [s \in SUBSET S |-> IF s = {} THEN 0
                         ELSE (CHOOSE x \in s : TRUE).cash + h[s \ {CHOOSE x \in s : TRUE}]]
           hh == CHOOSE h : h = Body(h)
<1>1. PICK h : SumsUp(h, g, S)
  BY SumExists
<1>2. ASSUME NEW h1 PROVE SumsUp(h1, g, S) <=> h1 = Body(h1)
  <2>1. \A s \in SUBSET S : s # {} => First(s) \in S
    BY FirstIn
  <2>2. [s \in SUBSET S |-> IF s = {} THEN 0 ELSE g[First(s)] + h1[s \ {First(s)}]]
        = [s \in SUBSET S |-> IF s = {} THEN 0 ELSE First(s).cash + h1[s \ {First(s)}]]
    BY <2>1
  <2> QED
    BY <2>2 DEF SumsUp, First
<1>3. h = Body(h)
  BY <1>1, <1>2
<1>4. hh = Body(hh)
  <2> HIDE DEF Body
  <2> QED
    BY <1>3
<1>5. SumsUp(hh, g, S)
  BY <1>2, <1>4
<1>6. CashSum(S) = hh[S]
  BY DEF CashSum, MapThenSumSet, MapThenFoldSet
<1> HIDE DEF hh
<1> QED
  BY <1>5, <1>6

\* What the cash ledger adds up to.
LEMMA CashSumFacts ==
    ASSUME NEW S, IsFiniteSet(S), \A o \in S : o.cash \in Int
    PROVE  /\ CashSum(S) \in Int
           /\ S = {} => CashSum(S) = 0
           /\ \A y \in S : CashSum(S) = y.cash + CashSum(S \ {y})
<1> DEFINE g == [o \in S |-> o.cash]
<1>1. g \in [S -> Int] /\ \A o \in S : g[o] = o.cash
  OBVIOUS
<1> HIDE DEF g
<1>2. PICK h : SumsUp(h, g, S) /\ CashSum(S) = h[S]
  BY <1>1, CashSumIs
<1>3. h[S] \in Int
  BY <1>1, <1>2, SumType
<1>4. S = {} => h[S] = 0
  BY <1>2, SumsStep
<1>5. ASSUME NEW y \in S
      PROVE  CashSum(S) = y.cash + CashSum(S \ {y})
  <2> DEFINE R == S \ {y}
  <2>1. IsFiniteSet(R) /\ R \in SUBSET S /\ \A o \in R : g[o] = o.cash
    BY <1>1, FS_RemoveElement
  <2>2. PICK h0 : SumsUp(h0, g, R) /\ CashSum(R) = h0[R]
    BY <2>1, CashSumIs
  <2>3. R = S \ {y}
    OBVIOUS
  <2> HIDE DEF R
  <2>4. h[S] = g[y] + h0[R]
    BY <1>1, <1>2, <2>2, <2>3, SumTotal
  <2>5. CashSum(S) = y.cash + CashSum(R)
    BY <1>1, <1>2, <2>2, <2>4
  <2> QED
    BY <2>5 DEF R
<1> QED
  BY <1>2, <1>3, <1>4, <1>5

\* An order more adds its amount.
LEMMA CashSumAdd ==
    ASSUME NEW S, IsFiniteSet(S), \A o \in S : o.cash \in Int,
           NEW y, y \notin S, y.cash \in Int
    PROVE  CashSum(S \cup {y}) = CashSum(S) + y.cash
<1> DEFINE T == S \cup {y}
<1>1. IsFiniteSet(T) /\ (\A o \in T : o.cash \in Int) /\ y \in T /\ T \ {y} = S
  BY FS_AddElement
<1> HIDE DEF T
<1>2. CashSum(T) = y.cash + CashSum(S)
  BY <1>1, CashSumFacts
<1>3. CashSum(S) \in Int
  BY CashSumFacts
<1> QED
  BY <1>2, <1>3 DEF T

PositionSum(S) == MapThenSumSet(LAMBDA o : o.position, S)

\* So is the one that the ledger of a position is summed up with.
LEMMA PositionSumIs ==
    ASSUME NEW S, IsFiniteSet(S), NEW g, \A o \in S : g[o] = o.position
    PROVE  \E h : SumsUp(h, g, S) /\ PositionSum(S) = h[S]
<1> DEFINE Body(h) == [s \in SUBSET S |-> IF s = {} THEN 0
                         ELSE (CHOOSE x \in s : TRUE).position + h[s \ {CHOOSE x \in s : TRUE}]]
           hh == CHOOSE h : h = Body(h)
<1>1. PICK h : SumsUp(h, g, S)
  BY SumExists
<1>2. ASSUME NEW h1 PROVE SumsUp(h1, g, S) <=> h1 = Body(h1)
  <2>1. \A s \in SUBSET S : s # {} => First(s) \in S
    BY FirstIn
  <2>2. [s \in SUBSET S |-> IF s = {} THEN 0 ELSE g[First(s)] + h1[s \ {First(s)}]]
        = [s \in SUBSET S |-> IF s = {} THEN 0 ELSE First(s).position + h1[s \ {First(s)}]]
    BY <2>1
  <2> QED
    BY <2>2 DEF SumsUp, First
<1>3. h = Body(h)
  BY <1>1, <1>2
<1>4. hh = Body(hh)
  <2> HIDE DEF Body
  <2> QED
    BY <1>3
<1>5. SumsUp(hh, g, S)
  BY <1>2, <1>4
<1>6. PositionSum(S) = hh[S]
  BY DEF PositionSum, MapThenSumSet, MapThenFoldSet
<1> HIDE DEF hh
<1> QED
  BY <1>5, <1>6

\* What the position ledger adds up to.
LEMMA PositionSumFacts ==
    ASSUME NEW S, IsFiniteSet(S), \A o \in S : o.position \in Int
    PROVE  /\ PositionSum(S) \in Int
           /\ S = {} => PositionSum(S) = 0
           /\ \A y \in S : PositionSum(S) = y.position + PositionSum(S \ {y})
<1> DEFINE g == [o \in S |-> o.position]
<1>1. g \in [S -> Int] /\ \A o \in S : g[o] = o.position
  OBVIOUS
<1> HIDE DEF g
<1>2. PICK h : SumsUp(h, g, S) /\ PositionSum(S) = h[S]
  BY <1>1, PositionSumIs
<1>3. h[S] \in Int
  BY <1>1, <1>2, SumType
<1>4. S = {} => h[S] = 0
  BY <1>2, SumsStep
<1>5. ASSUME NEW y \in S
      PROVE  PositionSum(S) = y.position + PositionSum(S \ {y})
  <2> DEFINE R == S \ {y}
  <2>1. IsFiniteSet(R) /\ R \in SUBSET S /\ \A o \in R : g[o] = o.position
    BY <1>1, FS_RemoveElement
  <2>2. PICK h0 : SumsUp(h0, g, R) /\ PositionSum(R) = h0[R]
    BY <2>1, PositionSumIs
  <2>3. R = S \ {y}
    OBVIOUS
  <2> HIDE DEF R
  <2>4. h[S] = g[y] + h0[R]
    BY <1>1, <1>2, <2>2, <2>3, SumTotal
  <2>5. PositionSum(S) = y.position + PositionSum(R)
    BY <1>1, <1>2, <2>2, <2>4
  <2> QED
    BY <2>5 DEF R
<1> QED
  BY <1>2, <1>3, <1>4, <1>5

LEMMA PositionSumAdd ==
    ASSUME NEW S, IsFiniteSet(S), \A o \in S : o.position \in Int,
           NEW y, y \notin S, y.position \in Int
    PROVE  PositionSum(S \cup {y}) = PositionSum(S) + y.position
<1> DEFINE T == S \cup {y}
<1>1. IsFiniteSet(T) /\ (\A o \in T : o.position \in Int) /\ y \in T /\ T \ {y} = S
  BY FS_AddElement
<1> HIDE DEF T
<1>2. PositionSum(T) = y.position + PositionSum(S)
  BY <1>1, PositionSumFacts
<1>3. PositionSum(S) \in Int
  BY PositionSumFacts
<1> QED
  BY <1>2, <1>3 DEF T


-----------------------------------------------------------------------------
(* Sums over sets of assets *)

\* The sums of g over the sets of assets.
Sums(g) == CHOOSE h : SumsUp(h, g, Assets)

\* They start at zero and grow by the amount of each asset, in any order.
LEMMA SumsAre ==
    ASSUME NEW g \in [Assets -> Int]
    PROVE  /\ SumsUp(Sums(g), g, Assets)
           /\ Sums(g)[{}] = 0
           /\ \A s \in SUBSET Assets : Sums(g)[s] \in Int
           /\ \A s \in SUBSET Assets : \A y \in s : Sums(g)[s] = g[y] + Sums(g)[s \ {y}]
<1>1. IsFiniteSet(Assets)
  BY AccountAssumption
<1>2. SumsUp(Sums(g), g, Assets)
  BY <1>1, SumExists DEF Sums
<1> DEFINE h == Sums(g)
<1> HIDE DEF h
<1>3. SumsUp(h, g, Assets)
  BY <1>2 DEF h
<1>4. h[{}] = 0
  BY <1>3, SumsStep
<1>5. \A s \in SUBSET Assets : h[s] \in Int
  BY <1>1, <1>3, SumType
<1>6. ASSUME NEW s \in SUBSET Assets, NEW y \in s
      PROVE  h[s] = g[y] + h[s \ {y}]
  BY <1>1, <1>3, SumAny
<1> QED
  BY <1>3, <1>4, <1>5, <1>6 DEF h

\* Amounts that agree on a set have one sum over it.
LEMMA SumsAgree ==
    ASSUME NEW g \in [Assets -> Int], NEW f \in [Assets -> Int],
           NEW s0 \in SUBSET Assets, \A y \in s0 : f[y] = g[y]
    PROVE  Sums(f)[s0] = Sums(g)[s0]
<1> DEFINE T == {s \in SUBSET s0 : Sums(f)[s] # Sums(g)[s]}
<1>0. T \subseteq SUBSET s0 /\ \A t \in SUBSET s0 : t \in T <=> Sums(f)[t] # Sums(g)[t]
  OBVIOUS
<1> SUFFICES ASSUME T # {} PROVE FALSE
  BY <1>0
<1> HIDE DEF T
<1>1. IsFiniteSet(s0)
  BY AccountAssumption, FS_Subset
<1>2. PICK s \in T : \A t \in SUBSET s : t # s => t \notin T
  BY <1>0, <1>1, SmallestSet
<1>3. s \in SUBSET s0 /\ s \in SUBSET Assets /\ Sums(f)[s] # Sums(g)[s]
  BY <1>0
<1>4. s # {}
  <2>1. Sums(f)[{}] = 0 /\ Sums(g)[{}] = 0
    BY SumsAre
  <2> QED
    BY <1>3, <2>1
<1>5. PICK y \in s : TRUE
  BY <1>4
<1>6. s \ {y} \in SUBSET s /\ s \ {y} # s /\ s \ {y} \in SUBSET s0
  BY <1>3
<1>7. Sums(f)[s \ {y}] = Sums(g)[s \ {y}]
  BY <1>0, <1>2, <1>6
<1>8. Sums(f)[s] = f[y] + Sums(f)[s \ {y}] /\ Sums(g)[s] = g[y] + Sums(g)[s \ {y}]
  BY <1>3, SumsAre
<1> QED
  BY <1>3, <1>7, <1>8

\* Amounts that are not negative have such a sum.
LEMMA SumsNat ==
    ASSUME NEW g \in [Assets -> Nat], NEW s0 \in SUBSET Assets
    PROVE  Sums(g)[s0] \in Nat
<1> DEFINE T == {s \in SUBSET s0 : Sums(g)[s] \notin Nat}
<1>0. T \subseteq SUBSET s0 /\ \A t \in SUBSET s0 : t \in T <=> Sums(g)[t] \notin Nat
  OBVIOUS
<1> SUFFICES ASSUME T # {} PROVE FALSE
  BY <1>0
<1> HIDE DEF T
<1>9. g \in [Assets -> Int]
  OBVIOUS
<1>1. IsFiniteSet(s0)
  BY AccountAssumption, FS_Subset
<1>2. PICK s \in T : \A t \in SUBSET s : t # s => t \notin T
  BY <1>0, <1>1, SmallestSet
<1>3. s \in SUBSET s0 /\ s \in SUBSET Assets /\ Sums(g)[s] \notin Nat
  BY <1>0
<1>4. s # {}
  <2>1. Sums(g)[{}] = 0
    BY <1>9, SumsAre
  <2> QED
    BY <1>3, <2>1
<1>5. PICK y \in s : TRUE
  BY <1>4
<1>6. s \ {y} \in SUBSET s /\ s \ {y} # s /\ s \ {y} \in SUBSET s0
  BY <1>3
<1>7. Sums(g)[s \ {y}] \in Nat
  BY <1>0, <1>2, <1>6
<1>8. Sums(g)[s] = g[y] + Sums(g)[s \ {y}]
  BY <1>3, <1>9, SumsAre
<1>10. g[y] \in Nat
  BY <1>3
<1> HIDE DEF T
<1> QED
  BY <1>3, <1>7, <1>8, <1>10

\* An asset more adds its amount.
LEMMA SumsMore ==
    ASSUME NEW g \in [Assets -> Int], NEW f \in [Assets -> Int], NEW a \in Assets,
           NEW s \in SUBSET Assets, a \notin s, \A b \in s : f[b] = g[b]
    PROVE  Sums(f)[s \cup {a}] = f[a] + Sums(g)[s]
<1>1. s \cup {a} \in SUBSET Assets /\ (s \cup {a}) \ {a} = s
  OBVIOUS
<1>2. Sums(f)[s \cup {a}] = f[a] + Sums(f)[(s \cup {a}) \ {a}]
  BY <1>1, SumsAre
<1>3. Sums(f)[s] = Sums(g)[s]
  BY SumsAgree
<1> QED
  BY <1>1, <1>2, <1>3

\* The amount of one asset is another one.
LEMMA SumsChange ==
    ASSUME NEW g \in [Assets -> Int], NEW f \in [Assets -> Int], NEW a \in Assets,
           \A b \in Assets \ {a} : f[b] = g[b]
    PROVE  Sums(f)[Assets] = f[a] + Sums(g)[Assets \ {a}]
<1>1. Assets \in SUBSET Assets /\ Assets \ {a} \in SUBSET Assets
  OBVIOUS
<1>2. Sums(f)[Assets] = f[a] + Sums(f)[Assets \ {a}]
  BY <1>1, SumsAre
<1>3. Sums(f)[Assets \ {a}] = Sums(g)[Assets \ {a}]
  BY <1>1, SumsAgree
<1> QED
  BY <1>2, <1>3

-----------------------------------------------------------------------------
(* Arithmetic *)

\* Products, quotients and remainders, once for all.
LEMMA Times == ASSUME NEW a \in Nat, NEW b \in Nat PROVE a * b \in Nat
OBVIOUS

LEMMA TimesPositive ==
    ASSUME NEW a \in Nat \ {0}, NEW b \in Nat \ {0} PROVE a * b \in Nat \ {0}
OBVIOUS

LEMMA Divided ==
    ASSUME NEW a \in Nat, NEW d \in Nat \ {0}
    PROVE  a \div d \in Nat /\ (a \div d) * d <= a
OBVIOUS

LEMMA Multiple == ASSUME NEW a \in Nat, NEW d \in Nat \ {0} PROVE (a * d) % d = 0
OBVIOUS

\* floor_step gives a multiple of the step, no more than its argument.
LEMMA FloorFacts ==
    ASSUME NEW num \in Nat, NEW den \in Nat \ {0}, NEW step \in Nat \ {0}
    PROVE  /\ Floor(num, den, step) \in Nat
           /\ Floor(num, den, step) * den <= num
           /\ Floor(num, den, step) % step = 0
<1> DEFINE d == den * step
           n == num \div d
<1>1. d \in Nat \ {0}
  BY TimesPositive
<1> HIDE DEF d
<1>2. n \in Nat /\ n * d <= num
  BY <1>1, Divided
<1> HIDE DEF n
<1>3. Floor(num, den, step) = n * step
  BY DEF Floor, n, d
<1>4. n * step \in Nat /\ (n * step) % step = 0
  BY <1>2, Times, Multiple
<1>5. (n * step) * den = n * d
  BY <1>2 DEF d
<1> QED
  BY <1>2, <1>3, <1>4, <1>5

-----------------------------------------------------------------------------
(* The arithmetic of the reconciliation *)

LEMMA QuotientUnique ==
    ASSUME NEW d \in Nat \ {0}, NEW q \in Int, NEW n \in Int, 0 <= n, n < d
    PROVE  (q * d + n) \div d = q
OBVIOUS

LEMMA Division ==
    ASSUME NEW n \in Nat, NEW d \in Nat \ {0}
    PROVE  /\ n \div d \in Nat /\ n % d \in Nat /\ n % d < d
           /\ n = (n \div d) * d + (n % d)
<1>1. n \div d \in Nat
  BY Divided
<1>2. n % d \in Nat /\ n % d <= d - 1
  OBVIOUS
<1>3. n = (n \div d) * d + (n % d)
  OBVIOUS
<1> QED
  BY <1>1, <1>2, <1>3

LEMMA QuotientBelow ==
    ASSUME NEW n \in Nat, NEW d \in Nat \ {0}, NEW b \in Nat, n < b * d
    PROVE  n \div d \in Nat /\ n \div d < b
<1> DEFINE e == n \div d
<1>1. e \in Nat /\ e * d <= n
  BY Divided
<1> HIDE DEF e
<1>2. e * d < b * d
  <2>1. e * d \in Nat /\ b * d \in Nat
    BY <1>1, Times
  <2> QED
    BY <1>1, <2>1
<1>3. ~ (b <= e)
  <2>1. b <= e => b * d <= e * d
    BY <1>1
  <2>2. e * d \in Nat /\ b * d \in Nat
    BY <1>1, Times
  <2> QED
    BY <1>2, <2>1, <2>2
<1> QED
  BY <1>1, <1>3 DEF e

\* A quantity that keeps its cell is cut to the same multiple by both.
LEMMA ReplayedFloorIs ==
    ASSUME NEW num \in Nat, NEW den \in Nat \ {0}, NEW step \in Nat \ {0},
           NEW unit \in Nat \ {0}, NEW off \in Int,
           NEW place \in Int, place = (num % (den * step)) * unit + off,
           0 <= place,
           2 * Digits * place + unit * (den * step) < 2 * Digits * unit * (den * step)
    PROVE  ReplayedFloor(num * unit + off, den * unit, step) = Floor(num, den, step)
<1> DEFINE cell == den * step
           k    == num \div cell
           r    == num % cell
           M    == unit * cell
           rest == 2 * (place * Digits) + M
           e    == rest \div (2 * M)
<1>1. cell \in Nat \ {0} /\ M \in Nat \ {0} /\ 2 * M \in Nat \ {0} /\ Digits \in Nat \ {0}
  <2>1. cell \in Nat \ {0}
    BY TimesPositive
  <2> HIDE DEF cell
  <2>2. M \in Nat \ {0}
    BY <2>1, TimesPositive
  <2> QED
    BY <2>1, <2>2, ReplayAssumption
<1>2. k \in Nat /\ r \in Nat /\ num = k * cell + r
  <2> HIDE DEF cell
  <2> QED
    BY <1>1
<1>3. place \in Nat /\ place = r * unit + off /\ place * Digits \in Nat /\ rest \in Nat
  <2>1. place \in Nat /\ place = r * unit + off
    OBVIOUS
  <2>2. place * Digits \in Nat
    BY <1>1, <2>1, Times
  <2> HIDE DEF M
  <2> QED
    BY <1>1, <2>1, <2>2
<1>4. rest < Digits * (2 * M)
  <2>1. 2 * Digits * place = 2 * (place * Digits)
    BY <1>1, <1>3
  <2>2. 2 * Digits * unit * cell = Digits * (2 * M)
    <3> HIDE DEF cell
    <3> QED
      BY <1>1 DEF M
  <2> QED
    BY <2>1, <2>2
<1>5. e \in Nat /\ e < Digits
  <2> HIDE DEF rest, M
  <2> QED
    BY <1>1, <1>3, <1>4, QuotientBelow
<1>6. k * M \in Nat /\ num * unit + off = k * M + place
  <2> HIDE DEF cell, k, r
  <2>1. k * M \in Nat
    BY <1>1, <1>2, Times
  <2>2. num * unit = (k * cell) * unit + r * unit
    BY <1>1, <1>2
  <2>3. (k * cell) * unit = k * M
    BY <1>1, <1>2 DEF M
  <2>4. num * unit \in Nat /\ r * unit \in Nat
    BY <1>2, Times
  <2>5. num * unit = k * M + r * unit
    BY <2>2, <2>3
  <2> DEFINE nu == num * unit
             km == k * M
             ru == r * unit
  <2> HIDE DEF nu, km, ru
  <2>6. /\ nu = km + ru /\ place = ru + off
        /\ nu \in Nat /\ km \in Nat /\ ru \in Nat /\ off \in Int
    BY <1>3, <2>1, <2>4, <2>5 DEF nu, km, ru
  <2>7. nu + off = km + place
    BY <2>6
  <2> QED
    BY <2>1, <2>7 DEF nu, km
<1>7. k * Digits \in Nat
  BY <1>1, <1>2, Times
<1>8. 2 * (num * unit + off) * Digits + M = (k * Digits) * (2 * M) + rest
  <2> HIDE DEF k, M, cell, r
  <2>1. 2 * (num * unit + off) * Digits = 2 * ((k * M) * Digits) + 2 * (place * Digits)
    BY <1>1, <1>3, <1>6
  <2>2. 2 * ((k * M) * Digits) = (k * Digits) * (2 * M)
    BY <1>1, <1>2
  <2>3. (k * Digits) * (2 * M) \in Nat
    BY <1>1, <1>7, Times
  <2> QED
    BY <1>1, <1>3, <2>1, <2>2, <2>3
<1>9. ((k * Digits) * (2 * M) + rest) \div (2 * M) = k * Digits + e
  <2> DEFINE f == rest % (2 * M)
             b == 2 * M
  <2>1. f \in Nat /\ f < b /\ rest = e * b + f /\ b \in Nat \ {0}
    <3> HIDE DEF rest, M
    <3> QED
      BY <1>1, <1>3, Division
  <2> HIDE DEF f, e, rest, b, M, k
  <2>2. k * Digits + e \in Int /\ f \in Int /\ 0 <= f
    BY <1>5, <1>7, <2>1
  <2>3. (k * Digits) * b + rest = (k * Digits + e) * b + f
    BY <1>5, <1>7, <2>1
  <2>4. ((k * Digits + e) * b + f) \div b = k * Digits + e
    BY <2>1, <2>2, QuotientUnique
  <2> QED
    BY <2>3, <2>4 DEF b
<1>10. (k * Digits + e) \div Digits = k
  <2> HIDE DEF k, e
  <2> QED
    BY <1>1, <1>2, <1>5, QuotientUnique
<1>11. (den * unit) * step = M /\ 2 * (den * unit) * step = 2 * M
  BY DEF M, cell
<1>12. ReplayedFloor(num * unit + off, den * unit, step) = k * step
  <2> HIDE DEF k, e, M, rest
  <2> QED
    BY <1>8, <1>9, <1>10, <1>11 DEF ReplayedFloor
<1> QED
  BY <1>12 DEF Floor

\* A whole number keeps its cell where a quotient has more digits than the step.
LEMMA WholeFloorIs ==
    ASSUME NEW q \in Nat, NEW step \in Nat \ {0}, step < 2 * Digits
    PROVE  ReplayedFloor(q, 1, step) = Floor(q, 1, step)
<1> DEFINE place == q % step
           one  == 1
           zero == 0
<1>1. Digits \in Nat \ {0} /\ one \in Nat \ {0} /\ zero \in Int
  BY ReplayAssumption
<1>2. place \in Nat /\ place <= step - 1
  OBVIOUS
<1>3. one * step = step /\ place = (q % (one * step)) * one + zero
  OBVIOUS
<1> HIDE DEF place
<1>4. 2 * Digits * place <= 2 * Digits * (step - 1)
  <2> DEFINE b == 2 * Digits
  <2>1. b \in Nat
    BY <1>1
  <2> HIDE DEF b
  <2>2. b * place <= b * (step - 1)
    BY <1>2, <2>1
  <2> QED
    BY <2>2 DEF b
<1>5. 2 * Digits * (step - 1) = 2 * Digits * step - 2 * Digits
  BY <1>1
<1>6. 2 * Digits * place + one * (one * step) < 2 * Digits * one * (one * step)
  <2>1. 2 * Digits * place \in Int /\ 2 * Digits * step \in Int
    BY <1>1, <1>2
  <2>2. 2 * Digits * one * (one * step) = 2 * Digits * step
    BY <1>1
  <2> QED
    BY <1>1, <1>4, <1>5, <2>1, <2>2
<1>7. q * one + zero = q /\ one * one = one /\ one = 1
  OBVIOUS
<1> HIDE DEF one, zero
<1>8. ReplayedFloor(q * one + zero, one * one, step) = Floor(q, one, step)
  <2>1. place \in Int /\ 0 <= place
    BY <1>2
  <2> QED
    BY <1>1, <1>3, <1>6, <2>1, ReplayedFloorIs
<1> QED
  BY <1>7, <1>8

\* It is on a grid for the reconciliation when it is a multiple of the step.
LEMMA OnStepIs ==
    ASSUME NEW q \in Nat, NEW step \in Nat \ {0}, step < 2 * Digits
    PROVE  OnStep(q, step) <=> Aligned(q, step)
<1> DEFINE k == q \div step
           r == q % step
<1>1. k \in Nat /\ r \in Nat /\ q = k * step + r
  OBVIOUS
<1>2. OnStep(q, step) <=> k * step = q
  <2>1. 1 * step = step
    OBVIOUS
  <2> QED
    BY <2>1, WholeFloorIs DEF OnStep, Floor
<1>3. k * step \in Nat
  BY <1>1, Times
<1> HIDE DEF k
<1> QED
  BY <1>1, <1>2, <1>3 DEF Aligned

-----------------------------------------------------------------------------
(* Market evidence *)

\* The types of a quote and its rules.
LEMMA MarketFacts ==
    ASSUME NEW m \in Market
    PROVE  /\ m.rules \in Rules
           /\ m.rules.step \in Nat \ {0} /\ m.rules.mstep \in Nat
           /\ m.bid \in Nat \ {0} /\ m.ask \in Nat \ {0} /\ m.last \in Nat \ {0}
           /\ m.reference \in Nat /\ RuleReference(m) \in Nat
BY DEF Market, Rules, RuleReference

LEMMA MidFacts ==
    ASSUME NEW m \in Market, m.bid <= m.ask
    PROVE  Mid(m) \in Nat \ {0}
<1>1. m.bid \in Nat \ {0} /\ m.ask \in Nat \ {0}
  BY DEF Market
<1> QED
  BY <1>1 DEF Mid

LEMMA PriceFacts ==
    ASSUME NEW m \in Market, MarketFit(m)
    PROVE  Price(m, "BUY") \in Nat /\ Price(m, "SELL") \in Nat \ {0}
<1>1. m.bid \in Nat \ {0} /\ m.ask \in Nat \ {0} /\ Mid(m) \in Nat \ {0}
  BY MidFacts DEF Market, MarketFit
<1>2. Spread \in Nat /\ Slip \in Nat
  BY CostsAssumption
<1>3. Price(m, "SELL") > 0
  BY DEF MarketFit
<1> QED
  BY <1>1, <1>2, <1>3 DEF Price

LEMMA PriceInt ==
    ASSUME NEW m \in Market, NEW s
    PROVE  Price(m, s) \in Int
<1>1. m.bid \in Nat \ {0} /\ m.ask \in Nat \ {0}
  BY DEF Market
<1>2. Spread \in Nat /\ Slip \in Nat
  BY CostsAssumption
<1>3. Mid(m) \in Int
  BY <1>1 DEF Mid
<1> QED
  BY <1>1, <1>2, <1>3 DEF Price

\* Both grids: a whole number, not above the argument, on both of them.
LEMMA GridFacts ==
    ASSUME NEW m \in Market, NEW num \in Nat, NEW den \in Nat \ {0}
    PROVE  /\ OnLotGrid(m, num, den) \in Nat
           /\ OnGrids(m, num, den) \in Nat
           /\ OnGrids(m, num, den) <= OnLotGrid(m, num, den)
           /\ OnLotGrid(m, num, den) * den <= num
           /\ OnGrids(m, num, den) * den <= num
           /\ m.rules.mstep > 0 => OnGrids(m, num, den) % m.rules.mstep = 0
<1> DEFINE lot == OnLotGrid(m, num, den)
           q   == OnGrids(m, num, den)
<1>1. m.rules.step \in Nat \ {0} /\ m.rules.mstep \in Nat
  BY MarketFacts
<1>2. lot \in Nat /\ lot * den <= num
  BY <1>1, FloorFacts DEF OnLotGrid
<1> HIDE DEF lot
<1>3. q = IF m.rules.mstep > 0 THEN Floor(lot, 1, m.rules.mstep) ELSE lot
  BY DEF OnGrids, lot
<1> HIDE DEF q
<1>4. /\ q \in Nat /\ q <= lot
      /\ m.rules.mstep > 0 => q % m.rules.mstep = 0
  <2>1. CASE m.rules.mstep > 0
    <3>1. m.rules.mstep \in Nat \ {0} /\ 1 \in Nat \ {0}
      BY <1>1, <2>1
    <3>2. /\ Floor(lot, 1, m.rules.mstep) \in Nat
          /\ Floor(lot, 1, m.rules.mstep) * 1 <= lot
          /\ Floor(lot, 1, m.rules.mstep) % m.rules.mstep = 0
      BY <1>2, <3>1, FloorFacts
    <3> QED
      BY <1>2, <1>3, <2>1, <3>2
  <2>2. CASE ~(m.rules.mstep > 0)
    BY <1>2, <1>3, <2>2
  <2> QED
    BY <2>1, <2>2
<1>5. q * den <= lot * den
  BY <1>2, <1>4
<1>6. q * den <= num
  BY <1>2, <1>4, <1>5
<1> QED
  BY <1>2, <1>4, <1>6 DEF lot, q

-----------------------------------------------------------------------------
(* The first check that fails *)

LEMMA LeastFailing ==
    ASSUME NEW n \in Nat, NEW c, \E i \in 1 .. n : ~ c[i].holds
    PROVE  \E i \in 1 .. n : ~ c[i].holds /\ \A j \in 1 .. i - 1 : c[j].holds
<1> DEFINE T == {s \in SUBSET (1 .. n) : \E i \in 1 .. n : s = 1 .. i /\ ~ c[i].holds}
<1>1. T \subseteq SUBSET (1 .. n) /\ T # {}
  <2>1. PICK i \in 1 .. n : ~ c[i].holds
    OBVIOUS
  <2>2. 1 .. i \in T
    BY <2>1
  <2> QED
    BY <2>2
<1>2. \A i \in 1 .. n : ~ c[i].holds => 1 .. i \in T
  OBVIOUS
<1>3. \A s \in T : \E i \in 1 .. n : s = 1 .. i /\ ~ c[i].holds
  OBVIOUS
<1> HIDE DEF T
<1>4. PICK s \in T : \A t \in SUBSET s : t # s => t \notin T
  <2>1. IsFiniteSet(1 .. n)
    BY FS_Interval
  <2> QED
    BY <1>1, <2>1, SmallestSet
<1>5. PICK i \in 1 .. n : s = 1 .. i /\ ~ c[i].holds
  BY <1>3
<1>6. ASSUME NEW j \in 1 .. i - 1, ~ c[j].holds
      PROVE  FALSE
  <2>1. 1 .. j \in SUBSET s /\ 1 .. j # s /\ j \in 1 .. n
    BY <1>5
  <2> QED
    BY <1>2, <1>4, <1>6, <2>1
<1> QED
  BY <1>5, <1>6

\* FirstFailure names the first check that does not hold.
LEMMA FirstFailureIs ==
    ASSUME NEW n \in Nat, NEW c, DOMAIN c = 1 .. n
    PROVE  \/ FirstFailure(c) = "none" /\ \A i \in 1 .. n : c[i].holds
           \/ \E i \in 1 .. n : /\ ~ c[i].holds
                                /\ \A j \in 1 .. i - 1 : c[j].holds
                                /\ FirstFailure(c) = c[i].reason
<1>1. CASE \A i \in 1 .. n : c[i].holds
  BY <1>1 DEF FirstFailure
<1>2. CASE \E i \in 1 .. n : ~ c[i].holds
  <2> DEFINE i == CHOOSE i \in 1 .. n : ~ c[i].holds /\ \A j \in 1 .. i - 1 : c[j].holds
  <2>1. i \in 1 .. n /\ ~ c[i].holds /\ \A j \in 1 .. i - 1 : c[j].holds
    BY <1>2, LeastFailing
  <2>2. FirstFailure(c) = c[i].reason
    BY <1>2 DEF FirstFailure
  <2> QED
    BY <2>1, <2>2
<1> QED
  BY <1>1, <1>2

\* What the checks of one quantity are about: its two roundings and the notional.
Verdicts(m, num, lot, q, notional) ==
    LET r == m.rules IN
    << num > 0, r.active, Consistent(r.min, r.max) /\ Consistent(r.mmin, r.mmax),
       r.average => m.reference > 0, lot > 0,
       NotBelow(lot, r.min), NotAbove(lot, r.max), NotBelow(q, r.mmin),
       NotAbove(q, r.mmax), r.mstep > 0 => Aligned(q, r.mstep), q > 0,
       NotBelow(q, r.min), NotAbove(q, r.max), Aligned(q, r.step),
       NotBelow(notional, r.least), NotBelow(notional, r.nmin),
       NotAbove(notional, r.nmax) >>

Reasons ==
    << "non_positive_quantity", "symbol_not_tradable", "invalid_exchange_rules",
       "market_notional_reference_unverifiable", "non_positive_quantity",
       "below_min_quantity", "above_max_quantity", "below_market_min_quantity",
       "above_market_max_quantity", "market_lot_step_mismatch",
       "non_positive_quantity", "below_min_quantity", "above_max_quantity",
       "lot_step_mismatch", "below_min_notional", "below_market_notional",
       "above_market_notional" >>

LEMMA ChecksAre ==
    ASSUME NEW m, NEW num, NEW den
    PROVE  LET v == Verdicts(m, num, OnLotGrid(m, num, den), OnGrids(m, num, den),
                             OnGrids(m, num, den) * RuleReference(m))
               c == Checks(m, num, den)
           IN  /\ DOMAIN c = 1 .. 17
               /\ \A i \in 1 .. 17 : c[i].holds = v[i] /\ c[i].reason = Reasons[i]
BY DEF Checks, Verdicts, Reasons

\* The place of a check of the reconciliation among those of the broker.
Place == << 6, 7, 8, 9, 10, 12, 13, 14, 15, 16, 17 >>

\* The checks of the reconciliation in the arithmetic of the broker.
ExactChecks(m, num, den) ==
    LET v == Verdicts(m, num, OnLotGrid(m, num, den), OnGrids(m, num, den),
                      OnGrids(m, num, den) * RuleReference(m))
    IN  [i \in 1 .. 11 |-> [holds |-> v[Place[i]], reason |-> Reasons[Place[i]]]]

\* The broker's reason is that of the first check that fails.
LEMMA InvalidReasonIs ==
    ASSUME NEW m, NEW num, NEW den
    PROVE  LET v == Verdicts(m, num, OnLotGrid(m, num, den), OnGrids(m, num, den),
                             OnGrids(m, num, den) * RuleReference(m))
           IN  \/ InvalidReason(m, num, den) = "none" /\ \A i \in 1 .. 17 : v[i]
               \/ \E i \in 1 .. 17 : /\ ~ v[i]
                                     /\ \A j \in 1 .. i - 1 : v[j]
                                     /\ InvalidReason(m, num, den) = Reasons[i]
<1> DEFINE c == Checks(m, num, den)
           v == Verdicts(m, num, OnLotGrid(m, num, den), OnGrids(m, num, den),
                         OnGrids(m, num, den) * RuleReference(m))
<1>1. /\ DOMAIN c = 1 .. 17
      /\ \A i \in 1 .. 17 : c[i].holds = v[i] /\ c[i].reason = Reasons[i]
  BY ChecksAre
<1>2. InvalidReason(m, num, den) = FirstFailure(c)
  BY DEF InvalidReason
<1> HIDE DEF c, v
<1>3. \/ FirstFailure(c) = "none" /\ \A i \in 1 .. 17 : c[i].holds
      \/ \E i \in 1 .. 17 : /\ ~ c[i].holds
                            /\ \A j \in 1 .. i - 1 : c[j].holds
                            /\ FirstFailure(c) = c[i].reason
  BY <1>1, FirstFailureIs
<1>4. CASE FirstFailure(c) = "none" /\ \A i \in 1 .. 17 : c[i].holds
  BY <1>1, <1>2, <1>4 DEF v
<1>5. ASSUME NEW i \in 1 .. 17, ~ c[i].holds, \A j \in 1 .. i - 1 : c[j].holds,
             FirstFailure(c) = c[i].reason
      PROVE  ~ v[i] /\ (\A j \in 1 .. i - 1 : v[j])
             /\ InvalidReason(m, num, den) = Reasons[i]
  BY <1>1, <1>2, <1>5
<1> QED
  BY <1>3, <1>4, <1>5 DEF v

\* What passes the checks of the broker passes those of the reconciliation.
LEMMA PassedObeys ==
    ASSUME NEW m \in Market, NEW num \in Nat, NEW den \in Nat \ {0},
           m.rules.step < 2 * Digits, m.rules.mstep < 2 * Digits,
           InvalidReason(m, num, den) = "none"
    PROVE  /\ num > 0 /\ OnGrids(m, num, den) > 0
           /\ FillObeysRules(m, OnGrids(m, num, den))
<1> DEFINE lot == OnLotGrid(m, num, den)
           q == OnGrids(m, num, den)
           n == q * RuleReference(m)
<1>1. \A i \in 1 .. 17 : Verdicts(m, num, lot, q, n)[i]
  <2>1. \A i \in 1 .. 17 : Reasons[i] # "none"
    BY DEF Reasons
  <2> QED
    BY <2>1, InvalidReasonIs
<1>2. /\ lot \in Nat /\ q \in Nat /\ q <= lot
      /\ m.rules.mstep > 0 => q % m.rules.mstep = 0
  BY GridFacts
<1> HIDE DEF lot, q
<1> DEFINE v == Verdicts(m, num, lot, q, n)
<1>7. /\ v[1] <=> num > 0
      /\ v[4] <=> (m.rules.average => m.reference > 0)
      /\ v[7] <=> NotAbove(lot, m.rules.max)
      /\ v[8] <=> NotBelow(q, m.rules.mmin)
      /\ v[9] <=> NotAbove(q, m.rules.mmax)
      /\ v[10] <=> (m.rules.mstep > 0 => Aligned(q, m.rules.mstep))
      /\ v[11] <=> q > 0
      /\ v[12] <=> NotBelow(q, m.rules.min)
      /\ v[13] <=> NotAbove(q, m.rules.max)
      /\ v[14] <=> Aligned(q, m.rules.step)
      /\ v[15] <=> NotBelow(n, m.rules.least)
      /\ v[16] <=> NotBelow(n, m.rules.nmin)
      /\ v[17] <=> NotAbove(n, m.rules.nmax)
  BY DEF Verdicts
<1> HIDE DEF v
<1>8. /\ v[1] /\ v[4] /\ v[7] /\ v[8] /\ v[9] /\ v[10] /\ v[11]
      /\ v[12] /\ v[13] /\ v[14] /\ v[15] /\ v[16] /\ v[17]
  BY <1>1 DEF v
<1>3. /\ num > 0 /\ (m.rules.average => m.reference > 0)
      /\ NotBelow(q, m.rules.mmin) /\ NotAbove(q, m.rules.mmax) /\ q > 0
      /\ NotBelow(q, m.rules.min) /\ NotAbove(q, m.rules.max)
      /\ Aligned(q, m.rules.step) /\ (m.rules.mstep > 0 => Aligned(q, m.rules.mstep))
      /\ NotBelow(n, m.rules.least)
      /\ NotBelow(n, m.rules.nmin) /\ NotAbove(n, m.rules.nmax)
  BY <1>7, <1>8
<1>4. OnStep(q, m.rules.step) /\ (m.rules.mstep > 0 => OnStep(q, m.rules.mstep))
  <2>1. /\ m.rules.step \in Nat \ {0} /\ m.rules.mstep \in Nat
        /\ m.rules.mstep > 0 => m.rules.mstep \in Nat \ {0}
    BY MarketFacts
  <2> QED
    BY <1>2, <1>3, <2>1, OnStepIs
<1>5. RuleReference(m) > 0
  BY <1>3, MarketFacts DEF RuleReference
<1> QED
  BY <1>3, <1>4, <1>5 DEF FillObeysRules, q

ReasonSet == {Reasons[i] : i \in 1 .. 17}

LEMMA ReasonSetIs ==
    ReasonSet = {"non_positive_quantity", "symbol_not_tradable", "invalid_exchange_rules",
                 "market_notional_reference_unverifiable", "below_min_quantity",
                 "above_max_quantity", "below_market_min_quantity",
                 "above_market_max_quantity", "market_lot_step_mismatch",
                 "lot_step_mismatch", "below_min_notional", "below_market_notional",
                 "above_market_notional"}
BY DEF ReasonSet, Reasons

\* A rejection for a rule is the one that the quantity gives which the broker saw.
ExactlyExplained(m, x) ==
    x.reason \in RuleReasons =>
        /\ x.num > 0
        /\ x.reason = IF RuleReference(m) = 0
                      THEN "market_notional_reference_unverifiable"
                      ELSE FirstFailure(ExactChecks(m, x.num, x.den))

\* What fails a check of the broker is explained by the same checks once more.
LEMMA FailedExplained ==
    ASSUME NEW m \in Market, NEW x, x.num \in Nat, x.den \in Nat \ {0},
           x.reason = InvalidReason(m, x.num, x.den), x.reason # "none"
    PROVE  x.reason \in ReasonSet /\ ExactlyExplained(m, x)
<1> DEFINE lot == OnLotGrid(m, x.num, x.den)
           q == OnGrids(m, x.num, x.den)
           n == q * RuleReference(m)
           v == Verdicts(m, x.num, lot, q, n)
           c == ExactChecks(m, x.num, x.den)
<1>1. PICK i \in 1 .. 17 : ~ v[i] /\ (\A j \in 1 .. i - 1 : v[j]) /\ x.reason = Reasons[i]
  BY InvalidReasonIs
<1>2. (v[1] <=> x.num > 0) /\ (v[4] <=> (m.rules.average => m.reference > 0))
  BY DEF Verdicts
<1>3. /\ DOMAIN c = 1 .. 11
      /\ \A j \in 1 .. 11 : c[j].holds = v[Place[j]] /\ c[j].reason = Reasons[Place[j]]
  BY DEF ExactChecks
<1> HIDE DEF lot, q, n, v, c
<1>4. \/ FirstFailure(c) = "none" /\ \A k \in 1 .. 11 : c[k].holds
      \/ \E k \in 1 .. 11 : /\ ~ c[k].holds
                            /\ \A l \in 1 .. k - 1 : c[l].holds
                            /\ FirstFailure(c) = c[k].reason
  <2>1. 11 \in Nat /\ DOMAIN c = 1 .. 11
    BY <1>3
  <2> QED
    BY <2>1, FirstFailureIs, Zenon
<1>5. x.reason \in ReasonSet
  BY <1>1 DEF ReasonSet
<1>6. RuleReference(m) = 0 <=> m.reference = 0 /\ m.rules.average
  BY MarketFacts DEF RuleReference
<1>7. SUFFICES ASSUME x.reason \in RuleReasons
               PROVE  /\ x.num > 0
                      /\ x.reason = IF RuleReference(m) = 0
                                    THEN "market_notional_reference_unverifiable"
                                    ELSE FirstFailure(c)
  BY <1>5 DEF ExactlyExplained, c
<1>8. i \in {4, 6, 7, 8, 9, 10, 12, 13, 14, 15, 16, 17}
  BY <1>1, <1>7 DEF Reasons, RuleReasons
<1>9. x.num > 0
  <2>1. 1 \in 1 .. i - 1
    BY <1>8
  <2> QED
    BY <1>1, <1>2, <2>1
<1>10. CASE i = 4
  <2>1. m.rules.average \in BOOLEAN /\ m.reference \in Nat
    BY MarketFacts DEF Rules
  <2>2. RuleReference(m) = 0
    BY <1>1, <1>2, <1>6, <1>10, <2>1
  <2>3. Reasons[4] = "market_notional_reference_unverifiable"
    BY DEF Reasons
  <2> QED
    BY <1>1, <1>9, <1>10, <2>2, <2>3
<1>11. CASE i # 4
  <2>1. RuleReference(m) # 0
    <3>1. m.rules.average \in BOOLEAN /\ m.reference \in Nat
      BY MarketFacts DEF Rules
    <3>2. 4 \in 1 .. i - 1
      BY <1>8, <1>11
    <3>3. v[4]
      BY <1>1, <3>2
    <3> QED
      BY <1>2, <1>6, <3>1, <3>3
  <2>2. PICK j \in 1 .. 11 : i = Place[j]
    BY <1>8, <1>11 DEF Place
  <2>3. ~ c[j].holds
    BY <1>1, <1>3, <2>2
  <2>4. PICK k \in 1 .. 11 : /\ ~ c[k].holds
                             /\ \A l \in 1 .. k - 1 : c[l].holds
                             /\ FirstFailure(c) = c[k].reason
    BY <1>4, <2>3
  <2>5. ~ v[Place[k]]
    BY <1>3, <2>4
  <2>6. ~ (k < j)
    <3>1. k < j => Place[k] \in 1 .. Place[j] - 1
      BY <2>2, <2>4 DEF Place
    <3> QED
      BY <1>1, <2>2, <2>5, <3>1
  <2>7. ~ (j < k)
    BY <2>2, <2>3, <2>4
  <2>8. j = k
    BY <2>2, <2>4, <2>6, <2>7
  <2>9. FirstFailure(c) = Reasons[i]
    <3>1. c[k].reason = Reasons[Place[k]]
      BY <1>3, <2>4
    <3> QED
      BY <2>2, <2>4, <2>8, <3>1
  <2> QED
    BY <1>1, <1>9, <2>1, <2>9
<1> QED
  BY <1>10, <1>11

\* Checks that agree one by one fail with the same reason.
LEMMA FirstFailureSame ==
    ASSUME NEW n \in Nat, NEW c, NEW d, DOMAIN c = 1 .. n, DOMAIN d = 1 .. n,
           \A i \in 1 .. n : (c[i].holds <=> d[i].holds) /\ c[i].reason = d[i].reason
    PROVE  FirstFailure(c) = FirstFailure(d)
<1>1. \/ FirstFailure(c) = "none" /\ \A i \in 1 .. n : c[i].holds
      \/ \E i \in 1 .. n : /\ ~ c[i].holds
                           /\ \A j \in 1 .. i - 1 : c[j].holds
                           /\ FirstFailure(c) = c[i].reason
  BY FirstFailureIs
<1>2. \/ FirstFailure(d) = "none" /\ \A i \in 1 .. n : d[i].holds
      \/ \E i \in 1 .. n : /\ ~ d[i].holds
                           /\ \A j \in 1 .. i - 1 : d[j].holds
                           /\ FirstFailure(d) = d[i].reason
  BY FirstFailureIs
<1>3. CASE \A i \in 1 .. n : c[i].holds
  BY <1>1, <1>2, <1>3
<1>4. CASE \E i \in 1 .. n : ~ c[i].holds
  <2>1. PICK i \in 1 .. n : /\ ~ c[i].holds
                            /\ \A j \in 1 .. i - 1 : c[j].holds
                            /\ FirstFailure(c) = c[i].reason
    BY <1>1, <1>4
  <2>2. PICK k \in 1 .. n : /\ ~ d[k].holds
                            /\ \A j \in 1 .. k - 1 : d[j].holds
                            /\ FirstFailure(d) = d[k].reason
    BY <1>2, <1>4
  <2>3. ~ (i < k) /\ ~ (k < i)
    BY <2>1, <2>2
  <2>4. i = k
    BY <2>3
  <2> QED
    BY <2>1, <2>2, <2>4
<1> QED
  BY <1>3, <1>4

\* A quantity that keeps its cell is rounded by the reconciliation as by the
\* broker, and fails the same checks.
LEMMA ReplayedAre ==
    ASSUME NEW m \in Market, m.rules.step < 2 * Digits, m.rules.mstep < 2 * Digits,
           NEW x, x.num \in Nat, x.den \in Nat \ {0}, x.off \in Int,
           KeepsItsCell(m, x)
    PROVE  FirstFailure(ReplayedChecks(m, x.num * Ulp + x.off, x.den * Ulp))
             = FirstFailure(ExactChecks(m, x.num, x.den))
<1> DEFINE num == x.num * Ulp + x.off
           den == x.den * Ulp
           lot == OnLotGrid(m, x.num, x.den)
           q   == OnGrids(m, x.num, x.den)
           n   == q * RuleReference(m)
           v   == Verdicts(m, x.num, lot, q, n)
           c   == ReplayedChecks(m, num, den)
           d   == ExactChecks(m, x.num, x.den)
<1>1. /\ m.rules.step \in Nat \ {0} /\ m.rules.mstep \in Nat
      /\ m.rules.mstep > 0 => m.rules.mstep \in Nat \ {0}
  BY MarketFacts
<1>2. lot \in Nat /\ q \in Nat
  BY GridFacts
<1>3. ReplayedLot(m, num, den) = lot
  <2> DEFINE place == (x.num % (x.den * m.rules.step)) * Ulp + x.off
  <2>1. x.den * m.rules.step \in Nat \ {0}
    BY <1>1, TimesPositive
  <2>2. x.num % (x.den * m.rules.step) \in Nat
    BY <2>1, Division
  <2>3. Ulp \in Nat \ {0}
    BY ReplayAssumption
  <2>4. (x.num % (x.den * m.rules.step)) * Ulp \in Nat
    BY <2>2, <2>3, Times
  <2>5. place \in Int /\ place = (x.num % (x.den * m.rules.step)) * Ulp + x.off
    BY <2>4
  <2>6. 0 <= place /\ 2 * Digits * place + Ulp * (x.den * m.rules.step)
                        < 2 * Digits * Ulp * (x.den * m.rules.step)
    BY DEF KeepsItsCell
  <2> HIDE DEF place
  <2>7. ReplayedFloor(x.num * Ulp + x.off, x.den * Ulp, m.rules.step)
          = Floor(x.num, x.den, m.rules.step)
    BY <1>1, <2>3, <2>5, <2>6, ReplayedFloorIs
  <2> QED
    BY <2>7 DEF ReplayedLot, OnLotGrid
<1>4. ReplayedGrids(m, num, den) = q
  BY <1>1, <1>2, <1>3, WholeFloorIs DEF ReplayedGrids, OnGrids
<1>5. /\ OnStep(q, m.rules.step) <=> Aligned(q, m.rules.step)
      /\ m.rules.mstep > 0 => (OnStep(q, m.rules.mstep) <=> Aligned(q, m.rules.mstep))
  BY <1>1, <1>2, OnStepIs
<1>6. DOMAIN c = 1 .. 11 /\ DOMAIN d = 1 .. 11
  BY DEF ReplayedChecks, ExactChecks
<1>7. \A i \in 1 .. 11 : d[i].holds = v[Place[i]] /\ d[i].reason = Reasons[Place[i]]
  BY DEF ExactChecks
<1>8. \A i \in 1 .. 11 : (c[i].holds <=> v[Place[i]]) /\ c[i].reason = Reasons[Place[i]]
  <2> HIDE DEF num, den, lot, q
  <2> QED
    BY <1>3, <1>4, <1>5 DEF ReplayedChecks, Verdicts, Reasons, Place
<1> HIDE DEF c, d, v
<1>9. \A i \in 1 .. 11 : (c[i].holds <=> d[i].holds) /\ c[i].reason = d[i].reason
  BY <1>7, <1>8
<1>10. FirstFailure(c) = FirstFailure(d)
  <2>1. 11 \in Nat
    OBVIOUS
  <2> QED
    BY <1>6, <1>9, <2>1, FirstFailureSame, Zenon
<1> QED
  BY <1>10 DEF c, d

-----------------------------------------------------------------------------
(* Types *)

RowReasons ==
    ReasonSet \cup {"EXECUTION_RULE_PRICE_RANGE_EXCEEDED", "insufficient_cash_after_rounding"}

Trades == {"BUY", "SELL"}

OrderRow ==
    [week : Keys, asset : Assets, side : Trades, ordered : Nat, filled : Nat,
     price : Nat, cash : Int, position : Int]

RejectionRow ==
    [week : Keys, asset : Assets, side : Trades, stage : {"PROPOSAL", "FINAL"},
     reason : RowReasons \cup {"manual"}, asked : Nat, num : Nat, den : Nat \ {0},
     off : Int]

DecisionRow ==
    [week : Keys, asset : Assets, side : Trades, price : Nat,
     outcome : {"NOT_ENFORCED", "REJECTED", "ACCEPTED", "EVIDENCE_UNAVAILABLE"},
     reference : Nat]

Evidence ==
    [rules : Rules, price : Nat, reference : Nat, range : BOOLEAN,
     bidDown : Nat, bidUp : Nat, askDown : Nat, askUp : Nat]

ContextRow == [asset : Assets, spread : Nat]

EndedRow ==
    [status : {"RUNNING", "EXECUTED", "KILL_SWITCH", "RECOVERED_COMMITTED"},
     evidence : [Assets -> Market], evidenceDigest : [Assets -> Evidence],
     declaredRejections : SUBSET RejectionRow, contexts : SUBSET ContextRow]

RunRow == {NoRun} \cup EndedRow

Table ==
    [cash : Nat, pos : [Assets -> Nat], orders : SUBSET OrderRow,
     rejections : SUBSET RejectionRow, decisions : SUBSET DecisionRow,
     runs : [Keys -> RunRow]]

TableOK(t) == t \in Table /\ IsFiniteSet(t.orders)

\* What a session holds in memory.
LocalsOK ==
    /\ pc \in {"idle", "value", "propose", "sell", "require", "buy", "commit", "verify"}
    /\ week \in Keys \cup {0}
    /\ todo \subseteq Assets
    /\ equity \in Nat /\ required \in Nat /\ funds \in Nat
    /\ requested \in [Assets -> Nat]
    /\ side \in [Assets -> Sides]

InSession ==
    /\ week \in Keys
    /\ market \in [Assets -> Markets]
    /\ target \in [Assets -> 0 .. WeightDen]

Inside == {"value", "propose", "sell", "require", "buy", "commit"}

\* The week of a session has no row before the commit and a RUNNING one after it.
Basic ==
    /\ LocalsOK
    /\ halted \in BOOLEAN /\ damaged \in BOOLEAN
    /\ TableOK(db) /\ TableOK(work)
    /\ pc # "idle" => InSession
    /\ pc \in Inside => db.runs[week].status = "NONE"
    /\ pc = "verify" => db.runs[week].status = "RUNNING"

\* A run that was not started has no evidence; any other has.
LEMMA RunFacts ==
    ASSUME NEW r \in RunRow
    PROVE  /\ r.status = "NONE" <=> r = NoRun
           /\ r.status # "NONE" => r \in EndedRow
           /\ r.status \in {"NONE", "RUNNING", "EXECUTED", "KILL_SWITCH", "RECOVERED_COMMITTED"}
BY DEF RunRow, NoRun, EndedRow

\* The columns of a table.
LEMMA TableFacts ==
    ASSUME NEW t \in Table
    PROVE  /\ t.cash \in Nat /\ t.pos \in [Assets -> Nat]
           /\ t.orders \subseteq OrderRow /\ t.rejections \subseteq RejectionRow
           /\ t.decisions \subseteq DecisionRow /\ t.runs \in [Keys -> RunRow]
BY DEF Table

\* The typed tables hold no negative cash and no negative position.
LEMMA BasicImpliesTypes == Basic => TypeOK /\ Solvent
<1>1. ASSUME NEW t, TableOK(t)
      PROVE  TablesOK(t) /\ t.cash >= 0 /\ \A a \in Assets : t.pos[a] >= 0
  <2>1. /\ t.cash \in Nat /\ t.pos \in [Assets -> Nat]
        /\ t.orders \subseteq OrderRow /\ t.runs \in [Keys -> RunRow]
    BY <1>1, TableFacts DEF TableOK
  <2>2. \A k \in Keys : t.runs[k].status \in
             {"NONE", "RUNNING", "EXECUTED", "KILL_SWITCH", "RECOVERED_COMMITTED"}
    BY <2>1, RunFacts
  <2>3. \A o \in t.orders : o.week \in Keys /\ o.asset \in Assets
    BY <2>1 DEF OrderRow
  <2> QED
    BY <2>1, <2>2, <2>3 DEF TablesOK
<1> QED
  BY <1>1 DEF Basic, LocalsOK, TypeOK, Solvent

\* The evidence of the session in progress.
LEMMA SessionMarket ==
    ASSUME Basic, pc # "idle", NEW a \in Assets
    PROVE  /\ market[a] \in Market /\ MarketFit(market[a])
           /\ market[a].rules.step < 2 * Digits /\ market[a].rules.mstep < 2 * Digits
           /\ Mid(market[a]) \in Nat \ {0}
           /\ Price(market[a], "BUY") \in Nat
           /\ Price(market[a], "SELL") \in Nat \ {0}
<1>1. /\ market[a] \in Market /\ MarketFit(market[a])
      /\ market[a].rules.step < 2 * Digits /\ market[a].rules.mstep < 2 * Digits
  BY MarketsAssumption, PrecisionAssumption DEF Basic, InSession
<1> QED
  BY <1>1, MidFacts, PriceFacts DEF MarketFit

\* _reject_quantity adds one row and nothing else.
LEMMA RejectedFacts ==
    ASSUME NEW t, TableOK(t), NEW x \in RejectionRow
    PROVE  /\ TableOK(Rejected(t, x))
           /\ Rejected(t, x).cash = t.cash /\ Rejected(t, x).pos = t.pos
           /\ Rejected(t, x).orders = t.orders
           /\ Rejected(t, x).rejections = t.rejections \cup {x}
           /\ Rejected(t, x).decisions = t.decisions
           /\ Rejected(t, x).runs = t.runs
BY DEF TableOK, Table, Rejected

\* So does _record_price_range_decision.
LEMMA DecidedFacts ==
    ASSUME Basic, pc # "idle", NEW t, TableOK(t), NEW a \in Assets, side[a] \in Trades
    PROVE  LET d == [week |-> week, asset |-> a, side |-> side[a],
                     price |-> Price(market[a], side[a]),
                     outcome |-> RangeOutcome(market[a], side[a]),
                     reference |-> market[a].reference]
           IN  /\ d \in DecisionRow
               /\ TableOK(Decided(t, a))
               /\ Decided(t, a).cash = t.cash /\ Decided(t, a).pos = t.pos
               /\ Decided(t, a).orders = t.orders
               /\ Decided(t, a).rejections = t.rejections
               /\ Decided(t, a).decisions = t.decisions \cup {d}
               /\ Decided(t, a).runs = t.runs
<1> DEFINE d == [week |-> week, asset |-> a, side |-> side[a],
                 price |-> Price(market[a], side[a]),
                 outcome |-> RangeOutcome(market[a], side[a]),
                 reference |-> market[a].reference]
<1>1. week \in Keys /\ market[a].reference \in Nat
  BY SessionMarket, MarketFacts DEF Basic, InSession
<1>2. RangeOutcome(market[a], side[a]) \in {"NOT_ENFORCED", "REJECTED", "ACCEPTED"}
  BY DEF RangeOutcome
<1>3. d \in DecisionRow
  <2>1. Price(market[a], side[a]) \in Nat
    BY SessionMarket DEF Trades
  <2> QED
    BY <1>1, <1>2, <2>1 DEF DecisionRow
<1>4. Decided(t, a) = [t EXCEPT !.decisions = @ \cup {d}]
  BY DEF Decided
<1> HIDE DEF d
<1> QED
  BY <1>3, <1>4 DEF TableOK, Table, d

Fill(a, q) ==
    LET p == Price(market[a], side[a]) IN
    [week |-> week, asset |-> a, side |-> side[a], ordered |-> q, filled |-> q,
     price |-> p, cash |-> CashDelta(side[a], q, p), position |-> PositionDelta(side[a], q)]

\* The cash and the position allow a fill.
Affordable(t, a, q) ==
    /\ t.cash + CashDelta(side[a], q, Price(market[a], side[a])) >= 0
    /\ t.pos[a] + PositionDelta(side[a], q) >= 0

\* persist_fill, when the cash and the position allow it.
LEMMA FilledFacts ==
    ASSUME Basic, pc # "idle", NEW t, TableOK(t), NEW a \in Assets, side[a] \in Trades,
           NEW q \in Nat, Affordable(t, a, q)
    PROVE  /\ Fill(a, q) \in OrderRow
           /\ TableOK(Filled(t, a, q))
           /\ Filled(t, a, q).cash = t.cash + Fill(a, q).cash
           /\ Filled(t, a, q).pos[a] = t.pos[a] + Fill(a, q).position
           /\ \A b \in Assets \ {a} : Filled(t, a, q).pos[b] = t.pos[b]
           /\ Filled(t, a, q).orders = t.orders \cup {Fill(a, q)}
           /\ Filled(t, a, q).rejections = t.rejections
           /\ Filled(t, a, q).decisions = t.decisions
           /\ Filled(t, a, q).runs = t.runs
<1> DEFINE p == Price(market[a], side[a])
           dc == CashDelta(side[a], q, p)
           dp == PositionDelta(side[a], q)
           o == Fill(a, q)
<1>1. p \in Nat /\ week \in Keys
  BY SessionMarket DEF Basic, InSession, Trades
<1> HIDE DEF p
<1>2. dc \in Int
  <2>1. FeeDen + FeeNum \in Int /\ FeeDen - FeeNum \in Int
    BY CostsAssumption
  <2>2. \A x, y, z \in Int : x * y * z \in Int
    OBVIOUS
  <2> QED
    BY <1>1, <2>1, <2>2 DEF CashDelta, Trades
<1> HIDE DEF dc
<1>3. dp \in Int
  BY DEF PositionDelta
<1> HIDE DEF dp
<1>4. /\ o \in OrderRow /\ o.cash = dc /\ o.position = dp
  <2>1. o = [week |-> week, asset |-> a, side |-> side[a], ordered |-> q, filled |-> q,
             price |-> p, cash |-> dc, position |-> dp]
    BY DEF Fill, p, dc, dp
  <2> HIDE DEF o
  <2> QED
    BY <1>1, <1>2, <1>3, <2>1 DEF OrderRow
<1>5. Filled(t, a, q) = [t EXCEPT !.cash = @ + dc, !.pos[a] = @ + dp,
                                  !.orders = @ \cup {o}]
  BY DEF Filled, Fill, p, dc, dp
<1> HIDE DEF o
<1>6. t.cash + dc \in Nat /\ [t.pos EXCEPT ![a] = @ + dp] \in [Assets -> Nat]
      /\ t.orders \cup {o} \subseteq OrderRow /\ IsFiniteSet(t.orders \cup {o})
  <2>1. t.cash \in Nat /\ t.pos \in [Assets -> Nat] /\ t.orders \subseteq OrderRow
    BY TableFacts DEF TableOK
  <2>2. t.cash + dc >= 0 /\ t.pos[a] + dp >= 0
    BY DEF dc, dp, p, Affordable
  <2>3. IsFiniteSet(t.orders \cup {o})
    BY FS_AddElement DEF TableOK
  <2> QED
    BY <1>2, <1>3, <1>4, <2>1, <2>2, <2>3
<1> DEFINE r == Filled(t, a, q)
<1>7. r = [cash |-> t.cash + dc, pos |-> [t.pos EXCEPT ![a] = @ + dp],
           orders |-> t.orders \cup {o}, rejections |-> t.rejections,
           decisions |-> t.decisions, runs |-> t.runs]
  <2>1. r = [t EXCEPT !.cash = @ + dc, !.pos[a] = @ + dp,
                      !.orders = @ \cup {o}]
    BY <1>5
  <2>2. t \in Table
    BY DEF TableOK
  <2> HIDE DEF r
  <2> QED
    BY <2>1, <2>2 DEF Table
<1> HIDE DEF r
<1>8. /\ r.cash = t.cash + dc
      /\ r.pos = [t.pos EXCEPT ![a] = @ + dp]
      /\ r.orders = t.orders \cup {o}
      /\ r.rejections = t.rejections
      /\ r.decisions = t.decisions
      /\ r.runs = t.runs
  BY <1>7
<1>9. TableOK(r)
  <2>1. /\ t.rejections \subseteq RejectionRow /\ t.decisions \subseteq DecisionRow
        /\ t.runs \in [Keys -> RunRow]
    BY TableFacts DEF TableOK
  <2>2. r \in Table
    BY <1>6, <1>7, <2>1 DEF Table
  <2> QED
    BY <1>6, <1>8, <2>2 DEF TableOK
<1>10. r.pos[a] = t.pos[a] + dp /\ \A b \in Assets \ {a} : r.pos[b] = t.pos[b]
  BY <1>8, TableFacts DEF TableOK
<1> QED
  BY <1>4, <1>8, <1>9, <1>10 DEF o, r

-----------------------------------------------------------------------------
(* What a step does to the tables of the transaction *)

RangeReason == "EXECUTION_RULE_PRICE_RANGE_EXCEEDED"

\* A final rejection because of PRICE_RANGE.
RefusedByRange(a, t) ==
    \E x \in RejectionRow :
        /\ x.week = week /\ x.asset = a /\ x.stage = "FINAL"
        /\ x.reason = RangeReason
        /\ work' = Rejected(t, x)

\* A final rejection is of no more than was asked for, and got back with an error
\* within the tolerance; a proposal's is replayed as it is.
Replayable(x) ==
    /\ x.stage # "FINAL" => x.asked = x.num /\ x.off = 0
    /\ x.num <= x.asked /\ x.off <= Tolerance
    /\ x.num > 0 => x.num * Ulp + x.off > 0

\* A rejection because of the quantity.
RefusedByRule(a, t, stage) ==
    \E x \in RejectionRow :
        /\ x.week = week /\ x.asset = a /\ x.stage = stage /\ Replayable(x)
        /\ \/ x.reason # "none" /\ x.reason = InvalidReason(market[a], x.num, x.den)
           \/ x.reason = "insufficient_cash_after_rounding"
        /\ work' = Rejected(t, x)

FilledByRules(a, t) ==
    \E q \in Nat \ {0} :
        /\ FillObeysRules(market[a], q)
        /\ Affordable(t, a, q)
        /\ work' = Filled(t, a, q)

LEMMA ReasonIn ==
    ASSUME NEW m, NEW num, NEW den, InvalidReason(m, num, den) # "none"
    PROVE  InvalidReason(m, num, den) \in ReasonSet
BY InvalidReasonIs DEF ReasonSet

LEMMA RejectionIn ==
    ASSUME week \in Keys, NEW a \in Assets, NEW s \in Trades,
           NEW stage \in {"PROPOSAL", "FINAL"}, NEW reason \in RowReasons,
           NEW asked \in Nat, NEW num \in Nat, NEW den \in Nat \ {0}, NEW off \in Int
    PROVE  LET x == Rejection(a, s, stage, reason, asked, num, den, off)
           IN  /\ x \in RejectionRow
               /\ x.week = week /\ x.asset = a /\ x.stage = stage /\ x.side = s
               /\ x.reason = reason /\ x.asked = asked /\ x.num = num /\ x.den = den
               /\ x.off = off
BY DEF Rejection, RejectionRow

\* What is rejected for its price.
LEMMA OutOfRangeIn ==
    ASSUME week \in Keys, NEW a \in Assets, side[a] \in Trades, requested[a] \in Nat
    PROVE  /\ OutOfRange(a) \in RejectionRow
           /\ OutOfRange(a).week = week /\ OutOfRange(a).asset = a
           /\ OutOfRange(a).stage = "FINAL" /\ OutOfRange(a).reason = RangeReason
<1>1. OutOfRange(a) = Rejection(a, side[a], "FINAL", RangeReason, requested[a],
                                requested[a], 1, 0)
  BY DEF OutOfRange, RangeReason
<1>2. RangeReason \in RowReasons /\ 1 \in Nat \ {0} /\ 0 \in Int
  BY DEF RangeReason, RowReasons
<1> QED
  BY <1>1, <1>2, RejectionIn

\* The error of getting a quantity back loses no quantity.
LEMMA ErrorsFacts ==
    ASSUME NEW num \in Nat, NEW off \in Errors(num)
    PROVE  off \in Int /\ off <= Tolerance /\ (num > 0 => num * Ulp + off > 0)
<1>1. Tolerance \in Nat /\ Ulp \in Nat \ {0} /\ Noise \subseteq - Tolerance .. Tolerance
  BY ReplayAssumption, PrecisionAssumption
<1>2. num > 0 => num * Ulp \in Nat \ {0}
  BY <1>1, TimesPositive
<1>3. CASE off = 0
  BY <1>1, <1>2, <1>3
<1>4. CASE off \in Noise /\ num > 0 /\ num * Ulp + off > 0
  BY <1>1, <1>4
<1> QED
  BY <1>3, <1>4 DEF Errors

\* The difference between desired and current is a fraction.
LEMMA ProposalFacts ==
    ASSUME Basic, pc # "idle", NEW a \in Assets
    PROVE  /\ DeltaDen(a) \in Nat \ {0} /\ DeltaNum(a) \in Int
           /\ Size(DeltaNum(a)) \in Nat
<1>1. Mid(market[a]) \in Nat \ {0}
  BY SessionMarket
<1>2. FeeDen \in Nat \ {0} /\ WeightDen \in Nat \ {0}
  BY CostsAssumption, AccountAssumption
<1>3. FeeDen * WeightDen \in Nat \ {0}
  BY <1>2, TimesPositive
<1>4. DeltaDen(a) \in Nat \ {0}
  <2>1. (FeeDen * WeightDen) * Mid(market[a]) \in Nat \ {0}
    BY <1>1, <1>3, TimesPositive
  <2> QED
    BY <2>1 DEF DeltaDen
<1>5. equity \in Nat /\ target[a] \in Nat /\ db.pos[a] \in Nat
  BY AccountAssumption, TableFacts DEF Basic, LocalsOK, InSession, TableOK
<1>6. equity * target[a] \in Nat /\ db.pos[a] * DeltaDen(a) \in Nat
  BY <1>4, <1>5, Times
<1>7. DeltaNum(a) \in Int
  BY <1>6 DEF DeltaNum
<1>8. Size(DeltaNum(a)) \in Nat
  BY <1>7 DEF Size
<1> QED
  BY <1>4, <1>7, <1>8

\* A proposal is made, refused, or not needed.
LEMMA ProposeFacts ==
    ASSUME Basic, NEW a \in Assets, Propose(a)
    PROVE  \/ UNCHANGED <<requested, side, work>>
           \/ /\ RefusedByRule(a, work, "PROPOSAL")
              /\ UNCHANGED <<requested, side>>
           \/ /\ \E q \in Nat \ {0} : requested' = [requested EXCEPT ![a] = q]
              /\ \E s \in Trades : side' = [side EXCEPT ![a] = s]
              /\ UNCHANGED work
<1> DEFINE num == Size(DeltaNum(a))
           den == DeltaDen(a)
           s   == IF DeltaNum(a) > 0 THEN "BUY" ELSE "SELL"
           why == InvalidReason(market[a], num, den)
           x   == Rejection(a, s, "PROPOSAL", why, num, num, den, 0)
<1>1. pc = "propose" /\ week \in Keys
  BY DEF Propose, Basic, InSession
<1>2. num \in Nat /\ den \in Nat \ {0} /\ market[a] \in Market
  BY <1>1, ProposalFacts, SessionMarket
<1>3. s \in Trades
  BY DEF Trades
<1>4. \/ UNCHANGED <<requested, side, work>>
      \/ why # "none" /\ work' = Rejected(work, x) /\ UNCHANGED <<requested, side>>
      \/ /\ why = "none"
         /\ requested' = [requested EXCEPT ![a] = OnGrids(market[a], num, den)]
         /\ side' = [side EXCEPT ![a] = s]
         /\ UNCHANGED work
  BY DEF Propose
<1> HIDE DEF num, den, s
<1>5. CASE why # "none" /\ work' = Rejected(work, x) /\ UNCHANGED <<requested, side>>
  <2>1. why \in RowReasons
    BY <1>5, ReasonIn DEF RowReasons
  <2>2. /\ x \in RejectionRow /\ x.week = week /\ x.asset = a /\ x.stage = "PROPOSAL"
        /\ x.reason = why /\ x.asked = num /\ x.num = num /\ x.den = den /\ x.off = 0
    BY <1>1, <1>2, <1>3, <2>1, RejectionIn
  <2> HIDE DEF x
  <2>3. Replayable(x)
    <3>1. Ulp \in Nat \ {0} /\ Tolerance \in Nat
      BY ReplayAssumption
    <3>2. num > 0 => num * Ulp \in Nat \ {0}
      BY <1>2, <3>1, TimesPositive
    <3> QED
      BY <1>2, <2>2, <3>1, <3>2 DEF Replayable
  <2>4. RefusedByRule(a, work, "PROPOSAL")
    BY <1>5, <2>2, <2>3 DEF RefusedByRule
  <2> QED
    BY <1>5, <2>4
<1>6. CASE /\ why = "none"
           /\ requested' = [requested EXCEPT ![a] = OnGrids(market[a], num, den)]
           /\ side' = [side EXCEPT ![a] = s]
           /\ UNCHANGED work
  <2>1. OnGrids(market[a], num, den) \in Nat \ {0}
    <3>1. pc # "idle"
      BY <1>1
    <3>2. market[a].rules.step < 2 * Digits /\ market[a].rules.mstep < 2 * Digits
      BY <3>1, SessionMarket
    <3>3. OnGrids(market[a], num, den) > 0
      BY <1>2, <1>6, <3>2, PassedObeys
    <3>4. OnGrids(market[a], num, den) \in Nat
      BY <1>2, GridFacts
    <3> QED
      BY <3>3, <3>4
  <2> QED
    BY <1>3, <1>6, <2>1
<1> QED
  BY <1>4, <1>5, <1>6

\* What a sell is filled with is held, and pays more than its fee.
LEMMA SellAffordable ==
    ASSUME NEW q \in Nat, NEW price \in Nat
    PROVE  CashDelta("SELL", q, price) \in Nat /\ PositionDelta("SELL", q) = - q
<1>1. FeeDen - FeeNum \in Nat
  BY CostsAssumption
<1>2. q * price \in Nat
  BY Times
<1>3. (q * price) * (FeeDen - FeeNum) \in Nat
  BY <1>1, <1>2, Times
<1> QED
  BY <1>3 DEF CashDelta, PositionDelta

\* A sell is decided, and then refused by its range, refused by a rule, or filled.
LEMMA SellFacts ==
    ASSUME Basic, NEW a \in Assets, Sell(a), side[a] = "SELL"
    PROVE  LET t == Decided(work, a) IN
           \/ RangeOutcome(market[a], side[a]) = "REJECTED" /\ RefusedByRange(a, t)
           \/ /\ RangeOutcome(market[a], side[a]) # "REJECTED"
              /\ RefusedByRule(a, t, "FINAL") \/ FilledByRules(a, t)
<1> DEFINE t == Decided(work, a)
           num == Lesser(requested[a], work.pos[a])
           out == RangeOutcome(market[a], "SELL") = "REJECTED"
           why == InvalidReason(market[a], num, 1)
           q == OnGrids(market[a], num, 1)
<1>1. pc = "sell" /\ week \in Keys /\ TableOK(work) /\ side[a] \in Trades
  BY DEF Sell, Basic, InSession, Trades
<1>2. market[a] \in Market /\ Price(market[a], "SELL") \in Nat
  BY <1>1, SessionMarket
<1>3. num \in Nat /\ num <= work.pos[a] /\ work.pos[a] \in Nat
  BY <1>1, TableFacts DEF TableOK, Lesser, Basic, LocalsOK
<1>4. t.cash = work.cash /\ t.pos = work.pos /\ t.cash \in Nat
  BY <1>1, DecidedFacts, TableFacts DEF TableOK
<1>5. \/ out /\ work' = Rejected(t, OutOfRange(a))
      \/ /\ ~ out /\ why # "none"
         /\ \E off \in Errors(num) :
               work' = Rejected(t, Rejection(a, "SELL", "FINAL", why, requested[a], num, 1, off))
      \/ ~ out /\ why = "none" /\ work' = Filled(t, a, q)
  BY DEF Sell
<1>9. num <= requested[a] /\ requested[a] \in Nat
  BY <1>1, <1>3 DEF Lesser, Basic, LocalsOK
<1> HIDE DEF t, num, out, q
<1>6. CASE out /\ work' = Rejected(t, OutOfRange(a))
  <2>1. RefusedByRange(a, t)
    BY <1>1, <1>6, <1>9, OutOfRangeIn DEF RefusedByRange
  <2> QED
    BY <1>6, <2>1 DEF t, out
<1>7. ASSUME ~ out, why # "none", NEW off \in Errors(num),
             work' = Rejected(t, Rejection(a, "SELL", "FINAL", why, requested[a], num, 1, off))
      PROVE  RangeOutcome(market[a], side[a]) # "REJECTED" /\ RefusedByRule(a, Decided(work, a), "FINAL")
  <2> DEFINE x == Rejection(a, "SELL", "FINAL", why, requested[a], num, 1, off)
  <2>1. /\ why \in RowReasons /\ "SELL" \in Trades /\ 1 \in Nat \ {0}
        /\ "FINAL" \in {"PROPOSAL", "FINAL"}
    BY <1>7, ReasonIn DEF RowReasons, Trades
  <2> HIDE DEF why
  <2>2. off \in Int /\ off <= Tolerance /\ (num > 0 => num * Ulp + off > 0)
    BY <1>3, ErrorsFacts
  <2>3. /\ x \in RejectionRow /\ x.week = week /\ x.asset = a /\ x.stage = "FINAL"
        /\ x.reason = why /\ x.asked = requested[a] /\ x.num = num /\ x.den = 1 /\ x.off = off
    BY <1>1, <1>3, <1>9, <2>1, <2>2 DEF Rejection, RejectionRow
  <2> HIDE DEF x
  <2>4. work' = Rejected(t, x)
    BY <1>7 DEF x
  <2>5. Replayable(x)
    BY <1>9, <2>2, <2>3 DEF Replayable
  <2>6. RefusedByRule(a, t, "FINAL")
    BY <1>7, <2>3, <2>4, <2>5 DEF RefusedByRule, why
  <2> QED
    BY <1>7, <2>6 DEF t, out
<1>8. CASE ~ out /\ why = "none" /\ work' = Filled(t, a, q)
  <2>1. q \in Nat \ {0} /\ FillObeysRules(market[a], q)
    <3>1. 1 \in Nat \ {0}
      OBVIOUS
    <3>2. q > 0 /\ FillObeysRules(market[a], q)
      BY <1>1, <1>2, <1>3, <1>8, <3>1, SessionMarket, PassedObeys DEF q
    <3>3. q \in Nat
      BY <1>2, <1>3, <3>1, GridFacts DEF q
    <3> QED
      BY <3>2, <3>3
  <2>2. q <= num
    <3>1. 1 \in Nat \ {0}
      OBVIOUS
    <3>2. q * 1 <= num
      BY <1>2, <1>3, <3>1, GridFacts DEF q
    <3> QED
      BY <2>1, <3>2
  <2>3. /\ CashDelta("SELL", q, Price(market[a], "SELL")) \in Nat
        /\ PositionDelta("SELL", q) = - q
    BY <1>2, <2>1, SellAffordable
  <2>4. /\ t.cash + CashDelta(side[a], q, Price(market[a], side[a])) >= 0
        /\ t.pos[a] + PositionDelta(side[a], q) >= 0
    BY <1>3, <1>4, <2>1, <2>2, <2>3
  <2>5. FilledByRules(a, t)
    BY <1>8, <2>1, <2>4 DEF FilledByRules, Affordable
  <2> QED
    BY <1>8, <2>5 DEF t, out
<1> QED
  BY <1>5, <1>6, <1>7, <1>8

\* A buy is refused by its range, or counted into what the buys need.
LEMMA RequireFacts ==
    ASSUME Basic, NEW a \in Assets, Require(a), side[a] = "BUY"
    PROVE  LET t == Decided(work, a) IN
           \/ /\ RangeOutcome(market[a], side[a]) = "REJECTED"
              /\ RefusedByRange(a, t)
              /\ side' = [side EXCEPT ![a] = "NONE"] /\ UNCHANGED required
           \/ /\ RangeOutcome(market[a], side[a]) # "REJECTED"
              /\ work' = t /\ required' \in Nat /\ UNCHANGED side
<1> DEFINE t == Decided(work, a)
           out == RangeOutcome(market[a], "BUY") = "REJECTED"
           x == OutOfRange(a)
           p == Price(market[a], "BUY")
<1>1. pc = "require" /\ week \in Keys /\ requested[a] \in Nat /\ required \in Nat
  BY DEF Require, Basic, InSession, LocalsOK
<1>2. \/ out /\ work' = Rejected(t, x) /\ side' = LeavesLoop(a) /\ UNCHANGED required
      \/ /\ ~ out /\ work' = t /\ UNCHANGED side
         /\ required' = required - CashDelta("BUY", requested[a], p)
  BY DEF Require
<1>3. CASE out /\ work' = Rejected(t, x) /\ side' = LeavesLoop(a) /\ UNCHANGED required
  <2>1. side[a] \in Trades
    BY DEF Trades
  <2>2. /\ x \in RejectionRow /\ x.week = week /\ x.asset = a /\ x.stage = "FINAL"
        /\ x.reason = RangeReason
    BY <1>1, <2>1, OutOfRangeIn
  <2> HIDE DEF x, t
  <2>3. RefusedByRange(a, t)
    BY <1>3, <2>2 DEF RefusedByRange
  <2> QED
    BY <1>3, <2>3 DEF t, LeavesLoop
<1>4. CASE /\ ~ out /\ work' = t /\ UNCHANGED side
           /\ required' = required - CashDelta("BUY", requested[a], p)
  <2>1. p \in Nat /\ FeeDen + FeeNum \in Nat
    BY <1>1, SessionMarket, CostsAssumption
  <2>2. requested[a] * p \in Nat
    BY <1>1, <2>1, Times
  <2>3. (requested[a] * p) * (FeeDen + FeeNum) \in Nat
    BY <2>1, <2>2, Times
  <2>4. CashDelta("BUY", requested[a], p) = - ((requested[a] * p) * (FeeDen + FeeNum))
    BY DEF CashDelta
  <2>5. required' \in Nat
    BY <1>1, <1>4, <2>3, <2>4
  <2> QED
    BY <1>4, <2>5
<1> QED
  BY <1>2, <1>3, <1>4

\* A buy asks for no more than its proposal.
LEMMA ScaledFacts ==
    ASSUME Basic, NEW a \in Assets
    PROVE  /\ ScaledNum(a) \in Nat /\ ScaledDen \in Nat \ {0}
           /\ requested[a] * ScaledDen \in Nat
           /\ ScaledNum(a) <= requested[a] * ScaledDen
<1>1. funds \in Nat /\ required \in Nat /\ requested[a] \in Nat
  BY DEF Basic, LocalsOK
<1>2. requested[a] * funds \in Nat /\ requested[a] * required \in Nat
  BY <1>1, Times
<1>3. CASE funds >= required
  BY <1>1, <1>3 DEF ScaledNum, ScaledDen
<1>4. CASE ~ (funds >= required)
  <2>1. requested[a] * funds <= requested[a] * required
    BY <1>1, <1>4
  <2> QED
    BY <1>1, <1>2, <1>4, <2>1 DEF ScaledNum, ScaledDen
<1> QED
  BY <1>3, <1>4

\* A buy is refused by a rule or filled.
LEMMA BuyFacts ==
    ASSUME Basic, NEW a \in Assets, Buy(a), side[a] = "BUY"
    PROVE  RefusedByRule(a, work, "FINAL") \/ FilledByRules(a, work)
<1> DEFINE num == ScaledNum(a)
           den == ScaledDen
           q == OnGrids(market[a], num, den)
           rule == InvalidReason(market[a], num, den)
           rest == work.cash + CashDelta("BUY", q, Price(market[a], "BUY"))
           why == IF rule # "none" THEN rule
                  ELSE IF rest < 0 THEN "insufficient_cash_after_rounding"
                  ELSE "none"
           asked == requested[a] * den
           row(off) == Rejection(a, "BUY", "FINAL", why, asked, num, den, off)
<1>1. pc = "buy" /\ week \in Keys /\ TableOK(work) /\ market[a] \in Market
  <2>1. pc = "buy"
    BY DEF Buy
  <2> QED
    BY <2>1, SessionMarket DEF Basic, InSession
<1>2. num \in Nat /\ den \in Nat \ {0} /\ asked \in Nat /\ num <= asked
  BY ScaledFacts
<1>3. IF why = "none" THEN work' = Filled(work, a, q)
      ELSE \E off \in Errors(num) : work' = Rejected(work, row(off))
  BY DEF Buy
<1> HIDE DEF num, den, asked
<1>4. CASE why # "none"
  <2>1. why \in RowReasons
    BY <1>4, ReasonIn DEF RowReasons
  <2>2. (why # "none" /\ why = rule) \/ why = "insufficient_cash_after_rounding"
    BY <1>4
  <2> HIDE DEF why
  <2>3. "BUY" \in Trades /\ "FINAL" \in {"PROPOSAL", "FINAL"}
    BY DEF Trades
  <2>4. PICK off \in Errors(num) : work' = Rejected(work, row(off))
    BY <1>3, <1>4
  <2>5. off \in Int /\ off <= Tolerance /\ (num > 0 => num * Ulp + off > 0)
    BY <1>2, ErrorsFacts
  <2> DEFINE x == row(off)
  <2>6. /\ x \in RejectionRow /\ x.week = week /\ x.asset = a /\ x.stage = "FINAL"
        /\ x.reason = why /\ x.asked = asked /\ x.num = num /\ x.den = den /\ x.off = off
    BY <1>1, <1>2, <2>1, <2>3, <2>5, RejectionIn
  <2>7. work' = Rejected(work, x)
    BY <2>4
  <2> HIDE DEF x
  <2>8. Replayable(x)
    BY <1>2, <2>5, <2>6 DEF Replayable
  <2> QED
    BY <2>2, <2>6, <2>7, <2>8 DEF RefusedByRule
<1>5. CASE why = "none"
  <2>1. \A i \in 1 .. 17 : Reasons[i] # "none"
    BY DEF Reasons
  <2>2. rule = "none" /\ ~ (rest < 0)
    BY <1>5
  <2>3. q > 0 /\ FillObeysRules(market[a], q)
    BY <1>1, <1>2, <2>2, SessionMarket, PassedObeys
  <2>4. q \in Nat
    BY <1>1, <1>2, GridFacts
  <2>5. work' = Filled(work, a, q)
    BY <1>3, <1>5
  <2>6. work.cash \in Nat /\ work.pos[a] \in Nat
    BY <1>1, TableFacts DEF TableOK
  <2> HIDE DEF q
  <2>7. work.cash + CashDelta(side[a], q, Price(market[a], side[a])) >= 0
    <3> DEFINE p == Price(market[a], "BUY")
    <3>1. p \in Nat /\ FeeDen + FeeNum \in Nat
      BY <1>1, SessionMarket, CostsAssumption
    <3>2. (q * p) * (FeeDen + FeeNum) \in Nat
      <4>1. q * p \in Nat
        BY <2>4, <3>1, Times
      <4> QED
        BY <3>1, <4>1, Times
    <3>3. CashDelta("BUY", q, p) = - ((q * p) * (FeeDen + FeeNum))
      BY DEF CashDelta
    <3> QED
      BY <2>2, <2>6, <3>2, <3>3
  <2>8. work.pos[a] + PositionDelta(side[a], q) >= 0
    BY <2>4, <2>6 DEF PositionDelta
  <2> QED
    BY <2>3, <2>4, <2>5, <2>7, <2>8 DEF FilledByRules, Affordable
<1> QED
  BY <1>4, <1>5

-----------------------------------------------------------------------------
(* Types and solvency are kept by every step *)

LEMMA EmptyFacts == TableOK(Empty) /\ \A k \in Keys : Empty.runs[k].status = "NONE"
<1>1. InitialCash \in Nat
  BY AccountAssumption
<1>2. IsFiniteSet({})
  BY FS_EmptySet
<1> QED
  BY <1>1, <1>2 DEF Empty, TableOK, Table, RunRow, NoRun

LEMMA BasicInit == Init => Basic
<1> SUFFICES ASSUME Init PROVE Basic
  OBVIOUS
<1>1. LocalsOK
  BY DEF Init, LocalsOK, Sides
<1> QED
  BY <1>1, EmptyFacts DEF Init, Basic, Inside

LEMMA EndRunBasic ==
    ASSUME EndRun
    PROVE  LocalsOK' /\ TableOK(work)' /\ pc' = "idle"
BY EmptyFacts DEF EndRun, LocalsOK, Sides

\* A rejection or a fill leaves a table.
LEMMA WorkKept ==
    ASSUME Basic, pc # "idle", NEW a \in Assets, NEW t, TableOK(t),
           \/ RefusedByRange(a, t)
           \/ \E s \in {"PROPOSAL", "FINAL"} : RefusedByRule(a, t, s)
           \/ side[a] \in Trades /\ FilledByRules(a, t)
    PROVE  TableOK(work')
<1>1. CASE RefusedByRange(a, t)
  BY <1>1, RejectedFacts DEF RefusedByRange
<1>2. ASSUME NEW s \in {"PROPOSAL", "FINAL"}, RefusedByRule(a, t, s)
      PROVE  TableOK(work')
  BY <1>2, RejectedFacts DEF RefusedByRule
<1>3. CASE side[a] \in Trades /\ FilledByRules(a, t)
  <2>1. PICK q \in Nat \ {0} : Affordable(t, a, q) /\ work' = Filled(t, a, q)
    BY <1>3 DEF FilledByRules
  <2>2. TableOK(Filled(t, a, q))
    BY <1>3, <2>1, FilledFacts
  <2> QED
    BY <2>1, <2>2
<1> QED
  BY <1>1, <1>2, <1>3

LEMMA BasicBegin == ASSUME Basic, NEW k \in Keys, Begin(k) PROVE Basic'
<1>1. TableOK(db) /\ db.cash \in Nat
  BY TableFacts DEF Basic, TableOK
<1>2. target' \in [Assets -> 0 .. WeightDen]
  BY AccountAssumption DEF Begin
<1> QED
  BY <1>1, <1>2 DEF Basic, LocalsOK, InSession, Inside, Begin, Free, Sides, outside

LEMMA BasicLoopEnds == ASSUME Basic, LoopEnds PROVE Basic'
<1>1. /\ work.cash \in Nat
      /\ pc \in {"value", "propose", "sell", "require", "buy"}
      /\ pc' \in {"propose", "sell", "require", "buy", "commit"}
  BY TableFacts DEF Basic, TableOK, LoopEnds, After
<1> QED
  BY <1>1 DEF Basic, LocalsOK, InSession, Inside, LoopEnds, outside, run

LEMMA BasicValue == ASSUME Basic, NEW a \in Assets, Value(a) PROVE Basic'
<1>1. FeeDen \in Nat /\ db.pos[a] \in Nat /\ Mid(market[a]) \in Nat
  <2>1. pc = "value"
    BY DEF Value
  <2> QED
    BY <2>1, SessionMarket, TableFacts, CostsAssumption DEF Basic, TableOK
<1>2. FeeDen * db.pos[a] \in Nat
  BY <1>1, Times
<1>3. (FeeDen * db.pos[a]) * Mid(market[a]) \in Nat
  BY <1>1, <1>2, Times
<1>4. equity' \in Nat
  BY <1>3 DEF Value, Basic, LocalsOK
<1> QED
  BY <1>4 DEF Basic, LocalsOK, InSession, Inside, Value, Advance, outside, run

LEMMA BasicPropose == ASSUME Basic, NEW a \in Assets, Propose(a) PROVE Basic'
<1>1. pc = "propose" /\ TableOK(work)
  BY DEF Propose, Basic
<1>2. TableOK(work')
  <2>1. CASE UNCHANGED work
    BY <1>1, <2>1
  <2>2. CASE RefusedByRule(a, work, "PROPOSAL")
    BY <1>1, <2>2, WorkKept
  <2> QED
    BY <2>1, <2>2, ProposeFacts
<1>3. requested' \in [Assets -> Nat] /\ side' \in [Assets -> Sides]
  BY ProposeFacts DEF Basic, LocalsOK, Sides, Trades
<1> QED
  BY <1>2, <1>3 DEF Basic, LocalsOK, InSession, Inside, Propose, Advance, outside, run

LEMMA BasicSell == ASSUME Basic, NEW a \in Assets, Sell(a) PROVE Basic'
<1>1. pc = "sell" /\ TableOK(work)
  BY DEF Sell, Basic
<1>2. TableOK(work')
  <2>1. CASE side[a] # "SELL"
    BY <1>1, <2>1 DEF Sell
  <2>2. CASE side[a] = "SELL"
    <3>1. side[a] \in Trades /\ TableOK(Decided(work, a))
      BY <1>1, <2>2, DecidedFacts DEF Trades
    <3> QED
      BY <1>1, <2>2, <3>1, SellFacts, WorkKept
  <2> QED
    BY <2>1, <2>2
<1> QED
  BY <1>2 DEF Basic, LocalsOK, InSession, Inside, Sell, Advance, outside, run

LEMMA BasicRequire == ASSUME Basic, NEW a \in Assets, Require(a) PROVE Basic'
<1>1. pc = "require" /\ TableOK(work)
  BY DEF Require, Basic
<1>2. TableOK(work') /\ required' \in Nat /\ side' \in [Assets -> Sides]
  <2>1. CASE side[a] # "BUY"
    BY <1>1, <2>1 DEF Require, Basic, LocalsOK
  <2>2. CASE side[a] = "BUY"
    <3>1. side[a] \in Trades /\ TableOK(Decided(work, a))
      BY <1>1, <2>2, DecidedFacts DEF Trades
    <3>2. TableOK(work')
      BY <1>1, <2>2, <3>1, RequireFacts, WorkKept
    <3> QED
      BY <2>2, <3>2, RequireFacts DEF Basic, LocalsOK, Sides
  <2> QED
    BY <2>1, <2>2
<1> QED
  BY <1>2 DEF Basic, LocalsOK, InSession, Inside, Require, Advance, outside, run

LEMMA BasicBuy == ASSUME Basic, NEW a \in Assets, Buy(a) PROVE Basic'
<1>1. pc = "buy" /\ TableOK(work)
  BY DEF Buy, Basic
<1>2. TableOK(work')
  <2>1. CASE side[a] # "BUY"
    BY <1>1, <2>1 DEF Buy
  <2>2. CASE side[a] = "BUY"
    <3>1. side[a] \in Trades
      BY <2>2 DEF Trades
    <3> QED
      BY <1>1, <2>2, <3>1, BuyFacts, WorkKept
  <2> QED
    BY <2>1, <2>2
<1> QED
  BY <1>2 DEF Basic, LocalsOK, InSession, Inside, Buy, Advance, outside, run

\* Evidence and contexts have their types.
LEMMA EvidenceType == ASSUME NEW m \in Market PROVE RuleEvidence(m) \in Evidence
BY MarketFacts DEF Market, Evidence, RuleEvidence

LEMMA ContextsType ==
    ASSUME Basic, pc # "idle"
    PROVE  /\ Contexts \subseteq ContextRow
           /\ \A c \in Contexts : c.spread = market[c.asset].ask - market[c.asset].bid
           /\ AssetsOf(Contexts) = {a \in Assets : requested[a] > 0}
<1>1. ASSUME NEW a \in Assets
      PROVE  /\ market[a].ask - market[a].bid \in Nat
             /\ [asset |-> a, spread |-> market[a].ask - market[a].bid] \in ContextRow
  <2>1. market[a] \in Market /\ market[a].bid <= market[a].ask
    BY SessionMarket DEF MarketFit
  <2>2. market[a].ask - market[a].bid \in Nat
    BY <2>1, MarketFacts
  <2> QED
    BY <2>2 DEF ContextRow
<1> DEFINE Row(a) == [asset |-> a, spread |-> market[a].ask - market[a].bid]
           S == {b \in Assets : requested[b] > 0}
<1>2. Contexts = {Row(a) : a \in S}
  BY DEF Contexts
<1>3. \A a : Row(a).asset = a /\ Row(a).spread = market[a].ask - market[a].bid
  OBVIOUS
<1>4. \A a \in S : Row(a) \in ContextRow
  BY <1>1
<1>5. S \subseteq Assets
  OBVIOUS
<1> HIDE DEF Row, S
<1>6. AssetsOf(Contexts) = S
  BY <1>2, <1>3 DEF AssetsOf
<1>7. \A c \in Contexts : c.spread = market[c.asset].ask - market[c.asset].bid
  BY <1>2, <1>3
<1>8. Contexts \subseteq ContextRow
  BY <1>2, <1>4
<1> QED
  BY <1>6, <1>7, <1>8 DEF S

\* The row that the commit writes, and the one that the judgement leaves.
Committed ==
    [status |-> "RUNNING", evidence |-> market,
     evidenceDigest |-> [a \in Assets |-> RuleEvidence(market[a])],
     declaredRejections |-> Rejections(work, week), contexts |-> Contexts]

LEMMA CommitFacts ==
    ASSUME Basic, Commit
    PROVE  /\ TableOK(db)' /\ pc' = "verify"
           /\ db'.cash = work.cash /\ db'.pos = work.pos /\ db'.orders = work.orders
           /\ db'.rejections = work.rejections /\ db'.decisions = work.decisions
           /\ db'.runs = [work.runs EXCEPT ![week] = Committed]
<1> DEFINE r == Committed
<1>1. work \in Table /\ IsFiniteSet(work.orders) /\ week \in Keys /\ pc # "idle"
  BY DEF Commit, Basic, TableOK, InSession
<1>2. r \in RunRow
  <2>1. market \in [Assets -> Market] /\ Rejections(work, week) \subseteq RejectionRow
    BY <1>1, TableFacts, MarketsAssumption DEF Commit, Basic, InSession, Rejections
  <2>2. [a \in Assets |-> RuleEvidence(market[a])] \in [Assets -> Evidence]
    BY <2>1, EvidenceType
  <2>3. Contexts \subseteq ContextRow
    BY <1>1, ContextsType
  <2> QED
    BY <2>1, <2>2, <2>3 DEF RunRow, EndedRow, Committed
<1>3. db' = [work EXCEPT !.runs[week] = r]
  BY DEF Commit, Committed
<1> HIDE DEF r
<1>4. /\ db'.cash = work.cash /\ db'.pos = work.pos /\ db'.orders = work.orders
      /\ db'.rejections = work.rejections /\ db'.decisions = work.decisions
      /\ db'.runs = [work.runs EXCEPT ![week] = r]
  BY <1>1, <1>3 DEF Table
<1>5. db' \in Table
  BY <1>1, <1>2, <1>3 DEF Table
<1> QED
  BY <1>1, <1>4, <1>5 DEF TableOK, Commit, r

\* A run that is judged or recovered keeps its evidence, and its tables.
LEMMA StatusFacts ==
    ASSUME NEW t, TableOK(t), NEW k \in Keys, t.runs[k].status # "NONE",
           NEW s \in {"RUNNING", "EXECUTED", "KILL_SWITCH", "RECOVERED_COMMITTED"},
           NEW u, u = [t EXCEPT !.runs[k].status = s]
    PROVE  /\ TableOK(u)
           /\ u.cash = t.cash /\ u.pos = t.pos /\ u.orders = t.orders
           /\ u.rejections = t.rejections /\ u.decisions = t.decisions
           /\ DOMAIN u.runs = Keys
           /\ u.runs[k].status = s
           /\ u.runs[k].evidence = t.runs[k].evidence
           /\ u.runs[k].evidenceDigest = t.runs[k].evidenceDigest
           /\ u.runs[k].declaredRejections = t.runs[k].declaredRejections
           /\ u.runs[k].contexts = t.runs[k].contexts
           /\ \A j \in Keys : j # k => u.runs[j] = t.runs[j]
<1> DEFINE old == t.runs[k]
<1>1. t \in Table /\ t.runs \in [Keys -> RunRow]
  BY TableFacts DEF TableOK
<1>2. old \in EndedRow
  BY <1>1, RunFacts
<1>3. PICK new : new = [old EXCEPT !.status = s]
  OBVIOUS
<1>4. /\ new.status = s /\ new.evidence = old.evidence
      /\ new.evidenceDigest = old.evidenceDigest
      /\ new.declaredRejections = old.declaredRejections
      /\ new.contexts = old.contexts
      /\ new \in RunRow
  BY <1>2, <1>3 DEF RunRow, EndedRow
<1>5. u = [t EXCEPT !.runs = [t.runs EXCEPT ![k] = new]]
  BY <1>1, <1>3 DEF Table
<1>6. /\ u.cash = t.cash /\ u.pos = t.pos /\ u.orders = t.orders
      /\ u.rejections = t.rejections /\ u.decisions = t.decisions
      /\ u.runs = [t.runs EXCEPT ![k] = new]
  BY <1>1, <1>5 DEF Table
<1>7. [t.runs EXCEPT ![k] = new] \in [Keys -> RunRow]
  BY <1>1, <1>4
<1>8. u \in Table
  BY <1>1, <1>5, <1>7 DEF Table
<1> QED
  BY <1>1, <1>4, <1>6, <1>7, <1>8 DEF TableOK

LEMMA BasicCommit == ASSUME Basic, Commit PROVE Basic'
<1>1. TableOK(db)' /\ pc' = "verify" /\ db'.runs[week].status = "RUNNING"
  <2>1. week \in Keys /\ work.runs \in [Keys -> RunRow]
    BY TableFacts DEF Commit, Basic, InSession, TableOK
  <2> QED
    BY <2>1, CommitFacts DEF Committed
<1> QED
  BY <1>1 DEF Basic, LocalsOK, InSession, Inside, Commit, run

LEMMA BasicVerify == ASSUME Basic, Verify PROVE Basic'
<1>1. week \in Keys /\ db.runs[week].status # "NONE" /\ TableOK(db)
  BY DEF Verify, Basic, InSession
<1>2. \E s \in {"EXECUTED", "KILL_SWITCH"} : db' = [db EXCEPT !.runs[week].status = s]
  BY DEF Verify
<1>3. TableOK(db')
  BY <1>1, <1>2, StatusFacts
<1>4. halted' \in BOOLEAN /\ UNCHANGED damaged /\ EndRun
  BY DEF Verify
<1> QED
  BY <1>3, <1>4, EndRunBasic DEF Basic, Inside

LEMMA BasicCrash == ASSUME Basic, Crash PROVE Basic'
<1>1. week \in Keys /\ TableOK(db)
  BY DEF Crash, Basic, InSession
<1>2. TableOK(db')
  <2>1. CASE pc = "verify"
    <3>1. db' = [db EXCEPT !.runs[week].status = "RECOVERED_COMMITTED"]
      BY <2>1 DEF Crash
    <3>2. db.runs[week].status # "NONE"
      BY <2>1 DEF Basic
    <3> QED
      BY <1>1, <3>1, <3>2, StatusFacts
  <2>2. CASE pc # "verify"
    BY <1>1, <2>2 DEF Crash
  <2> QED
    BY <2>1, <2>2
<1>3. UNCHANGED <<halted, damaged>> /\ EndRun
  BY DEF Crash
<1> QED
  BY <1>2, <1>3, EndRunBasic DEF Basic, Inside

LEMMA TableWithCash ==
    ASSUME NEW t \in Table, NEW u, u = [t EXCEPT !.cash = @ + 1]
    PROVE  /\ u \in Table /\ u.cash = t.cash + 1 /\ u.pos = t.pos /\ u.orders = t.orders
           /\ u.rejections = t.rejections /\ u.decisions = t.decisions
           /\ u.runs = t.runs
BY DEF Table

LEMMA TableWithPos ==
    ASSUME NEW t \in Table, NEW a \in Assets, NEW u, u = [t EXCEPT !.pos[a] = @ + 1]
    PROVE  /\ u \in Table /\ u.cash = t.cash /\ u.pos[a] = t.pos[a] + 1
           /\ u.orders = t.orders
           /\ u.rejections = t.rejections /\ u.decisions = t.decisions
           /\ u.runs = t.runs
BY DEF Table

LEMMA TableWithOrders ==
    ASSUME NEW t \in Table, NEW v \in SUBSET OrderRow, NEW u, u = [t EXCEPT !.orders = v]
    PROVE  /\ u \in Table /\ u.cash = t.cash /\ u.pos = t.pos /\ u.orders = v
           /\ u.rejections = t.rejections /\ u.decisions = t.decisions
           /\ u.runs = t.runs
BY DEF Table

LEMMA TableWithRejections ==
    ASSUME NEW t \in Table, NEW v \in SUBSET RejectionRow,
           NEW u, u = [t EXCEPT !.rejections = v]
    PROVE  /\ u \in Table /\ u.cash = t.cash /\ u.pos = t.pos /\ u.orders = t.orders
           /\ u.rejections = v /\ u.decisions = t.decisions
           /\ u.runs = t.runs
BY DEF Table

LEMMA TableWithDecisions ==
    ASSUME NEW t \in Table, NEW v \in SUBSET DecisionRow,
           NEW u, u = [t EXCEPT !.decisions = v]
    PROVE  /\ u \in Table /\ u.cash = t.cash /\ u.pos = t.pos /\ u.orders = t.orders
           /\ u.rejections = t.rejections /\ u.decisions = v
           /\ u.runs = t.runs
BY DEF Table

\* A run with one row of its evidence, or with its contexts, replaced.
WithRun(t, k, new) == [t EXCEPT !.runs = [t.runs EXCEPT ![k] = new]]

LEMMA TableWithRun ==
    ASSUME NEW t \in Table, NEW k \in Keys, NEW new \in RunRow,
           NEW u, u = WithRun(t, k, new)
    PROVE  /\ u \in Table /\ u.cash = t.cash /\ u.pos = t.pos /\ u.orders = t.orders
           /\ u.rejections = t.rejections /\ u.decisions = t.decisions
           /\ DOMAIN u.runs = Keys /\ u.runs[k] = new
           /\ \A j \in Keys : j # k => u.runs[j] = t.runs[j]
<1>1. t.runs \in [Keys -> RunRow]
  BY TableFacts
<1>0. PICK f : f = [t.runs EXCEPT ![k] = new]
  OBVIOUS
<1>2. f \in [Keys -> RunRow] /\ f[k] = new /\ \A j \in Keys : j # k => f[j] = t.runs[j]
  BY <1>0, <1>1
<1>5. u = [t EXCEPT !.runs = f]
  BY <1>0 DEF WithRun
<1>3. /\ u.cash = t.cash /\ u.pos = t.pos /\ u.orders = t.orders
      /\ u.rejections = t.rejections /\ u.decisions = t.decisions
      /\ u.runs = f
  BY <1>5 DEF Table
<1>4. u \in Table
  BY <1>2, <1>5 DEF Table
<1> QED
  BY <1>1, <1>2, <1>3, <1>4

WithMarket(t, k, a, n) == [t EXCEPT !.runs[k].evidence[a] = n]

LEMMA TableWithMarket ==
    ASSUME NEW t \in Table, NEW k \in Keys, t.runs[k].status # "NONE", NEW a \in Assets,
           NEW n \in Market, NEW u, u = WithMarket(t, k, a, n)
    PROVE  /\ u \in Table /\ u.cash = t.cash /\ u.pos = t.pos /\ u.orders = t.orders
           /\ u.rejections = t.rejections /\ u.decisions = t.decisions
           /\ DOMAIN u.runs = Keys
           /\ u.runs[k].status = t.runs[k].status
           /\ u.runs[k].evidence[a] = n
           /\ u.runs[k].evidenceDigest = t.runs[k].evidenceDigest
           /\ u.runs[k].contexts = t.runs[k].contexts
           /\ \A j \in Keys : j # k => u.runs[j] = t.runs[j]
<1> DEFINE old == t.runs[k]
<1>1. t.runs \in [Keys -> RunRow]
  BY TableFacts
<1>2. old \in EndedRow
  BY <1>1, RunFacts
<1>3. PICK e : e = [old.evidence EXCEPT ![a] = n]
  OBVIOUS
<1>4. e \in [Assets -> Market] /\ e[a] = n
  BY <1>2, <1>3 DEF EndedRow
<1>5. PICK new : new = [old EXCEPT !.evidence = e]
  OBVIOUS
<1>6. /\ new \in RunRow /\ new.status = old.status /\ new.evidence = e
      /\ new.evidenceDigest = old.evidenceDigest /\ new.contexts = old.contexts
  BY <1>2, <1>4, <1>5 DEF RunRow, EndedRow
<1>7. u = WithRun(t, k, new)
  BY <1>3, <1>5 DEF Table, WithMarket, WithRun
<1>8. /\ u \in Table /\ u.cash = t.cash /\ u.pos = t.pos /\ u.orders = t.orders
      /\ u.rejections = t.rejections /\ u.decisions = t.decisions
      /\ DOMAIN u.runs = Keys /\ u.runs[k] = new
      /\ \A j \in Keys : j # k => u.runs[j] = t.runs[j]
  BY <1>6, <1>7, TableWithRun
<1> QED
  BY <1>4, <1>6, <1>8

WithContexts(t, k, v) == [t EXCEPT !.runs[k].contexts = v]

LEMMA TableWithContexts ==
    ASSUME NEW t \in Table, NEW k \in Keys, t.runs[k].status # "NONE",
           NEW v \in SUBSET ContextRow, NEW u, u = WithContexts(t, k, v)
    PROVE  /\ u \in Table /\ u.cash = t.cash /\ u.pos = t.pos /\ u.orders = t.orders
           /\ u.rejections = t.rejections /\ u.decisions = t.decisions
           /\ DOMAIN u.runs = Keys
           /\ u.runs[k].status = t.runs[k].status
           /\ u.runs[k].evidence = t.runs[k].evidence
           /\ u.runs[k].contexts = v
           /\ \A j \in Keys : j # k => u.runs[j] = t.runs[j]
<1> DEFINE old == t.runs[k]
<1>1. t.runs \in [Keys -> RunRow]
  BY TableFacts
<1>2. old \in EndedRow
  BY <1>1, RunFacts
<1>3. PICK new : new = [old EXCEPT !.contexts = v]
  OBVIOUS
<1>4. /\ new \in RunRow /\ new.status = old.status /\ new.evidence = old.evidence
      /\ new.contexts = v
  BY <1>2, <1>3 DEF RunRow, EndedRow
<1>5. u = WithRun(t, k, new)
  BY <1>3 DEF Table, WithContexts, WithRun
<1>6. /\ u \in Table /\ u.cash = t.cash /\ u.pos = t.pos /\ u.orders = t.orders
      /\ u.rejections = t.rejections /\ u.decisions = t.decisions
      /\ DOMAIN u.runs = Keys /\ u.runs[k] = new
      /\ \A j \in Keys : j # k => u.runs[j] = t.runs[j]
  BY <1>4, <1>5, TableWithRun
<1> QED
  BY <1>4, <1>6

\* One number of an order, its fill or their ledger rows is changed.
DamagedOrder(o, f, n) == n = Raised(o, f)

\* The damaged order differs in the one number.
LEMMA OrderDamaged ==
    ASSUME NEW o \in OrderRow, NEW f \in {"ordered", "filled", "price", "cash", "position"},
           NEW n, DamagedOrder(o, f, n)
    PROVE  /\ n \in OrderRow /\ n.week = o.week /\ n.asset = o.asset /\ n.side = o.side
           /\ n # o
           /\ f = "ordered" => n.ordered = o.ordered + 1 /\ n.filled = o.filled
           /\ f # "ordered" => n.ordered = o.ordered
           /\ f = "filled" => n.filled = o.filled + 1
           /\ f # "filled" => n.filled = o.filled
           /\ f = "price" => n.price = o.price + 1
           /\ f # "price" => n.price = o.price
           /\ f = "cash" => n.cash = o.cash + 1
           /\ f # "cash" => n.cash = o.cash
           /\ f = "position" => n.position = o.position + 1
           /\ f # "position" => n.position = o.position
<1>1. CASE f = "ordered"
  BY <1>1 DEF OrderRow, DamagedOrder, Raised
<1>2. CASE f = "filled"
  BY <1>2 DEF OrderRow, DamagedOrder, Raised
<1>3. CASE f = "price"
  BY <1>3 DEF OrderRow, DamagedOrder, Raised
<1>4. CASE f = "cash"
  BY <1>4 DEF OrderRow, DamagedOrder, Raised
<1>5. CASE f = "position"
  BY <1>5 DEF OrderRow, DamagedOrder, Raised
<1> QED
  BY <1>1, <1>2, <1>3, <1>4, <1>5

\* A number or the reason of a rejection, a number or the outcome of a decision.
DamagedRejection(x, n) ==
    n = [x EXCEPT !.reason = "manual"] \/ n = Raised(x, "asked") \/ n = Raised(x, "num")

DamagedDecision(d, n) ==
    \/ n = [d EXCEPT !.outcome = "EVIDENCE_UNAVAILABLE"]
    \/ n = Raised(d, "price") \/ n = Raised(d, "reference")

LEMMA RejectionDamaged ==
    ASSUME NEW x \in RejectionRow, NEW n, DamagedRejection(x, n)
    PROVE  /\ n \in RejectionRow /\ n.week = x.week
           /\ n.reason = "manual" \/ n.reason = x.reason
           /\ x.reason # "manual" => n # x
<1>1. CASE n = [x EXCEPT !.reason = "manual"]
  BY <1>1 DEF RejectionRow
<1>2. CASE n = Raised(x, "asked")
  <2>1. /\ n \in RejectionRow /\ n.week = x.week /\ n.reason = x.reason
        /\ n.asked = x.asked + 1 /\ x.asked \in Nat
    BY <1>2 DEF RejectionRow, Raised
  <2> QED
    BY <2>1
<1>3. CASE n = Raised(x, "num")
  <2>1. /\ n \in RejectionRow /\ n.week = x.week /\ n.reason = x.reason
        /\ n.num = x.num + 1 /\ x.num \in Nat
    BY <1>3 DEF RejectionRow, Raised
  <2> QED
    BY <2>1
<1> QED
  BY <1>1, <1>2, <1>3 DEF DamagedRejection

LEMMA DecisionDamaged ==
    ASSUME NEW d \in DecisionRow, NEW n, DamagedDecision(d, n)
    PROVE  /\ n \in DecisionRow /\ n.week = d.week /\ n.asset = d.asset /\ n.side = d.side
           /\ \/ n.outcome = "EVIDENCE_UNAVAILABLE"
              \/ n.price # d.price
              \/ n.reference = d.reference + 1
<1>1. CASE n = [d EXCEPT !.outcome = "EVIDENCE_UNAVAILABLE"]
  BY <1>1 DEF DecisionRow
<1>2. CASE n = Raised(d, "price")
  BY <1>2 DEF DecisionRow, Raised
<1>3. CASE n = Raised(d, "reference")
  BY <1>3 DEF DecisionRow, Raised
<1> QED
  BY <1>1, <1>2, <1>3 DEF DamagedDecision

\* A rule or the reference of a market, or one side of its quote.
DamagedRules(m, n) == n = [m EXCEPT !.rules.min = @ + 1] \/ n = [m EXCEPT !.reference = @ + 1]

DamagedQuote(m, n) == n = Raised(m, "bid") \/ n = Raised(m, "ask")

LEMMA MarketDamaged ==
    ASSUME NEW m \in Market, NEW n
    PROVE  /\ DamagedRules(m, n) => n \in Market /\ RuleEvidence(n) # RuleEvidence(m)
           /\ DamagedQuote(m, n) => n \in Market /\ n.ask - n.bid # m.ask - m.bid
<1>1. ASSUME n = [m EXCEPT !.rules.min = @ + 1]
      PROVE  n \in Market /\ RuleEvidence(n) # RuleEvidence(m)
  <2>1. PICK u : u = [m.rules EXCEPT !.min = @ + 1]
    OBVIOUS
  <2>2. m.rules \in Rules
    BY MarketFacts
  <2>3. u \in Rules /\ u.min = m.rules.min + 1 /\ m.rules.min \in Nat
    BY <2>1, <2>2 DEF Rules
  <2>4. n = [m EXCEPT !.rules = u]
    BY <1>1, <2>1 DEF Market
  <2>5. n \in Market /\ n.rules = u
    BY <2>3, <2>4 DEF Market
  <2>6. RuleEvidence(n).rules # RuleEvidence(m).rules
    BY <2>3, <2>5 DEF RuleEvidence
  <2> QED
    BY <2>5, <2>6
<1>2. ASSUME n = [m EXCEPT !.reference = @ + 1]
      PROVE  n \in Market /\ RuleEvidence(n) # RuleEvidence(m)
  <2>1. n \in Market /\ n.reference = m.reference + 1 /\ m.reference \in Nat
    BY <1>2 DEF Market
  <2>2. RuleEvidence(n).reference # RuleEvidence(m).reference
    BY <2>1 DEF RuleEvidence
  <2> QED
    BY <2>1, <2>2
<1>3. ASSUME DamagedQuote(m, n)
      PROVE  n \in Market /\ n.ask - n.bid # m.ask - m.bid
  <2>1. m.bid \in Nat \ {0} /\ m.ask \in Nat \ {0}
    BY MarketFacts
  <2>2. CASE n = Raised(m, "bid")
    <3>1. n \in Market /\ n.bid = m.bid + 1 /\ n.ask = m.ask
      BY <2>2 DEF Market, Raised
    <3> QED
      BY <2>1, <3>1
  <2>3. CASE n = Raised(m, "ask")
    <3>1. n \in Market /\ n.bid = m.bid /\ n.ask = m.ask + 1
      BY <2>3 DEF Market, Raised
    <3> QED
      BY <2>1, <3>1
  <2> QED
    BY <1>3, <2>2, <2>3 DEF DamagedQuote
<1> QED
  BY <1>1, <1>2, <1>3 DEF DamagedRules

\* The ways to change one stored value.
DamagesCash == db' = [db EXCEPT !.cash = @ + 1]
DamagesPos(a) == db' = [db EXCEPT !.pos[a] = @ + 1]
RemovesOrder(o) == db' = [db EXCEPT !.orders = db.orders \ {o}]
ChangesOrder(o, n) == db' = [db EXCEPT !.orders = (db.orders \ {o}) \cup {n}]
RemovesRejection(x) == db' = [db EXCEPT !.rejections = db.rejections \ {x}]
ChangesRejection(x, n) == db' = [db EXCEPT !.rejections = (db.rejections \ {x}) \cup {n}]
RemovesDecision(d) == db' = [db EXCEPT !.decisions = db.decisions \ {d}]
ChangesDecision(d, n) == db' = [db EXCEPT !.decisions = (db.decisions \ {d}) \cup {n}]
ChangesMarket(k, a, n) == db' = WithMarket(db, k, a, n)
ChangesContexts(k, v) == db' = WithContexts(db, k, v)

\* A run that was committed, with a rule, a context or a quote changed.
DamagesRun(k) ==
    \/ \E a \in Assets : \E n :
          DamagedRules(db.runs[k].evidence[a], n) /\ ChangesMarket(k, a, n)
    \/ \E c \in db.runs[k].contexts :
          \/ ChangesContexts(k, db.runs[k].contexts \ {c})
          \/ ChangesContexts(k, (db.runs[k].contexts \ {c}) \cup {Raised(c, "spread")})
          \/ \E n : DamagedQuote(db.runs[k].evidence[c.asset], n)
                    /\ ChangesMarket(k, c.asset, n)

\* Damage, written as one of the ways.
LEMMA DamageWays ==
    ASSUME Damage
    PROVE  \/ DamagesCash
           \/ \E a \in Assets : DamagesPos(a)
           \/ \E o \in db.orders :
                 \/ RemovesOrder(o)
                 \/ \E f \in {"ordered", "filled", "price", "cash", "position"} :
                       \E n : DamagedOrder(o, f, n) /\ ChangesOrder(o, n)
           \/ \E x \in db.rejections :
                 \/ RemovesRejection(x)
                 \/ \E n : DamagedRejection(x, n) /\ ChangesRejection(x, n)
           \/ \E d \in db.decisions :
                 \/ RemovesDecision(d)
                 \/ \E n : DamagedDecision(d, n) /\ ChangesDecision(d, n)
           \/ \E k \in Keys : db.runs[k].status # "NONE" /\ DamagesRun(k)
<1>1. CASE DamagesCash \/ \E a \in Assets : DamagesPos(a)
  BY <1>1
<1>2. ASSUME NEW o \in db.orders,
             \/ db' = [db EXCEPT !.orders = @ \ {o}]
             \/ \E f \in {"ordered", "filled", "price", "cash", "position"} :
                   db' = [db EXCEPT !.orders = Replace(@, o, Raised(o, f))]
      PROVE  \/ RemovesOrder(o)
             \/ \E f \in {"ordered", "filled", "price", "cash", "position"} :
                   \E n : DamagedOrder(o, f, n) /\ ChangesOrder(o, n)
  BY <1>2 DEF RemovesOrder, ChangesOrder, DamagedOrder, Replace
<1>3. ASSUME NEW x \in db.rejections,
             \/ db' = [db EXCEPT !.rejections = @ \ {x}]
             \/ db' = [db EXCEPT !.rejections = Replace(@, x, [x EXCEPT !.reason = "manual"])]
             \/ \E f \in {"asked", "num"} :
                   db' = [db EXCEPT !.rejections = Replace(@, x, Raised(x, f))]
      PROVE  \/ RemovesRejection(x)
             \/ \E n : DamagedRejection(x, n) /\ ChangesRejection(x, n)
  BY <1>3 DEF RemovesRejection, ChangesRejection, DamagedRejection, Replace
<1>4. ASSUME NEW d \in db.decisions,
             \/ db' = [db EXCEPT !.decisions = @ \ {d}]
             \/ db' = [db EXCEPT !.decisions =
                          Replace(@, d, [d EXCEPT !.outcome = "EVIDENCE_UNAVAILABLE"])]
             \/ \E f \in {"price", "reference"} :
                   db' = [db EXCEPT !.decisions = Replace(@, d, Raised(d, f))]
      PROVE  \/ RemovesDecision(d)
             \/ \E n : DamagedDecision(d, n) /\ ChangesDecision(d, n)
  BY <1>4 DEF RemovesDecision, ChangesDecision, DamagedDecision, Replace
<1>5. ASSUME NEW k \in Keys, NEW a \in Assets,
             \/ db' = [db EXCEPT !.runs[k].evidence[a].rules.min = @ + 1]
             \/ db' = [db EXCEPT !.runs[k].evidence[a].reference = @ + 1]
      PROVE  DamagesRun(k)
  <2> DEFINE m == db.runs[k].evidence[a]
  <2>1. CASE db' = [db EXCEPT !.runs[k].evidence[a].rules.min = @ + 1]
    <3>1. PICK n : n = [m EXCEPT !.rules.min = @ + 1]
      OBVIOUS
    <3>2. ChangesMarket(k, a, n)
      BY <2>1, <3>1 DEF ChangesMarket, WithMarket
    <3> QED
      BY <3>1, <3>2 DEF DamagesRun, DamagedRules
  <2>2. CASE db' = [db EXCEPT !.runs[k].evidence[a].reference = @ + 1]
    <3>1. PICK n : n = [m EXCEPT !.reference = @ + 1]
      OBVIOUS
    <3>2. ChangesMarket(k, a, n)
      BY <2>2, <3>1 DEF ChangesMarket, WithMarket
    <3> QED
      BY <3>1, <3>2 DEF DamagesRun, DamagedRules
  <2> QED
    BY <1>5, <2>1, <2>2
<1>6. ASSUME NEW k \in Keys, NEW c \in db.runs[k].contexts,
             \/ db' = [db EXCEPT !.runs[k].contexts = @ \ {c}]
             \/ db' = [db EXCEPT !.runs[k].contexts = Replace(@, c, Raised(c, "spread"))]
             \/ \E f \in {"bid", "ask"} :
                   db' = [db EXCEPT !.runs[k].evidence[c.asset] = Raised(@, f)]
      PROVE  DamagesRun(k)
  BY <1>6 DEF DamagesRun, ChangesContexts, WithContexts, ChangesMarket, WithMarket,
              DamagedQuote, Replace
<1> QED
  BY <1>1, <1>2, <1>3, <1>4, <1>5, <1>6 DEF Damage, Free, DamagesCash, DamagesPos

\* Whatever is changed: a run keeps its status, and what is not changed is as before.
LEMMA DamageKeeps ==
    ASSUME Basic, Damage
    PROVE  /\ TableOK(db')
           /\ DOMAIN db'.runs = Keys
           /\ \A k \in Keys : db'.runs[k].status = db.runs[k].status
           /\ \A o \in db'.orders : \E r \in db.orders : o.week = r.week
           /\ \A x \in db'.rejections : \E r \in db.rejections :
                 x.week = r.week /\ (x.reason = "manual" \/ x.reason = r.reason)
           /\ \A d \in db'.decisions : \E r \in db.decisions : d.week = r.week
<1>1. /\ db \in Table /\ IsFiniteSet(db.orders)
      /\ db.orders \in SUBSET OrderRow /\ db.rejections \in SUBSET RejectionRow
      /\ db.decisions \in SUBSET DecisionRow /\ db.runs \in [Keys -> RunRow]
  BY TableFacts DEF Basic, TableOK
<1>2. CASE DamagesCash
  BY <1>1, <1>2, TableWithCash DEF DamagesCash, TableOK
<1>3. ASSUME NEW a \in Assets, DamagesPos(a)
      PROVE  TableOK(db') /\ db'.runs = db.runs /\ db'.orders = db.orders
             /\ db'.rejections = db.rejections /\ db'.decisions = db.decisions
  BY <1>1, <1>3, TableWithPos DEF DamagesPos, TableOK
<1>4. ASSUME NEW o \in db.orders, RemovesOrder(o)
      PROVE  TableOK(db') /\ db'.runs = db.runs /\ db'.orders \subseteq db.orders
             /\ db'.rejections = db.rejections /\ db'.decisions = db.decisions
  <2>1. IsFiniteSet(db.orders \ {o})
    BY <1>1, FS_RemoveElement
  <2> QED
    BY <1>1, <1>4, <2>1, TableWithOrders DEF RemovesOrder, TableOK
<1>5. ASSUME NEW o \in db.orders, NEW n \in OrderRow, n.week = o.week, ChangesOrder(o, n)
      PROVE  TableOK(db') /\ db'.runs = db.runs /\ db'.orders = (db.orders \ {o}) \cup {n}
             /\ db'.rejections = db.rejections /\ db'.decisions = db.decisions
  <2>1. IsFiniteSet((db.orders \ {o}) \cup {n})
    BY <1>1, FS_RemoveElement, FS_AddElement
  <2>2. (db.orders \ {o}) \cup {n} \in SUBSET OrderRow
    BY <1>1
  <2> QED
    BY <1>1, <1>5, <2>1, <2>2, TableWithOrders DEF ChangesOrder, TableOK
<1>6. ASSUME NEW x \in db.rejections, RemovesRejection(x)
      PROVE  TableOK(db') /\ db'.runs = db.runs /\ db'.orders = db.orders
             /\ db'.rejections \subseteq db.rejections /\ db'.decisions = db.decisions
  <2>1. db.rejections \ {x} \in SUBSET RejectionRow
    BY <1>1
  <2> QED
    BY <1>1, <1>6, <2>1, TableWithRejections DEF RemovesRejection, TableOK
<1>7. ASSUME NEW x \in db.rejections, NEW n \in RejectionRow, n.week = x.week,
             ChangesRejection(x, n)
      PROVE  TableOK(db') /\ db'.runs = db.runs /\ db'.orders = db.orders
             /\ db'.rejections = (db.rejections \ {x}) \cup {n}
             /\ db'.decisions = db.decisions
  <2>1. (db.rejections \ {x}) \cup {n} \in SUBSET RejectionRow
    BY <1>1
  <2> QED
    BY <1>1, <1>7, <2>1, TableWithRejections DEF ChangesRejection, TableOK
<1>8. ASSUME NEW d \in db.decisions, RemovesDecision(d)
      PROVE  TableOK(db') /\ db'.runs = db.runs /\ db'.orders = db.orders
             /\ db'.rejections = db.rejections /\ db'.decisions \subseteq db.decisions
  <2>1. db.decisions \ {d} \in SUBSET DecisionRow
    BY <1>1
  <2> QED
    BY <1>1, <1>8, <2>1, TableWithDecisions DEF RemovesDecision, TableOK
<1>9. ASSUME NEW d \in db.decisions, NEW n \in DecisionRow, n.week = d.week,
             ChangesDecision(d, n)
      PROVE  TableOK(db') /\ db'.runs = db.runs /\ db'.orders = db.orders
             /\ db'.rejections = db.rejections
             /\ db'.decisions = (db.decisions \ {d}) \cup {n}
  <2>1. (db.decisions \ {d}) \cup {n} \in SUBSET DecisionRow
    BY <1>1
  <2> QED
    BY <1>1, <1>9, <2>1, TableWithDecisions DEF ChangesDecision, TableOK
<1>10. ASSUME NEW k \in Keys, db.runs[k].status # "NONE", DamagesRun(k)
       PROVE  /\ TableOK(db') /\ db'.orders = db.orders
              /\ db'.rejections = db.rejections /\ db'.decisions = db.decisions
              /\ DOMAIN db'.runs = Keys
              /\ \A j \in Keys : db'.runs[j].status = db.runs[j].status
  <2>1. db.runs[k] \in EndedRow
    BY <1>1, <1>10, RunFacts
  <2>2. /\ db.runs[k].evidence \in [Assets -> Market]
        /\ db.runs[k].contexts \subseteq ContextRow
    BY <2>1 DEF EndedRow
  <2>3. ASSUME NEW a \in Assets, NEW n \in Market, ChangesMarket(k, a, n)
        PROVE  /\ TableOK(db') /\ db'.orders = db.orders
               /\ db'.rejections = db.rejections /\ db'.decisions = db.decisions
               /\ DOMAIN db'.runs = Keys
               /\ \A j \in Keys : db'.runs[j].status = db.runs[j].status
    BY <1>1, <1>10, <2>3, TableWithMarket DEF ChangesMarket, TableOK
  <2>4. ASSUME NEW v \in SUBSET ContextRow, ChangesContexts(k, v)
        PROVE  /\ TableOK(db') /\ db'.orders = db.orders
               /\ db'.rejections = db.rejections /\ db'.decisions = db.decisions
               /\ DOMAIN db'.runs = Keys
               /\ \A j \in Keys : db'.runs[j].status = db.runs[j].status
    BY <1>1, <1>10, <2>4, TableWithContexts DEF ChangesContexts, TableOK
  <2>5. ASSUME NEW a \in Assets, NEW n, DamagedRules(db.runs[k].evidence[a], n)
        PROVE  n \in Market
    BY <2>2, <2>5, MarketDamaged
  <2>6. ASSUME NEW c \in db.runs[k].contexts
        PROVE  /\ c.asset \in Assets /\ Raised(c, "spread") \in ContextRow
               /\ \A n : DamagedQuote(db.runs[k].evidence[c.asset], n) => n \in Market
    <3>1. c \in ContextRow
      BY <2>2
    <3>2. c.asset \in Assets /\ Raised(c, "spread") \in ContextRow
      BY <3>1 DEF ContextRow, Raised
    <3> QED
      BY <2>2, <3>2, MarketDamaged
  <2> QED
    BY <1>10, <2>2, <2>3, <2>4, <2>5, <2>6 DEF DamagesRun
<1>11. db'.runs = db.runs => /\ DOMAIN db'.runs = Keys
                             /\ \A k \in Keys : db'.runs[k].status = db.runs[k].status
  BY <1>1
<1>12. ASSUME NEW o \in db.orders,
              NEW f \in {"ordered", "filled", "price", "cash", "position"},
              NEW n, DamagedOrder(o, f, n)
       PROVE  n \in OrderRow /\ n.week = o.week
  <2>1. o \in OrderRow
    BY <1>1
  <2> QED
    BY <1>12, <2>1, OrderDamaged
<1>13. ASSUME NEW x \in db.rejections, NEW n, DamagedRejection(x, n)
       PROVE  /\ n \in RejectionRow /\ n.week = x.week
              /\ n.reason = "manual" \/ n.reason = x.reason
  BY <1>1, <1>13, RejectionDamaged
<1>14. ASSUME NEW d \in db.decisions, NEW n, DamagedDecision(d, n)
       PROVE  n \in DecisionRow /\ n.week = d.week
  BY <1>1, <1>14, DecisionDamaged
<1> QED
  BY <1>2, <1>3, <1>4, <1>5, <1>6, <1>7, <1>8, <1>9, <1>10, <1>11, <1>12, <1>13, <1>14,
     DamageWays

LEMMA BasicDamage == ASSUME Basic, Damage PROVE Basic'
<1>1. pc = "idle" /\ UNCHANGED <<halted, pc, week, market, target, todo, equity,
                                 requested, side, required, funds, work>>
      /\ damaged' = TRUE
  BY DEF Damage, run
<1>2. TableOK(db')
  BY DamageKeeps
<1> QED
  BY <1>1, <1>2 DEF Basic, LocalsOK, Inside

LEMMA BasicNext == Basic /\ [Next]_vars => Basic'
<1> SUFFICES ASSUME Basic, [Next]_vars
             PROVE  Basic'
  OBVIOUS
<1>1. CASE Refuse
  BY <1>1 DEF Basic, LocalsOK, InSession, Inside, Refuse, run
<1>2. CASE UNCHANGED vars
  BY <1>2 DEF Basic, LocalsOK, InSession, Inside, vars
<1> QED
  BY <1>1, <1>2, BasicBegin, BasicLoopEnds, BasicValue, BasicPropose, BasicSell,
     BasicRequire, BasicBuy, BasicCommit, BasicVerify, BasicCrash, BasicDamage DEF Next

\* Every reachable table and variable has its type, and cash, positions and the
\* cash the buys are scaled to are never negative, damaged or not.
THEOREM BasicInvariance == Spec => []Basic
BY BasicInit, BasicNext, PTL DEF Spec

\* Type correctness of the database, the transaction and the session.
THEOREM TypeCorrect == Spec => []TypeOK
BY BasicInvariance, BasicImpliesTypes, PTL

\* _execute never overdraws the account: sells are cut to what is held, and a buy
\* that rounding made dearer than the cash left is rejected
\* (paper_broker.py:1281 and 1315).
THEOREM Solvency == Spec => []Solvent
BY BasicInvariance, BasicImpliesTypes, PTL

-----------------------------------------------------------------------------
(* Every proposal is answered once *)

Rows(t) == t.orders \cup t.rejections \cup t.decisions

\* The answers to the proposal for an asset in a week, and the decisions on it.
AnswersOf(t, k, a) ==
    {r \in t.orders : r.week = k /\ r.asset = a}
    \cup {x \in t.rejections : x.week = k /\ x.asset = a /\ x.stage = "FINAL"}

DecisionsOf(t, k, a) == {d \in t.decisions : d.week = k /\ d.asset = a}

Silent(t, a) == AnswersOf(t, week, a) = {} /\ DecisionsOf(t, week, a) = {}

Cleared(t, a) ==
    /\ AnswersOf(t, week, a) = {}
    /\ \E d : DecisionsOf(t, week, a) = {d} /\ d.outcome # "REJECTED"

Answered(t, a) ==
    \E r, d : /\ AnswersOf(t, week, a) = {r} /\ DecisionsOf(t, week, a) = {d}
              /\ d.outcome = "REJECTED" => r \in t.rejections /\ r.reason = RangeReason

\* How far the session has come with one asset.
StageInv(a) ==
    /\ pc = "value" => requested[a] = 0 /\ side[a] = "NONE"
    /\ pc = "propose" /\ a \in todo => requested[a] = 0 /\ side[a] = "NONE"
    /\ requested[a] = 0 => side[a] = "NONE" /\ Silent(work, a)
    /\ requested[a] # 0 =>
          IF pc = "propose" \/ (pc = "sell" /\ (a \in todo \/ side[a] = "BUY"))
             \/ (pc = "require" /\ a \in todo /\ side[a] = "BUY")
          THEN side[a] \in Trades /\ Silent(work, a)
          ELSE IF side[a] = "BUY" /\ (pc = "require" \/ (pc = "buy" /\ a \in todo))
          THEN Cleared(work, a)
          ELSE Answered(work, a)

\* A row belongs to a week that was committed, or to the session's own; only a
\* run that is still to be judged is RUNNING.
RowsInv ==
    /\ \A r \in Rows(db) : db.runs[r.week].status # "NONE"
    /\ \A k \in Keys : db.runs[k].status = "RUNNING" => pc = "verify" /\ k = week
    /\ pc \in Inside =>
          /\ work.runs = db.runs
          /\ \A r \in Rows(work) : r.week = week \/ db.runs[r.week].status # "NONE"
          /\ \A a \in Assets : StageInv(a)
    /\ pc = "commit" => todo = {}

Same(t, u, a) ==
    /\ AnswersOf(u, week, a) = AnswersOf(t, week, a)
    /\ DecisionsOf(u, week, a) = DecisionsOf(t, week, a)
    /\ t.rejections \subseteq u.rejections

\* A table that says the same of an asset leaves it at its stage.
LEMMA SameStage ==
    ASSUME NEW t, NEW u, NEW a, Same(t, u, a)
    PROVE  /\ Silent(t, a) => Silent(u, a)
           /\ Cleared(t, a) => Cleared(u, a)
           /\ Answered(t, a) => Answered(u, a)
<1>1. Silent(t, a) => Silent(u, a)
  BY DEF Same, Silent
<1>2. Cleared(t, a) => Cleared(u, a)
  BY DEF Same, Cleared
<1>3. Answered(t, a) => Answered(u, a)
  <2>1. ASSUME Answered(t, a) PROVE Answered(u, a)
    <3>1. PICK r, d : /\ AnswersOf(t, week, a) = {r} /\ DecisionsOf(t, week, a) = {d}
                      /\ d.outcome = "REJECTED" => r \in t.rejections /\ r.reason = RangeReason
      BY <2>1 DEF Answered
    <3>2. /\ AnswersOf(u, week, a) = {r} /\ DecisionsOf(u, week, a) = {d}
          /\ d.outcome = "REJECTED" => r \in u.rejections /\ r.reason = RangeReason
      BY <3>1 DEF Same
    <3> QED
      BY <3>2 DEF Answered
  <2> QED
    BY <2>1
<1> QED
  BY <1>1, <1>2, <1>3

\* A final rejection is an answer, a rejected proposal is none.
LEMMA RowsOfRejected ==
    ASSUME NEW t, TableOK(t), NEW x \in RejectionRow, x.week = week, NEW b
    PROVE  /\ Rows(Rejected(t, x)) = Rows(t) \cup {x}
           /\ x.stage # "FINAL" \/ b # x.asset => Same(t, Rejected(t, x), b)
           /\ DecisionsOf(Rejected(t, x), week, b) = DecisionsOf(t, week, b)
           /\ x.stage = "FINAL" /\ AnswersOf(t, week, x.asset) = {}
                 => AnswersOf(Rejected(t, x), week, x.asset) = {x}
<1> DEFINE u == Rejected(t, x)
<1>1. /\ u.orders = t.orders /\ u.rejections = t.rejections \cup {x}
      /\ u.decisions = t.decisions
  BY RejectedFacts
<1> HIDE DEF u
<1>2. Rows(u) = Rows(t) \cup {x}
  BY <1>1 DEF Rows
<1>3. x.stage # "FINAL" \/ b # x.asset => AnswersOf(u, week, b) = AnswersOf(t, week, b)
  BY <1>1 DEF AnswersOf
<1>4. DecisionsOf(u, week, b) = DecisionsOf(t, week, b)
  BY <1>1 DEF DecisionsOf
<1>5. x.stage = "FINAL" /\ AnswersOf(t, week, x.asset) = {}
        => AnswersOf(u, week, x.asset) = {x}
  BY <1>1 DEF AnswersOf
<1> QED
  BY <1>1, <1>2, <1>3, <1>4, <1>5 DEF Same, u

\* A decision is no answer.
LEMMA RowsOfDecided ==
    ASSUME Basic, pc # "idle", NEW t, TableOK(t), NEW a \in Assets, side[a] \in Trades,
           NEW b
    PROVE  LET u == Decided(t, a) IN
           /\ \A r \in Rows(u) : r \in Rows(t) \/ r.week = week
           /\ b # a => Same(t, u, b)
           /\ AnswersOf(u, week, b) = AnswersOf(t, week, b)
           /\ DecisionsOf(t, week, a) = {} =>
                 \E d : /\ DecisionsOf(u, week, a) = {d}
                        /\ d.outcome = RangeOutcome(market[a], side[a])
<1> DEFINE u == Decided(t, a)
           d == [week |-> week, asset |-> a, side |-> side[a],
                 price |-> Price(market[a], side[a]),
                 outcome |-> RangeOutcome(market[a], side[a]),
                 reference |-> market[a].reference]
<1>1. /\ u.orders = t.orders /\ u.rejections = t.rejections
      /\ u.decisions = t.decisions \cup {d}
  BY DecidedFacts
<1>2. d.week = week /\ d.asset = a /\ d.outcome = RangeOutcome(market[a], side[a])
  OBVIOUS
<1> HIDE DEF u, d
<1>3. \A r \in Rows(u) : r \in Rows(t) \/ r.week = week
  BY <1>1, <1>2 DEF Rows
<1>4. AnswersOf(u, week, b) = AnswersOf(t, week, b)
  BY <1>1 DEF AnswersOf
<1>5. b # a => DecisionsOf(u, week, b) = DecisionsOf(t, week, b)
  BY <1>1, <1>2 DEF DecisionsOf
<1>6. DecisionsOf(t, week, a) = {} => DecisionsOf(u, week, a) = {d}
  BY <1>1, <1>2 DEF DecisionsOf
<1> QED
  BY <1>1, <1>2, <1>3, <1>4, <1>5, <1>6 DEF Same, u

\* An order is an answer.
LEMMA RowsOfFilled ==
    ASSUME Basic, pc # "idle", NEW t, TableOK(t), NEW a \in Assets, side[a] \in Trades,
           NEW q \in Nat, Affordable(t, a, q), NEW b
    PROVE  LET u == Filled(t, a, q) IN
           /\ \A r \in Rows(u) : r \in Rows(t) \/ r.week = week
           /\ b # a => Same(t, u, b)
           /\ DecisionsOf(u, week, b) = DecisionsOf(t, week, b)
           /\ AnswersOf(t, week, a) = {} => AnswersOf(u, week, a) = {Fill(a, q)}
<1> DEFINE u == Filled(t, a, q)
           o == Fill(a, q)
<1>1. /\ u.orders = t.orders \cup {o} /\ u.rejections = t.rejections
      /\ u.decisions = t.decisions
  <2>1. u.orders = t.orders \cup {o}
    BY FilledFacts
  <2>2. u.rejections = t.rejections /\ u.decisions = t.decisions
    BY FilledFacts
  <2> QED
    BY <2>1, <2>2
<1>2. o.week = week /\ o.asset = a
  BY DEF Fill
<1> HIDE DEF u, o
<1>3. \A r \in Rows(u) : r \in Rows(t) \/ r.week = week
  BY <1>1, <1>2 DEF Rows
<1>4. DecisionsOf(u, week, b) = DecisionsOf(t, week, b)
  BY <1>1 DEF DecisionsOf
<1>5. b # a => AnswersOf(u, week, b) = AnswersOf(t, week, b)
  BY <1>1, <1>2 DEF AnswersOf
<1>6. AnswersOf(t, week, a) = {} => AnswersOf(u, week, a) = {o}
  BY <1>1, <1>2 DEF AnswersOf
<1> QED
  BY <1>1, <1>3, <1>4, <1>5, <1>6 DEF Same, u, o

-----------------------------------------------------------------------------

\* A final rejection or a fill answers a proposal that PRICE_RANGE let pass.
LEMMA ClearedAnswered ==
    ASSUME Basic, pc # "idle", NEW a \in Assets, NEW t, TableOK(t), side[a] \in Trades,
           Cleared(t, a),
           RefusedByRule(a, t, "FINAL") \/ FilledByRules(a, t)
    PROVE  /\ Answered(work', a)
           /\ \A b : b # a => Same(t, work', b)
           /\ \A r \in Rows(work') : r \in Rows(t) \/ r.week = week
<1>1. PICK d : DecisionsOf(t, week, a) = {d} /\ d.outcome # "REJECTED"
  BY DEF Cleared
<1>2. AnswersOf(t, week, a) = {}
  BY DEF Cleared
<1>3. CASE RefusedByRule(a, t, "FINAL")
  <2>1. PICK x \in RejectionRow : /\ x.week = week /\ x.asset = a /\ x.stage = "FINAL"
                                  /\ work' = Rejected(t, x)
    BY <1>3 DEF RefusedByRule
  <2>2. AnswersOf(work', week, a) = {x} /\ DecisionsOf(work', week, a) = {d}
    BY <1>1, <1>2, <2>1, RowsOfRejected
  <2>3. \A b : b # a => Same(t, work', b)
    BY <2>1, RowsOfRejected
  <2>4. Rows(work') = Rows(t) \cup {x}
    BY <2>1, RowsOfRejected
  <2> QED
    BY <1>1, <2>1, <2>2, <2>3, <2>4 DEF Answered
<1>4. CASE FilledByRules(a, t)
  <2>1. PICK q \in Nat \ {0} : Affordable(t, a, q) /\ work' = Filled(t, a, q)
    BY <1>4 DEF FilledByRules
  <2>2. AnswersOf(work', week, a) = {Fill(a, q)}
    BY <1>2, <2>1, RowsOfFilled
  <2>3. DecisionsOf(work', week, a) = {d}
    BY <1>1, <2>1, RowsOfFilled
  <2>4. \A b : b # a => Same(t, work', b)
    BY <2>1, RowsOfFilled
  <2>5. \A r \in Rows(work') : r \in Rows(t) \/ r.week = week
    BY <2>1, RowsOfFilled
  <2> QED
    BY <1>1, <2>2, <2>3, <2>4, <2>5 DEF Answered
<1> QED
  BY <1>3, <1>4

\* PRICE_RANGE decides on a proposal, and refuses it at once or lets it pass.
LEMMA SilentDecided ==
    ASSUME Basic, pc # "idle", NEW a \in Assets, side[a] \in Trades, Silent(work, a)
    PROVE  LET t == Decided(work, a) IN
           /\ TableOK(t)
           /\ \A b : b # a => Same(work, t, b)
           /\ \A r \in Rows(t) : r \in Rows(work) \/ r.week = week
           /\ RangeOutcome(market[a], side[a]) # "REJECTED" => Cleared(t, a)
           /\ RefusedByRange(a, t) =>
                 /\ Answered(work', a)
                 /\ \A b : b # a => Same(t, work', b)
                 /\ \A r \in Rows(work') : r \in Rows(t) \/ r.week = week
<1> DEFINE t == Decided(work, a)
<1>1. TableOK(work)
  BY DEF Basic
<1>2. TableOK(t)
  BY <1>1, DecidedFacts
<1>3. \A b : b # a => Same(work, t, b)
  BY <1>1, RowsOfDecided
<1>4. \A r \in Rows(t) : r \in Rows(work) \/ r.week = week
  BY <1>1, RowsOfDecided
<1>5. AnswersOf(t, week, a) = {}
  BY <1>1, RowsOfDecided DEF Silent
<1>6. PICK d : DecisionsOf(t, week, a) = {d} /\ d.outcome = RangeOutcome(market[a], side[a])
  BY <1>1, RowsOfDecided DEF Silent
<1> HIDE DEF t
<1>7. RangeOutcome(market[a], side[a]) # "REJECTED" => Cleared(t, a)
  BY <1>5, <1>6 DEF Cleared
<1>8. ASSUME RefusedByRange(a, t)
      PROVE  /\ Answered(work', a)
             /\ \A b : b # a => Same(t, work', b)
             /\ \A r \in Rows(work') : r \in Rows(t) \/ r.week = week
  <2>1. PICK x \in RejectionRow : /\ x.week = week /\ x.asset = a /\ x.stage = "FINAL"
                                  /\ x.reason = RangeReason
                                  /\ work' = Rejected(t, x)
    BY <1>8 DEF RefusedByRange
  <2>2. AnswersOf(work', week, a) = {x} /\ DecisionsOf(work', week, a) = {d}
    BY <1>2, <1>5, <1>6, <2>1, RowsOfRejected
  <2>3. x \in work'.rejections
    BY <1>2, <2>1, RejectedFacts
  <2>4. \A b : b # a => Same(t, work', b)
    BY <1>2, <2>1, RowsOfRejected
  <2>5. Rows(work') = Rows(t) \cup {x}
    BY <1>2, <2>1, RowsOfRejected
  <2> QED
    BY <2>1, <2>2, <2>3, <2>4, <2>5 DEF Answered
<1> QED
  BY <1>2, <1>3, <1>4, <1>7, <1>8 DEF t

-----------------------------------------------------------------------------

\* Every row belongs to a week and to an asset.
LEMMA RowKeys ==
    ASSUME NEW t, TableOK(t), NEW r \in Rows(t)
    PROVE  r.week \in Keys /\ r.asset \in Assets
<1>1. r \in OrderRow \/ r \in RejectionRow \/ r \in DecisionRow
  BY TableFacts DEF TableOK, Rows
<1> QED
  BY <1>1 DEF OrderRow, RejectionRow, DecisionRow

\* What the loop does to one asset leaves the others where they were.
LEMMA StageKept ==
    ASSUME NEW a, NEW b, b # a, StageInv(b), Same(work, work', b),
           UNCHANGED <<pc, week>>, todo' = todo \ {a},
           requested'[b] = requested[b], side'[b] = side[b]
    PROVE  StageInv(b)'
<1>1. /\ Silent(work, b) => Silent(work, b)'
      /\ Cleared(work, b) => Cleared(work, b)'
      /\ Answered(work, b) => Answered(work, b)'
  <2>1. /\ Silent(work, b)' = Silent(work', b)
        /\ Cleared(work, b)' = Cleared(work', b)
        /\ Answered(work, b)' = Answered(work', b)
    BY DEF Silent, Cleared, Answered, AnswersOf, DecisionsOf
  <2> QED
    BY <2>1, SameStage
<1> QED
  BY <1>1 DEF StageInv

\* One step of a loop over config.assets, for one asset.
LEMMA SessionStep ==
    ASSUME Basic, RowsInv, NEW a \in Assets,
           pc \in {"value", "propose", "sell", "require", "buy"},
           UNCHANGED <<db, pc, week>>, todo' = todo \ {a},
           work'.runs = work.runs,
           \A r \in Rows(work') : r \in Rows(work) \/ r.week = week,
           \A b \in Assets \ {a} : /\ Same(work, work', b)
                                   /\ requested'[b] = requested[b] /\ side'[b] = side[b],
           StageInv(a)'
    PROVE  RowsInv'
<1>1. \A b \in Assets : StageInv(b)'
  <2>1. ASSUME NEW b \in Assets, b # a PROVE StageInv(b)'
    BY <2>1, StageKept DEF RowsInv, Inside
  <2> QED
    BY <2>1
<1> QED
  BY <1>1 DEF RowsInv, Inside, Rows

\* A rejection and a fill write no run.
LEMMA RunsKept ==
    ASSUME Basic, pc # "idle", NEW a \in Assets, NEW t, TableOK(t),
           \/ RefusedByRange(a, t)
           \/ \E s \in {"PROPOSAL", "FINAL"} : RefusedByRule(a, t, s)
           \/ side[a] \in Trades /\ FilledByRules(a, t)
    PROVE  work'.runs = t.runs
<1>1. CASE RefusedByRange(a, t)
  BY <1>1, RejectedFacts DEF RefusedByRange
<1>2. ASSUME NEW s \in {"PROPOSAL", "FINAL"}, RefusedByRule(a, t, s)
      PROVE  work'.runs = t.runs
  BY <1>2, RejectedFacts DEF RefusedByRule
<1>3. CASE side[a] \in Trades /\ FilledByRules(a, t)
  <2>1. PICK q \in Nat \ {0} : Affordable(t, a, q) /\ work' = Filled(t, a, q)
    BY <1>3 DEF FilledByRules
  <2>2. Filled(t, a, q).runs = t.runs
    BY <1>3, <2>1, FilledFacts
  <2> QED
    BY <2>1, <2>2
<1> QED
  BY <1>1, <1>2, <1>3

\* Same is reflexive and transitive.
LEMMA SameSelf == \A t, b : Same(t, t, b)
BY DEF Same

LEMMA SameChain ==
    ASSUME NEW t, NEW u, NEW v, NEW b, Same(t, u, b), Same(u, v, b)
    PROVE  Same(t, v, b)
BY DEF Same

LEMMA RowsInit == Init => RowsInv
BY DEF Init, RowsInv, Rows, Empty, NoRun, Inside

LEMMA RowsBegin == ASSUME Basic, RowsInv, NEW k \in Keys, Begin(k) PROVE RowsInv'
<1>1. /\ pc = "idle" /\ pc' = "value" /\ week' = k /\ work' = db /\ db' = db
      /\ db.runs[k].status = "NONE"
      /\ requested' = [a \in Assets |-> 0] /\ side' = [a \in Assets |-> "NONE"]
  BY DEF Begin, Free, outside
<1>2. ASSUME NEW a \in Assets PROVE StageInv(a)'
  <2>1. \A r \in Rows(db) : r.week # k
    BY <1>1 DEF RowsInv
  <2>2. Silent(work, a)'
    BY <1>1, <2>1 DEF Silent, AnswersOf, DecisionsOf, Rows
  <2> QED
    BY <1>1, <2>2 DEF StageInv
<1> QED
  BY <1>1, <1>2 DEF RowsInv, Rows, Inside

LEMMA RowsLoopEnds == ASSUME Basic, RowsInv, LoopEnds PROVE RowsInv'
<1>1. /\ pc \in {"value", "propose", "sell", "require", "buy"} /\ pc' = After[pc]
      /\ todo = {} /\ todo' = (IF pc = "buy" THEN {} ELSE Assets)
      /\ UNCHANGED <<db, week, work, requested, side>>
  BY DEF LoopEnds, After, outside, run
<1>2. /\ pc = "value" => pc' = "propose"
      /\ pc = "propose" => pc' = "sell"
      /\ pc = "sell" => pc' = "require"
      /\ pc = "require" => pc' = "buy"
      /\ pc = "buy" => pc' = "commit"
  BY <1>1 DEF After
<1>3. ASSUME NEW a \in Assets PROVE StageInv(a)'
  <2>1. StageInv(a)
    BY <1>1 DEF RowsInv, Inside
  <2>2. /\ Silent(work, a)' = Silent(work, a)
        /\ Cleared(work, a)' = Cleared(work, a)
        /\ Answered(work, a)' = Answered(work, a)
    BY <1>1 DEF Silent, Cleared, Answered, AnswersOf, DecisionsOf
  <2> QED
    BY <1>1, <1>2, <2>1, <2>2 DEF StageInv
<1> QED
  BY <1>1, <1>2, <1>3 DEF RowsInv, Rows, Inside

LEMMA RowsValue == ASSUME Basic, RowsInv, NEW a \in Assets, Value(a) PROVE RowsInv'
<1>1. /\ pc = "value" /\ todo' = todo \ {a}
      /\ UNCHANGED <<db, pc, week, work, requested, side>>
  BY DEF Value, Advance, outside, run
<1>2. StageInv(a)'
  <2>1. StageInv(a)
    BY <1>1 DEF RowsInv, Inside
  <2>2. Silent(work, a)' = Silent(work, a)
    BY <1>1 DEF Silent, AnswersOf, DecisionsOf
  <2> QED
    BY <1>1, <2>1, <2>2 DEF StageInv
<1> QED
  BY <1>1, <1>2, SameSelf, SessionStep

LEMMA RowsPropose == ASSUME Basic, RowsInv, NEW a \in Assets, Propose(a) PROVE RowsInv'
<1>1. /\ pc = "propose" /\ todo' = todo \ {a} /\ a \in todo
      /\ UNCHANGED <<db, pc, week>>
  BY DEF Propose, Advance, IsNext, outside, run
<1>2. StageInv(a) /\ requested[a] = 0 /\ side[a] = "NONE" /\ Silent(work, a)
  BY <1>1 DEF RowsInv, Inside, StageInv
<1>3. TableOK(work) /\ requested \in [Assets -> Nat] /\ side \in [Assets -> Sides]
  BY DEF Basic, LocalsOK
<1>4. CASE UNCHANGED <<requested, side, work>>
  <2>1. Silent(work, a)'
    BY <1>1, <1>2, <1>4 DEF Silent, AnswersOf, DecisionsOf
  <2>2. StageInv(a)'
    BY <1>1, <1>2, <1>4, <2>1 DEF StageInv
  <2> QED
    BY <1>1, <1>4, <2>2, SameSelf, SessionStep
<1>5. CASE RefusedByRule(a, work, "PROPOSAL") /\ UNCHANGED <<requested, side>>
  <2>1. PICK x \in RejectionRow : /\ x.week = week /\ x.stage = "PROPOSAL"
                                  /\ work' = Rejected(work, x)
    BY <1>5 DEF RefusedByRule
  <2>2. \A b : Same(work, work', b)
    BY <1>3, <2>1, RowsOfRejected
  <2>3. Rows(work') = Rows(work) \cup {x}
    BY <1>3, <2>1, RowsOfRejected
  <2>4. work'.runs = work.runs
    BY <1>3, <2>1, RejectedFacts
  <2>5. Silent(work', a)
    BY <1>2, <2>2, SameStage
  <2>6. Silent(work, a)'
    BY <1>1, <2>5 DEF Silent, AnswersOf, DecisionsOf
  <2>7. StageInv(a)'
    BY <1>1, <1>2, <1>5, <2>6 DEF StageInv
  <2> QED
    BY <1>1, <1>5, <2>1, <2>2, <2>3, <2>4, <2>7, SessionStep
<1>6. CASE /\ \E q \in Nat \ {0} : requested' = [requested EXCEPT ![a] = q]
           /\ \E s \in Trades : side' = [side EXCEPT ![a] = s]
           /\ UNCHANGED work
  <2>1. requested'[a] # 0 /\ side'[a] \in Trades
    BY <1>3, <1>6
  <2>2. \A b \in Assets \ {a} : requested'[b] = requested[b] /\ side'[b] = side[b]
    BY <1>3, <1>6
  <2>3. Silent(work, a)'
    BY <1>1, <1>2, <1>6 DEF Silent, AnswersOf, DecisionsOf
  <2>4. Trades' = Trades
    BY DEF Trades
  <2>5. StageInv(a)'
    BY <1>1, <2>1, <2>3, <2>4 DEF StageInv
  <2> QED
    BY <1>1, <1>6, <2>2, <2>5, SameSelf, SessionStep
<1> QED
  BY <1>4, <1>5, <1>6, ProposeFacts

\* A step of the transaction that changes the tables for one asset only.
LEMMA RowsAnswered ==
    ASSUME Basic, RowsInv, NEW a \in Assets, pc \in {"sell", "require", "buy"},
           UNCHANGED <<db, pc, week, requested>>, todo' = todo \ {a},
           NEW t, t.runs = work.runs,
           \A b : b # a => Same(work, t, b) /\ Same(t, work', b),
           \A r \in Rows(t) : r \in Rows(work) \/ r.week = week,
           \A r \in Rows(work') : r \in Rows(t) \/ r.week = week,
           work'.runs = t.runs,
           \A b \in Assets \ {a} : side'[b] = side[b],
           requested[a] # 0, pc = "sell" => side'[a] = "SELL",
           Answered(work', a) /\ (pc = "require" => side'[a] = "NONE")
    PROVE  RowsInv'
<1>1. Answered(work, a)'
  BY DEF Answered, AnswersOf, DecisionsOf
<1>2. StageInv(a)'
  BY <1>1 DEF StageInv
<1>3. \A b \in Assets \ {a} : Same(work, work', b)
  BY SameChain
<1> QED
  BY <1>2, <1>3, SessionStep

LEMMA RowsSell == ASSUME Basic, RowsInv, NEW a \in Assets, Sell(a) PROVE RowsInv'
<1>1. /\ pc = "sell" /\ todo' = todo \ {a} /\ a \in todo
      /\ UNCHANGED <<db, pc, week, requested, side>>
  BY DEF Sell, Advance, IsNext, outside, run
<1>2. StageInv(a) /\ TableOK(work)
  BY <1>1 DEF RowsInv, Inside, Basic
<1>3. CASE side[a] # "SELL"
  <2>1. UNCHANGED work
    BY <1>3 DEF Sell
  <2>2. Silent(work, a)' = Silent(work, a)
    BY <1>1, <2>1 DEF Silent, AnswersOf, DecisionsOf
  <2>3. Trades' = Trades
    BY DEF Trades
  <2>4. StageInv(a)'
    BY <1>1, <1>2, <1>3, <2>2, <2>3 DEF StageInv, Trades
  <2> QED
    BY <1>1, <2>1, <2>4, SameSelf, SessionStep
<1>4. CASE side[a] = "SELL"
  <2> DEFINE t == Decided(work, a)
  <2>1. side[a] \in Trades /\ requested[a] # 0 /\ Silent(work, a)
    BY <1>1, <1>2, <1>4 DEF StageInv, Trades
  <2>2. /\ TableOK(t)
        /\ \A b : b # a => Same(work, t, b)
        /\ \A r \in Rows(t) : r \in Rows(work) \/ r.week = week
        /\ RangeOutcome(market[a], side[a]) # "REJECTED" => Cleared(t, a)
        /\ RefusedByRange(a, t) =>
              /\ Answered(work', a)
              /\ \A b : b # a => Same(t, work', b)
              /\ \A r \in Rows(work') : r \in Rows(t) \/ r.week = week
    BY <1>1, <2>1, SilentDecided
  <2>3. t.runs = work.runs
    BY <1>1, <1>2, <2>1, DecidedFacts
  <2>4. \/ RangeOutcome(market[a], side[a]) = "REJECTED" /\ RefusedByRange(a, t)
        \/ /\ RangeOutcome(market[a], side[a]) # "REJECTED"
           /\ RefusedByRule(a, t, "FINAL") \/ FilledByRules(a, t)
    BY <1>4, SellFacts
  <2> HIDE DEF t
  <2>5. work'.runs = t.runs
    BY <1>1, <2>1, <2>2, <2>4, RunsKept
  <2>6. /\ Answered(work', a)
        /\ \A b : b # a => Same(t, work', b)
        /\ \A r \in Rows(work') : r \in Rows(t) \/ r.week = week
    BY <1>1, <2>1, <2>2, <2>4, ClearedAnswered
  <2> QED
    BY <1>1, <1>4, <2>1, <2>2, <2>3, <2>5, <2>6, RowsAnswered
<1> QED
  BY <1>3, <1>4

LEMMA RowsRequire == ASSUME Basic, RowsInv, NEW a \in Assets, Require(a) PROVE RowsInv'
<1>1. /\ pc = "require" /\ todo' = todo \ {a} /\ a \in todo
      /\ UNCHANGED <<db, pc, week, requested>>
  BY DEF Require, Advance, IsNext, outside, run
<1>2. StageInv(a) /\ TableOK(work) /\ side \in [Assets -> Sides]
  BY <1>1 DEF RowsInv, Inside, Basic, LocalsOK
<1>3. CASE side[a] # "BUY"
  <2>1. UNCHANGED <<work, side>>
    BY <1>3 DEF Require
  <2>2. /\ Silent(work, a)' = Silent(work, a)
        /\ Answered(work, a)' = Answered(work, a)
    BY <1>1, <2>1 DEF Silent, Answered, AnswersOf, DecisionsOf
  <2>3. StageInv(a)'
    BY <1>1, <1>2, <1>3, <2>1, <2>2 DEF StageInv
  <2> QED
    BY <1>1, <2>1, <2>3, SameSelf, SessionStep
<1>4. CASE side[a] = "BUY"
  <2> DEFINE t == Decided(work, a)
  <2>1. side[a] \in Trades /\ requested[a] # 0 /\ Silent(work, a)
    BY <1>1, <1>2, <1>4 DEF StageInv, Trades
  <2>2. /\ TableOK(t)
        /\ \A b : b # a => Same(work, t, b)
        /\ \A r \in Rows(t) : r \in Rows(work) \/ r.week = week
        /\ RangeOutcome(market[a], side[a]) # "REJECTED" => Cleared(t, a)
        /\ RefusedByRange(a, t) =>
              /\ Answered(work', a)
              /\ \A b : b # a => Same(t, work', b)
              /\ \A r \in Rows(work') : r \in Rows(t) \/ r.week = week
    BY <1>1, <2>1, SilentDecided
  <2>3. t.runs = work.runs
    BY <1>1, <1>2, <2>1, DecidedFacts
  <2>4. \/ /\ RangeOutcome(market[a], side[a]) = "REJECTED"
           /\ RefusedByRange(a, t)
           /\ side' = [side EXCEPT ![a] = "NONE"]
        \/ /\ RangeOutcome(market[a], side[a]) # "REJECTED"
           /\ work' = t /\ UNCHANGED side
    BY <1>4, RequireFacts
  <2> HIDE DEF t
  <2>5. CASE /\ RefusedByRange(a, t)
             /\ side' = [side EXCEPT ![a] = "NONE"]
    <3>1. side'[a] = "NONE" /\ \A b \in Assets \ {a} : side'[b] = side[b]
      BY <1>2, <2>5
    <3>2. work'.runs = t.runs
      BY <1>1, <2>2, <2>5, RunsKept
    <3>3. /\ Answered(work', a)
          /\ \A b : b # a => Same(t, work', b)
          /\ \A r \in Rows(work') : r \in Rows(t) \/ r.week = week
      BY <2>2, <2>5
    <3> QED
      BY <1>1, <2>1, <2>2, <2>3, <3>1, <3>2, <3>3, RowsAnswered
  <2>6. CASE /\ RangeOutcome(market[a], side[a]) # "REJECTED"
             /\ work' = t /\ UNCHANGED side
    <3>1. Cleared(work', a)
      BY <2>2, <2>6
    <3>2. Cleared(work, a)'
      BY <1>1, <3>1 DEF Cleared, AnswersOf, DecisionsOf
    <3>3. StageInv(a)'
      BY <1>1, <1>4, <2>1, <2>6, <3>2 DEF StageInv
    <3>4. \A b \in Assets \ {a} : Same(work, work', b)
      BY <2>2, <2>6
    <3> QED
      BY <1>1, <2>2, <2>3, <2>6, <3>3, <3>4, SessionStep
  <2> QED
    BY <2>4, <2>5, <2>6
<1> QED
  BY <1>3, <1>4

LEMMA RowsBuy == ASSUME Basic, RowsInv, NEW a \in Assets, Buy(a) PROVE RowsInv'
<1>1. /\ pc = "buy" /\ todo' = todo \ {a} /\ a \in todo
      /\ UNCHANGED <<db, pc, week, requested, side>>
  BY DEF Buy, Advance, IsNext, outside, run
<1>2. StageInv(a) /\ TableOK(work)
  BY <1>1 DEF RowsInv, Inside, Basic
<1>3. CASE side[a] # "BUY"
  <2>1. UNCHANGED work
    BY <1>3 DEF Buy
  <2>2. /\ Silent(work, a)' = Silent(work, a)
        /\ Answered(work, a)' = Answered(work, a)
    BY <1>1, <2>1 DEF Silent, Answered, AnswersOf, DecisionsOf
  <2>3. StageInv(a)'
    BY <1>1, <1>2, <1>3, <2>1, <2>2 DEF StageInv
  <2> QED
    BY <1>1, <2>1, <2>3, SameSelf, SessionStep
<1>4. CASE side[a] = "BUY"
  <2>1. side[a] \in Trades /\ requested[a] # 0 /\ Cleared(work, a)
    BY <1>1, <1>2, <1>4 DEF StageInv, Trades
  <2>2. RefusedByRule(a, work, "FINAL") \/ FilledByRules(a, work)
    BY <1>4, BuyFacts
  <2>3. /\ Answered(work', a)
        /\ \A b : b # a => Same(work, work', b)
        /\ \A r \in Rows(work') : r \in Rows(work) \/ r.week = week
    BY <1>1, <1>2, <2>1, <2>2, ClearedAnswered
  <2>4. work'.runs = work.runs
    BY <1>1, <1>2, <2>1, <2>2, RunsKept
  <2> QED
    BY <1>1, <2>1, <2>3, <2>4, SameSelf, RowsAnswered
<1> QED
  BY <1>3, <1>4

LEMMA RowsCommit == ASSUME Basic, RowsInv, Commit PROVE RowsInv'
<1>1. pc = "commit" /\ pc' = "verify" /\ week' = week /\ week \in Keys
  BY DEF Commit, run, Basic, InSession
<1>2. /\ TableOK(db)'
      /\ db'.orders = work.orders /\ db'.rejections = work.rejections
      /\ db'.decisions = work.decisions
  BY CommitFacts
<1>3. /\ db'.runs[week].status = "RUNNING"
      /\ \A k \in Keys : k # week => db'.runs[k] = db.runs[k]
  <2>1. work.runs \in [Keys -> RunRow] /\ work.runs = db.runs
    BY <1>1, TableFacts DEF Basic, TableOK, RowsInv, Inside
  <2>2. db'.runs = [work.runs EXCEPT ![week] = Committed]
    BY CommitFacts
  <2>3. Committed.status = "RUNNING"
    BY DEF Committed
  <2> QED
    BY <1>1, <2>1, <2>2, <2>3
<1>4. Rows(db)' = Rows(work)
  BY <1>2 DEF Rows
<1>5. ASSUME NEW r \in Rows(db)' PROVE db'.runs[r.week].status # "NONE"
  <2>1. r.week \in Keys /\ (r.week = week \/ db.runs[r.week].status # "NONE")
    BY <1>1, <1>4, <1>5, RowKeys DEF RowsInv, Inside, Basic
  <2> QED
    BY <1>3, <2>1
<1>6. \A k \in Keys : db.runs[k].status # "RUNNING"
  BY <1>1 DEF RowsInv
<1> QED
  BY <1>1, <1>3, <1>5, <1>6 DEF RowsInv, Inside

\* The run is judged or recovered, and is not RUNNING any more.
LEMMA RowsJudged ==
    ASSUME Basic, RowsInv, pc = "verify", pc' = "idle",
           NEW s \in {"EXECUTED", "KILL_SWITCH", "RECOVERED_COMMITTED"},
           db' = [db EXCEPT !.runs[week].status = s]
    PROVE  RowsInv'
<1>1. week \in Keys /\ TableOK(db) /\ db.runs[week].status # "NONE"
  BY DEF Basic, InSession
<1>2. /\ db'.orders = db.orders /\ db'.rejections = db.rejections
      /\ db'.decisions = db.decisions
      /\ db'.runs[week].status = s
      /\ \A k \in Keys : k # week => db'.runs[k] = db.runs[k]
  BY <1>1, StatusFacts
<1>3. Rows(db)' = Rows(db)
  BY <1>2 DEF Rows
<1>4. ASSUME NEW r \in Rows(db) PROVE db'.runs[r.week].status # "NONE"
  <2>1. r.week \in Keys /\ db.runs[r.week].status # "NONE"
    BY <1>1, RowKeys DEF RowsInv
  <2> QED
    BY <1>2, <2>1
<1>5. \A k \in Keys : db'.runs[k].status # "RUNNING"
  BY <1>2 DEF RowsInv
<1> QED
  BY <1>3, <1>4, <1>5 DEF RowsInv, Inside

LEMMA RowsVerify == ASSUME Basic, RowsInv, Verify PROVE RowsInv'
<1>1. /\ pc = "verify" /\ pc' = "idle"
      /\ \E s \in {"EXECUTED", "KILL_SWITCH"} : db' = [db EXCEPT !.runs[week].status = s]
  BY DEF Verify, EndRun
<1> QED
  BY <1>1, RowsJudged

LEMMA RowsCrash == ASSUME Basic, RowsInv, Crash PROVE RowsInv'
<1>1. pc' = "idle"
  BY DEF Crash, EndRun
<1>2. CASE pc = "verify"
  <2>1. db' = [db EXCEPT !.runs[week].status = "RECOVERED_COMMITTED"]
    BY <1>2 DEF Crash
  <2> QED
    BY <1>1, <1>2, <2>1, RowsJudged
<1>3. CASE pc # "verify"
  BY <1>1, <1>3 DEF Crash, RowsInv, Inside, Rows
<1> QED
  BY <1>2, <1>3

LEMMA RowsDamage == ASSUME Basic, RowsInv, Damage PROVE RowsInv'
<1>1. pc = "idle" /\ pc' = "idle"
  BY DEF Damage
<1>2. TableOK(db') /\ \A k \in Keys : db'.runs[k].status = db.runs[k].status
  BY DamageKeeps
<1>3. \A n \in Rows(db)' : \E r \in Rows(db) : n.week = r.week
  BY DamageKeeps DEF Rows
<1>4. \A r \in Rows(db) : r.week \in Keys
  BY RowKeys DEF Basic
<1> QED
  BY <1>1, <1>2, <1>3, <1>4 DEF RowsInv, Inside

LEMMA RowsNext == Basic /\ RowsInv /\ [Next]_vars => RowsInv'
<1> SUFFICES ASSUME Basic, RowsInv, [Next]_vars
             PROVE  RowsInv'
  OBVIOUS
<1>1. ASSUME UNCHANGED <<db, pc, week, todo, requested, side, work>> PROVE RowsInv'
  BY <1>1 DEF RowsInv, Rows, StageInv, Silent, Cleared, Answered, AnswersOf, DecisionsOf
<1>2. CASE Refuse
  BY <1>1, <1>2 DEF Refuse, run
<1>3. CASE UNCHANGED vars
  BY <1>1, <1>3 DEF vars
<1> QED
  BY <1>2, <1>3, RowsBegin, RowsLoopEnds, RowsValue, RowsPropose, RowsSell,
     RowsRequire, RowsBuy, RowsCommit, RowsVerify, RowsCrash, RowsDamage DEF Next

\* A proposal has no answer until it is sold or PRICE_RANGE lets it pass, and one
\* from then on; only a run whose execution is being reconciled is RUNNING.
THEOREM RowsInvariance == Spec => [](Basic /\ RowsInv)
BY BasicInit, BasicNext, RowsInit, RowsNext, PTL DEF Spec

\* At the commit no asset is left in between.
LEMMA RowsImplyAnswered == Basic /\ RowsInv => AnsweredOnce
<1> SUFFICES ASSUME Basic, RowsInv, pc = "commit", NEW a \in Assets
             PROVE  LET answers   == {r \in Answers(week) : r.asset = a}
                        decisions == {d \in Decisions(work, week) : d.asset = a}
                    IN  /\ Cardinality(answers) = IF requested[a] > 0 THEN 1 ELSE 0
                        /\ Cardinality(decisions) = Cardinality(answers)
                        /\ \A d \in decisions : d.outcome = "REJECTED" =>
                                \A r \in answers : r \in work.rejections
  BY DEF AnsweredOnce
<1> DEFINE answers   == {r \in Answers(week) : r.asset = a}
           decisions == {d \in Decisions(work, week) : d.asset = a}
<1>1. answers = AnswersOf(work, week, a)
  BY DEF Answers, AnswersOf, Orders, Rejections
<1>2. decisions = DecisionsOf(work, week, a)
  BY DEF Decisions, DecisionsOf
<1>3. requested[a] \in Nat /\ StageInv(a) /\ todo = {}
  BY DEF Basic, LocalsOK, RowsInv, Inside
<1> HIDE DEF answers, decisions
<1>4. CASE requested[a] = 0
  <2>1. answers = {} /\ decisions = {}
    BY <1>1, <1>2, <1>3, <1>4 DEF StageInv, Silent
  <2>2. Cardinality(answers) = 0 /\ Cardinality(decisions) = 0
    BY <2>1, FS_EmptySet
  <2> QED
    BY <1>4, <2>1, <2>2 DEF answers, decisions
<1>5. CASE requested[a] # 0
  <2>1. Answered(work, a)
    BY <1>3, <1>5 DEF StageInv
  <2>2. PICK r, d : /\ answers = {r} /\ decisions = {d}
                    /\ d.outcome = "REJECTED" => r \in work.rejections
    BY <1>1, <1>2, <2>1 DEF Answered
  <2>3. Cardinality(answers) = 1 /\ Cardinality(decisions) = 1
    BY <2>2, FS_Singleton
  <2>4. requested[a] > 0
    BY <1>3, <1>5
  <2>5. \A e \in decisions : e.outcome = "REJECTED" => \A s \in answers : s \in work.rejections
    BY <2>2
  <2> QED
    BY <2>3, <2>4, <2>5 DEF answers, decisions
<1> QED
  BY <1>4, <1>5

\* Every proposal is answered once and decided once by the time of the commit, and
\* what PRICE_RANGE rejects has no order.
THEOREM EveryProposalAnswered == Spec => []AnsweredOnce
BY RowsInvariance, RowsImplyAnswered, PTL

-----------------------------------------------------------------------------
(* The books: ledgers, evidence and rows belong together *)

\* Cash and positions are what the ledgers sum up to.
Ledger(t) ==
    /\ t.cash = InitialCash + CashSum(t.orders)
    /\ \A a \in Assets : t.pos[a] = PositionSum({o \in t.orders : o.asset = a})

OrderRight(m, o) ==
    /\ o.filled > 0
    /\ o.ordered = o.filled
    /\ o.price = Price(m, o.side)
    /\ o.position = PositionDelta(o.side, o.filled)
    /\ o.cash = CashDelta(o.side, o.filled, o.price)
    /\ FillObeysRules(m, o.filled)

RejectionRight(m, x) ==
    /\ x.reason # "manual"
    /\ ExactlyExplained(m, x)
    /\ x.reason \in RuleReasons => Replayable(x)

DecisionRight(m, d) ==
    /\ d.outcome = RangeOutcome(m, d.side)
    /\ d.price = Price(m, d.side)
    /\ d.reference = m.reference

\* Every row of a week is the one that the evidence e gives.
Right(t, k, e) ==
    /\ \A o \in Orders(t, k) : OrderRight(e[o.asset], o)
    /\ \A x \in Rejections(t, k) : RejectionRight(e[x.asset], x)
    /\ \A d \in Decisions(t, k) : DecisionRight(e[d.asset], d)

\* One answer and one decision for an asset, or neither.
Closed(t, k) ==
    \A a \in Assets :
        \/ AnswersOf(t, k, a) = {} /\ DecisionsOf(t, k, a) = {}
        \/ \E r, d : /\ AnswersOf(t, k, a) = {r} /\ DecisionsOf(t, k, a) = {d}
                     /\ d.outcome = "REJECTED" => r \in Rejections(t, k) /\ r.reason = RangeReason

\* A context for each decision, with the spread of its quote.
ContextsRight(t, k) ==
    /\ \A c \in t.runs[k].contexts :
          LET m == t.runs[k].evidence[c.asset] IN c.spread = m.ask - m.bid
    /\ AssetsOf(t.runs[k].contexts) = AssetsOf(Decisions(t, k))

Settled(t, k) ==
    /\ t.runs[k].evidence \in [Assets -> Markets]
    /\ DigestsAgree(t, k)
    /\ ContextsRight(t, k)
    /\ Right(t, k, t.runs[k].evidence)
    /\ Closed(t, k)

\* What the transaction has not touched: the weeks before.
Kept(t) ==
    \A k \in Keys \ {week} : /\ Orders(t, k) = Orders(db, k)
                             /\ Rejections(t, k) = Rejections(db, k)
                             /\ Decisions(t, k) = Decisions(db, k)

Books(t) == Ledger(t) /\ Right(t, week, market) /\ Kept(t)

BookInv ==
    ~ damaged =>
        /\ Ledger(db)
        /\ \A k \in Keys : db.runs[k].status # "NONE" => Settled(db, k)
        /\ pc \in Inside => Books(work)

\* The sums of the reconciliation are those of the ledgers.
LEMMA LedgerAgrees ==
    ASSUME NEW t, TableOK(t)
    PROVE  AccountsAgree(t) <=> Ledger(t)
<1>1. t.cash >= 0 /\ \A a \in Assets : t.pos[a] >= 0
  BY TableFacts DEF TableOK
<1>2. ASSUME AccountsAgree(t) PROVE Ledger(t)
  <2>1. t.cash = InitialCash + CashSum(t.orders)
    BY <1>2 DEF AccountsAgree, CashSum, MapThenSumSet, MapThenFoldSet
  <2>2. ASSUME NEW a \in Assets
        PROVE  t.pos[a] = PositionSum({o \in t.orders : o.asset = a})
    BY <1>2 DEF AccountsAgree, PositionSum, MapThenSumSet, MapThenFoldSet
  <2> QED
    BY <2>1, <2>2 DEF Ledger
<1>3. ASSUME Ledger(t) PROVE AccountsAgree(t)
  <2>1. t.cash = InitialCash + MapThenSumSet(LAMBDA o : o.cash, t.orders)
    BY <1>3 DEF Ledger, CashSum, MapThenSumSet, MapThenFoldSet
  <2>2. ASSUME NEW a \in Assets
        PROVE  t.pos[a] = MapThenSumSet(LAMBDA o : o.position, {o \in t.orders : o.asset = a})
    BY <1>3 DEF Ledger, PositionSum, MapThenSumSet, MapThenFoldSet
  <2> QED
    BY <1>1, <2>1, <2>2, Zenon DEF AccountsAgree
<1> QED
  BY <1>2, <1>3

\* The ledgers of a finite set of orders.
LEMMA OrdersOf ==
    ASSUME NEW t, TableOK(t), NEW a
    PROVE  /\ IsFiniteSet(t.orders) /\ \A o \in t.orders : o.cash \in Int
           /\ IsFiniteSet({o \in t.orders : o.asset = a})
           /\ \A o \in {r \in t.orders : r.asset = a} : o.position \in Int
<1>1. t.orders \subseteq OrderRow /\ IsFiniteSet(t.orders)
  BY TableFacts DEF TableOK
<1>2. IsFiniteSet({o \in t.orders : o.asset = a})
  BY <1>1, FS_Subset
<1> QED
  BY <1>1, <1>2 DEF OrderRow

\* A rejection that its evidence explains keeps the books.
LEMMA BooksRejected ==
    ASSUME NEW t, TableOK(t), Books(t), NEW x \in RejectionRow, x.week = week,
           RejectionRight(market[x.asset], x)
    PROVE  Books(Rejected(t, x))
<1> DEFINE u == Rejected(t, x)
<1>1. /\ u.cash = t.cash /\ u.pos = t.pos /\ u.orders = t.orders
      /\ u.rejections = t.rejections \cup {x} /\ u.decisions = t.decisions
  BY RejectedFacts
<1> HIDE DEF u
<1>2. Ledger(u)
  BY <1>1 DEF Books, Ledger
<1>3. Right(u, week, market)
  BY <1>1 DEF Books, Right, Orders, Rejections, Decisions
<1>4. Kept(u)
  BY <1>1 DEF Books, Kept, Orders, Rejections, Decisions
<1> QED
  BY <1>2, <1>3, <1>4 DEF Books, u

\* So does a decision that its evidence gives.
LEMMA BooksDecided ==
    ASSUME Basic, pc # "idle", NEW t, TableOK(t), Books(t), NEW a \in Assets,
           side[a] \in Trades
    PROVE  Books(Decided(t, a))
<1> DEFINE u == Decided(t, a)
           d == [week |-> week, asset |-> a, side |-> side[a],
                 price |-> Price(market[a], side[a]),
                 outcome |-> RangeOutcome(market[a], side[a]),
                 reference |-> market[a].reference]
<1>1. /\ u.cash = t.cash /\ u.pos = t.pos /\ u.orders = t.orders
      /\ u.rejections = t.rejections /\ u.decisions = t.decisions \cup {d}
  BY DecidedFacts
<1>2. d.week = week /\ d.asset = a /\ DecisionRight(market[a], d)
  BY DEF DecisionRight
<1> HIDE DEF u, d
<1>3. Ledger(u)
  BY <1>1 DEF Books, Ledger
<1>4. Right(u, week, market)
  BY <1>1, <1>2 DEF Books, Right, Orders, Rejections, Decisions
<1>5. Kept(u)
  BY <1>1, <1>2 DEF Books, Kept, Orders, Rejections, Decisions
<1> QED
  BY <1>3, <1>4, <1>5 DEF Books, u

\* A fill adds the same amount to the account and to the ledger.
LEMMA BooksFilled ==
    ASSUME Basic, pc # "idle", NEW t, TableOK(t), Books(t), NEW a \in Assets,
           side[a] \in Trades, NEW q \in Nat \ {0}, Affordable(t, a, q),
           FillObeysRules(market[a], q), AnswersOf(t, week, a) = {}
    PROVE  Books(Filled(t, a, q))
<1> DEFINE u == Filled(t, a, q)
           o == Fill(a, q)
<1>1. /\ u.cash = t.cash + o.cash
      /\ u.pos[a] = t.pos[a] + o.position
      /\ \A b \in Assets \ {a} : u.pos[b] = t.pos[b]
      /\ u.orders = t.orders \cup {o}
      /\ u.rejections = t.rejections /\ u.decisions = t.decisions
      /\ o \in OrderRow
  BY FilledFacts
<1>2. /\ o.week = week /\ o.asset = a /\ o.side = side[a] /\ OrderRight(market[a], o)
  BY DEF Fill, OrderRight
<1>3. o.cash \in Int /\ o.position \in Int
  BY <1>1 DEF OrderRow
<1> HIDE DEF u, o
<1>4. o \notin t.orders
  BY <1>2 DEF AnswersOf
<1>5. Ledger(u)
  <2>1. u.cash = InitialCash + CashSum(u.orders)
    <3>1. CashSum(t.orders \cup {o}) = CashSum(t.orders) + o.cash
      <4>1. IsFiniteSet(t.orders) /\ \A r \in t.orders : r.cash \in Int
        BY OrdersOf
      <4> QED
        BY <1>3, <1>4, <4>1, CashSumAdd
    <3>2. t.cash = InitialCash + CashSum(t.orders)
      BY DEF Books, Ledger
    <3>3. CashSum(t.orders) \in Int /\ InitialCash \in Int
      <4>1. IsFiniteSet(t.orders) /\ \A r \in t.orders : r.cash \in Int
        BY OrdersOf
      <4> QED
        BY <4>1, CashSumFacts, AccountAssumption
    <3> QED
      BY <1>1, <1>3, <3>1, <3>2, <3>3
  <2>2. ASSUME NEW b \in Assets
        PROVE  u.pos[b] = PositionSum({r \in u.orders : r.asset = b})
    <3>1. t.pos[b] = PositionSum({r \in t.orders : r.asset = b})
      BY DEF Books, Ledger
    <3>2. CASE b = a
      <4> DEFINE S == {r \in t.orders : r.asset = a}
      <4>1. {r \in u.orders : r.asset = a} = S \cup {o}
        BY <1>1, <1>2
      <4>2. IsFiniteSet(S) /\ (\A r \in S : r.position \in Int) /\ o \notin S
        BY <1>4, OrdersOf
      <4> HIDE DEF S
      <4>3. PositionSum(S \cup {o}) = PositionSum(S) + o.position
        BY <1>3, <4>2, PositionSumAdd
      <4> QED
        BY <1>1, <3>1, <3>2, <4>1, <4>3 DEF S
    <3>3. CASE b # a
      <4>1. {r \in u.orders : r.asset = b} = {r \in t.orders : r.asset = b}
        BY <1>1, <1>2, <3>3
      <4> QED
        BY <1>1, <3>1, <3>3, <4>1
    <3> QED
      BY <3>2, <3>3
  <2> QED
    BY <2>1, <2>2 DEF Ledger
<1>6. Right(u, week, market)
  BY <1>1, <1>2 DEF Books, Right, Orders, Rejections, Decisions
<1>7. Kept(u)
  BY <1>1, <1>2 DEF Books, Kept, Orders, Rejections, Decisions
<1> QED
  BY <1>5, <1>6, <1>7 DEF Books, u

\* What a step of the session writes can be explained by the evidence.
LEMMA BooksAnswered ==
    ASSUME Basic, pc # "idle", NEW a \in Assets, NEW t, TableOK(t), Books(t),
           \/ RefusedByRange(a, t)
           \/ \E s \in {"PROPOSAL", "FINAL"} : RefusedByRule(a, t, s)
           \/ side[a] \in Trades /\ AnswersOf(t, week, a) = {} /\ FilledByRules(a, t)
    PROVE  Books(work')
<1>0. market[a] \in Market
  BY SessionMarket
<1>1. CASE RefusedByRange(a, t)
  <2>1. PICK x \in RejectionRow : /\ x.week = week /\ x.asset = a
                                  /\ x.reason = RangeReason /\ work' = Rejected(t, x)
    BY <1>1 DEF RefusedByRange
  <2>2. RejectionRight(market[a], x)
    BY <2>1 DEF RejectionRight, ExactlyExplained, RangeReason, RuleReasons
  <2> QED
    BY <2>1, <2>2, BooksRejected
<1>2. ASSUME NEW s \in {"PROPOSAL", "FINAL"}, RefusedByRule(a, t, s)
      PROVE  Books(work')
  <2>1. PICK x \in RejectionRow :
               /\ x.week = week /\ x.asset = a /\ Replayable(x) /\ work' = Rejected(t, x)
               /\ \/ x.reason # "none" /\ x.reason = InvalidReason(market[a], x.num, x.den)
                  \/ x.reason = "insufficient_cash_after_rounding"
    BY <1>2 DEF RefusedByRule
  <2>2. RejectionRight(market[a], x)
    <3>1. CASE x.reason # "none" /\ x.reason = InvalidReason(market[a], x.num, x.den)
      <4>1. x.num \in Nat /\ x.den \in Nat \ {0}
        BY DEF RejectionRow
      <4>2. x.reason \in ReasonSet /\ ExactlyExplained(market[a], x)
        BY <1>0, <3>1, <4>1, FailedExplained
      <4> QED
        BY <2>1, <4>2, ReasonSetIs DEF RejectionRight
    <3>2. CASE x.reason = "insufficient_cash_after_rounding"
      BY <3>2 DEF RejectionRight, ExactlyExplained, RuleReasons
    <3> QED
      BY <2>1, <3>1, <3>2
  <2> QED
    BY <2>1, <2>2, BooksRejected
<1>3. CASE side[a] \in Trades /\ AnswersOf(t, week, a) = {} /\ FilledByRules(a, t)
  <2>1. PICK q \in Nat \ {0} : /\ FillObeysRules(market[a], q) /\ Affordable(t, a, q)
                               /\ work' = Filled(t, a, q)
    BY <1>3 DEF FilledByRules
  <2>2. Books(Filled(t, a, q))
    BY <1>3, <2>1, BooksFilled
  <2> QED
    BY <2>1, <2>2
<1> QED
  BY <1>1, <1>2, <1>3

LEMMA BookInit == Init => BookInv
<1> SUFFICES ASSUME Init PROVE BookInv
  OBVIOUS
<1>1. db = Empty /\ pc \notin Inside
  BY DEF Init, Inside
<1>2. Empty.orders = {} /\ Empty.cash = InitialCash /\ \A a \in Assets : Empty.pos[a] = 0
  BY DEF Empty
<1>3. IsFiniteSet({}) /\ CashSum({}) = 0 /\ PositionSum({}) = 0
  BY FS_EmptySet, CashSumFacts, PositionSumFacts
<1>4. InitialCash \in Int
  BY AccountAssumption
<1>5. Ledger(Empty)
  <2>1. \A a : {o \in Empty.orders : o.asset = a} = {}
    BY <1>2
  <2> QED
    BY <1>2, <1>3, <1>4, <2>1 DEF Ledger
<1> QED
  BY <1>1, <1>5, EmptyFacts DEF BookInv

\* A step inside the transaction need only keep the books of the transaction.
LEMMA BookWork ==
    ASSUME Basic, BookInv, UNCHANGED <<db, damaged, week, market>>,
           pc \in Inside, pc' \in Inside, ~ damaged => Books(work')
    PROVE  BookInv'
<1>1. Books(work)' = Books(work')
  BY DEF Books, Ledger, Right, Kept
<1>2. /\ Ledger(db)' = Ledger(db)
      /\ \A k \in Keys : Settled(db, k)' = Settled(db, k)
  BY DEF Ledger, Settled, DigestsAgree, ContextsRight, Right, Closed, AnswersOf, DecisionsOf,
         Orders, Rejections, Decisions
<1> QED
  BY <1>1, <1>2 DEF BookInv

LEMMA BookSame ==
    ASSUME Basic, BookInv, UNCHANGED <<db, damaged, week, market, work>>,
           pc \in Inside, pc' \in Inside
    PROVE  BookInv'
BY BookWork DEF BookInv

\* A run whose row and rows are as before is settled as before.
LEMMA SettledSame ==
    ASSUME NEW t, NEW u, NEW k, Settled(t, k),
           u.runs[k].evidence = t.runs[k].evidence,
           u.runs[k].evidenceDigest = t.runs[k].evidenceDigest,
           u.runs[k].declaredRejections = t.runs[k].declaredRejections,
           u.runs[k].contexts = t.runs[k].contexts,
           Orders(u, k) = Orders(t, k), Rejections(u, k) = Rejections(t, k),
           Decisions(u, k) = Decisions(t, k)
    PROVE  Settled(u, k)
<1>1. \A a : /\ AnswersOf(u, k, a) = AnswersOf(t, k, a)
             /\ DecisionsOf(u, k, a) = DecisionsOf(t, k, a)
  <2>1. ASSUME NEW s, NEW a
        PROVE  /\ AnswersOf(s, k, a) = {r \in Orders(s, k) : r.asset = a}
                     \cup {x \in Rejections(s, k) : x.asset = a /\ x.stage = "FINAL"}
               /\ DecisionsOf(s, k, a) = {d \in Decisions(s, k) : d.asset = a}
    BY DEF AnswersOf, DecisionsOf, Orders, Rejections, Decisions
  <2>2. ASSUME NEW a
        PROVE  /\ AnswersOf(u, k, a) = AnswersOf(t, k, a)
               /\ DecisionsOf(u, k, a) = DecisionsOf(t, k, a)
    <3>1. /\ AnswersOf(u, k, a) = {r \in Orders(u, k) : r.asset = a}
                \cup {x \in Rejections(u, k) : x.asset = a /\ x.stage = "FINAL"}
          /\ DecisionsOf(u, k, a) = {d \in Decisions(u, k) : d.asset = a}
      BY <2>1
    <3>2. /\ AnswersOf(t, k, a) = {r \in Orders(t, k) : r.asset = a}
                \cup {x \in Rejections(t, k) : x.asset = a /\ x.stage = "FINAL"}
          /\ DecisionsOf(t, k, a) = {d \in Decisions(t, k) : d.asset = a}
      BY <2>1
    <3> QED
      BY <3>1, <3>2
  <2> QED
    BY <2>2
<1>2. Closed(u, k)
  BY <1>1 DEF Settled, Closed
<1>3. DigestsAgree(u, k) /\ ContextsRight(u, k)
  BY DEF Settled, DigestsAgree, ContextsRight
<1>4. Right(u, k, u.runs[k].evidence)
  BY DEF Settled, Right
<1> QED
  BY <1>2, <1>3, <1>4 DEF Settled

LEMMA BookBegin ==
    ASSUME Basic, RowsInv, BookInv, NEW k \in Keys, Begin(k) PROVE BookInv'
<1>1. /\ pc' = "value" /\ week' = k /\ work' = db /\ UNCHANGED <<db, damaged>>
      /\ db.runs[k].status = "NONE"
  BY DEF Begin, Free, outside
<1>2. \A r \in Rows(db) : r.week # k
  BY <1>1 DEF RowsInv
<1>3. Orders(db, k) = {} /\ Rejections(db, k) = {} /\ Decisions(db, k) = {}
  BY <1>2 DEF Rows, Orders, Rejections, Decisions
<1>4. Right(work, week, market)'
  BY <1>1, <1>3 DEF Right
<1>5. Kept(work)'
  BY <1>1 DEF Kept
<1>6. /\ Ledger(db)' = Ledger(db) /\ Ledger(work)' = Ledger(db)
      /\ \A j \in Keys : Settled(db, j)' = Settled(db, j)
  BY <1>1 DEF Ledger, Settled, DigestsAgree, ContextsRight, Right, Closed, AnswersOf, DecisionsOf,
         Orders, Rejections, Decisions
<1> QED
  BY <1>1, <1>4, <1>5, <1>6 DEF BookInv, Books

LEMMA BookPropose ==
    ASSUME Basic, RowsInv, BookInv, NEW a \in Assets, Propose(a) PROVE BookInv'
<1>1. /\ pc = "propose" /\ pc \in Inside /\ pc' = pc
      /\ UNCHANGED <<db, damaged, week, market>> /\ TableOK(work)
  BY DEF Propose, Inside, outside, run, Basic
<1>2. CASE UNCHANGED work
  BY <1>1, <1>2, BookSame
<1>3. CASE RefusedByRule(a, work, "PROPOSAL")
  <2>1. ~ damaged => Books(work')
    BY <1>1, <1>3, BooksAnswered DEF BookInv
  <2> QED
    BY <1>1, <2>1, BookWork
<1> QED
  BY <1>2, <1>3, ProposeFacts

LEMMA BookSell ==
    ASSUME Basic, RowsInv, BookInv, NEW a \in Assets, Sell(a) PROVE BookInv'
<1>1. /\ pc = "sell" /\ pc \in Inside /\ pc' = pc /\ a \in todo
      /\ UNCHANGED <<db, damaged, week, market>> /\ TableOK(work)
  BY DEF Sell, Inside, outside, run, Basic, IsNext
<1>2. CASE side[a] # "SELL"
  <2>1. UNCHANGED work
    BY <1>2 DEF Sell
  <2> QED
    BY <1>1, <2>1, BookSame
<1>3. CASE side[a] = "SELL"
  <2> DEFINE t == Decided(work, a)
  <2>1. side[a] \in Trades /\ Silent(work, a)
    BY <1>1, <1>3 DEF RowsInv, Inside, StageInv, Trades
  <2>2. TableOK(t) /\ (~ damaged => Books(t))
    BY <1>1, <2>1, DecidedFacts, BooksDecided DEF BookInv
  <2>3. AnswersOf(t, week, a) = {}
    BY <1>1, <2>1, RowsOfDecided DEF Silent
  <2>4. RefusedByRange(a, t) \/ RefusedByRule(a, t, "FINAL") \/ FilledByRules(a, t)
    BY <1>3, SellFacts
  <2> HIDE DEF t
  <2>5. ~ damaged => Books(work')
    BY <1>1, <2>1, <2>2, <2>3, <2>4, BooksAnswered
  <2> QED
    BY <1>1, <2>5, BookWork
<1> QED
  BY <1>2, <1>3

LEMMA BookRequire ==
    ASSUME Basic, RowsInv, BookInv, NEW a \in Assets, Require(a) PROVE BookInv'
<1>1. /\ pc = "require" /\ pc \in Inside /\ pc' = pc /\ a \in todo
      /\ UNCHANGED <<db, damaged, week, market>> /\ TableOK(work)
  BY DEF Require, Inside, outside, run, Basic, IsNext
<1>2. CASE side[a] # "BUY"
  <2>1. UNCHANGED work
    BY <1>2 DEF Require
  <2> QED
    BY <1>1, <2>1, BookSame
<1>3. CASE side[a] = "BUY"
  <2> DEFINE t == Decided(work, a)
  <2>1. side[a] \in Trades
    BY <1>3 DEF Trades
  <2>2. TableOK(t) /\ (~ damaged => Books(t))
    BY <1>1, <2>1, DecidedFacts, BooksDecided DEF BookInv
  <2>3. RefusedByRange(a, t) \/ work' = t
    BY <1>3, RequireFacts
  <2> HIDE DEF t
  <2>4. ~ damaged => Books(work')
    BY <1>1, <2>1, <2>2, <2>3, BooksAnswered
  <2> QED
    BY <1>1, <2>4, BookWork
<1> QED
  BY <1>2, <1>3

LEMMA BookBuy ==
    ASSUME Basic, RowsInv, BookInv, NEW a \in Assets, Buy(a) PROVE BookInv'
<1>1. /\ pc = "buy" /\ pc \in Inside /\ pc' = pc /\ a \in todo
      /\ UNCHANGED <<db, damaged, week, market>> /\ TableOK(work)
  BY DEF Buy, Inside, outside, run, Basic, IsNext
<1>2. CASE side[a] # "BUY"
  <2>1. UNCHANGED work
    BY <1>2 DEF Buy
  <2> QED
    BY <1>1, <2>1, BookSame
<1>3. CASE side[a] = "BUY"
  <2>1. side[a] \in Trades /\ AnswersOf(work, week, a) = {}
    BY <1>1, <1>3 DEF RowsInv, Inside, StageInv, Trades, Cleared, Silent
  <2>2. RefusedByRule(a, work, "FINAL") \/ FilledByRules(a, work)
    BY <1>3, BuyFacts
  <2>3. ~ damaged => Books(work')
    BY <1>1, <2>1, <2>2, BooksAnswered DEF BookInv
  <2> QED
    BY <1>1, <2>3, BookWork
<1> QED
  BY <1>2, <1>3

\* The commit settles the run of the session and leaves the others as they are.
LEMMA BookCommit == ASSUME Basic, RowsInv, BookInv, Commit PROVE BookInv'
<1> SUFFICES ASSUME ~ damaged
             PROVE  /\ Ledger(db)'
                    /\ \A k \in Keys : db'.runs[k].status # "NONE" => Settled(db, k)'
  <2>1. pc' = "verify" /\ UNCHANGED damaged
    BY DEF Commit
  <2> QED
    BY <2>1 DEF BookInv, Inside
<1>1. /\ pc = "commit" /\ week \in Keys /\ market \in [Assets -> Markets]
      /\ work.runs \in [Keys -> RunRow] /\ work.runs = db.runs /\ Books(work)
  BY TableFacts DEF Commit, Basic, InSession, TableOK, RowsInv, BookInv, Inside
<1>2. /\ db'.cash = work.cash /\ db'.pos = work.pos /\ db'.orders = work.orders
      /\ db'.rejections = work.rejections /\ db'.decisions = work.decisions
      /\ db'.runs = [work.runs EXCEPT ![week] = Committed]
  BY CommitFacts
<1>3. \A k : /\ Orders(db', k) = Orders(work, k)
             /\ Rejections(db', k) = Rejections(work, k)
             /\ Decisions(db', k) = Decisions(work, k)
             /\ \A a : /\ AnswersOf(db', k, a) = AnswersOf(work, k, a)
                       /\ DecisionsOf(db', k, a) = DecisionsOf(work, k, a)
  BY <1>2 DEF Orders, Rejections, Decisions, AnswersOf, DecisionsOf
<1>4. Ledger(db)'
  BY <1>1, <1>2 DEF Books, Ledger
<1>5. /\ db'.runs[week].evidence = market
      /\ db'.runs[week].evidenceDigest = [a \in Assets |-> RuleEvidence(market[a])]
      /\ db'.runs[week].declaredRejections = Rejections(work, week)
      /\ db'.runs[week].contexts = Contexts
      /\ \A k \in Keys : k # week => db'.runs[k] = db.runs[k]
  <2>1. db'.runs[week] = Committed /\ \A k \in Keys : k # week => db'.runs[k] = db.runs[k]
    BY <1>1, <1>2
  <2> QED
    BY <2>1 DEF Committed
<1>6. Settled(db', week)
  <2>1. Closed(work, week)
    <3>1. ASSUME NEW a \in Assets
          PROVE  \/ AnswersOf(work, week, a) = {} /\ DecisionsOf(work, week, a) = {}
                 \/ \E r, d : /\ AnswersOf(work, week, a) = {r}
                              /\ DecisionsOf(work, week, a) = {d}
                              /\ d.outcome = "REJECTED" =>
                                   r \in Rejections(work, week) /\ r.reason = RangeReason
      <4>1. Silent(work, a) \/ Answered(work, a)
        BY <1>1 DEF RowsInv, Inside, StageInv
      <4>2. ASSUME Answered(work, a)
            PROVE  \E r, d : /\ AnswersOf(work, week, a) = {r}
                             /\ DecisionsOf(work, week, a) = {d}
                             /\ d.outcome = "REJECTED" =>
                                  r \in Rejections(work, week) /\ r.reason = RangeReason
        <5>1. PICK r, d : /\ AnswersOf(work, week, a) = {r}
                          /\ DecisionsOf(work, week, a) = {d}
                          /\ d.outcome = "REJECTED" =>
                               r \in work.rejections /\ r.reason = RangeReason
          BY <4>2 DEF Answered
        <5>2. r.week = week
          BY <5>1 DEF AnswersOf
        <5> QED
          BY <5>1, <5>2 DEF Rejections
      <4> QED
        BY <4>1, <4>2 DEF Silent
    <3> QED
      BY <3>1 DEF Closed
  <2>2. Closed(db', week)
    BY <1>3, <2>1 DEF Closed
  <2>3. Right(db', week, market)
    BY <1>1, <1>3 DEF Books, Right
  <2>4. ContextsRight(db', week)
    <3>1. /\ \A c \in Contexts : c.spread = market[c.asset].ask - market[c.asset].bid
          /\ AssetsOf(Contexts) = {a \in Assets : requested[a] > 0}
      BY <1>1, ContextsType
    <3>2. ASSUME NEW a \in Assets
          PROVE  requested[a] > 0 <=> DecisionsOf(work, week, a) # {}
      <4>1. requested[a] \in Nat /\ StageInv(a)
        BY <1>1 DEF RowsInv, Inside, Basic, LocalsOK
      <4>2. requested[a] = 0 => Silent(work, a)
        BY <4>1 DEF StageInv
      <4>3. requested[a] # 0 => Answered(work, a)
        BY <1>1, <4>1 DEF StageInv
      <4> QED
        BY <4>1, <4>2, <4>3 DEF Silent, Answered
    <3>3. \A d \in Decisions(work, week) : d.asset \in Assets
      BY RowKeys DEF Decisions, Rows, Basic
    <3>4. AssetsOf(Decisions(work, week)) = {a \in Assets : DecisionsOf(work, week, a) # {}}
      BY <3>3 DEF AssetsOf, Decisions, DecisionsOf
    <3>5. AssetsOf(Contexts) = AssetsOf(Decisions(work, week))
      BY <3>1, <3>2, <3>4
    <3> QED
      BY <1>3, <1>5, <3>1, <3>5 DEF ContextsRight
  <2> QED
    BY <1>1, <1>3, <1>5, <2>2, <2>3, <2>4 DEF Settled, DigestsAgree
<1>7. ASSUME NEW k \in Keys, k # week, db'.runs[k].status # "NONE"
      PROVE  Settled(db', k)
  <2>1. Settled(db, k)
    BY <1>5, <1>7 DEF BookInv
  <2>2. /\ Orders(db', k) = Orders(db, k) /\ Rejections(db', k) = Rejections(db, k)
        /\ Decisions(db', k) = Decisions(db, k)
    BY <1>1, <1>3, <1>7 DEF Books, Kept
  <2> QED
    BY <1>5, <1>7, <2>1, <2>2, SettledSame
<1>8. \A k : Settled(db, k)' = Settled(db', k)
  BY DEF Settled, DigestsAgree, ContextsRight, Right, Closed, AnswersOf, DecisionsOf,
         Orders, Rejections, Decisions
<1> QED
  BY <1>4, <1>6, <1>7, <1>8

\* So do the judgement and the recovery.
LEMMA BookJudged ==
    ASSUME Basic, RowsInv, BookInv, pc = "verify", pc' = "idle", UNCHANGED damaged,
           NEW s \in {"EXECUTED", "KILL_SWITCH", "RECOVERED_COMMITTED"},
           db' = [db EXCEPT !.runs[week].status = s]
    PROVE  BookInv'
<1>1. week \in Keys /\ TableOK(db) /\ db.runs[week].status # "NONE"
  BY DEF Basic, InSession
<1>2. /\ db'.cash = db.cash /\ db'.pos = db.pos /\ db'.orders = db.orders
      /\ db'.rejections = db.rejections /\ db'.decisions = db.decisions
      /\ db'.runs[week].evidence = db.runs[week].evidence
      /\ db'.runs[week].evidenceDigest = db.runs[week].evidenceDigest
      /\ db'.runs[week].declaredRejections = db.runs[week].declaredRejections
      /\ db'.runs[week].contexts = db.runs[week].contexts
      /\ \A k \in Keys : k # week => db'.runs[k] = db.runs[k]
  BY <1>1, StatusFacts
<1>3. Ledger(db)' = Ledger(db)
  BY <1>2 DEF Ledger
<1>4. ASSUME ~ damaged, NEW k \in Keys, db'.runs[k].status # "NONE"
      PROVE  Settled(db', k)
  <2>1. Settled(db, k)
    BY <1>1, <1>2, <1>4 DEF BookInv
  <2>2. /\ db'.runs[k].evidence = db.runs[k].evidence
        /\ db'.runs[k].evidenceDigest = db.runs[k].evidenceDigest
        /\ db'.runs[k].declaredRejections = db.runs[k].declaredRejections
        /\ db'.runs[k].contexts = db.runs[k].contexts
    BY <1>2
  <2>3. /\ Orders(db', k) = Orders(db, k) /\ Rejections(db', k) = Rejections(db, k)
        /\ Decisions(db', k) = Decisions(db, k)
    BY <1>2 DEF Orders, Rejections, Decisions
  <2> QED
    BY <2>1, <2>2, <2>3, SettledSame
<1>5. \A k : Settled(db, k)' = Settled(db', k)
  BY DEF Settled, DigestsAgree, ContextsRight, Right, Closed, AnswersOf, DecisionsOf,
         Orders, Rejections, Decisions
<1> QED
  BY <1>3, <1>4, <1>5 DEF BookInv, Inside

LEMMA BookNext == Basic /\ RowsInv /\ BookInv /\ [Next]_vars => BookInv'
<1> SUFFICES ASSUME Basic, RowsInv, BookInv, [Next]_vars
             PROVE  BookInv'
  OBVIOUS
<1>1. ASSUME UNCHANGED <<db, damaged, pc, week, market, work>> PROVE BookInv'
  <2>1. /\ Ledger(db)' = Ledger(db)
        /\ \A k \in Keys : Settled(db, k)' = Settled(db, k)
        /\ Books(work)' = Books(work)
    BY <1>1 DEF Books, Kept, Ledger, Settled, DigestsAgree, ContextsRight, Right, Closed, AnswersOf,
                DecisionsOf, Orders, Rejections, Decisions
  <2> QED
    BY <1>1, <2>1 DEF BookInv
<1>2. CASE Refuse
  BY <1>1, <1>2 DEF Refuse, run
<1>3. CASE UNCHANGED vars
  BY <1>1, <1>3 DEF vars
<1>4. CASE LoopEnds
  <2>1. /\ UNCHANGED <<db, damaged, week, market, work>>
        /\ pc \in Inside /\ pc' \in Inside
    BY <1>4 DEF LoopEnds, After, outside, run, Inside
  <2> QED
    BY <2>1, BookSame
<1>5. ASSUME NEW a \in Assets, Value(a) PROVE BookInv'
  <2>1. /\ UNCHANGED <<db, damaged, week, market, work>>
        /\ pc \in Inside /\ pc' \in Inside
    BY <1>5 DEF Value, outside, run, Inside
  <2> QED
    BY <2>1, BookSame
<1>6. CASE Verify
  <2>1. /\ pc = "verify" /\ pc' = "idle" /\ UNCHANGED damaged
        /\ \E s \in {"EXECUTED", "KILL_SWITCH"} : db' = [db EXCEPT !.runs[week].status = s]
    BY <1>6 DEF Verify, EndRun
  <2> QED
    BY <2>1, BookJudged
<1>7. CASE Crash
  <2>1. pc' = "idle" /\ UNCHANGED damaged
    BY <1>7 DEF Crash, EndRun
  <2>2. CASE pc = "verify"
    <3>1. db' = [db EXCEPT !.runs[week].status = "RECOVERED_COMMITTED"]
      BY <1>7, <2>2 DEF Crash
    <3> QED
      BY <2>1, <2>2, <3>1, BookJudged
  <2>3. CASE pc # "verify"
    <3>1. UNCHANGED db
      BY <1>7, <2>3 DEF Crash
    <3>2. /\ Ledger(db)' = Ledger(db)
          /\ \A k \in Keys : Settled(db, k)' = Settled(db, k)
      BY <3>1 DEF Ledger, Settled, DigestsAgree, ContextsRight, Right, Closed, AnswersOf,
                  DecisionsOf, Orders, Rejections, Decisions
    <3> QED
      BY <2>1, <3>1, <3>2 DEF BookInv, Inside
  <2> QED
    BY <2>2, <2>3
<1>8. CASE Damage
  BY <1>8 DEF Damage, BookInv
<1> QED
  BY <1>2, <1>3, <1>4, <1>5, <1>6, <1>7, <1>8, BookBegin, BookPropose, BookSell,
     BookRequire, BookBuy, BookCommit DEF Next

\* Until a stored value is changed from outside, cash and positions are the sums
\* of their ledgers, every row is the one its run's evidence gives, digests and
\* the list of rejections agree, and answers, decisions and contexts belong
\* together.
THEOREM BooksInvariance == Spec => [](Basic /\ RowsInv /\ BookInv)
BY BasicInit, BasicNext, RowsInit, RowsNext, BookInit, BookNext, PTL DEF Spec

-----------------------------------------------------------------------------
(* What the reconciliation says of the books *)

\* The assets decided on are those that were answered.
LEMMA SettledAssets ==
    ASSUME NEW t, TableOK(t), NEW k, Settled(t, k)
    PROVE  AssetsOf(Decisions(t, k)) =
             AssetsOf(Orders(t, k) \cup {x \in Rejections(t, k) : x.stage = "FINAL"})
<1> DEFINE S == Orders(t, k) \cup {x \in Rejections(t, k) : x.stage = "FINAL"}
<1>1. ASSUME NEW d \in Decisions(t, k) PROVE \E r \in S : r.asset = d.asset
  <2>1. d \in Rows(t) /\ d \in DecisionsOf(t, k, d.asset)
    BY DEF Decisions, Rows, DecisionsOf
  <2>2. d.asset \in Assets
    BY <2>1, RowKeys
  <2>3. PICK r : r \in AnswersOf(t, k, d.asset)
    BY <2>1, <2>2 DEF Settled, Closed
  <2> QED
    BY <2>3 DEF AnswersOf, Orders, Rejections
<1>2. ASSUME NEW r \in S PROVE \E d \in Decisions(t, k) : d.asset = r.asset
  <2>1. r \in Rows(t) /\ r \in AnswersOf(t, k, r.asset)
    BY DEF Orders, Rejections, Rows, AnswersOf
  <2>2. r.asset \in Assets
    BY <2>1, RowKeys
  <2>3. PICK d : d \in DecisionsOf(t, k, r.asset)
    BY <2>1, <2>2 DEF Settled, Closed
  <2> QED
    BY <2>3 DEF DecisionsOf, Decisions
<1> HIDE DEF S
<1>3. AssetsOf(Decisions(t, k)) = AssetsOf(S)
  BY <1>1, <1>2 DEF AssetsOf
<1> QED
  BY <1>3 DEF S

\* What the broker rejected for a rule is rejected again, if it keeps its cell.
LEMMA ExplainedAgain ==
    ASSUME NEW m \in Markets, NEW x \in RejectionRow, RejectionRight(m, x),
           x.reason \in RuleReasons => KeepsItsCell(m, x)
    PROVE  RejectionExplained(m, x)
<1> SUFFICES ASSUME x.reason \in RuleReasons
             PROVE  /\ ReplayedNum(x) > 0
                    /\ x.stage = "FINAL" =>
                          ReplayedNum(x) <= x.asked * Ulp + Tolerance * x.den
                    /\ x.reason = IF RuleReference(m) = 0
                                  THEN "market_notional_reference_unverifiable"
                                  ELSE FirstFailure(ReplayedChecks(m, ReplayedNum(x),
                                                                   ReplayedDen(x)))
  BY DEF RejectionExplained
<1>1. /\ m \in Market /\ m.rules.step < 2 * Digits /\ m.rules.mstep < 2 * Digits
      /\ Ulp \in Nat \ {0} /\ Tolerance \in Nat
  BY MarketsAssumption, PrecisionAssumption, ReplayAssumption
<1>2. /\ x.num \in Nat /\ x.asked \in Nat /\ x.den \in Nat \ {0} /\ x.off \in Int
      /\ x.stage \in {"PROPOSAL", "FINAL"}
  BY DEF RejectionRow
<1>3. Replayable(x) /\ ExactlyExplained(m, x) /\ KeepsItsCell(m, x)
  BY DEF RejectionRight
<1>4. ReplayedNum(x) = x.num * Ulp + x.off
  <2>1. x.stage # "FINAL" => x.asked * Ulp = x.num * Ulp + x.off
    <3>1. x.num * Ulp \in Nat
      BY <1>1, <1>2, Times
    <3> QED
      BY <1>3, <3>1 DEF Replayable
  <2> QED
    BY <2>1 DEF ReplayedNum
<1>5. ReplayedNum(x) > 0
  BY <1>3, <1>4 DEF Replayable, ExactlyExplained
<1>6. ReplayedNum(x) <= x.asked * Ulp + Tolerance * x.den
  <2>1. x.num <= x.asked /\ x.off <= Tolerance
    BY <1>3 DEF Replayable
  <2>2. x.num * Ulp <= x.asked * Ulp
    BY <1>1, <1>2, <2>1
  <2>3. Tolerance <= Tolerance * x.den
    BY <1>1, <1>2
  <2>4. x.num * Ulp \in Nat /\ x.asked * Ulp \in Nat /\ Tolerance * x.den \in Nat
    BY <1>1, <1>2, Times
  <2> QED
    BY <1>1, <1>2, <1>4, <2>1, <2>2, <2>3, <2>4
<1>7. FirstFailure(ReplayedChecks(m, ReplayedNum(x), ReplayedDen(x)))
        = FirstFailure(ExactChecks(m, x.num, x.den))
  BY <1>1, <1>2, <1>3, <1>4, ReplayedAre DEF ReplayedDen
<1> QED
  BY <1>3, <1>5, <1>6, <1>7 DEF ExactlyExplained

\* The rejections of a run keep their cells.
RunKept(t, k) ==
    \A x \in Rejections(t, k) :
        x.reason \in RuleReasons => KeepsItsCell(t.runs[k].evidence[x.asset], x)

\* A run that follows its evidence is replayed without an objection.
LEMMA SettledReplays ==
    ASSUME Regular(Markets), NEW t, TableOK(t), NEW k, Settled(t, k), RunKept(t, k)
    PROVE  RunReplays(t, k)
<1> DEFINE e == t.runs[k].evidence
<1>1. /\ e \in [Assets -> Markets] /\ DigestsAgree(t, k) /\ Right(t, k, e) /\ Closed(t, k)
      /\ ContextsRight(t, k)
  BY DEF Settled
<1>2. \A a \in Assets : /\ LimitsConsistent(e[a].rules)
                        /\ ReplayedReference(e[a]) = e[a].reference
  BY <1>1 DEF Regular, ReplayedReference
<1>3. /\ \A o \in Orders(t, k) : FillObeysRules(e[o.asset], o.filled)
      /\ \A d \in Decisions(t, k) : /\ d.outcome = RangeOutcome(e[d.asset], d.side)
                                    /\ d.price = Price(e[d.asset], d.side)
                                    /\ d.reference = e[d.asset].reference
                                    /\ d.asset \in AssetsOf(t.runs[k].contexts)
  BY <1>1 DEF Right, OrderRight, DecisionRight, ContextsRight, AssetsOf
<1>6. ASSUME NEW x \in Rejections(t, k)
      PROVE  RejectionExplained(e[x.asset], x)
  <2>1. x \in RejectionRow
    BY TableFacts DEF TableOK, Rejections
  <2>2. e[x.asset] \in Markets /\ RejectionRight(e[x.asset], x)
    BY <1>1, <2>1 DEF Right, RejectionRow
  <2>3. x.reason \in RuleReasons => KeepsItsCell(e[x.asset], x)
    BY DEF RunKept
  <2> HIDE DEF e
  <2> QED
    BY <2>1, <2>2, <2>3, ExplainedAgain
<1>4. ASSUME NEW d \in Decisions(t, k)
      PROVE  /\ d.reference = ReplayedReference(e[d.asset])
             /\ d.outcome = "REJECTED" =>
                  \E x \in Rejections(t, k) :
                     x.asset = d.asset /\ x.reason = "EXECUTION_RULE_PRICE_RANGE_EXCEEDED"
  <2>1. d \in Rows(t) /\ d \in DecisionsOf(t, k, d.asset)
    BY DEF Decisions, Rows, DecisionsOf
  <2>2. d.asset \in Assets
    BY <2>1, RowKeys
  <2>3. PICK r, c : /\ AnswersOf(t, k, d.asset) = {r} /\ DecisionsOf(t, k, d.asset) = {c}
                    /\ c.outcome = "REJECTED" =>
                         r \in Rejections(t, k) /\ r.reason = RangeReason
    BY <1>1, <2>1, <2>2 DEF Closed
  <2>4. c = d /\ r.asset = d.asset
    BY <2>1, <2>3 DEF AnswersOf
  <2> QED
    BY <1>2, <1>3, <2>2, <2>3, <2>4 DEF RangeReason
<1> HIDE DEF e
<1>5. DecisionsAgree(t, k)
  BY <1>3, <1>4, SettledAssets DEF DecisionsAgree, e
<1> QED
  BY <1>1, <1>2, <1>3, <1>5, <1>6 DEF RunReplays, e

\* The four parts of the reconciliation.
LEMMA ReconcilesIs ==
    ASSUME NEW t
    PROVE  Reconciles(t) <=> /\ \A k \in Replayed(t) : RunReplays(t, k)
                             /\ AccountsAgree(t)
                             /\ ContextsAgree(t)
                             /\ \A o \in t.orders : FillAccounted(t, o)
BY DEF Reconciles

\* Contexts have the spread of their quotes, and every fill has one.
LEMMA BooksContexts ==
    ASSUME Basic, RowsInv, BookInv, ~ damaged
    PROVE  ContextsAgree(db)
<1>1. TableOK(db) /\ DOMAIN db.runs = Keys /\ db.runs \in [Keys -> RunRow]
  BY TableFacts DEF Basic, TableOK
<1>2. \A k \in Keys : db.runs[k].status # "NONE" => Settled(db, k)
  BY DEF BookInv
<1>3. ASSUME NEW k \in Keys, NEW c \in db.runs[k].contexts
      PROVE  LET m == db.runs[k].evidence[c.asset]
             IN  m.bid <= m.ask /\ c.spread = m.ask - m.bid
  <2>1. db.runs[k] # NoRun
    BY <1>3 DEF NoRun
  <2>2. db.runs[k].status # "NONE" /\ db.runs[k] \in EndedRow
    BY <1>1, <2>1, RunFacts
  <2>3. Settled(db, k) /\ c.asset \in Assets
    BY <1>2, <1>3, <2>2 DEF EndedRow, ContextRow
  <2>4. db.runs[k].evidence[c.asset] \in Markets
    BY <2>3 DEF Settled
  <2>5. c.spread = db.runs[k].evidence[c.asset].ask - db.runs[k].evidence[c.asset].bid
    BY <1>3, <2>3 DEF Settled, ContextsRight
  <2> QED
    BY <2>4, <2>5, MarketsAssumption DEF MarketFit
<1>4. ASSUME NEW o \in db.orders
      PROVE  o.asset \in AssetsOf(db.runs[o.week].contexts)
  <2>1. o.week \in Keys /\ db.runs[o.week].status # "NONE"
    BY <1>1, RowKeys DEF Rows, RowsInv
  <2>2. Settled(db, o.week) /\ o \in Orders(db, o.week)
    BY <1>2, <2>1 DEF Orders
  <2>3. o.asset \in AssetsOf(Decisions(db, o.week))
    BY <1>1, <2>2, SettledAssets DEF AssetsOf
  <2> QED
    BY <2>2, <2>3 DEF Settled, ContextsRight
<1> QED
  BY <1>1, <1>3, <1>4 DEF ContextsAgree

\* Books that were not damaged reconcile, if no rounding left its cell.
LEMMA BooksReconcile ==
    ASSUME Regular(Markets), Basic, RowsInv, BookInv, ~ damaged, CellsKept(db)
    PROVE  Reconciles(db)
<1>1. TableOK(db) /\ Ledger(db) /\ DOMAIN db.runs = Keys
  BY TableFacts DEF Basic, TableOK, BookInv
<1>2. \A k \in Keys : db.runs[k].status # "NONE" => Settled(db, k)
  BY DEF BookInv
<1>3. ASSUME NEW k \in Replayed(db) PROVE RunReplays(db, k)
  <2>1. RunKept(db, k)
    BY DEF CellsKept, RunKept, Rejections
  <2> QED
    BY <1>1, <1>2, <2>1, SettledReplays DEF Replayed
<1>4. ASSUME NEW o \in db.orders PROVE FillAccounted(db, o)
  <2>1. o.week \in Keys /\ db.runs[o.week].status # "NONE"
    BY <1>1, RowKeys DEF Rows, RowsInv
  <2>2. OrderRight(db.runs[o.week].evidence[o.asset], o)
    BY <1>2, <2>1 DEF Settled, Right, Orders
  <2> QED
    BY <2>2 DEF OrderRight, FillAccounted
<1>5. AccountsAgree(db)
  BY <1>1, LedgerAgrees
<1> QED
  BY <1>3, <1>4, <1>5, BooksContexts, ReconcilesIs

\* A rejection that left its cell is kept, with its evidence.
LEMMA CellsLost ==
    ASSUME Basic, RowsInv, BookInv, ~ damaged, ~ damaged', ~ CellsKept(db), [Next]_vars
    PROVE  ~ CellsKept(db')
<1>1. PICK x \in db.rejections :
         x.reason \in RuleReasons /\ ~ KeepsItsCell(db.runs[x.week].evidence[x.asset], x)
  BY DEF CellsKept
<1>2. TableOK(db) /\ x.week \in Keys /\ db.runs[x.week].status # "NONE"
  BY RowKeys DEF Basic, RowsInv, Rows
<1> SUFFICES /\ x \in db'.rejections
             /\ db'.runs[x.week].evidence = db.runs[x.week].evidence
  BY <1>1 DEF CellsKept
<1>3. CASE Commit
  <2>1. /\ pc = "commit" /\ week \in Keys /\ db.runs[week].status = "NONE"
        /\ work.runs = db.runs /\ work.runs \in [Keys -> RunRow] /\ Books(work)
    BY <1>3, TableFacts DEF Commit, Basic, InSession, Inside, RowsInv, TableOK, BookInv
  <2>2. x.week # week
    BY <1>2, <2>1
  <2>3. x \in Rejections(work, x.week)
    BY <1>2, <2>1, <2>2 DEF Books, Kept, Rejections
  <2> QED
    BY <1>2, <1>3, <2>1, <2>2, <2>3, CommitFacts DEF Rejections
<1>4. CASE Verify \/ (Crash /\ pc = "verify")
  <2>1. /\ pc = "verify" /\ week \in Keys /\ TableOK(db)
        /\ db.runs[week].status # "NONE"
    BY <1>4 DEF Verify, Basic, InSession
  <2>2. \E s \in {"EXECUTED", "KILL_SWITCH", "RECOVERED_COMMITTED"} :
            db' = [db EXCEPT !.runs[week].status = s]
    BY <1>4 DEF Verify, Crash
  <2>3. /\ db'.rejections = db.rejections
        /\ db'.runs[week].evidence = db.runs[week].evidence
        /\ \A k \in Keys : k # week => db'.runs[k] = db.runs[k]
    BY <2>1, <2>2, StatusFacts
  <2> QED
    BY <1>2, <2>3
<1>5. CASE UNCHANGED db
  BY <1>5
<1>6. \/ Commit \/ Verify \/ (Crash /\ pc = "verify") \/ UNCHANGED db
  BY DEF Next, Begin, Refuse, LoopEnds, Value, Propose, Sell, Require, Buy, Crash,
         Damage, vars, outside
<1> QED
  BY <1>3, <1>4, <1>5, <1>6

\* The kill switch stays off until a stored value is changed or a rounding leaves
\* its cell.
Calm == damaged \/ ~ CellsKept(db) \/ ~ halted

LEMMA CalmNext ==
    ASSUME Regular(Markets), Basic, RowsInv, BookInv, Calm, [Next]_vars
    PROVE  Calm'
<1>1. CASE damaged
  <2>1. damaged'
    BY <1>1 DEF Next, Begin, Refuse, LoopEnds, Value, Propose, Sell, Require, Buy, Commit,
                Verify, Crash, Damage, vars, outside
  <2> QED
    BY <2>1 DEF Calm
<1>3. CASE ~ damaged /\ ~ CellsKept(db)
  BY <1>3, CellsLost DEF Calm
<1>2. CASE ~ damaged /\ CellsKept(db)
  <2>1. Reconciles(db) /\ ~ halted
    BY <1>2, BooksReconcile DEF Calm
  <2>2. damaged' \/ ~ halted'
    BY <2>1 DEF Next, Begin, Refuse, LoopEnds, Value, Propose, Sell, Require, Buy, Commit,
                Verify, Crash, Damage, vars, outside
  <2> QED
    BY <2>2 DEF Calm
<1> QED
  BY <1>1, <1>2, <1>3

\* Where the evidence is regular, the reconciliation agrees with the broker, whose
\* quantities it gets back from notionals and rounds with an arithmetic of its own
\* (paper_store.py:1297 and 1325), as long as no rejected quantity lies so near to
\* a step that the errors carry it over: no undamaged run then halts the account.
THEOREM OwnRunsAccepted ==
    ASSUME Regular(Markets)
    PROVE  Spec => []AcceptsItsOwnRuns
<1>1. Init => Calm
  BY DEF Init, Calm
<1>2. Basic /\ RowsInv /\ BookInv /\ Calm /\ [Next]_vars => Calm'
  BY CalmNext
<1>3. Basic /\ RowsInv /\ BookInv /\ Calm => AcceptsItsOwnRuns
  BY BooksReconcile DEF Calm, AcceptsItsOwnRuns
<1> QED
  BY <1>1, <1>2, <1>3, BooksInvariance, PTL DEF Spec

-----------------------------------------------------------------------------
(* A changed value is found *)

Judged == \A k \in Keys : db.runs[k].status \in {"NONE", "EXECUTED"}

\* Where every run was judged, every row belongs to a settled run that is replayed.
LEMMA ChangedBasics ==
    ASSUME Basic, RowsInv, BookInv, ~ damaged, Judged
    PROVE  /\ db \in Table /\ TableOK(db) /\ Ledger(db)
           /\ db.cash \in Nat /\ db.pos \in [Assets -> Nat]
           /\ db.orders \in SUBSET OrderRow /\ db.rejections \in SUBSET RejectionRow
           /\ db.decisions \in SUBSET DecisionRow /\ db.runs \in [Keys -> RunRow]
           /\ \A r \in Rows(db) : /\ r.week \in Keys /\ r.asset \in Assets
                                  /\ db.runs[r.week].status = "EXECUTED"
                                  /\ r.week \in Replayed(db)
                                  /\ Settled(db, r.week)
<1>1. /\ TableOK(db) /\ db \in Table
      /\ db.cash \in Nat /\ db.pos \in [Assets -> Nat]
      /\ db.orders \in SUBSET OrderRow /\ db.rejections \in SUBSET RejectionRow
      /\ db.decisions \in SUBSET DecisionRow /\ db.runs \in [Keys -> RunRow]
  BY TableFacts DEF Basic, TableOK
<1>2. ASSUME NEW r \in Rows(db)
      PROVE  /\ r.week \in Keys /\ r.asset \in Assets
             /\ db.runs[r.week].status = "EXECUTED"
             /\ r.week \in Replayed(db)
             /\ Settled(db, r.week)
  <2>1. r.week \in Keys /\ r.asset \in Assets
    BY <1>1, RowKeys
  <2>2. db.runs[r.week].status = "EXECUTED"
    BY <2>1 DEF RowsInv, Judged
  <2> QED
    BY <1>1, <2>1, <2>2 DEF Replayed, BookInv
<1> QED
  BY <1>1, <1>2 DEF BookInv

\* The cash is the sum of its ledger.
LEMMA CashFound ==
    ASSUME Basic, RowsInv, BookInv, ~ damaged, Judged, DamagesCash
    PROVE  ~ Reconciles(db')
<1>1. db \in Table /\ db.cash \in Nat /\ TableOK(db) /\ Ledger(db)
  BY ChangedBasics
<1>2. db'.cash = db.cash + 1 /\ db'.orders = db.orders /\ db' \in Table
  BY <1>1, TableWithCash DEF DamagesCash
<1>3. ~ Ledger(db') /\ TableOK(db')
  BY <1>1, <1>2 DEF Ledger, TableOK
<1> QED
  BY <1>3, LedgerAgrees, ReconcilesIs

\* So is every position.
LEMMA PositionFound ==
    ASSUME Basic, RowsInv, BookInv, ~ damaged, Judged, NEW a \in Assets, DamagesPos(a)
    PROVE  ~ Reconciles(db')
<1>1. db \in Table /\ db.pos \in [Assets -> Nat] /\ TableOK(db) /\ Ledger(db)
  BY ChangedBasics
<1>2. db'.pos[a] = db.pos[a] + 1 /\ db'.orders = db.orders /\ db' \in Table
  BY <1>1, TableWithPos DEF DamagesPos
<1>3. db.pos[a] = PositionSum({o \in db.orders : o.asset = a}) /\ db.pos[a] \in Nat
  BY <1>1 DEF Ledger
<1>4. db'.pos[a] # PositionSum({o \in db'.orders : o.asset = a})
  <2>1. {o \in db'.orders : o.asset = a} = {o \in db.orders : o.asset = a}
    BY <1>2
  <2> QED
    BY <1>2, <1>3, <2>1
<1>5. ~ Ledger(db') /\ TableOK(db')
  BY <1>1, <1>2, <1>4 DEF Ledger, TableOK
<1> QED
  BY <1>5, LedgerAgrees, ReconcilesIs

\* Without one of its orders a position is not the sum of its ledger.
LEMMA OrderMissed ==
    ASSUME Basic, RowsInv, BookInv, ~ damaged, Judged, NEW o \in db.orders,
           RemovesOrder(o)
    PROVE  ~ Reconciles(db')
<1> DEFINE a == o.asset
           S == {r \in db.orders : r.asset = a}
<1>1. /\ db \in Table /\ TableOK(db) /\ Ledger(db) /\ db.pos \in [Assets -> Nat]
      /\ db.orders \in SUBSET OrderRow
      /\ o.week \in Keys /\ a \in Assets /\ Settled(db, o.week)
  BY ChangedBasics DEF Rows
<1>2. OrderRight(db.runs[o.week].evidence[a], o) /\ o \in OrderRow
  BY <1>1 DEF Settled, Right, Orders
<1>3. o.position # 0 /\ o.position \in Int
  BY <1>2 DEF OrderRight, OrderRow, PositionDelta
<1>4. /\ db' \in Table /\ db'.pos = db.pos /\ db'.orders = db.orders \ {o}
  BY <1>1, TableWithOrders DEF RemovesOrder
<1>5. {r \in db'.orders : r.asset = a} = S \ {o} /\ o \in S
  BY <1>4
<1>6. IsFiniteSet(S) /\ (\A r \in S : r.position \in Int)
  BY <1>1, OrdersOf
<1> HIDE DEF S
<1>7. PositionSum(S) = o.position + PositionSum(S \ {o})
  BY <1>5, <1>6, PositionSumFacts
<1>8. PositionSum(S \ {o}) \in Int
  <2>1. IsFiniteSet(S \ {o}) /\ (\A r \in S \ {o} : r.position \in Int)
    BY <1>6, FS_RemoveElement
  <2> QED
    BY <2>1, PositionSumFacts
<1>9. db.pos[a] = PositionSum(S)
  BY <1>1 DEF Ledger, S
<1>10. db'.pos[a] # PositionSum({r \in db'.orders : r.asset = a})
  <2>1. PositionSum({r \in db'.orders : r.asset = a}) = PositionSum(S \ {o})
    BY <1>5
  <2>2. db'.pos[a] = o.position + PositionSum(S \ {o})
    BY <1>4, <1>7, <1>9
  <2> HIDE DEF a
  <2> QED
    BY <1>3, <1>8, <2>1, <2>2
<1>11. ~ Ledger(db') /\ TableOK(db')
  <2>1. IsFiniteSet(db'.orders)
    BY <1>1, <1>4, FS_RemoveElement DEF TableOK
  <2> QED
    BY <1>1, <1>4, <1>10, <2>1 DEF Ledger, TableOK
<1> QED
  BY <1>11, LedgerAgrees, ReconcilesIs

\* An order, its fill, its price and its ledger rows determine each other.
LEMMA OrderFound ==
    ASSUME Basic, RowsInv, BookInv, ~ damaged, Judged, NEW o \in db.orders,
           NEW f \in {"ordered", "filled", "price", "cash", "position"},
           NEW n, DamagedOrder(o, f, n), ChangesOrder(o, n)
    PROVE  ~ Reconciles(db')
<1> DEFINE m == db.runs[o.week].evidence[o.asset]
<1>1. /\ db \in Table /\ db.orders \in SUBSET OrderRow
      /\ o.week \in Keys /\ o.asset \in Assets /\ Settled(db, o.week)
  BY ChangedBasics DEF Rows
<1>2. OrderRight(m, o) /\ o \in OrderRow
  BY <1>1 DEF Settled, Right, Orders
<1>3. /\ n \in OrderRow /\ n.week = o.week /\ n.asset = o.asset /\ n.side = o.side
      /\ f = "ordered" => n.ordered = o.ordered + 1 /\ n.filled = o.filled
      /\ f # "ordered" => n.ordered = o.ordered
      /\ f = "filled" => n.filled = o.filled + 1
      /\ f # "filled" => n.filled = o.filled
      /\ f = "price" => n.price = o.price + 1
      /\ f # "price" => n.price = o.price
      /\ f = "cash" => n.cash = o.cash + 1
      /\ f # "cash" => n.cash = o.cash
      /\ f = "position" => n.position = o.position + 1
      /\ f # "position" => n.position = o.position
  BY <1>2, OrderDamaged
<1>4. db'.orders = (db.orders \ {o}) \cup {n} /\ db'.runs = db.runs
  <2>1. (db.orders \ {o}) \cup {n} \in SUBSET OrderRow
    BY <1>1, <1>3
  <2> QED
    BY <1>1, <2>1, TableWithOrders DEF ChangesOrder
<1>5. /\ o.ordered \in Nat /\ o.filled \in Nat /\ o.price \in Nat
      /\ o.cash \in Int /\ o.position \in Int
  BY <1>2 DEF OrderRow
<1>6. ASSUME FillAccounted(db', n) PROVE FALSE
  <2>1. /\ n.ordered = n.filled /\ n.price = Price(m, o.side)
        /\ n.position = PositionDelta(o.side, n.filled)
        /\ n.cash = CashDelta(o.side, n.filled, n.price)
    BY <1>3, <1>4, <1>6 DEF FillAccounted
  <2>2. /\ o.ordered = o.filled /\ o.price = Price(m, o.side)
        /\ o.position = PositionDelta(o.side, o.filled)
        /\ o.cash = CashDelta(o.side, o.filled, o.price)
    BY <1>2 DEF OrderRight
  <2> HIDE DEF m
  <2>3. CASE f = "ordered"
    BY <1>3, <1>5, <2>1, <2>2, <2>3
  <2>4. CASE f = "filled"
    BY <1>3, <1>5, <2>1, <2>2, <2>4
  <2>5. CASE f = "price"
    BY <1>3, <1>5, <2>1, <2>2, <2>5
  <2>6. CASE f = "cash"
    BY <1>3, <1>5, <2>1, <2>2, <2>6
  <2>7. CASE f = "position"
    BY <1>3, <1>5, <2>1, <2>2, <2>7
  <2> QED
    BY <2>3, <2>4, <2>5, <2>6, <2>7
<1> QED
  BY <1>4, <1>6, ReconcilesIs

\* The list of rejections has the digest its run declared.
LEMMA RejectionMissed ==
    ASSUME Basic, RowsInv, BookInv, ~ damaged, Judged, NEW x \in db.rejections,
           RemovesRejection(x)
    PROVE  ~ Reconciles(db')
<1> DEFINE k == x.week
<1>1. /\ db \in Table /\ db.rejections \in SUBSET RejectionRow
      /\ k \in Replayed(db) /\ Settled(db, k)
  BY ChangedBasics DEF Rows
<1>2. db'.rejections = db.rejections \ {x} /\ db'.runs = db.runs
  <2>1. db.rejections \ {x} \in SUBSET RejectionRow
    BY <1>1
  <2> QED
    BY <1>1, <2>1, TableWithRejections DEF RemovesRejection
<1>3. x \in Rejections(db, k) /\ x \notin Rejections(db', k)
  BY <1>2 DEF Rejections
<1>4. ~ DigestsAgree(db', k)
  BY <1>1, <1>2, <1>3 DEF DigestsAgree, Settled
<1>5. k \in Replayed(db')
  BY <1>1, <1>2 DEF Replayed
<1> HIDE DEF k
<1> QED
  BY <1>4, <1>5, ReconcilesIs DEF RunReplays

\* No rejection was manual, and none of a changed list was declared.
LEMMA RejectionFound ==
    ASSUME Basic, RowsInv, BookInv, ~ damaged, Judged, NEW x \in db.rejections,
           NEW n, DamagedRejection(x, n), ChangesRejection(x, n)
    PROVE  ~ Reconciles(db')
<1> DEFINE k == x.week
<1>1. /\ db \in Table /\ db.rejections \in SUBSET RejectionRow
      /\ k \in Replayed(db) /\ Settled(db, k)
  BY ChangedBasics DEF Rows
<1>2. n \in RejectionRow /\ n # x
  <2>1. x \in Rejections(db, k) /\ x \in RejectionRow
    BY <1>1 DEF Rejections
  <2>2. x.reason # "manual"
    BY <1>1, <2>1 DEF Settled, Right, RejectionRight
  <2> QED
    BY <2>1, <2>2, RejectionDamaged
<1>3. db'.rejections = (db.rejections \ {x}) \cup {n} /\ db'.runs = db.runs
  <2>1. (db.rejections \ {x}) \cup {n} \in SUBSET RejectionRow
    BY <1>1, <1>2
  <2> QED
    BY <1>1, <2>1, TableWithRejections DEF ChangesRejection
<1>4. x \in Rejections(db, k) /\ x \notin Rejections(db', k)
  BY <1>2, <1>3 DEF Rejections
<1>5. ~ DigestsAgree(db', k)
  BY <1>1, <1>3, <1>4 DEF DigestsAgree, Settled
<1>6. k \in Replayed(db')
  BY <1>1, <1>3 DEF Replayed
<1> HIDE DEF k
<1> QED
  BY <1>5, <1>6, ReconcilesIs DEF RunReplays

\* There is one decision for an asset and a week: without it, an answer is undecided.
LEMMA DecisionMissed ==
    ASSUME Basic, RowsInv, BookInv, ~ damaged, Judged, NEW d \in db.decisions,
           RemovesDecision(d)
    PROVE  ~ Reconciles(db')
<1> DEFINE k == d.week
           a == d.asset
<1>1. /\ db \in Table /\ db.decisions \in SUBSET DecisionRow /\ a \in Assets
      /\ k \in Replayed(db) /\ Settled(db, k)
  BY ChangedBasics DEF Rows
<1>2. /\ db'.decisions = db.decisions \ {d} /\ db'.runs = db.runs
      /\ db'.orders = db.orders /\ db'.rejections = db.rejections
  <2>1. db.decisions \ {d} \in SUBSET DecisionRow
    BY <1>1
  <2> QED
    BY <1>1, <2>1, TableWithDecisions DEF RemovesDecision
<1>3. d \in DecisionsOf(db, k, a)
  BY DEF DecisionsOf
<1>4. PICK r, c : AnswersOf(db, k, a) = {r} /\ DecisionsOf(db, k, a) = {c}
  BY <1>1, <1>3 DEF Settled, Closed
<1>5. \A e \in Decisions(db', k) : e.asset # a
  <2>1. ASSUME NEW e \in Decisions(db', k), e.asset = a PROVE FALSE
    <3>1. e \in DecisionsOf(db, k, a) /\ e # d
      BY <1>2, <2>1 DEF Decisions, DecisionsOf
    <3> QED
      BY <1>3, <1>4, <3>1
  <2> QED
    BY <2>1
<1>6. /\ r \in Orders(db', k) \cup {x \in Rejections(db', k) : x.stage = "FINAL"}
      /\ r.asset = a
  BY <1>2, <1>4 DEF AnswersOf, Orders, Rejections
<1>7. ~ DecisionsAgree(db', k)
  <2>1. a \notin AssetsOf(Decisions(db', k))
    BY <1>5 DEF AssetsOf
  <2>2. a \in AssetsOf(Orders(db', k) \cup {x \in Rejections(db', k) : x.stage = "FINAL"})
    BY <1>6 DEF AssetsOf
  <2> QED
    BY <2>1, <2>2 DEF DecisionsAgree
<1>8. k \in Replayed(db')
  BY <1>1, <1>2 DEF Replayed
<1> HIDE DEF k
<1> QED
  BY <1>7, <1>8, ReconcilesIs DEF RunReplays

\* The evidence gives every decision again.
LEMMA DecisionFound ==
    ASSUME Basic, RowsInv, BookInv, ~ damaged, Judged, NEW d \in db.decisions,
           NEW n, DamagedDecision(d, n), ChangesDecision(d, n)
    PROVE  ~ Reconciles(db')
<1> DEFINE k == d.week
           m == db.runs[k].evidence[d.asset]
<1>1. /\ db \in Table /\ db.decisions \in SUBSET DecisionRow /\ d.asset \in Assets
      /\ k \in Replayed(db) /\ Settled(db, k)
  BY ChangedBasics DEF Rows
<1>2. /\ n \in DecisionRow /\ n.week = k /\ n.asset = d.asset /\ n.side = d.side
      /\ \/ n.outcome = "EVIDENCE_UNAVAILABLE"
         \/ n.price # d.price
         \/ n.reference = d.reference + 1
  BY <1>1, DecisionDamaged
<1>3. db'.decisions = (db.decisions \ {d}) \cup {n} /\ db'.runs = db.runs
  <2>1. (db.decisions \ {d}) \cup {n} \in SUBSET DecisionRow
    BY <1>1, <1>2
  <2> QED
    BY <1>1, <2>1, TableWithDecisions DEF ChangesDecision
<1>4. n \in Decisions(db', k)
  BY <1>2, <1>3 DEF Decisions
<1>5. DecisionRight(m, d) /\ m \in Market
  <2>1. m \in Market
    BY <1>1, MarketsAssumption DEF Settled
  <2> QED
    BY <1>1, <2>1 DEF Settled, Right, Decisions
<1>6. ~ DecisionsAgree(db', k)
  <2>1. SUFFICES ASSUME n.outcome = RangeOutcome(m, n.side), n.price = Price(m, n.side),
                        n.reference = ReplayedReference(m)
                 PROVE  FALSE
    BY <1>2, <1>3, <1>4 DEF DecisionsAgree
  <2>2. n.outcome # "EVIDENCE_UNAVAILABLE"
    BY <2>1 DEF RangeOutcome
  <2>3. n.price = d.price
    BY <1>2, <1>5, <2>1 DEF DecisionRight
  <2>4. m.reference \in Nat /\ d.reference = m.reference
    BY <1>5, MarketFacts DEF DecisionRight
  <2>5. n.reference # d.reference + 1
    BY <2>1, <2>4 DEF ReplayedReference
  <2> QED
    BY <1>2, <2>2, <2>3, <2>5
<1>7. k \in Replayed(db')
  BY <1>1, <1>3 DEF Replayed
<1> HIDE DEF k
<1> QED
  BY <1>6, <1>7, ReconcilesIs DEF RunReplays

\* Where every run was judged, a committed one is replayed and settled.
LEMMA JudgedRun ==
    ASSUME Basic, RowsInv, BookInv, ~ damaged, Judged, NEW k \in Keys,
           db.runs[k].status # "NONE"
    PROVE  /\ db \in Table /\ db.runs[k].status = "EXECUTED" /\ Settled(db, k)
           /\ db.runs[k].evidence \in [Assets -> Market]
           /\ db.runs[k].contexts \in SUBSET ContextRow
<1>1. /\ db \in Table /\ db.runs \in [Keys -> RunRow]
      /\ db.runs[k].status = "EXECUTED" /\ Settled(db, k)
  BY ChangedBasics DEF Judged, BookInv
<1>2. db.runs[k] \in EndedRow
  BY <1>1, RunFacts
<1> QED
  BY <1>1, <1>2 DEF EndedRow

\* A rule or a reference has the digest that its run recorded.
LEMMA RulesFound ==
    ASSUME Basic, RowsInv, BookInv, ~ damaged, Judged, NEW k \in Keys,
           db.runs[k].status # "NONE", NEW a \in Assets,
           NEW n, DamagedRules(db.runs[k].evidence[a], n), ChangesMarket(k, a, n)
    PROVE  ~ Reconciles(db')
<1>1. /\ db \in Table /\ db.runs[k].status = "EXECUTED" /\ Settled(db, k)
      /\ db.runs[k].evidence[a] \in Market
  BY JudgedRun
<1>2. n \in Market /\ RuleEvidence(n) # RuleEvidence(db.runs[k].evidence[a])
  BY <1>1, MarketDamaged
<1>3. /\ DOMAIN db'.runs = Keys /\ db'.runs[k].status = db.runs[k].status
      /\ db'.runs[k].evidence[a] = n
      /\ db'.runs[k].evidenceDigest = db.runs[k].evidenceDigest
  BY <1>1, <1>2, TableWithMarket DEF ChangesMarket
<1>4. db.runs[k].evidenceDigest[a] = RuleEvidence(db.runs[k].evidence[a])
  BY <1>1 DEF Settled, DigestsAgree
<1>5. ~ DigestsAgree(db', k)
  <2>1. SUFFICES ASSUME DigestsAgree(db', k) PROVE FALSE
    OBVIOUS
  <2>2. db'.runs[k].evidenceDigest[a] = RuleEvidence(db'.runs[k].evidence[a])
    BY <2>1 DEF DigestsAgree
  <2> QED
    BY <1>2, <1>3, <1>4, <2>2
<1>6. k \in Replayed(db')
  BY <1>1, <1>3 DEF Replayed
<1> QED
  BY <1>5, <1>6, ReconcilesIs DEF RunReplays

\* A quote has the spread of its context.
LEMMA QuoteFound ==
    ASSUME Basic, RowsInv, BookInv, ~ damaged, Judged, NEW k \in Keys,
           db.runs[k].status # "NONE", NEW c \in db.runs[k].contexts,
           NEW n, DamagedQuote(db.runs[k].evidence[c.asset], n),
           ChangesMarket(k, c.asset, n)
    PROVE  ~ Reconciles(db')
<1>1. /\ db \in Table /\ Settled(db, k) /\ c \in ContextRow
      /\ db.runs[k].evidence \in [Assets -> Market]
  BY JudgedRun
<1>2. c.asset \in Assets /\ db.runs[k].evidence[c.asset] \in Market
  BY <1>1 DEF ContextRow
<1>3. /\ n \in Market
      /\ n.ask - n.bid # db.runs[k].evidence[c.asset].ask - db.runs[k].evidence[c.asset].bid
  BY <1>2, MarketDamaged
<1>4. /\ DOMAIN db'.runs = Keys /\ db'.runs[k].evidence[c.asset] = n
      /\ db'.runs[k].contexts = db.runs[k].contexts
  BY <1>1, <1>2, <1>3, TableWithMarket DEF ChangesMarket
<1>5. c.spread = db.runs[k].evidence[c.asset].ask - db.runs[k].evidence[c.asset].bid
  BY <1>1 DEF Settled, ContextsRight
<1>6. ~ ContextsAgree(db')
  <2>1. SUFFICES ASSUME ContextsAgree(db') PROVE FALSE
    OBVIOUS
  <2>2. c.spread = n.ask - n.bid
    BY <1>4, <2>1 DEF ContextsAgree
  <2> QED
    BY <1>3, <1>5, <2>2
<1> QED
  BY <1>6, ReconcilesIs

\* A decision has its context.
LEMMA ContextMissed ==
    ASSUME Basic, RowsInv, BookInv, ~ damaged, Judged, NEW k \in Keys,
           db.runs[k].status # "NONE", NEW c \in db.runs[k].contexts,
           ChangesContexts(k, db.runs[k].contexts \ {c})
    PROVE  ~ Reconciles(db')
<1>1. /\ db \in Table /\ db.runs[k].status = "EXECUTED" /\ Settled(db, k)
      /\ db.runs[k].contexts \in SUBSET ContextRow
  BY JudgedRun
<1>2. /\ DOMAIN db'.runs = Keys /\ db'.runs[k].status = db.runs[k].status
      /\ db'.runs[k].contexts = db.runs[k].contexts \ {c}
      /\ db'.decisions = db.decisions
  <2>1. db.runs[k].contexts \ {c} \in SUBSET ContextRow
    BY <1>1
  <2> QED
    BY <1>1, <2>1, TableWithContexts DEF ChangesContexts
<1>3. c.asset \notin AssetsOf(db'.runs[k].contexts)
  <2>1. ASSUME NEW b \in db.runs[k].contexts, b.asset = c.asset PROVE b = c
    <3>1. b \in ContextRow /\ c \in ContextRow /\ b.spread = c.spread
      BY <1>1, <2>1 DEF Settled, ContextsRight
    <3> QED
      BY <2>1, <3>1 DEF ContextRow
  <2> QED
    BY <1>2, <2>1 DEF AssetsOf
<1>4. PICK d \in Decisions(db, k) : d.asset = c.asset
  <2>1. c.asset \in AssetsOf(Decisions(db, k))
    BY <1>1 DEF Settled, ContextsRight, AssetsOf
  <2> QED
    BY <2>1 DEF AssetsOf
<1>5. d \in Decisions(db', k)
  BY <1>2 DEF Decisions
<1>6. ~ DecisionsAgree(db', k) /\ k \in Replayed(db')
  BY <1>1, <1>2, <1>3, <1>4, <1>5 DEF DecisionsAgree, Replayed
<1> QED
  BY <1>6, ReconcilesIs DEF RunReplays

\* A context has the spread of its quote.
LEMMA ContextFound ==
    ASSUME Basic, RowsInv, BookInv, ~ damaged, Judged, NEW k \in Keys,
           db.runs[k].status # "NONE", NEW c \in db.runs[k].contexts,
           ChangesContexts(k, (db.runs[k].contexts \ {c}) \cup {Raised(c, "spread")})
    PROVE  ~ Reconciles(db')
<1> DEFINE m == db.runs[k].evidence[c.asset]
           b == Raised(c, "spread")
<1>1. /\ db \in Table /\ Settled(db, k) /\ db.runs[k].contexts \in SUBSET ContextRow
  BY JudgedRun
<1>2. /\ b \in ContextRow /\ b.asset = c.asset /\ b.spread = c.spread + 1
      /\ c.spread \in Nat
  BY <1>1 DEF ContextRow, Raised
<1> HIDE DEF b
<1>3. /\ DOMAIN db'.runs = Keys
      /\ db'.runs[k].evidence = db.runs[k].evidence
      /\ db'.runs[k].contexts = (db.runs[k].contexts \ {c}) \cup {b}
  <2>1. (db.runs[k].contexts \ {c}) \cup {b} \in SUBSET ContextRow
    BY <1>1, <1>2
  <2> QED
    BY <1>1, <2>1, TableWithContexts DEF ChangesContexts, b
<1>4. c.spread = m.ask - m.bid
  BY <1>1 DEF Settled, ContextsRight
<1>5. ~ ContextsAgree(db')
  <2>1. SUFFICES ASSUME ContextsAgree(db') PROVE FALSE
    OBVIOUS
  <2>2. b.spread = m.ask - m.bid
    BY <1>2, <1>3, <2>1 DEF ContextsAgree
  <2> QED
    BY <1>2, <1>4, <2>2
<1> QED
  BY <1>5, ReconcilesIs

\* Whatever is changed, the reconciliation finds it.
LEMMA DamageFound ==
    ASSUME Basic, RowsInv, BookInv, Judged, Damage
    PROVE  ~ Reconciles(db')
<1>1. ~ damaged
  BY DEF Damage
<1>2. ASSUME NEW k \in Keys, db.runs[k].status # "NONE", DamagesRun(k)
      PROVE  ~ Reconciles(db')
  BY <1>1, <1>2, RulesFound, ContextMissed, ContextFound, QuoteFound DEF DamagesRun
<1> QED
  BY <1>1, <1>2, DamageWays, CashFound, PositionFound, OrderMissed, OrderFound,
     RejectionMissed, RejectionFound, DecisionMissed, DecisionFound

Unjudged == \E k \in Keys : db.runs[k].status \in {"KILL_SWITCH", "RECOVERED_COMMITTED"}

\* A changed value keeps the next run from beginning, unless a run went unjudged.
Found == damaged => (pc = "idle" /\ ~ Reconciles(db)) \/ Unjudged

\* What was found stays found: the next run does not begin.
LEMMA FoundNext ==
    ASSUME Basic, RowsInv, BookInv, Found, [Next]_vars
    PROVE  Found'
<1>1. CASE ~ damaged /\ Damage
  <2>1. pc = "idle" /\ pc' = "idle"
    BY <1>1 DEF Damage
  <2>2. CASE Judged
    <3>1. ~ Reconciles(db')
      BY <1>1, <2>2, DamageFound
    <3> QED
      BY <2>1, <3>1 DEF Found
  <2>3. CASE ~ Judged
    <3>1. PICK k \in Keys : db.runs[k].status \notin {"NONE", "EXECUTED"}
      BY <2>3 DEF Judged
    <3>2. db.runs[k].status \in
             {"NONE", "RUNNING", "EXECUTED", "KILL_SWITCH", "RECOVERED_COMMITTED"}
      BY RunFacts, TableFacts DEF Basic, TableOK
    <3>3. db.runs[k].status \in {"KILL_SWITCH", "RECOVERED_COMMITTED"}
      BY <2>1, <3>1, <3>2 DEF RowsInv
    <3>4. db'.runs[k].status = db.runs[k].status
      BY <1>1, DamageKeeps
    <3> QED
      BY <3>3, <3>4 DEF Found, Unjudged
  <2> QED
    BY <2>2, <2>3
<1>2. CASE ~ damaged /\ ~ Damage
  <2>1. ~ damaged'
    BY <1>2 DEF Next, Begin, Refuse, LoopEnds, Value, Propose, Sell, Require, Buy, Commit,
                Verify, Crash, vars, outside
  <2> QED
    BY <2>1 DEF Found
<1>3. CASE damaged /\ pc = "idle" /\ ~ Reconciles(db)
  <2>1. pc' = "idle" /\ db' = db
    BY <1>3 DEF Next, Begin, Refuse, LoopEnds, After, Value, Propose, Sell, Require, Buy,
                Commit, Verify, Crash, Damage, vars
  <2>2. ~ Reconciles(db')
    BY <1>3, <2>1
  <2> QED
    BY <2>1, <2>2 DEF Found
<1>4. CASE damaged /\ Unjudged
  <2>1. PICK k \in Keys : db.runs[k].status \in {"KILL_SWITCH", "RECOVERED_COMMITTED"}
    BY <1>4 DEF Unjudged
  <2>2. db'.runs[k].status = db.runs[k].status
    <3>1. CASE Commit
      <4>1. /\ pc = "commit" /\ week \in Keys /\ db.runs[week].status = "NONE"
            /\ work.runs = db.runs /\ work.runs \in [Keys -> RunRow]
        BY <3>1, TableFacts DEF Commit, Basic, InSession, Inside, RowsInv, TableOK
      <4>2. k # week
        BY <2>1, <4>1
      <4> QED
        BY <3>1, <4>1, <4>2, CommitFacts
    <3>2. CASE Verify \/ (Crash /\ pc = "verify")
      <4>1. /\ pc = "verify" /\ week \in Keys /\ TableOK(db)
            /\ db.runs[week].status = "RUNNING"
        BY <3>2 DEF Verify, Basic, InSession
      <4>2. \E s \in {"EXECUTED", "KILL_SWITCH", "RECOVERED_COMMITTED"} :
                db' = [db EXCEPT !.runs[week].status = s]
        BY <3>2 DEF Verify, Crash
      <4>3. k # week
        BY <2>1, <4>1
      <4> QED
        BY <4>1, <4>2, <4>3, StatusFacts
    <3>3. CASE UNCHANGED db
      BY <3>3
    <3>4. \/ Commit \/ Verify \/ (Crash /\ pc = "verify") \/ UNCHANGED db
      BY <1>4 DEF Next, Begin, Refuse, LoopEnds, Value, Propose, Sell, Require, Buy,
                  Crash, Damage, vars, outside
    <3> QED
      BY <3>1, <3>2, <3>3, <3>4
  <2> QED
    BY <2>1, <2>2 DEF Found, Unjudged
<1> QED
  BY <1>1, <1>2, <1>3, <1>4 DEF Found

\* One number or one whole row, changed from outside, of those that Damage lists -
\* accounts, fills with their orders and ledgers, rejections, decisions, rules,
\* references, quotes and spreads of execution contexts - is found by the
\* reconciliation that the next run begins with, as long as every run before was
\* judged (paper_broker.py:1636).  Columns that Damage does not list are not covered.
THEOREM ChangesAreFound == Spec => []FindsDamage
<1>1. Init => Found
  BY DEF Init, Found
<1>2. Basic /\ RowsInv /\ BookInv /\ Found /\ [Next]_vars => Found'
  BY FoundNext
<1>3. Found => FindsDamage
  BY DEF Found, Unjudged, FindsDamage
<1> QED
  BY <1>1, <1>2, <1>3, BooksInvariance, PTL DEF Spec

-----------------------------------------------------------------------------
(* Trading creates no value *)

\* Positions at the midpoints.
Values(pos, m) == [a \in Assets |-> pos[a] * Mid(m[a])]
Holdings(pos, m) == MapThenSumSet(LAMBDA a : pos[a] * Mid(m[a]), Assets)

\* The fold that the worth of an account is computed with is such a sum.
LEMMA HoldingsIs ==
    ASSUME NEW pos, NEW m, Values(pos, m) \in [Assets -> Int]
    PROVE  Holdings(pos, m) = Sums(Values(pos, m))[Assets]
<1> DEFINE g == Values(pos, m)
           Body(h) == [s \in SUBSET Assets |-> IF s = {} THEN 0
                         ELSE pos[CHOOSE x \in s : TRUE] * Mid(m[CHOOSE x \in s : TRUE])
                              + h[s \ {CHOOSE x \in s : TRUE}]]
           hh == CHOOSE h : h = Body(h)
<1>1. SumsUp(Sums(g), g, Assets)
  BY SumsAre
<1>2. ASSUME NEW h1 PROVE SumsUp(h1, g, Assets) <=> h1 = Body(h1)
  <2>1. \A s \in SUBSET Assets : s # {} => First(s) \in Assets
    BY FirstIn
  <2>2. \A a \in Assets : g[a] = pos[a] * Mid(m[a])
    BY DEF Values
  <2> HIDE DEF g
  <2>3. [s \in SUBSET Assets |-> IF s = {} THEN 0 ELSE g[First(s)] + h1[s \ {First(s)}]]
        = [s \in SUBSET Assets |-> IF s = {} THEN 0
             ELSE pos[First(s)] * Mid(m[First(s)]) + h1[s \ {First(s)}]]
    BY <2>1, <2>2
  <2> QED
    BY <2>3 DEF SumsUp, First
<1>3. hh = Body(hh)
  <2>1. Sums(g) = Body(Sums(g))
    BY <1>1, <1>2
  <2> HIDE DEF Body
  <2> QED
    BY <2>1
<1>4. hh = Sums(g)
  <2>1. SumsUp(hh, g, Assets)
    BY <1>2, <1>3
  <2>2. \A h1 : SumsUp(h1, g, Assets) <=> h1 = Body(h1)
    BY <1>2
  <2> HIDE DEF Body, g
  <2> QED
    BY <2>2 DEF Sums
<1>5. Holdings(pos, m) = hh[Assets]
  BY DEF Holdings, MapThenSumSet, MapThenFoldSet
<1> HIDE DEF hh
<1> QED
  BY <1>4, <1>5

\* Prices are adverse: a buy pays the midpoint or more, a sell gets it or less.
LEMMA PricesAdverse ==
    ASSUME NEW m \in Market, m.bid <= m.ask
    PROVE  Price(m, "BUY") >= Mid(m) /\ Price(m, "SELL") <= Mid(m)
<1>1. m.bid \in Nat \ {0} /\ m.ask \in Nat \ {0} /\ Mid(m) \in Nat \ {0}
  BY MidFacts DEF Market
<1>2. Spread \in Nat /\ Slip \in Nat
  BY CostsAssumption
<1> QED
  BY <1>1, <1>2 DEF Price

\* The worth of an account is its cash and what its positions are worth.
WorthOf(cash, pos, m) == cash + FeeDen * Sums(Values(pos, m))[Assets]

\* Positions are worth nothing or more.
LEMMA ValuesType ==
    ASSUME NEW pos \in [Assets -> Nat], NEW m \in [Assets -> Markets]
    PROVE  /\ Values(pos, m) \in [Assets -> Nat]
           /\ \A a \in Assets : Values(pos, m)[a] = pos[a] * Mid(m[a])
<1>1. ASSUME NEW a \in Assets
      PROVE  pos[a] * Mid(m[a]) \in Nat
  <2>1. m[a] \in Market /\ m[a].bid <= m[a].ask
    BY MarketsAssumption DEF MarketFit
  <2>2. Mid(m[a]) \in Nat /\ pos[a] \in Nat
    BY <2>1, MidFacts
  <2> QED
    BY <2>2, Times
<1> QED
  BY <1>1 DEF Values

\* The cash and the positions after a sell, the admission of a buy, or a buy.
LEMMA TradeFacts ==
    ASSUME Basic, NEW a \in Assets, Sell(a) \/ Require(a) \/ Buy(a)
    PROVE  \/ work'.cash = work.cash /\ work'.pos = work.pos
           \/ /\ side[a] \in Trades
              /\ \E q \in Nat :
                   /\ work'.cash = work.cash + CashDelta(side[a], q, Price(market[a], side[a]))
                   /\ work'.pos[a] = work.pos[a] + PositionDelta(side[a], q)
                   /\ \A b \in Assets \ {a} : work'.pos[b] = work.pos[b]
<1>1. TableOK(work) /\ pc # "idle"
  BY DEF Basic, Sell, Require, Buy
<1>2. side[a] \in Trades => /\ TableOK(Decided(work, a))
                            /\ Decided(work, a).cash = work.cash
                            /\ Decided(work, a).pos = work.pos
  BY <1>1, DecidedFacts
<1>3. ASSUME NEW t, TableOK(t), t.cash = work.cash, t.pos = work.pos,
             RefusedByRange(a, t) \/ RefusedByRule(a, t, "FINAL")
      PROVE  work'.cash = work.cash /\ work'.pos = work.pos
  BY <1>3, RejectedFacts DEF RefusedByRange, RefusedByRule
<1>4. ASSUME NEW t, TableOK(t), t.cash = work.cash, t.pos = work.pos, side[a] \in Trades,
             FilledByRules(a, t)
      PROVE  \E q \in Nat :
                   /\ work'.cash = work.cash + CashDelta(side[a], q, Price(market[a], side[a]))
                   /\ work'.pos[a] = work.pos[a] + PositionDelta(side[a], q)
                   /\ \A b \in Assets \ {a} : work'.pos[b] = work.pos[b]
  <2>1. PICK q \in Nat \ {0} : Affordable(t, a, q) /\ work' = Filled(t, a, q)
    BY <1>4 DEF FilledByRules
  <2>2. /\ work'.cash = t.cash + Fill(a, q).cash
        /\ work'.pos[a] = t.pos[a] + Fill(a, q).position
        /\ \A b \in Assets \ {a} : work'.pos[b] = t.pos[b]
    BY <1>1, <1>4, <2>1, FilledFacts
  <2>3. /\ Fill(a, q).cash = CashDelta(side[a], q, Price(market[a], side[a]))
        /\ Fill(a, q).position = PositionDelta(side[a], q)
    BY DEF Fill
  <2> QED
    BY <1>4, <2>2, <2>3
<1>5. CASE side[a] = "SELL" /\ Sell(a)
  <2>1. side[a] \in Trades
    BY <1>5 DEF Trades
  <2> QED
    BY <1>2, <1>3, <1>4, <1>5, <2>1, SellFacts
<1>6. CASE side[a] = "BUY" /\ Require(a)
  <2>1. side[a] \in Trades
    BY <1>6 DEF Trades
  <2> QED
    BY <1>2, <1>3, <1>6, <2>1, RequireFacts
<1>7. CASE side[a] = "BUY" /\ Buy(a)
  <2>1. side[a] \in Trades
    BY <1>7 DEF Trades
  <2> QED
    BY <1>1, <1>3, <1>4, <1>7, <2>1, BuyFacts
<1>8. CASE \/ side[a] # "SELL" /\ Sell(a)
           \/ side[a] # "BUY" /\ (Require(a) \/ Buy(a))
  BY <1>8 DEF Sell, Require, Buy
<1> QED
  BY <1>5, <1>6, <1>7, <1>8

\* A fill loses what its price is worse than the midpoint, and the fee.
LEMMA FillLoses ==
    ASSUME NEW q \in Nat, NEW m \in Market, MarketFit(m), NEW s \in Trades
    PROVE  /\ CashDelta(s, q, Price(m, s)) \in Int /\ PositionDelta(s, q) \in Int
           /\ CashDelta(s, q, Price(m, s)) + FeeDen * (PositionDelta(s, q) * Mid(m)) <= 0
<1> DEFINE p == Price(m, s)
           mid == Mid(m)
<1>1. /\ FeeDen \in Nat \ {0} /\ FeeNum \in Nat /\ FeeNum <= FeeDen
      /\ mid \in Nat /\ Price(m, "BUY") \in Nat /\ Price(m, "SELL") \in Nat
      /\ Price(m, "BUY") >= mid /\ Price(m, "SELL") <= mid
  BY CostsAssumption, MidFacts, PriceFacts, PricesAdverse DEF MarketFit
<1> HIDE DEF mid
<1>2. CASE s = "BUY"
  <2>1. p \in Nat /\ p >= mid
    BY <1>1, <1>2
  <2>2. CashDelta(s, q, p) = - (q * p * (FeeDen + FeeNum)) /\ PositionDelta(s, q) = q
    BY <1>2 DEF CashDelta, PositionDelta
  <2> HIDE DEF p
  <2>3. q * p \in Nat /\ q * mid \in Nat /\ q * mid <= q * p
    BY <1>1, <2>1
  <2>4. FeeDen * (q * mid) <= FeeDen * (q * p)
    BY <1>1, <2>3
  <2>5. (q * p) * FeeNum \in Nat /\ (q * p) * FeeDen \in Nat /\ FeeDen * (q * mid) \in Nat
    BY <1>1, <2>3
  <2>6. q * p * (FeeDen + FeeNum) = FeeDen * (q * p) + (q * p) * FeeNum
    BY <1>1, <2>3
  <2>7. CashDelta(s, q, p) + FeeDen * (PositionDelta(s, q) * mid) <= 0
    BY <1>1, <2>2, <2>3, <2>4, <2>5, <2>6
  <2> QED
    BY <2>2, <2>3, <2>5, <2>6, <2>7, <1>1 DEF p, mid
<1>3. CASE s = "SELL"
  <2>1. p \in Nat /\ p <= mid
    BY <1>1, <1>3
  <2>2. CashDelta(s, q, p) = q * p * (FeeDen - FeeNum) /\ PositionDelta(s, q) = - q
    BY <1>3 DEF CashDelta, PositionDelta
  <2> HIDE DEF p
  <2>3. q * p \in Nat /\ q * mid \in Nat /\ q * p <= q * mid
    BY <1>1, <2>1
  <2>4. FeeDen * (q * p) <= FeeDen * (q * mid)
    BY <1>1, <2>3
  <2>5. (q * p) * FeeNum \in Nat /\ FeeDen * (q * p) \in Nat /\ FeeDen * (q * mid) \in Nat
    BY <1>1, <2>3
  <2>6. q * p * (FeeDen - FeeNum) = FeeDen * (q * p) - (q * p) * FeeNum
    BY <1>1, <2>3
  <2>7. FeeDen * ((- q) * mid) = - (FeeDen * (q * mid))
    BY <1>1
  <2>8. CashDelta(s, q, p) + FeeDen * (PositionDelta(s, q) * mid) <= 0
    BY <1>1, <2>2, <2>3, <2>4, <2>5, <2>6, <2>7
  <2> QED
    BY <2>2, <2>3, <2>5, <2>6, <2>8, <1>1 DEF p, mid
<1> QED
  BY <1>2, <1>3 DEF Trades

\* The transaction is never worth more than the equity, and the equity is what the
\* account is worth before it.
WorthInv ==
    /\ pc \in {"value", "propose"} => work.cash = db.cash /\ work.pos = db.pos
    /\ pc = "value" =>
          equity = db.cash + FeeDen * Sums(Values(db.pos, market))[Assets \ todo]
    /\ pc \in {"propose", "sell", "require", "buy", "commit"} =>
          WorthOf(work.cash, work.pos, market) <= equity

\* A sell, a buy or the admission of one keeps the invariant: no fill gains.
LEMMA WorthTraded ==
    ASSUME Basic, WorthInv, NEW a \in Assets, Sell(a) \/ Require(a) \/ Buy(a)
    PROVE  WorthInv'
<1>1. /\ pc \in {"sell", "require", "buy"} /\ pc' = pc
      /\ UNCHANGED <<market, equity>> /\ TableOK(work) /\ TableOK(work)'
  <2>1. Basic'
    BY BasicSell, BasicRequire, BasicBuy
  <2> QED
    BY <2>1 DEF Sell, Require, Buy, Basic, run
<1>2. market \in [Assets -> Markets] /\ market[a] \in Market /\ MarketFit(market[a])
  BY <1>1, SessionMarket DEF Basic, InSession
<1>3. WorthOf(work.cash, work.pos, market) <= equity
  BY <1>1 DEF WorthInv
<1> DEFINE g == Values(work.pos, market)
           f == Values(work'.pos, market)
<1>4. /\ work.pos \in [Assets -> Nat] /\ work'.pos \in [Assets -> Nat]
      /\ work.cash \in Nat /\ work'.cash \in Nat
  BY <1>1, TableFacts DEF TableOK
<1>5. /\ g \in [Assets -> Int] /\ f \in [Assets -> Int]
      /\ \A b \in Assets : g[b] = work.pos[b] * Mid(market[b])
      /\ \A b \in Assets : f[b] = work'.pos[b] * Mid(market[b])
  BY <1>2, <1>4, ValuesType
<1>6. WorthOf(work'.cash, work'.pos, market) <= equity
  <2>1. CASE work'.cash = work.cash /\ work'.pos = work.pos
    BY <1>3, <2>1
  <2>2. ASSUME side[a] \in Trades, NEW q \in Nat,
               work'.cash = work.cash + CashDelta(side[a], q, Price(market[a], side[a])),
               work'.pos[a] = work.pos[a] + PositionDelta(side[a], q),
               \A b \in Assets \ {a} : work'.pos[b] = work.pos[b]
        PROVE  WorthOf(work'.cash, work'.pos, market) <= equity
    <3> DEFINE dc == CashDelta(side[a], q, Price(market[a], side[a]))
               dp == PositionDelta(side[a], q)
               mid == Mid(market[a])
               rest == Sums(g)[Assets \ {a}]
    <3>1. dc \in Int /\ dp \in Int /\ dc + FeeDen * (dp * mid) <= 0
      BY <1>2, <2>2, FillLoses
    <3>2. \A b \in Assets \ {a} : f[b] = g[b]
      BY <1>5, <2>2
    <3>3. f[a] = (work.pos[a] + dp) * mid /\ g[a] = work.pos[a] * mid
      BY <1>5, <2>2
    <3>4. rest \in Int
      <4>1. Assets \ {a} \in SUBSET Assets
        OBVIOUS
      <4> HIDE DEF g
      <4> QED
        BY <1>5, <4>1, SumsAre
    <3>5. Sums(g)[Assets] = g[a] + rest
      <4>1. Assets \in SUBSET Assets
        OBVIOUS
      <4> HIDE DEF g
      <4> QED
        BY <1>5, <4>1, SumsAre
    <3>6. Sums(f)[Assets] = f[a] + rest
      <4>1. f \in [Assets -> Int] /\ g \in [Assets -> Int]
        BY <1>5
      <4> HIDE DEF g, f
      <4>2. Sums(f)[Assets] = f[a] + Sums(g)[Assets \ {a}]
        BY <3>2, <4>1, SumsChange
      <4> QED
        BY <4>2
    <3>7. work.cash + FeeDen * Sums(g)[Assets] <= equity
      BY <1>3 DEF WorthOf
    <3>8. mid \in Nat /\ FeeDen \in Nat /\ work.pos[a] \in Nat /\ equity \in Nat
      BY <1>1, <1>4, SessionMarket, CostsAssumption DEF Basic, LocalsOK
    <3>9. work'.cash = work.cash + dc
      BY <2>2
    <3> HIDE DEF dc, dp, mid, rest, f, g
    <3>10. FeeDen * ((work.pos[a] + dp) * mid + rest)
           = FeeDen * (work.pos[a] * mid + rest) + FeeDen * (dp * mid)
      <4>1. \A x, y, z, u, v \in Int :
               v * ((x + y) * z + u) = v * (x * z + u) + v * (y * z)
        OBVIOUS
      <4> QED
        BY <3>1, <3>4, <3>8, <4>1
    <3>11. FeeDen * (work.pos[a] * mid + rest) \in Int /\ FeeDen * (dp * mid) \in Int
      BY <3>1, <3>4, <3>8
    <3>12. work'.cash + FeeDen * Sums(f)[Assets] <= equity
      BY <1>4, <3>1, <3>3, <3>5, <3>6, <3>7, <3>8, <3>9, <3>10, <3>11
    <3> QED
      BY <3>12 DEF WorthOf, f
  <2> QED
    BY <2>1, <2>2, TradeFacts
<1> QED
  BY <1>1, <1>6 DEF WorthInv

\* The equity starts with the cash.
LEMMA WorthBegin == ASSUME Basic, NEW k \in Keys, Begin(k) PROVE WorthInv'
<1>1. /\ pc' = "value" /\ work' = db /\ db' = db /\ equity' = db.cash
      /\ market' \in [Assets -> Markets] /\ todo' = Assets
  BY DEF Begin, outside
<1>2. db.pos \in [Assets -> Nat] /\ db.cash \in Nat
  BY TableFacts DEF Basic, TableOK
<1>3. Values(db.pos, market') \in [Assets -> Int]
  BY <1>1, <1>2, ValuesType
<1>4. Sums(Values(db.pos, market'))[{}] = 0
  BY <1>3, SumsAre
<1>5. Assets \ todo' = {}
  BY <1>1
<1>6. equity' = db'.cash + FeeDen * Sums(Values(db'.pos, market'))[Assets \ todo']
  <2>1. Sums(Values(db'.pos, market'))[Assets \ todo'] = 0
    BY <1>1, <1>4, <1>5
  <2>2. FeeDen * 0 = 0
    BY CostsAssumption
  <2> QED
    BY <1>1, <1>2, <2>1, <2>2
<1> QED
  BY <1>1, <1>6 DEF WorthInv

\* When all positions are counted, the equity is what the account is worth.
LEMMA WorthLoopEnds == ASSUME Basic, WorthInv, LoopEnds PROVE WorthInv'
<1>1. /\ UNCHANGED <<db, work, market, equity>> /\ todo = {}
      /\ pc \in {"value", "propose", "sell", "require", "buy"}
      /\ pc' = After[pc] /\ pc' \in {"propose", "sell", "require", "buy", "commit"}
      /\ pc' = "propose" => pc = "value"
  BY DEF LoopEnds, After, outside, run
<1>2. Assets \ {} = Assets
  OBVIOUS
<1>3. pc = "value" => WorthOf(work.cash, work.pos, market) = equity
  BY <1>1, <1>2 DEF WorthInv, WorthOf
<1>4. equity \in Nat
  BY DEF Basic, LocalsOK
<1>5. WorthOf(work.cash, work.pos, market) <= equity
  BY <1>1, <1>3, <1>4 DEF WorthInv
<1>6. WorthOf(work'.cash, work'.pos, market') <= equity'
  BY <1>1, <1>5
<1> QED
  BY <1>1, <1>6 DEF WorthInv

\* And grows by one position after the other.
LEMMA WorthValue == ASSUME Basic, WorthInv, NEW a \in Assets, Value(a) PROVE WorthInv'
<1>1. /\ pc = "value" /\ pc' = pc /\ UNCHANGED <<db, work, market>>
      /\ a \in todo /\ todo' = todo \ {a} /\ todo \subseteq Assets
      /\ equity' = equity + FeeDen * db.pos[a] * Mid(market[a])
  BY DEF Value, IsNext, Advance, outside, run, Basic, LocalsOK
<1> DEFINE g == Values(db.pos, market)
           s == Assets \ todo
<1>2. /\ db.pos \in [Assets -> Nat] /\ db.cash \in Nat
      /\ market \in [Assets -> Markets] /\ Mid(market[a]) \in Nat
      /\ FeeDen \in Nat
  BY <1>1, TableFacts, SessionMarket, CostsAssumption DEF Basic, TableOK, InSession
<1>3. g \in [Assets -> Int] /\ g[a] = db.pos[a] * Mid(market[a])
  BY <1>2, ValuesType
<1>4. equity = db.cash + FeeDen * Sums(g)[s]
  BY <1>1 DEF WorthInv
<1> HIDE DEF g
<1>5. s \in SUBSET Assets /\ a \notin s /\ Assets \ todo' = s \cup {a}
  BY <1>1
<1>6. Sums(g)[s \cup {a}] = g[a] + Sums(g)[s] /\ Sums(g)[s] \in Int
  <2> HIDE DEF s
  <2>1. \A b \in s : g[b] = g[b]
    OBVIOUS
  <2> QED
    BY <1>3, <1>5, <2>1, SumsMore, SumsAre
<1> HIDE DEF s
<1>7. equity' = db.cash + FeeDen * Sums(g)[Assets \ todo']
  <2>1. db.pos[a] \in Nat
    BY <1>2
  <2>2. \A x, y, z, u \in Int : u * x + u * y * z = u * (y * z + x)
    OBVIOUS
  <2>3. FeeDen * Sums(g)[s] + FeeDen * db.pos[a] * Mid(market[a])
        = FeeDen * (db.pos[a] * Mid(market[a]) + Sums(g)[s])
    BY <1>2, <1>6, <2>1, <2>2
  <2>4. FeeDen * Sums(g)[s] \in Int /\ FeeDen * db.pos[a] * Mid(market[a]) \in Int
    BY <1>2, <1>6, <2>1
  <2>5. Sums(g)[Assets \ todo'] = db.pos[a] * Mid(market[a]) + Sums(g)[s]
    BY <1>3, <1>5, <1>6
  <2>6. equity' = db.cash + (FeeDen * Sums(g)[s] + FeeDen * db.pos[a] * Mid(market[a]))
    BY <1>1, <1>2, <1>4, <2>4
  <2> QED
    BY <2>3, <2>5, <2>6
<1>8. equity' = db'.cash + FeeDen * Sums(Values(db'.pos, market'))[Assets \ todo']
  BY <1>1, <1>7 DEF g
<1> QED
  BY <1>1, <1>8 DEF WorthInv

\* Proposals move nothing.
LEMMA WorthPropose == ASSUME Basic, WorthInv, NEW a \in Assets, Propose(a) PROVE WorthInv'
<1>1. pc = "propose" /\ pc' = pc /\ UNCHANGED <<db, market, equity>> /\ TableOK(work)
  BY DEF Propose, outside, run, Basic
<1>2. work'.cash = work.cash /\ work'.pos = work.pos
  BY <1>1, ProposeFacts, RejectedFacts DEF RefusedByRule
<1>3. WorthOf(work'.cash, work'.pos, market') <= equity'
  BY <1>1, <1>2 DEF WorthInv
<1> QED
  BY <1>1, <1>2, <1>3 DEF WorthInv

\* No step breaks it.
LEMMA WorthNext == Basic /\ WorthInv /\ [Next]_vars => WorthInv'
<1> SUFFICES ASSUME Basic, WorthInv, [Next]_vars
             PROVE  WorthInv'
  OBVIOUS
<1>1. CASE Refuse \/ Damage
  BY <1>1 DEF Refuse, Damage, run, WorthInv
<1>2. CASE Commit \/ Verify \/ Crash
  BY <1>2 DEF Commit, Verify, Crash, EndRun, WorthInv
<1>3. CASE UNCHANGED vars
  BY <1>3 DEF vars, WorthInv
<1> QED
  BY <1>1, <1>2, <1>3, WorthBegin, WorthLoopEnds, WorthValue, WorthPropose, WorthTraded
     DEF Next

\* A rebalance creates no value: whichever of its orders are filled, cut, scaled or
\* rejected, and wherever it stops, the account is never worth more at the midpoints of
\* the snapshot than it was before (paper_broker.py:797).
THEOREM NoGain == Spec => []NoValueFromTrading
<1>1. Init => WorthInv
  BY DEF Init, WorthInv
<1>2. Basic /\ WorthInv => NoValueFromTrading
  <2> SUFFICES ASSUME Basic, WorthInv, pc \in {"sell", "require", "buy", "commit"}
               PROVE  Worth(work) <= equity
    BY DEF NoValueFromTrading
  <2>1. work.pos \in [Assets -> Nat] /\ market \in [Assets -> Markets]
    BY TableFacts DEF Basic, TableOK, InSession
  <2>2. Values(work.pos, market) \in [Assets -> Int]
    BY <2>1, ValuesType
  <2>3. Worth(work) = work.cash + FeeDen * Holdings(work.pos, market)
    BY DEF Worth, Holdings
  <2>4. Worth(work) = WorthOf(work.cash, work.pos, market)
    BY <2>2, <2>3, HoldingsIs DEF WorthOf
  <2> QED
    BY <2>4 DEF WorthInv
<1> QED
  BY <1>1, <1>2, WorthNext, BasicInvariance, PTL DEF Spec

-----------------------------------------------------------------------------
(* The scaled buys fit into the cash *)

\* The rejection that is left to the rounding of floats.
Short == "insufficient_cash_after_rounding"

NoneShort(t) == \A x \in t.rejections : x.reason # Short

\* What one unit of an asset costs, and what the buys with the sides s would.
UnitCost(a) == Price(market[a], "BUY") * (FeeDen + FeeNum)
CostsOf(s) == [a \in Assets |-> IF s[a] = "BUY" THEN requested[a] * UnitCost(a) ELSE 0]

\* The numerator of the common factor; its denominator is ScaledDen.
Share == IF funds >= required THEN 1 ELSE funds

\* required adds up the buys that are still in the loop; while they are made, the
\* cash covers the share of those to come.
FitInv ==
    /\ pc \in {"value", "propose", "sell"} => required = 0
    /\ pc = "require" => required = Sums(CostsOf(side))[Assets \ todo]
    /\ pc = "buy" => Share * Sums(CostsOf(side))[todo] <= work.cash * ScaledDen
    /\ NoneShort(db) /\ NoneShort(work)

\* What a buy takes of the cash, fee included.
LEMMA CostFacts ==
    ASSUME Basic, pc # "idle", NEW a \in Assets, NEW q \in Nat
    PROVE  /\ UnitCost(a) \in Nat
           /\ CashDelta("BUY", q, Price(market[a], "BUY")) = - (q * UnitCost(a))
<1>1. Price(market[a], "BUY") \in Nat /\ FeeDen + FeeNum \in Nat
  BY SessionMarket, CostsAssumption
<1> QED
  BY <1>1 DEF UnitCost, CashDelta

\* Costs are not negative.
LEMMA CostsType ==
    ASSUME Basic, pc # "idle", NEW s
    PROVE  /\ CostsOf(s) \in [Assets -> Nat]
           /\ CostsOf(s) \in [Assets -> Int]
           /\ \A a \in Assets : CostsOf(s)[a] =
                 IF s[a] = "BUY" THEN requested[a] * UnitCost(a) ELSE 0
<1>1. ASSUME NEW a \in Assets
      PROVE  requested[a] * UnitCost(a) \in Nat
  <2>1. UnitCost(a) \in Nat
    BY 0 \in Nat, CostFacts
  <2>2. requested[a] \in Nat
    BY DEF Basic, LocalsOK
  <2> QED
    BY <2>1, <2>2, Times
<1> QED
  BY <1>1 DEF CostsOf

\* What one buy takes of the cash is its share or less, and leaves theirs to the others.
LEMMA BuyLeaves ==
    ASSUME NEW cash \in Nat, NEW den \in Nat \ {0}, NEW share \in Nat, NEW unit \in Nat,
           NEW asked \in Nat, NEW q \in Nat, NEW others \in Nat,
           q * den <= asked * share,
           share * (asked * unit + others) <= cash * den
    PROVE  /\ q * unit <= cash
           /\ share * others <= (cash - q * unit) * den
           /\ share * others <= cash * den
<1>1. /\ q * den \in Nat /\ asked * share \in Nat /\ asked * unit \in Nat
      /\ share * others \in Nat /\ cash * den \in Nat /\ q * unit \in Nat
  OBVIOUS
<1>2. (q * den) * unit <= (asked * share) * unit
  BY <1>1
<1>3. (q * den) * unit = (q * unit) * den /\ (asked * share) * unit = share * (asked * unit)
  OBVIOUS
<1>4. share * (asked * unit + others) = share * (asked * unit) + share * others
  BY <1>1
<1>5. (q * unit) * den \in Nat /\ share * (asked * unit) \in Nat
  BY <1>1
<1>6. (q * unit) * den + share * others <= cash * den
  BY <1>1, <1>2, <1>3, <1>4, <1>5
<1>7. (cash - q * unit) * den = cash * den - (q * unit) * den
  BY <1>1
<1>8. q * unit <= cash
  <2> DEFINE x == q * unit
  <2>1. x \in Nat /\ x * den <= cash * den
    BY <1>1, <1>5, <1>6
  <2> HIDE DEF x
  <2>2. x <= cash
    BY <2>1
  <2> QED
    BY <2>2 DEF x
<1> QED
  BY <1>1, <1>5, <1>6, <1>7, <1>8

\* A new rejection for another reason.
LEMMA NoneShortRejected ==
    ASSUME NEW t, t \in Table, NoneShort(t), NEW x, x.reason # Short
    PROVE  NoneShort(Rejected(t, x))
<1>1. Rejected(t, x).rejections = t.rejections \cup {x}
  BY DEF Rejected, Table
<1> QED
  BY <1>1 DEF NoneShort

\* The checks of a quantity give other reasons.
LEMMA ReasonNotShort ==
    ASSUME NEW m, NEW num, NEW den, InvalidReason(m, num, den) # "none"
    PROVE  InvalidReason(m, num, den) # Short
BY ReasonIn, ReasonSetIs DEF Short

\* A buy takes its share of the cash or less, and is not rejected for want of it.
LEMMA FitBuy == ASSUME Basic, FitInv, NEW a \in Assets, Buy(a) PROVE FitInv'
<1>1. /\ pc = "buy" /\ pc' = "buy" /\ a \in todo /\ todo' = todo \ {a} /\ todo \subseteq Assets
      /\ UNCHANGED <<db, market, requested, side, required, funds>>
      /\ TableOK(work) /\ work.cash \in Nat /\ work \in Table
  BY TableFacts DEF Buy, IsNext, Advance, outside, run, Basic, LocalsOK, TableOK
<1> DEFINE c == CostsOf(side)
           S == Sums(c)[todo]
           R == Sums(c)[todo \ {a}]
           num == ScaledNum(a)
           den == ScaledDen
           share == Share
           unit == UnitCost(a)
<1>2. /\ share \in Nat /\ den \in Nat \ {0} /\ num \in Nat /\ num = requested[a] * share
      /\ requested[a] \in Nat
  <2>1. funds \in Nat /\ required \in Nat /\ requested[a] \in Nat
    BY DEF Basic, LocalsOK
  <2>2. num \in Nat /\ den \in Nat \ {0}
    BY ScaledFacts
  <2>3. num = requested[a] * share
    BY <2>1 DEF ScaledNum, Share
  <2> QED
    BY <2>1, <2>2, <2>3 DEF Share
<1>3. unit \in Nat
  BY <1>1, 0 \in Nat, CostFacts
<1>4. /\ c \in [Assets -> Nat] /\ c \in [Assets -> Int]
      /\ c[a] = IF side[a] = "BUY" THEN requested[a] * unit ELSE 0
  BY <1>1, CostsType
<1>5. S = c[a] + R /\ R \in Nat
  <2>1. todo \in SUBSET Assets /\ todo \ {a} \in SUBSET Assets
    BY <1>1
  <2> HIDE DEF c
  <2>2. S = c[a] + R
    BY <1>1, <1>4, <2>1, SumsAre
  <2>3. R \in Nat
    BY <1>4, <2>1, SumsNat
  <2> QED
    BY <2>2, <2>3
<1>6. share * S <= work.cash * den
  BY <1>1 DEF FitInv
<1>7. /\ CostsOf(side)' = c /\ Share' = share /\ ScaledDen' = den
      /\ Sums(CostsOf(side)')[todo'] = R
  <2>1. CostsOf(side)' = c /\ Share' = share /\ ScaledDen' = den
    BY <1>1 DEF CostsOf, UnitCost, Share, ScaledDen
  <2> QED
    BY <1>1, <2>1
<1>8. NoneShort(db)' /\ NoneShort(work)
  BY <1>1 DEF FitInv, NoneShort
<1> HIDE DEF c, S, R, den, share, unit
<1>9. CASE side[a] # "BUY"
  <2>1. work' = work
    BY <1>9 DEF Buy
  <2>2. S = R
    BY <1>4, <1>5, <1>9
  <2>3. share * R <= work'.cash * den
    BY <1>6, <2>1, <2>2
  <2>4. NoneShort(work)'
    BY <1>8, <2>1 DEF NoneShort
  <2> QED
    BY <1>1, <1>7, <1>8, <2>3, <2>4 DEF FitInv
<1>10. CASE side[a] = "BUY"
  <2> DEFINE q == OnGrids(market[a], num, den)
             rule == InvalidReason(market[a], num, den)
             rest == work.cash + CashDelta("BUY", q, Price(market[a], "BUY"))
             why == IF rule # "none" THEN rule
                    ELSE IF rest < 0 THEN Short ELSE "none"
             row(off) == Rejection(a, "BUY", "FINAL", why, requested[a] * den, num, den, off)
  <2>1. IF why = "none" THEN work' = Filled(work, a, q)
        ELSE \E off \in Errors(num) : work' = Rejected(work, row(off))
    BY <1>10 DEF Buy, den, Short
  <2> HIDE DEF num
  <2>2. q \in Nat /\ q * den <= num
    <3>1. market[a] \in Market
      BY <1>1, SessionMarket
    <3> QED
      BY <1>2, <3>1, GridFacts
  <2> HIDE DEF q, rule
  <2>3. share * (requested[a] * unit + R) <= work.cash * den
    BY <1>4, <1>5, <1>6, <1>10
  <2>4. /\ q * unit <= work.cash
        /\ share * R <= (work.cash - q * unit) * den
        /\ share * R <= work.cash * den
    BY <1>1, <1>2, <1>3, <1>5, <2>2, <2>3, BuyLeaves
  <2>5. CashDelta("BUY", q, Price(market[a], "BUY")) = - (q * unit)
    BY <1>1, <2>2, CostFacts DEF unit
  <2>6. ~ (rest < 0) /\ rest = work.cash - q * unit
    <3>1. q * unit \in Nat
      BY <1>3, <2>2, Times
    <3> QED
      BY <1>1, <2>4, <2>5, <3>1
  <2> HIDE DEF rest
  <2>7. CASE rule = "none"
    <3>1. work' = Filled(work, a, q)
      BY <2>1, <2>6, <2>7
    <3>2. Affordable(work, a, q)
      <4>1. work.pos[a] \in Nat
        BY <1>1, TableFacts DEF TableOK
      <4>2. work.pos[a] + PositionDelta(side[a], q) >= 0
        BY <1>10, <2>2, <4>1 DEF PositionDelta
      <4>3. work.cash + CashDelta(side[a], q, Price(market[a], side[a])) >= 0
        BY <1>1, <1>3, <1>10, <2>2, <2>4, <2>5, <2>6 DEF rest
      <4> QED
        BY <4>2, <4>3 DEF Affordable
    <3>3. side[a] \in Trades
      BY <1>10 DEF Trades
    <3>4. /\ work'.cash = work.cash + Fill(a, q).cash
          /\ work'.rejections = work.rejections
      BY <1>1, <2>2, <3>1, <3>2, <3>3, FilledFacts
    <3>5. Fill(a, q).cash = CashDelta("BUY", q, Price(market[a], "BUY"))
      BY <1>10 DEF Fill
    <3>6. work'.cash = work.cash - q * unit
      BY <2>5, <2>6, <3>4, <3>5 DEF rest
    <3>7. share * R <= work'.cash * den
      BY <2>4, <3>6
    <3>8. NoneShort(work)'
      BY <1>8, <3>4 DEF NoneShort
    <3> QED
      BY <1>1, <1>7, <1>8, <3>7, <3>8 DEF FitInv
  <2>8. CASE rule # "none"
    <3>0. why = rule /\ why # "none"
      BY <2>8
    <3>1. PICK off \in Errors(num) : work' = Rejected(work, row(off))
      BY <2>1, <3>0
    <3> DEFINE x == row(off)
    <3>2. why # Short
      BY <2>8, <3>0, ReasonNotShort DEF rule
    <3> HIDE DEF why
    <3>3. x.reason # Short
      BY <3>2 DEF Rejection
    <3> HIDE DEF x
    <3>4. NoneShort(work)'
      <4>1. NoneShort(Rejected(work, x))
        BY <1>1, <1>8, <3>3, NoneShortRejected
      <4> QED
        BY <3>1, <4>1 DEF NoneShort, x
    <3>5. work'.cash = work.cash
      BY <1>1, <3>1 DEF Rejected, Table
    <3> QED
      BY <1>1, <1>7, <1>8, <2>4, <3>4, <3>5 DEF FitInv
  <2> QED
    BY <2>7, <2>8
<1> QED
  BY <1>9, <1>10

\* The cash that all buys need starts at zero.
LEMMA FitBegin == ASSUME Basic, FitInv, NEW k \in Keys, Begin(k) PROVE FitInv'
BY DEF Begin, outside, FitInv, NoneShort

\* When the cash is looked at, the factor makes all buys fit.
LEMMA FitLoopEnds == ASSUME Basic, FitInv, LoopEnds PROVE FitInv'
<1>1. /\ UNCHANGED <<db, work, market, requested, side, required>> /\ todo = {}
      /\ pc \in {"value", "propose", "sell", "require", "buy"}
      /\ pc' = After[pc]
  BY DEF LoopEnds, After, outside, run
<1>2. NoneShort(db)' /\ NoneShort(work)'
  BY <1>1 DEF FitInv, NoneShort
<1>3. CASE pc \in {"value", "propose"}
  BY <1>1, <1>2, <1>3 DEF FitInv, After
<1>4. CASE pc = "sell"
  <2>1. pc' = "require" /\ Assets \ todo' = {} /\ required' = 0
    BY <1>1, <1>4 DEF LoopEnds, After, FitInv
  <2>2. CostsOf(side)' = CostsOf(side)
    BY <1>1 DEF CostsOf, UnitCost
  <2>3. Sums(CostsOf(side))[{}] = 0
    BY <1>4, CostsType, SumsAre
  <2> QED
    BY <1>2, <2>1, <2>2, <2>3 DEF FitInv
<1>5. CASE pc = "require"
  <2>1. pc' = "buy" /\ todo' = Assets /\ funds' = work.cash
    BY <1>5 DEF LoopEnds, After
  <2>2. CostsOf(side)' = CostsOf(side)
    BY <1>1 DEF CostsOf, UnitCost
  <2>3. Assets \ todo = Assets
    BY <1>1
  <2>4. required = Sums(CostsOf(side))[Assets]
    BY <1>5, <2>3 DEF FitInv
  <2>5. required \in Nat /\ work.cash \in Nat
    BY TableFacts DEF Basic, LocalsOK, TableOK
  <2>6. Share' = (IF work.cash >= required THEN 1 ELSE work.cash)
        /\ ScaledDen' = (IF work.cash >= required THEN 1 ELSE required)
    BY <1>1, <2>1 DEF Share, ScaledDen
  <2>7. Share' * required <= work.cash * ScaledDen'
    <3>1. CASE work.cash >= required
      BY <2>5, <2>6, <3>1
    <3>2. CASE ~ (work.cash >= required)
      BY <2>5, <2>6, <3>2
    <3> QED
      BY <3>1, <3>2
  <2>8. Share' * Sums(CostsOf(side)')[todo'] <= work'.cash * ScaledDen'
    BY <1>1, <2>1, <2>2, <2>4, <2>7
  <2> QED
    BY <1>2, <2>1, <2>8 DEF FitInv
<1>6. CASE pc = "buy"
  BY <1>1, <1>2, <1>6 DEF FitInv, After
<1> QED
  BY <1>1, <1>3, <1>4, <1>5, <1>6

\* The loops before it count no buys.
LEMMA FitValue == ASSUME Basic, FitInv, NEW a \in Assets, Value(a) PROVE FitInv'
BY DEF Value, outside, run, FitInv, NoneShort

\* A proposal is rejected because of its quantity.
LEMMA FitPropose == ASSUME Basic, FitInv, NEW a \in Assets, Propose(a) PROVE FitInv'
<1> DEFINE why == InvalidReason(market[a], Size(DeltaNum(a)), DeltaDen(a))
           x == Rejection(a, IF DeltaNum(a) > 0 THEN "BUY" ELSE "SELL", "PROPOSAL", why,
                          Size(DeltaNum(a)), Size(DeltaNum(a)), DeltaDen(a), 0)
<1>1. pc = "propose" /\ pc' = pc /\ UNCHANGED <<db, required>> /\ work \in Table
  BY DEF Propose, outside, Basic, TableOK
<1>2. work' = work \/ (why # "none" /\ work' = Rejected(work, x))
  BY DEF Propose
<1>3. NoneShort(db)' /\ NoneShort(work)
  BY <1>1 DEF FitInv, NoneShort
<1>4. why # "none" => x.reason # Short
  BY ReasonNotShort DEF Rejection
<1> HIDE DEF why, x
<1>5. NoneShort(work)'
  <2>1. why # "none" => NoneShort(Rejected(work, x))
    BY <1>1, <1>3, <1>4, NoneShortRejected
  <2> QED
    BY <1>2, <1>3, <2>1 DEF NoneShort
<1> QED
  BY <1>1, <1>3, <1>5 DEF FitInv

\* A fill adds no rejection.
LEMMA FilledRejections ==
    ASSUME NEW t \in Table, NEW a, NEW q
    PROVE  Filled(t, a, q).rejections = t.rejections
BY DEF Filled, Table

\* Nor does a decision.
LEMMA NoneShortDecided ==
    ASSUME NEW t, t \in Table, NoneShort(t), NEW a
    PROVE  NoneShort(Decided(t, a))
<1>1. Decided(t, a).rejections = t.rejections
  BY DEF Decided, Table
<1> QED
  BY <1>1 DEF NoneShort

\* So is a sell, or because of its range.
LEMMA FitSell == ASSUME Basic, FitInv, NEW a \in Assets, Sell(a) PROVE FitInv'
<1>1. pc = "sell" /\ pc' = pc /\ UNCHANGED <<db, required>> /\ TableOK(work) /\ work \in Table
  BY DEF Sell, outside, Basic, TableOK
<1>2. NoneShort(db)' /\ NoneShort(work)
  BY <1>1 DEF FitInv, NoneShort
<1>3. NoneShort(work)'
  <2>1. CASE side[a] # "SELL"
    BY <1>2, <2>1 DEF Sell, NoneShort
  <2>2. CASE side[a] = "SELL"
    <3> DEFINE t == Decided(work, a)
               num == Lesser(requested[a], work.pos[a])
               why == InvalidReason(market[a], num, 1)
               row(off) == Rejection(a, "SELL", "FINAL", why, requested[a], num, 1, off)
               q == OnGrids(market[a], num, 1)
    <3>1. \/ work' = Rejected(t, OutOfRange(a))
          \/ why # "none" /\ \E off \in Errors(num) : work' = Rejected(t, row(off))
          \/ work' = Filled(t, a, q)
      BY <2>2 DEF Sell
    <3>2. t \in Table /\ NoneShort(t)
      <4>1. side[a] \in Trades
        BY <2>2 DEF Trades
      <4> QED
        BY <1>1, <1>2, <4>1, DecidedFacts, NoneShortDecided DEF TableOK
    <3>3. OutOfRange(a).reason # Short
      BY DEF OutOfRange, Rejection, Short
    <3>4. \A off : why # "none" => row(off).reason # Short
      BY ReasonNotShort DEF Rejection
    <3> HIDE DEF t, num, why, q, row
    <3>5. NoneShort(Rejected(t, OutOfRange(a)))
      BY <3>2, <3>3, NoneShortRejected
    <3>6. \A off : why # "none" => NoneShort(Rejected(t, row(off)))
      BY <3>2, <3>4, NoneShortRejected
    <3>7. Filled(t, a, q).rejections = t.rejections
      BY <3>2, FilledRejections
    <3> QED
      BY <3>1, <3>2, <3>5, <3>6, <3>7 DEF NoneShort
  <2> QED
    BY <2>1, <2>2
<1> QED
  BY <1>1, <1>2, <1>3 DEF FitInv

\* A buy in its range is added up, and one outside leaves the loop.
LEMMA FitRequire == ASSUME Basic, FitInv, NEW a \in Assets, Require(a) PROVE FitInv'
<1>1. /\ pc = "require" /\ pc' = pc /\ UNCHANGED <<db, market, requested>>
      /\ a \in todo /\ todo' = todo \ {a} /\ todo \subseteq Assets
      /\ TableOK(work) /\ work \in Table /\ side \in [Assets -> Sides]
      /\ required \in Nat /\ requested[a] \in Nat
  BY DEF Require, IsNext, Advance, outside, run, Basic, LocalsOK, TableOK
<1>2. NoneShort(db)' /\ NoneShort(work)
  BY <1>1 DEF FitInv, NoneShort
<1> DEFINE g == CostsOf(side)
           f == CostsOf(side')
           s == Assets \ todo
           unit == UnitCost(a)
<1>3. /\ g \in [Assets -> Int] /\ f \in [Assets -> Int]
      /\ \A b \in Assets : g[b] = IF side[b] = "BUY" THEN requested[b] * UnitCost(b) ELSE 0
      /\ \A b \in Assets : f[b] = IF side'[b] = "BUY" THEN requested[b] * UnitCost(b) ELSE 0
  BY <1>1, CostsType
<1>4. s \in SUBSET Assets /\ a \notin s /\ Assets \ todo' = s \cup {a}
  BY <1>1
<1>5. required = Sums(g)[s]
  BY <1>1 DEF FitInv
<1>6. CostsOf(side)' = f
  BY <1>1 DEF CostsOf, UnitCost
<1>7. \A b \in s : side'[b] = side[b]
  BY <1>1, <1>4 DEF Require, LeavesLoop
<1>8. \A b \in s : f[b] = g[b]
  BY <1>3, <1>4, <1>7
<1> HIDE DEF g, f, s
<1>9. Sums(f)[s \cup {a}] = f[a] + Sums(g)[s]
  BY <1>3, <1>4, <1>8, SumsMore
<1>10. required' = required + f[a] /\ NoneShort(work)'
  <2>1. CASE side[a] # "BUY"
    <3>1. UNCHANGED <<work, required, side>>
      BY <2>1 DEF Require
    <3>2. f[a] = 0
      BY <1>3, <2>1, <3>1
    <3> QED
      BY <1>1, <1>2, <3>1, <3>2 DEF NoneShort
  <2>2. CASE side[a] = "BUY" /\ RangeOutcome(market[a], "BUY") = "REJECTED"
    <3> DEFINE t == Decided(work, a)
               x == OutOfRange(a)
    <3>1. work' = Rejected(t, x) /\ side' = LeavesLoop(a) /\ UNCHANGED required
      BY <2>2 DEF Require
    <3>2. side'[a] = "NONE"
      BY <1>1, <3>1 DEF LeavesLoop
    <3>3. f[a] = 0
      BY <1>3, <3>2
    <3>4. t \in Table /\ NoneShort(t)
      <4>1. side[a] \in Trades
        BY <2>2 DEF Trades
      <4> QED
        BY <1>1, <1>2, <4>1, DecidedFacts, NoneShortDecided DEF TableOK
    <3>5. x.reason # Short
      BY DEF OutOfRange, Rejection, Short
    <3> HIDE DEF t, x
    <3>6. NoneShort(Rejected(t, x))
      BY <3>4, <3>5, NoneShortRejected
    <3> QED
      BY <1>1, <3>1, <3>3, <3>6 DEF NoneShort
  <2>3. CASE side[a] = "BUY" /\ RangeOutcome(market[a], "BUY") # "REJECTED"
    <3>1. /\ work' = Decided(work, a) /\ UNCHANGED side
          /\ required' = required - CashDelta("BUY", requested[a], Price(market[a], "BUY"))
      BY <2>3 DEF Require
    <3>2. unit \in Nat
          /\ CashDelta("BUY", requested[a], Price(market[a], "BUY")) = - (requested[a] * unit)
      BY <1>1, CostFacts
    <3>3. f[a] = requested[a] * unit
      BY <1>3, <2>3, <3>1
    <3>4. requested[a] * unit \in Nat
      BY <1>1, <3>2, Times
    <3>5. required' = required + f[a]
      <4> HIDE DEF unit
      <4> QED
        BY <1>1, <3>1, <3>2, <3>3, <3>4
    <3>6. NoneShort(Decided(work, a))
      BY <1>1, <1>2, NoneShortDecided
    <3> QED
      BY <3>1, <3>5, <3>6 DEF NoneShort
  <2> QED
    BY <2>1, <2>2, <2>3
<1>11. f[a] \in Int /\ Sums(g)[s] \in Int
  BY <1>3, <1>4, SumsAre
<1>12. required' = Sums(CostsOf(side)')[Assets \ todo']
  <2>1. required' = f[a] + Sums(g)[s]
    BY <1>5, <1>10, <1>11
  <2>2. Sums(f)[Assets \ todo'] = f[a] + Sums(g)[s]
    BY <1>4, <1>9
  <2> QED
    BY <1>6, <2>1, <2>2
<1> QED
  BY <1>1, <1>2, <1>10, <1>12 DEF FitInv

\* Damage gives no rejection this reason.
LEMMA FitDamage == ASSUME Basic, FitInv, Damage PROVE FitInv'
<1>1. pc = "idle" /\ pc' = "idle" /\ work' = work
  BY DEF Damage
<1>2. \A x \in db'.rejections : \E r \in db.rejections :
         x.reason = "manual" \/ x.reason = r.reason
  BY DamageKeeps
<1>3. NoneShort(db)'
  BY <1>2 DEF FitInv, NoneShort, Short
<1> QED
  BY <1>1, <1>3 DEF FitInv, NoneShort

\* No step breaks it.
LEMMA FitNext == Basic /\ FitInv /\ [Next]_vars => FitInv'
<1> SUFFICES ASSUME Basic, FitInv, [Next]_vars
             PROVE  FitInv'
  OBVIOUS
<1>1. CASE Refuse
  BY <1>1 DEF Refuse, run, FitInv, NoneShort
<1>2. CASE Commit
  BY <1>2, CommitFacts DEF Commit, FitInv, NoneShort
<1>3. NoneShort(Empty)
  BY DEF NoneShort, Empty
<1>4. ASSUME EndRun, db'.rejections = db.rejections
      PROVE  FitInv'
  BY <1>3, <1>4 DEF EndRun, FitInv, NoneShort
<1>5. CASE Verify \/ Crash
  <2>1. db \in Table
    BY DEF Basic, TableOK
  <2>2. db'.rejections = db.rejections /\ EndRun
    BY <1>5, <2>1 DEF Verify, Crash, Table
  <2> QED
    BY <1>4, <2>2
<1>6. CASE UNCHANGED vars
  BY <1>6 DEF vars, FitInv, NoneShort, CostsOf, UnitCost, Share, ScaledDen
<1> QED
  BY <1>1, <1>2, <1>5, <1>6, FitBegin, FitLoopEnds, FitValue, FitPropose, FitSell,
     FitRequire, FitBuy, FitDamage DEF Next

\* The buys, scaled by one factor and rounded down one by one, fit into the cash of
\* the moment at which the factor was taken: the rejection for cash that rounding used
\* up (paper_broker.py:1306) is left to the rounding of floats.
THEOREM BuysFit == Spec => []ScaledBuysFit
<1>1. Init => FitInv
  BY DEF Init, FitInv, NoneShort, Empty
<1>2. FitInv => ScaledBuysFit
  BY DEF FitInv, NoneShort, Short, ScaledBuysFit
<1> QED
  BY <1>1, <1>2, FitNext, BasicInvariance, PTL DEF Spec

=============================================================================
