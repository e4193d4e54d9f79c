------------------------------ MODULE Inductions ------------------------------
(***************************************************************************)
(* Induction in first-order form: over sets of naturals instead of         *)
(* predicates, so that the provers can use it.  The proofs about supply,   *)
(* replayed histories and rebuilt contracts rest on it.  An instance of    *)
(* this module gives the step of its fold as Pass.                         *)
(***************************************************************************)
EXTENDS Integers, FiniteSetsExt, FiniteSetTheorems, WellFoundedInduction, TLAPS

CONSTANT Pass(_, _, _)      \* one step of a fold: context, state, next element

(* A set of naturals that is not empty has a least element: the entry with *)
(* the least identifier is enumerated first (stn_pending_enumerate), and a *)
(* search ends at the first entry of a lineage                             *)
(* (contract_apply_transaction).                                           *)
LEMMA LeastNatural ==
    ASSUME NEW S \in SUBSET Nat, S # {}
    PROVE  \E x \in S : \A y \in S : x <= y
  <1> DEFINE R == {ss \in Nat \X Nat : ss[1] < ss[2]}
  <1>1. IsWellFoundedOn(R, Nat)
    BY NatLessThanWellFounded DEF OpToRel
  <1>2. \A x, y \in S : <<y, x>> \in R <=> y < x
    OBVIOUS
  <1> HIDE DEF R
  <1>3. PICK x \in S : \A y \in S : ~(<<y, x>> \in R)
    BY <1>1, WFMin
  <1>4. \A y \in S : ~(y < x)
    BY <1>2, <1>3
  <1>5. x \in Nat /\ \A y \in S : y \in Nat
    OBVIOUS
  <1> QED
    BY <1>4, <1>5

(* A set that holds 0 and the successor of every natural it holds, holds   *)
(* every natural: induction along a history (stn_chain_validate_sequence). *)
LEMMA NaturalInduction ==
    ASSUME NEW S, 0 \in S, \A n \in Nat : n \in S => n + 1 \in S
    PROVE  Nat \subseteq S
  <1> SUFFICES ASSUME Nat \ S # {} PROVE FALSE
    OBVIOUS
  <1>1. PICK x \in Nat \ S : \A y \in Nat \ S : x <= y
    BY LeastNatural
  <1>2. x # 0 /\ x \in Nat
    OBVIOUS
  <1>3. x - 1 \in Nat /\ x - 1 \in S
    BY <1>1, <1>2
  <1> QED
    BY <1>1, <1>2, <1>3

-----------------------------------------------------------------------------
(* The sum of a function over a finite set, as the library folds it: one   *)
(* element after another in an order that CHOOSE fixes.  That the order    *)
(* does not matter is what lets a step change one element.                 *)
Total(f, S) == MapThenSumSet(LAMBDA x : f[x], S)

AnyOf(T) == CHOOSE x \in T : TRUE
Partial(f, it, T) == IF T = {} THEN 0 ELSE f[AnyOf(T)] + it[T \ {AnyOf(T)}]
Sums(f, S, it) == it = [T \in SUBSET S |-> Partial(f, it, T)]

(* Subsets of at most n elements. *)
UpTo(S, n) == {T \in SUBSET S : Cardinality(T) <= n}

(* The sum is a value of the function that folds (FiniteSetsExt).          *)
LEMMA TotalIs ==
    ASSUME NEW f, NEW S
    PROVE  Total(f, S) = (CHOOSE it : Sums(f, S, it))[S]
  BY DEF Total, MapThenSumSet, MapThenFoldSet, Sums, Partial, AnyOf

(* A finite set that is not empty loses one element at a time.             *)
LEMMA Smaller ==
    ASSUME NEW T, IsFiniteSet(T), T # {}
    PROVE  /\ AnyOf(T) \in T
           /\ \A x \in T : /\ IsFiniteSet(T \ {x}) /\ Cardinality(T) \in Nat
                           /\ Cardinality(T \ {x}) = Cardinality(T) - 1
  <1>1. AnyOf(T) \in T
    BY DEF AnyOf
  <1> QED
    BY <1>1, FS_RemoveElement, FS_CardinalityType

(* That function exists: the recursion ends on a finite set.               *)
LEMMA SumsExist ==
    ASSUME NEW f, NEW S, IsFiniteSet(S)
    PROVE  \E it : Sums(f, S, it)
  <1> DEFINE ToN(n, it) == it = [T \in UpTo(S, n) |-> Partial(f, it, T)]
             G == {n \in Nat : \E it : ToN(n, it)}
  <1>0. \A T \in SUBSET S : IsFiniteSet(T) /\ Cardinality(T) \in Nat
                            /\ Cardinality(T) <= Cardinality(S)
    BY FS_Subset, FS_CardinalityType
  <1>1. 0 \in G
    <2> DEFINE it == [T \in UpTo(S, 0) |-> 0]
    <2>1. \A T \in UpTo(S, 0) : T = {}
      BY <1>0, FS_EmptySet DEF UpTo
    <2>2. it = [T \in UpTo(S, 0) |-> Partial(f, it, T)]
      BY <2>1 DEF Partial
    <2> QED
      BY <2>2
  <1>2. ASSUME NEW n \in Nat, n \in G
        PROVE  n + 1 \in G
    <2>1. PICK it : ToN(n, it)
      BY <1>2
    <2> DEFINE jt == [T \in UpTo(S, n + 1) |-> Partial(f, it, T)]
    <2>2. \A T \in UpTo(S, n) : T \in UpTo(S, n + 1) /\ jt[T] = it[T]
      <3>1. \A T \in UpTo(S, n) : T \in UpTo(S, n + 1)
        BY <1>0 DEF UpTo
      <3>2. \A T \in UpTo(S, n) : it[T] = Partial(f, it, T)
        BY <2>1
      <3> QED
        BY <3>1, <3>2
    <2> HIDE DEF jt
    <2>3. ASSUME NEW T \in UpTo(S, n + 1)
          PROVE  Partial(f, it, T) = Partial(f, jt, T)
      <3>1. CASE T = {}
        BY <3>1 DEF Partial
      <3>2. CASE T # {}
        <4>1. T \in SUBSET S /\ IsFiniteSet(T) /\ Cardinality(T) <= n + 1
          BY <1>0 DEF UpTo
        <4>2. T \ {AnyOf(T)} \in UpTo(S, n)
          BY <3>2, <4>1, Smaller DEF UpTo
        <4> QED
          BY <2>2, <3>2, <4>2 DEF Partial
      <3> QED
        BY <3>1, <3>2
    <2>4. ToN(n + 1, jt)
      BY <2>3 DEF jt
    <2> QED
      BY <2>4
  <1>3. Cardinality(S) \in G
    <2> HIDE DEF G
    <2>1. Nat \subseteq G
      BY <1>1, <1>2, NaturalInduction
    <2> QED
      BY <2>1, FS_CardinalityType
  <1>4. UpTo(S, Cardinality(S)) = SUBSET S
    BY <1>0 DEF UpTo
  <1> QED
    BY <1>3, <1>4 DEF Sums

(* And it is determined by the elements it adds.                           *)
LEMMA SumsAgree ==
    ASSUME NEW f, NEW g, NEW S, NEW R, NEW it, NEW jt, Sums(f, S, it), Sums(g, R, jt),
           NEW A \in SUBSET (S \cap R), IsFiniteSet(A), \A x \in A : f[x] = g[x]
    PROVE  it[A] = jt[A]
  <1> DEFINE G == {n \in Nat : \A T \in UpTo(A, n) : it[T] = jt[T]}
  <1>0. \A T \in SUBSET A : /\ IsFiniteSet(T) /\ Cardinality(T) \in Nat
                            /\ it[T] = Partial(f, it, T) /\ jt[T] = Partial(g, jt, T)
    BY FS_Subset, FS_CardinalityType DEF Sums
  <1>1. 0 \in G
    <2>1. \A T \in UpTo(A, 0) : T = {}
      BY <1>0, FS_EmptySet DEF UpTo
    <2> QED
      BY <1>0, <2>1 DEF Partial
  <1>2. ASSUME NEW n \in Nat, n \in G
        PROVE  n + 1 \in G
    <2>1. ASSUME NEW T \in UpTo(A, n + 1)
          PROVE  it[T] = jt[T]
      <3>1. CASE T = {}
        BY <1>0, <3>1 DEF Partial
      <3>2. CASE T # {}
        <4>1. T \in SUBSET A /\ IsFiniteSet(T) /\ Cardinality(T) <= n + 1
          BY <1>0 DEF UpTo
        <4>2. T \ {AnyOf(T)} \in UpTo(A, n) /\ AnyOf(T) \in A
          BY <3>2, <4>1, Smaller DEF UpTo
        <4>3. it[T \ {AnyOf(T)}] = jt[T \ {AnyOf(T)}]
          BY <1>2, <4>2
        <4> QED
          BY <1>0, <3>2, <4>1, <4>2, <4>3 DEF Partial
      <3> QED
        BY <3>1, <3>2
    <2> QED
      BY <2>1
  <1>3. Cardinality(A) \in G
    <2> HIDE DEF G
    <2>1. Nat \subseteq G
      BY <1>1, <1>2, NaturalInduction
    <2> QED
      BY <2>1, FS_CardinalityType
  <1> QED
    BY <1>3, FS_CardinalityType DEF UpTo

(* A sum over naturals is a natural, and any element can be taken out of   *)
(* it first.                                                               *)
LEMMA SumsSplit ==
    ASSUME NEW f, NEW S, NEW it, Sums(f, S, it), IsFiniteSet(S), \A x \in S : f[x] \in Nat
    PROVE  \A T \in SUBSET S : /\ it[T] \in Nat
                               /\ \A w \in T : it[T] = f[w] + it[T \ {w}]
  <1> DEFINE Good(T) == it[T] \in Nat /\ \A w \in T : it[T] = f[w] + it[T \ {w}]
             G == {n \in Nat : \A T \in UpTo(S, n) : Good(T)}
  <1>0. \A T \in SUBSET S : /\ IsFiniteSet(T) /\ Cardinality(T) \in Nat
                            /\ Cardinality(T) <= Cardinality(S)
                            /\ it[T] = Partial(f, it, T)
    BY FS_Subset, FS_CardinalityType DEF Sums
  <1>1. 0 \in G
    <2>1. \A T \in UpTo(S, 0) : T = {} /\ T \in SUBSET S
      BY <1>0, FS_EmptySet DEF UpTo
    <2>2. \A T \in UpTo(S, 0) : it[T] = 0 /\ \A w \in T : FALSE
      BY <1>0, <2>1 DEF Partial
    <2> QED
      BY <2>2
  <1>2. ASSUME NEW n \in Nat, n \in G
        PROVE  n + 1 \in G
    <2>1. ASSUME NEW T \in UpTo(S, n + 1), T # {}
          PROVE  Good(T)
      <3> DEFINE x == AnyOf(T)
      <3>1. T \in SUBSET S /\ IsFiniteSet(T) /\ Cardinality(T) <= n + 1
        BY <1>0 DEF UpTo
      <3>2. x \in T /\ \A w \in T : T \ {w} \in UpTo(S, n)
        BY <2>1, <3>1, Smaller DEF UpTo
      <3> HIDE DEF x
      <3>3. it[T] = f[x] + it[T \ {x}]
        BY <1>0, <2>1, <3>1 DEF Partial, x
      <3>4. \A w \in T : Good(T \ {w}) /\ f[w] \in Nat
        BY <1>2, <3>1, <3>2
      <3>5. it[T] \in Nat
        BY <3>2, <3>3, <3>4
      <3>6. ASSUME NEW w \in T
            PROVE  it[T] = f[w] + it[T \ {w}]
        <4>1. CASE w = x
          BY <3>3, <4>1
        <4>2. CASE w # x
          <5>1. w \in T \ {x} /\ x \in T \ {w}
            BY <3>2, <4>2
          <5>2. it[T \ {x}] = f[w] + it[(T \ {x}) \ {w}]
            BY <3>2, <3>4, <5>1
          <5>3. it[T \ {w}] = f[x] + it[(T \ {w}) \ {x}]
            BY <3>4, <5>1
          <5>4. (T \ {x}) \ {w} = (T \ {w}) \ {x}
            OBVIOUS
          <5>5. (T \ {w}) \ {x} \in UpTo(S, n)
            <6>1. Cardinality((T \ {w}) \ {x}) = Cardinality(T \ {w}) - 1
              BY <1>0, <3>1, <5>1, FS_RemoveElement
            <6> QED
              BY <1>0, <3>1, <3>2, <6>1 DEF UpTo
          <5>6. it[(T \ {w}) \ {x}] \in Nat
            BY <1>2, <5>5
          <5> DEFINE rest == it[(T \ {w}) \ {x}]
          <5>7. /\ it[T \ {x}] = f[w] + rest /\ it[T \ {w}] = f[x] + rest
                /\ rest \in Nat /\ f[w] \in Nat /\ f[x] \in Nat
            BY <3>2, <3>4, <5>2, <5>3, <5>4, <5>6
          <5> HIDE DEF rest
          <5> QED
            BY <3>3, <5>7
        <4> QED
          BY <4>1, <4>2
      <3> QED
        BY <3>5, <3>6
    <2>2. Good({})
      <3>1. it[{}] = 0
        BY <1>0 DEF Partial
      <3> QED
        BY <3>1
    <2>3. \A T \in UpTo(S, n + 1) : Good(T)
      <3> HIDE DEF Good
      <3> QED
        BY <2>1, <2>2
    <2> QED
      BY <2>3
  <1>3. Cardinality(S) \in G
    <2> HIDE DEF G
    <2>1. Nat \subseteq G
      BY <1>1, <1>2, NaturalInduction
    <2> QED
      BY <2>1, FS_CardinalityType
  <1> QED
    BY <1>0, <1>3 DEF UpTo

(* Sums of naturals over a finite set, as the proofs use them.             *)
LEMMA TotalSplits ==
    ASSUME NEW f, NEW S, IsFiniteSet(S), \A x \in S : f[x] \in Nat
    PROVE  /\ Total(f, S) \in Nat
           /\ S = {} => Total(f, S) = 0
           /\ \A w \in S : Total(f, S) = f[w] + Total(f, S \ {w})
  <1> DEFINE it == CHOOSE it : Sums(f, S, it)
  <1>1. Sums(f, S, it) /\ Total(f, S) = it[S]
    BY SumsExist, TotalIs
  <1> HIDE DEF it
  <1>2. it[S] \in Nat
    BY <1>1, SumsSplit
  <1>3. S = {} => it[S] = 0
    BY <1>1 DEF Sums, Partial
  <1>4. ASSUME NEW w \in S
        PROVE  Total(f, S) = f[w] + Total(f, S \ {w})
    <2> DEFINE R == S \ {w}
               jt == CHOOSE jt : Sums(f, R, jt)
    <2>1. IsFiniteSet(R) /\ R \subseteq S
      BY FS_Subset
    <2>2. Sums(f, R, jt) /\ Total(f, R) = jt[R]
      BY <2>1, SumsExist, TotalIs
    <2> HIDE DEF jt
    <2>3. R \in SUBSET (S \cap R)
      OBVIOUS
    <2>4. it[R] = jt[R]
      <3> HIDE DEF R
      <3> QED
        BY <1>1, <2>1, <2>2, <2>3, SumsAgree
    <2>5. it[S] = f[w] + it[R]
      BY <1>1, SumsSplit
    <2> QED
      BY <1>1, <2>2, <2>4, <2>5
  <1> QED
    BY <1>1, <1>2, <1>3, <1>4

(* They are determined by what they add.                                   *)
LEMMA TotalAgrees ==
    ASSUME NEW f, NEW g, NEW S, IsFiniteSet(S), \A x \in S : f[x] = g[x]
    PROVE  Total(f, S) = Total(g, S)
  <1> DEFINE it == CHOOSE it : Sums(f, S, it)
             jt == CHOOSE jt : Sums(g, S, jt)
  <1>1. /\ Sums(f, S, it) /\ Total(f, S) = it[S]
        /\ Sums(g, S, jt) /\ Total(g, S) = jt[S]
    BY SumsExist, TotalIs
  <1> HIDE DEF it, jt
  <1> QED
    BY <1>1, SumsAgree

(* When one element changes the sum changes by as much: a credit or one    *)
(* side of a transfer (stn_economic_state_apply).                          *)
LEMMA TotalChanges ==
    ASSUME NEW f, NEW g, NEW S, IsFiniteSet(S), NEW w \in S,
           \A x \in S : f[x] \in Nat /\ g[x] \in Nat,
           \A x \in S \ {w} : f[x] = g[x]
    PROVE  Total(g, S) + f[w] = Total(f, S) + g[w]
  <1> DEFINE R == S \ {w}
  <1>1. IsFiniteSet(R) /\ \A x \in R : f[x] \in Nat /\ g[x] \in Nat
    BY FS_Subset
  <1>2. Total(f, S) = f[w] + Total(f, R) /\ Total(g, S) = g[w] + Total(g, R)
    BY TotalSplits
  <1>3. Total(f, R) = Total(g, R)
    <2> HIDE DEF R
    <2> QED
      BY <1>1, TotalAgrees DEF R
  <1>4. Total(f, R) \in Nat /\ f[w] \in Nat /\ g[w] \in Nat
    BY <1>1, TotalSplits
  <1> HIDE DEF R
  <1> QED
    BY <1>2, <1>3, <1>4

(* And a new element adds its own.                                         *)
LEMMA TotalGrows ==
    ASSUME NEW f, NEW g, NEW S, IsFiniteSet(S), NEW q, q \notin S,
           \A x \in S : f[x] \in Nat /\ g[x] = f[x], g[q] \in Nat
    PROVE  Total(g, S \cup {q}) = Total(f, S) + g[q]
  <1> DEFINE R == S \cup {q}
  <1>1. IsFiniteSet(R) /\ (\A x \in R : g[x] \in Nat) /\ R \ {q} = S
    BY FS_AddElement
  <1>2. Total(g, R) = g[q] + Total(g, R \ {q})
    BY <1>1, TotalSplits
  <1>3. Total(g, S) = Total(f, S)
    BY TotalAgrees
  <1>4. Total(f, S) \in Nat
    BY TotalSplits
  <1> QED
    BY <1>1, <1>2, <1>3, <1>4

(* Nothing added up is nothing: the balances of EMPTY                      *)
(* (stn_economic_state_initialize).                                        *)
LEMMA TotalOfZeros ==
    ASSUME NEW f, NEW S, IsFiniteSet(S), \A x \in S : f[x] = 0
    PROVE  Total(f, S) = 0
  <1> DEFINE G == {n \in Nat : \A T \in UpTo(S, n) : Total(f, T) = 0}
  <1>0. \A T \in SUBSET S : IsFiniteSet(T) /\ Cardinality(T) \in Nat
                            /\ \A x \in T : f[x] = 0 /\ f[x] \in Nat
    BY FS_Subset, FS_CardinalityType
  <1>1. 0 \in G
    <2>1. ASSUME NEW T \in UpTo(S, 0)
          PROVE  Total(f, T) = 0
      <3>1. T = {}
        BY <1>0, FS_EmptySet DEF UpTo
      <3> QED
        BY <1>0, <3>1, TotalSplits
    <2> QED
      BY <2>1
  <1>2. ASSUME NEW n \in Nat, n \in G
        PROVE  n + 1 \in G
    <2>1. ASSUME NEW T \in UpTo(S, n + 1)
          PROVE  Total(f, T) = 0
      <3>1. /\ T \in SUBSET S /\ IsFiniteSet(T) /\ Cardinality(T) <= n + 1
            /\ \A x \in T : f[x] = 0 /\ f[x] \in Nat
        BY <1>0 DEF UpTo
      <3>2. CASE T = {}
        BY <3>1, <3>2, TotalSplits
      <3>3. CASE T # {}
        <4>1. PICK x \in T : TRUE
          BY <3>3
        <4>2. T \ {x} \in UpTo(S, n)
          BY <3>1, <3>3, Smaller DEF UpTo
        <4>3. Total(f, T \ {x}) = 0
          BY <1>2, <4>2
        <4>4. Total(f, T) = f[x] + Total(f, T \ {x})
          BY <3>1, TotalSplits
        <4> QED
          BY <3>1, <4>3, <4>4
      <3> QED
        BY <3>2, <3>3
    <2> QED
      BY <2>1
  <1>3. Cardinality(S) \in G
    <2> HIDE DEF G
    <2>1. Nat \subseteq G
      BY <1>1, <1>2, NaturalInduction
    <2> QED
      BY <2>1, FS_CardinalityType
  <1> QED
    BY <1>3, FS_CardinalityType DEF UpTo

-----------------------------------------------------------------------------
(* Folds over sequences.  The library folds a sequence by a function on    *)
(* sets of positions that applies the last one last.  Pass is one step of  *)
(* a fold in context c, Fold the fold as the library makes it.             *)
Piece(c, base, seq, it, T) ==
    IF T = {} THEN base ELSE Pass(c, it[T \ {Max(T)}], seq[Max(T)])
Folds(c, base, seq, it) == it = [T \in SUBSET DOMAIN seq |-> Piece(c, base, seq, it, T)]
Fold(c, base, seq) == (CHOOSE it : Folds(c, base, seq, it))[DOMAIN seq]

(* Positions up to a number, and up to the next one.                       *)
LEMMA Initials ==
    ASSUME NEW k \in Nat
    PROVE  /\ k + 1 \in Nat /\ 1..(k + 1) # {} /\ Max(1..(k + 1)) = k + 1
           /\ (1..(k + 1)) \ {k + 1} = 1..k
           /\ \A n \in Nat : k <= n => 1..k \in SUBSET (1..n)
           /\ 1..0 = {} /\ \A n \in Nat : {} \in SUBSET (1..n)
  <1>1. k + 1 \in Nat /\ k + 1 \in 1..(k + 1) /\ \A y \in 1..(k + 1) : k + 1 >= y
    OBVIOUS
  <1>2. \A x : (x \in 1..(k + 1) /\ \A y \in 1..(k + 1) : x >= y) => x = k + 1
    <2>1. ASSUME NEW x \in 1..(k + 1), \A y \in 1..(k + 1) : x >= y
          PROVE  x = k + 1
      <3>1. x >= k + 1 /\ x <= k + 1 /\ x \in Nat
        BY <1>1, <2>1
      <3> QED
        BY <3>1
    <2> QED
      BY <2>1
  <1>3. Max(1..(k + 1)) = k + 1
    BY <1>1, <1>2 DEF Max
  <1>4. \A x : x \in (1..(k + 1)) \ {k + 1} <=> x \in 1..k
    OBVIOUS
  <1>5. (1..(k + 1)) \ {k + 1} = 1..k
    BY <1>4
  <1>6. \A n \in Nat : k <= n => 1..k \in SUBSET (1..n)
    OBVIOUS
  <1>7. 1..0 = {}
    OBVIOUS
  <1> QED
    BY <1>1, <1>3, <1>5, <1>6, <1>7

(* The greatest of a set of positions.                                     *)
LEMMA MaxOf ==
    ASSUME NEW n \in Nat, NEW T \in SUBSET (1..n), T # {}
    PROVE  Max(T) \in T /\ T \ {Max(T)} \in SUBSET (1..(Max(T) - 1))
  <1> DEFINE S == {n - x : x \in T}
  <1>1. S \in SUBSET Nat /\ S # {}
    <2>1. \A x \in 1..n : n - x \in Nat
      OBVIOUS
    <2>2. \A x \in T : x \in 1..n
      OBVIOUS
    <2> QED
      BY <2>1, <2>2
  <1>2. PICK y \in S : \A z \in S : y <= z
    BY <1>1, LeastNatural
  <1>3. PICK x \in T : y = n - x
    BY <1>2
  <1>4. \A z \in T : x >= z
    <2>1. ASSUME NEW z \in T PROVE x >= z
      <3>1. n - x <= n - z
        BY <1>2, <1>3
      <3>2. x \in Nat /\ z \in Nat
        OBVIOUS
      <3> QED
        BY <3>1, <3>2
    <2> QED
      BY <2>1
  <1>5. Max(T) \in T /\ \A z \in T : Max(T) >= z
    BY <1>4 DEF Max
  <1>6. \A z \in T \ {Max(T)} : z \in 1..(Max(T) - 1)
    <2>1. ASSUME NEW z \in T \ {Max(T)} PROVE z \in 1..(Max(T) - 1)
      <3>1. z \in 1..n /\ Max(T) \in 1..n /\ z # Max(T) /\ Max(T) >= z
        BY <1>5, <2>1
      <3> HIDE DEF S
      <3>2. ASSUME NEW m \in 1..n, NEW c \in 1..n, c # m, m >= c PROVE c \in 1..(m - 1)
        BY <3>2
      <3> QED
        BY <3>1, <3>2
    <2> QED
      BY <2>1
  <1> QED
    BY <1>5, <1>6

(* A fold over a sequence exists: every step reads a shorter one.          *)
LEMMA FoldsExist ==
    ASSUME NEW c, NEW base, NEW seq, NEW n \in Nat, DOMAIN seq = 1..n
    PROVE  \E it : Folds(c, base, seq, it)
  <1> DEFINE Body(it, T) == Piece(c, base, seq, it, T)
             ToK(k, it) == it = [T \in SUBSET (1..k) |-> Body(it, T)]
             G == {k \in Nat : \E it : ToK(k, it)}
  <1>1. 0 \in G
    <2> DEFINE it == [T \in SUBSET (1..0) |-> base]
    <2>1. \A T \in SUBSET (1..0) : T = {}
      <3>1. 1..0 = {}
        BY Initials
      <3> QED
        BY <3>1
    <2>2. it = [T \in SUBSET (1..0) |-> Body(it, T)]
      BY <2>1 DEF Piece
    <2> HIDE DEF Body
    <2> QED
      BY <2>2
  <1>2. ASSUME NEW k \in Nat, k \in G
        PROVE  k + 1 \in G
    <2>1. PICK it : ToK(k, it)
      BY <1>2
    <2> DEFINE jt == [T \in SUBSET (1..(k + 1)) |-> Body(it, T)]
    <2>2. \A T \in SUBSET (1..k) : jt[T] = it[T]
      <3>1. \A T \in SUBSET (1..k) : T \in SUBSET (1..(k + 1))
        OBVIOUS
      <3>2. \A T \in SUBSET (1..k) : it[T] = Body(it, T)
        BY <2>1
      <3> HIDE DEF Body
      <3> QED
        BY <3>1, <3>2
    <2> HIDE DEF jt
    <2>3. ASSUME NEW T \in SUBSET (1..(k + 1))
          PROVE  Body(it, T) = Body(jt, T)
      <3>1. CASE T = {}
        BY <3>1 DEF Piece
      <3>2. CASE T # {}
        <4>1. Max(T) \in T /\ T \ {Max(T)} \in SUBSET (1..(Max(T) - 1))
          <5>1. k + 1 \in Nat
            OBVIOUS
          <5> QED
            BY <3>2, <5>1, MaxOf
        <4>2. T \ {Max(T)} \in SUBSET (1..k)
          <5>1. ASSUME NEW m \in 1..(k + 1) PROVE 1..(m - 1) \in SUBSET (1..k)
            BY <5>1
          <5> QED
            BY <4>1, <5>1
        <4>3. it[T \ {Max(T)}] = jt[T \ {Max(T)}]
          BY <2>2, <4>2
        <4> QED
          BY <3>2, <4>3 DEF Piece
      <3> QED
        BY <3>1, <3>2
    <2>4. ToK(k + 1, jt)
      <3> HIDE DEF Body
      <3> QED
        BY <2>3 DEF jt
    <2> HIDE DEF ToK
    <2> QED
      BY <2>4
  <1>3. n \in G
    <2> HIDE DEF G
    <2> QED
      BY <1>1, <1>2, NaturalInduction
  <1> QED
    BY <1>3 DEF Folds

(* Two sequences begin with the same n elements.                           *)
Alike(seq, req, n) ==
    /\ 1..n \subseteq DOMAIN seq /\ 1..n \subseteq DOMAIN req
    /\ \A i \in 1..n : seq[i] = req[i]

(* Two folds that apply the same elements agree.                           *)
LEMMA FoldsAgree ==
    ASSUME NEW c, NEW base, NEW n \in Nat,
           NEW seq, NEW it, Folds(c, base, seq, it),
           NEW req, NEW jt, Folds(c, base, req, jt), Alike(seq, req, n)
    PROVE  it[1..n] = jt[1..n]
  <1> DEFINE G == {k \in Nat : k <= n => it[1..k] = jt[1..k]}
  <1>0. \A T \in SUBSET (1..n) : /\ it[T] = Piece(c, base, seq, it, T)
                                 /\ jt[T] = Piece(c, base, req, jt, T)
    BY DEF Folds, Alike
  <1>1. 0 \in G
    <2>1. 1..0 = {} /\ {} \in SUBSET (1..n)
      BY Initials
    <2>2. it[{}] = base /\ jt[{}] = base
      BY <1>0, <2>1 DEF Piece
    <2> QED
      BY <2>1, <2>2
  <1>2. ASSUME NEW k \in Nat, k \in G
        PROVE  k + 1 \in G
    <2> SUFFICES ASSUME k + 1 <= n PROVE it[1..(k + 1)] = jt[1..(k + 1)]
      OBVIOUS
    <2>1. k + 1 \in Nat /\ k <= n /\ k + 1 \in 1..n
      OBVIOUS
    <2>2. /\ (1..(k + 1)) \ {k + 1} = 1..k /\ 1..(k + 1) # {}
          /\ 1..(k + 1) \in SUBSET (1..n) /\ Max(1..(k + 1)) = k + 1
      BY <2>1, Initials
    <2>3. it[1..k] = jt[1..k] /\ seq[k + 1] = req[k + 1]
      BY <1>2, <2>1 DEF Alike
    <2> DEFINE R == 1..(k + 1)
    <2>4. /\ it[R] = Piece(c, base, seq, it, R)
          /\ jt[R] = Piece(c, base, req, jt, R)
      BY <1>0, <2>2
    <2>5. R # {} /\ Max(R) = k + 1 /\ R \ {Max(R)} = 1..k
      BY <2>2
    <2> HIDE DEF R
    <2>6. /\ it[R] = Pass(c, it[1..k], seq[k + 1])
          /\ jt[R] = Pass(c, jt[1..k], req[k + 1])
      BY <2>4, <2>5 DEF Piece
    <2> QED
      BY <2>3, <2>6 DEF R
  <1>3. n \in G
    <2> HIDE DEF G
    <2> QED
      BY <1>1, <1>2, NaturalInduction
  <1> QED
    BY <1>3

(* One element more is one step more.                                      *)
LEMMA FoldSteps ==
    ASSUME NEW c, NEW base, NEW n \in Nat,
           NEW seq, DOMAIN seq = 1..n, NEW req, DOMAIN req = 1..(n + 1),
           \A i \in 1..n : seq[i] = req[i]
    PROVE  Fold(c, base, req) = Pass(c, Fold(c, base, seq), req[n + 1])
  <1> DEFINE it == CHOOSE it : Folds(c, base, seq, it)
             jt == CHOOSE jt : Folds(c, base, req, jt)
  <1>1. /\ Folds(c, base, seq, it) /\ Fold(c, base, seq) = it[1..n]
        /\ Folds(c, base, req, jt) /\ Fold(c, base, req) = jt[1..(n + 1)]
    <2>1. n + 1 \in Nat
      OBVIOUS
    <2> QED
      BY <2>1, FoldsExist DEF Fold
  <1> HIDE DEF it, jt
  <1>2. it[1..n] = jt[1..n]
    <2>1. Alike(seq, req, n)
      BY DEF Alike
    <2> QED
      BY <1>1, <2>1, FoldsAgree
  <1>3. jt[1..(n + 1)] = Pass(c, jt[1..n], req[n + 1])
    <2>1. /\ (1..(n + 1)) \ {n + 1} = 1..n /\ 1..(n + 1) # {}
          /\ Max(1..(n + 1)) = n + 1
      BY Initials
    <2> DEFINE R == 1..(n + 1)
    <2>2. jt[R] = Piece(c, base, req, jt, R)
      BY <1>1 DEF Folds
    <2>3. R # {} /\ Max(R) = n + 1 /\ R \ {Max(R)} = 1..n
      BY <2>1
    <2> HIDE DEF R
    <2>4. jt[R] = Pass(c, jt[1..n], req[n + 1])
      BY <2>2, <2>3 DEF Piece
    <2> QED
      BY <2>4 DEF R
  <1> QED
    BY <1>1, <1>2, <1>3

(* Nothing folded is the start.                                            *)
LEMMA FoldOfNone ==
    ASSUME NEW c, NEW base, NEW seq, DOMAIN seq = 1..0
    PROVE  Fold(c, base, seq) = base
  <1> DEFINE it == CHOOSE it : Folds(c, base, seq, it)
  <1>1. Folds(c, base, seq, it) /\ Fold(c, base, seq) = it[DOMAIN seq]
    BY FoldsExist DEF Fold
  <1> HIDE DEF it
  <1>2. DOMAIN seq = {}
    BY Initials
  <1> QED
    BY <1>1, <1>2 DEF Folds, Piece

Counted(k) == [i \in 1..k |-> i]

(* A fold that counts positions: one position more is one step more (the   *)
(* transaction loop of validate_candidate).                                *)
LEMMA CountedStep ==
    ASSUME NEW c, NEW base, NEW n \in Nat
    PROVE  Fold(c, base, Counted(n + 1)) = Pass(c, Fold(c, base, Counted(n)), n + 1)
  <1>1. /\ DOMAIN Counted(n) = 1..n /\ DOMAIN Counted(n + 1) = 1..(n + 1)
        /\ \A i \in 1..n : Counted(n)[i] = Counted(n + 1)[i]
        /\ Counted(n + 1)[n + 1] = n + 1
    BY DEF Counted
  <1> QED
    BY <1>1, FoldSteps
=============================================================================
