-------------------------- MODULE PathPolicy_proofs --------------------------
(***************************************************************************)
(* The policy of PathPolicy, proved for every disk, every spelling and     *)
(* every list of entries the assumptions of that module allow.             *)
(*                                                                         *)
(* The first half is about the operators, which are translated from the    *)
(* code, and what PathPolicy says beside them of what they are to do:      *)
(* collapsing dot segments one by one keeps the names that nothing goes up *)
(* past (CollapseIsMeant); normalising a spelling finds the place it leads *)
(* to if the way is straight (NormalizeIsPlace), and is idempotent whether *)
(* or not (NormalizeStays); comparing two texts of straight names asks     *)
(* whether the one lies in the other (PrefixIsHolds); sorting, merging and *)
(* removing duplicates keeps every entry (MergeIsMerged).  The loops are   *)
(* recursive functions, and what they compute is shown by induction over   *)
(* their length, which comes from the smallest counterexample: a property  *)
(* is the set of the numbers that have it (EveryNumber).                   *)
(*                                                                         *)
(* The second half shows that Inductive is an invariant, call by call.     *)
(***************************************************************************)
EXTENDS PathPolicyInvariant, FiniteSetTheorems, SequenceTheorems, WellFoundedInduction, TLAPS

-----------------------------------------------------------------------------
(* Induction, by the smallest counterexample *)

\* A set of numbers that is not empty has a smallest one.
LEMMA LeastNumber ==
    ASSUME NEW S, S \subseteq Nat, S # {}
    PROVE  \E m \in S : \A k \in S : m <= k
<1> DEFINE R == OpToRel(<, Nat)
<1>1. IsWellFoundedOn(R, Nat)
  BY NatLessThanWellFounded
<1>2. PICK m \in S : \A k \in S : <<k, m>> \notin R
  <2> HIDE DEF R
  <2> QED  BY <1>1, WFMin, Zenon
<1>3. ASSUME NEW k \in S PROVE m <= k
  <2>1. ~(k < m)
    BY <1>2, <1>3 DEF OpToRel
  <2> QED  BY <2>1
<1> QED  BY <1>2, <1>3

\* What holds of 0, and of n + 1 when of n, holds of all numbers; a property is
\* given as the set of the numbers that have it.
LEMMA EveryNumber ==
    ASSUME NEW S, 0 \in S, \A n \in Nat : n \in S => n + 1 \in S
    PROVE  Nat \subseteq S
<1>1. SUFFICES ASSUME Nat \ S # {} PROVE FALSE
  OBVIOUS
<1>2. PICK m \in Nat \ S : \A k \in Nat \ S : m <= k
  <2>1. Nat \ S \subseteq Nat
    OBVIOUS
  <2> QED  BY <1>1, <2>1, LeastNumber, Zenon
<1>3. m # 0 /\ m - 1 \in Nat
  BY <1>2
<1>4. m - 1 \in S
  BY <1>2, <1>3
<1>5. (m - 1) + 1 \in S
  BY <1>3, <1>4
<1> QED  BY <1>2, <1>3, <1>5

\* The same up to a bound.
LEMMA EveryNumberTo ==
    ASSUME NEW N \in Nat, NEW S, 0 \in S, \A n \in 0..N - 1 : n \in S => n + 1 \in S
    PROVE  0..N \subseteq S
<1> DEFINE T == {n \in Nat : n <= N => n \in S}
<1>1. 0 \in T
  OBVIOUS
<1>2. \A n \in Nat : n \in T => n + 1 \in T
  OBVIOUS
<1>3. Nat \subseteq T
  <2> HIDE DEF T
  <2> QED  BY <1>1, <1>2, EveryNumber
<1> QED  BY <1>3

\* g starts with base and goes on by step.
GoesBy(g, N, base, step) == g[0] = base /\ \A k \in 1..N : g[k] = step[<<k, g[k - 1]>>]

\* A function of the numbers up to N is defined by its value at 0 and by the
\* step from each to the next.
LEMMA Recursion ==
    ASSUME NEW N \in Nat, NEW V, NEW base \in V, NEW step \in [(1..N) \X V -> V]
    PROVE  \E g \in [0..N -> V] : GoesBy(g, N, base, step)
<1> DEFINE UpTo(n) == {g \in [0..n -> V] : /\ g[0] = base
                                          /\ \A k \in 1..n : g[k] = step[<<k, g[k - 1]>>]}
<1> DEFINE S == {n \in 0..N : UpTo(n) # {}}
<1>1. 0 \in S
  <2>1. [i \in 0..0 |-> base] \in UpTo(0)
    OBVIOUS
  <2> QED  BY <2>1
<1>2. ASSUME NEW n \in 0..N - 1, n \in S PROVE n + 1 \in S
  <2>1. PICK g \in UpTo(n) : TRUE
    BY <1>2
  <2> DEFINE h == [i \in 0..n + 1 |-> IF i <= n THEN g[i] ELSE step[<<n + 1, g[n]>>]]
  <2>2. g \in [0..n -> V] /\ g[0] = base /\ \A k \in 1..n : g[k] = step[<<k, g[k - 1]>>]
    BY <2>1
  <2>3. h \in [0..n + 1 -> V]
    <3>1. <<n + 1, g[n]>> \in (1..N) \X V
      BY <2>2
    <3> QED  BY <2>2, <3>1
  <2>4. h[0] = base
    BY <2>2
  <2>5. ASSUME NEW k \in 1..n + 1 PROVE h[k] = step[<<k, h[k - 1]>>]
    <3>1. h[k - 1] = g[k - 1]
      OBVIOUS
    <3>2. CASE k <= n
      BY <2>2, <3>1, <3>2
    <3>3. CASE k = n + 1
      <4>1. h[k] = step[<<n + 1, g[n]>>]
        BY <3>3
      <4>2. k - 1 = n
        BY <3>3
      <4> HIDE DEF h
      <4> QED  BY <3>1, <3>3, <4>1, <4>2
    <3> QED  BY <3>2, <3>3
  <2>6. h \in UpTo(n + 1)
    BY <2>3, <2>4, <2>5
  <2>7. n + 1 \in 0..N
    OBVIOUS
  <2> HIDE DEF UpTo, h
  <2> QED  BY <2>6, <2>7
<1>3. 0..N \subseteq S
  <2> HIDE DEF S
  <2> QED  BY <1>1, <1>2, EveryNumberTo
<1>4. UpTo(N) # {}
  BY <1>3
<1> QED  BY <1>4 DEF GoesBy

-----------------------------------------------------------------------------
(* Sequences in order *)

\* R puts the elements of S in one order.
IsOrder(S, R) ==
    /\ \A i \in S : <<i, i>> \notin R
    /\ \A i, j, k \in S : <<i, j>> \in R /\ <<j, k>> \in R => <<i, k>> \in R
    /\ \A i, j \in S : i = j \/ <<i, j>> \in R \/ <<j, i>> \in R

\* InOrder lists each element of a finite set once, smaller ones first.
LEMMA InOrderLists ==
    ASSUME NEW S, IsFiniteSet(S), NEW R, IsOrder(S, R)
    PROVE  /\ Cardinality(S) \in Nat
           /\ InOrder(S, R) \in [1..Cardinality(S) -> S]
           /\ \A i \in S : \E k \in 1..Cardinality(S) : InOrder(S, R)[k] = i
           /\ \A a, b \in 1..Cardinality(S) : a < b => <<InOrder(S, R)[a], InOrder(S, R)[b]>> \in R
<1> DEFINE n == Cardinality(S)
           Before(i) == {j \in S : <<j, i>> \in R}
           place == [i \in S |-> Cardinality(Before(i))]
<1>1. n \in Nat
  BY FS_CardinalityType
<1>2. ASSUME NEW i \in S PROVE IsFiniteSet(Before(i)) /\ place[i] \in Nat /\ place[i] <= n - 1 /\ Cardinality(Before(i)) \in 0..n - 1
  <2>1. Before(i) \in SUBSET (S \ {i})
    BY DEF IsOrder
  <2>2. IsFiniteSet(S \ {i}) /\ Cardinality(S \ {i}) = n - 1
    BY FS_RemoveElement
  <2>3. IsFiniteSet(Before(i)) /\ Cardinality(Before(i)) <= n - 1
    <3> HIDE DEF Before
    <3> QED  BY <2>1, <2>2, FS_Subset
  <2>4. Cardinality(Before(i)) \in Nat
    BY <2>3, FS_CardinalityType
  <2> QED  BY <1>1, <2>3, <2>4
<1>3. ASSUME NEW i \in S, NEW j \in S, <<i, j>> \in R PROVE place[i] < place[j]
  <2>1. Before(i) \in SUBSET Before(j) /\ i \in Before(j) /\ i \notin Before(i)
    BY <1>3 DEF IsOrder
  <2>2. Cardinality(Before(i)) <= Cardinality(Before(j)) /\ Cardinality(Before(i)) # Cardinality(Before(j))
    <3>1. IsFiniteSet(Before(j))
      BY <1>2
    <3> HIDE DEF Before
    <3> QED  BY <2>1, <3>1, FS_Subset
  <2>3. place[i] \in Nat /\ place[j] \in Nat
    BY <1>2
  <2> QED  BY <2>2, <2>3
<1>4. \A i, j \in S : place[i] = place[j] => i = j
  <2> SUFFICES ASSUME NEW i \in S, NEW j \in S, place[i] = place[j], i # j PROVE FALSE
    OBVIOUS
  <2>1. place[i] \in Nat /\ place[j] \in Nat
    BY <1>2
  <2>2. <<i, j>> \in R \/ <<j, i>> \in R
    BY DEF IsOrder
  <2> HIDE DEF place
  <2> QED  BY <1>3, <2>1, <2>2
<1>5. place \in Surjection(S, 0..n - 1)
  <2>1. place \in [S -> 0..n - 1]
    <3>1. \A i \in S : Cardinality(Before(i)) \in 0..n - 1
      <4> HIDE DEF place, Before, n
      <4> QED  BY <1>2
    <3> QED  BY <3>1
  <2> HIDE DEF place
  <2>2. place \in Injection(S, 0..n - 1)
    BY <2>1, <1>4 DEF Injection, IsInjective
  <2>3. IsFiniteSet(0..n - 1) /\ Cardinality(0..n - 1) = n
    BY <1>1, FS_Interval
  <2> QED  BY <2>2, <2>3, FS_Injection
<1>6. ASSUME NEW k \in 1..n PROVE \E i \in S : place[i] = k - 1
  <2>1. k - 1 \in 0..n - 1
    BY <1>1
  <2> HIDE DEF place
  <2> QED  BY <1>5, <2>1 DEF Surjection
<1> DEFINE f == [k \in 1..n |-> CHOOSE i \in S : Cardinality({j \in S : <<j, i>> \in R}) = k - 1]
<1>7. InOrder(S, R) = f
  BY DEF InOrder
<1>8. ASSUME NEW k \in 1..n PROVE f[k] \in S /\ place[f[k]] = k - 1
  <2>1. \E i \in S : Cardinality({j \in S : <<j, i>> \in R}) = k - 1
    BY <1>6
  <2> QED  BY <2>1
<1>9. ASSUME NEW i \in S PROVE \E k \in 1..n : f[k] = i
  <2>1. PICK k \in 1..n : k - 1 = place[i]
    <3>1. place[i] \in Nat /\ place[i] <= n - 1
      BY <1>2
    <3>2. place[i] + 1 \in 1..n /\ (place[i] + 1) - 1 = place[i]
      <4> HIDE DEF place
      <4> QED  BY <3>1, <1>1
    <3> HIDE DEF place
    <3> QED  BY <3>2
  <2> HIDE DEF f, place
  <2> QED  BY <2>1, <1>8, <1>4
<1>10. ASSUME NEW a \in 1..n, NEW b \in 1..n, a < b PROVE <<f[a], f[b]>> \in R
  <2>1. f[a] \in S /\ f[b] \in S /\ place[f[a]] = a - 1 /\ place[f[b]] = b - 1
    <3> HIDE DEF f, place
    <3> QED  BY <1>8
  <2>2. f[a] = f[b] \/ <<f[a], f[b]>> \in R \/ <<f[b], f[a]>> \in R
    <3> HIDE DEF f
    <3> QED  BY <2>1 DEF IsOrder
  <2> HIDE DEF f, place
  <2> QED  BY <2>1, <2>2, <1>1, <1>3, <1>10
<1>11. f \in [1..n -> S]
  <2> HIDE DEF place
  <2> QED  BY <1>8
<1> HIDE DEF f
<1> QED  BY <1>1, <1>7, <1>9, <1>10, <1>11

\* Numbers in ascending order.
Increasing(f, n, S) ==
    /\ n \in Nat /\ f \in [1..n -> S]
    /\ \A i \in S : \E k \in 1..n : f[k] = i
    /\ \A a, b \in 1..n : a < b => f[a] < f[b]

\* Ascending lists a finite set of numbers from the smallest to the largest.
LEMMA AscendingLists ==
    ASSUME NEW S, S \subseteq Nat, IsFiniteSet(S)
    PROVE  Increasing(Ascending(S), Cardinality(S), S) /\ DOMAIN Ascending(S) = 1..Cardinality(S)
<1> DEFINE R == {p \in S \X S : p[1] < p[2]}
<1>1. \A i, j \in S : <<i, j>> \in R <=> i < j
  OBVIOUS
<1>2. IsOrder(S, R)
  <2> HIDE DEF R
  <2>1. \A i \in S : i \in Int
    OBVIOUS
  <2> QED  BY <1>1, <2>1 DEF IsOrder
<1>3. Ascending(S) = InOrder(S, R)
  BY DEF Ascending
<1>4. /\ Cardinality(S) \in Nat
      /\ InOrder(S, R) \in [1..Cardinality(S) -> S]
      /\ \A i \in S : \E k \in 1..Cardinality(S) : InOrder(S, R)[k] = i
      /\ \A a, b \in 1..Cardinality(S) : a < b => <<InOrder(S, R)[a], InOrder(S, R)[b]>> \in R
  <2> HIDE DEF R
  <2> QED  BY <1>2, InOrderLists
<1>5. \A a, b \in 1..Cardinality(S) : a < b => InOrder(S, R)[a] < InOrder(S, R)[b]
  <2> HIDE DEF R
  <2> QED  BY <1>1, <1>4
<1> HIDE DEF R
<1> QED  BY <1>3, <1>4, <1>5 DEF Increasing

\* There is one such list.
LEMMA OneAscendingList ==
    ASSUME NEW S, S \subseteq Nat, NEW f, NEW m, Increasing(f, m, S), NEW g, NEW n, Increasing(g, n, S)
    PROVE  m = n /\ f = g
<1> USE DEF Increasing
<1> DEFINE T == {a \in 0..m : a <= n /\ \A b \in 1..a : f[b] = g[b]}
<1>0. (\A b \in 1..m : f[b] \in Nat) /\ (\A b \in 1..n : g[b] \in Nat)
  OBVIOUS
<1>1. 0 \in T
  OBVIOUS
<1>2. ASSUME NEW a \in 0..m - 1, a \in T PROVE a + 1 \in T
  <2>1. PICK c \in 1..n : g[c] = f[a + 1]
    <3>1. a + 1 \in 1..m
      OBVIOUS
    <3>2. f[a + 1] \in S
      BY <3>1
    <3> QED  BY <3>2
  <2>2. a < c
    <3> SUFFICES ASSUME c <= a PROVE FALSE
      OBVIOUS
    <3>1. f[c] = g[c] /\ f[c] < f[a + 1]
      BY <1>2
    <3> QED  BY <2>1, <3>1, <1>0
  <2>3. a + 1 \in 1..n /\ (g[a + 1] = g[c] \/ g[a + 1] < g[c])
    BY <2>2
  <2>4. PICK e \in 1..m : f[e] = g[a + 1]
    BY <2>3
  <2>5. a < e
    <3> SUFFICES ASSUME e <= a PROVE FALSE
      OBVIOUS
    <3>1. f[e] = g[e] /\ g[e] < g[a + 1]
      BY <1>2, <2>3
    <3> QED  BY <2>4, <3>1, <1>0, <2>3
  <2>6. f[a + 1] = f[e] \/ f[a + 1] < f[e]
    BY <2>5
  <2>7. f[a + 1] = g[a + 1]
    BY <2>1, <2>3, <2>4, <2>6, <1>0
  <2> QED  BY <1>2, <2>3, <2>7
<1>3. m \in T
  <2>1. 0..m \subseteq T
    <3> HIDE DEF T
    <3> QED  BY <1>1, <1>2, EveryNumberTo
  <2> QED  BY <2>1
<1>4. m = n
  <2> SUFFICES ASSUME m < n PROVE FALSE
    BY <1>3
  <2>1. PICK e \in 1..m : f[e] = g[m + 1]
    <3>1. m + 1 \in 1..n
      OBVIOUS
    <3>2. g[m + 1] \in S
      BY <3>1
    <3> QED  BY <3>2
  <2>2. f[e] = g[e] /\ g[e] < g[m + 1]
    BY <1>3
  <2> QED  BY <2>1, <2>2, <1>0
<1> QED  BY <1>3, <1>4

-----------------------------------------------------------------------------
(* Dot segments *)

Skipped == {Empty, Dot, DotDot}

\* Dot and DotDot are what they look like.
LEMMA SpecialNames ==
    /\ Dot # DotDot /\ Dot # Empty /\ DotDot # Empty
    /\ Empty \in Component /\ Dot \in Component /\ DotDot \in Component
<1>1. "." \in Syllable
  BY FoldLowersLetters DEF Special
<1>2. Len(Empty) = 0 /\ Len(Dot) = 1 /\ Len(DotDot) = 2
  BY DEF Empty, Dot, DotDot
<1>3. Empty \in Component /\ Dot \in Component /\ DotDot \in Component
  BY <1>1 DEF Empty, Dot, DotDot, Component
<1>4. Dot # DotDot /\ Dot # Empty /\ DotDot # Empty
  BY <1>2
<1> QED  BY <1>3, <1>4

\* Front leaves all but the last.
LEMMA FrontIsShorter ==
    ASSUME NEW S, NEW s \in Seq(S), s # <<>>
    PROVE  /\ Front(s) \in Seq(S) /\ Len(s) >= 1 /\ Len(Front(s)) = Len(s) - 1
           /\ \A a \in 1..Len(s) - 1 : Front(s)[a] = s[a]
<1>1. Len(s) \in Nat /\ Len(s) >= 1
  BY EmptySeq
<1>2. \A i \in 1..Len(s) - 1 : s[i] \in S
  BY <1>1, ElementOfSeq
<1> DEFINE n == Len(s) - 1
<1>3. n \in Nat
  BY <1>1
<1>4. /\ SubSeq(s, 1, n) \in Seq(S)
      /\ Len(SubSeq(s, 1, n)) = IF 1 <= n THEN n - 1 + 1 ELSE 0
      /\ \A i \in 1..n - 1 + 1 : SubSeq(s, 1, n)[i] = s[1 + i - 1]
  <2>1. n \in Int /\ 1 \in Int
    BY <1>3
  <2> HIDE DEF n
  <2> QED  BY <1>2, <2>1, SubSeqProperties DEF n
<1>5. \A i \in 1..n : SubSeq(s, 1, n)[i] = s[i]
  <2> TAKE i \in 1..n
  <2>1. i \in 1..n - 1 + 1 /\ 1 + i - 1 = i
    BY <1>3
  <2> HIDE DEF n
  <2> QED  BY <1>4, <2>1
<1>6. Len(SubSeq(s, 1, n)) = n
  <2> HIDE DEF n
  <2> QED  BY <1>3, <1>4
<1> QED  BY <1>1, <1>4, <1>5, <1>6 DEF Front

\* One round of the loop makes a sequence of names of one.
LEMMA TakeType ==
    ASSUME NEW stack \in Path, NEW c \in Component
    PROVE  Take(stack, c) \in Path
<1>1. CASE c \in {Empty, Dot}
  BY <1>1, SpecialNames DEF Take
<1>2. CASE c = DotDot
  <2>1. stack # <<>> => Front(stack) \in Path
    BY FrontIsShorter DEF Path
  <2> QED  BY <1>2, <2>1, SpecialNames DEF Take
<1>3. CASE c \notin Skipped
  <2>1. Append(stack, c) \in Path
    BY DEF Path
  <2> QED  BY <1>3, <2>1 DEF Take, Skipped
<1> QED  BY <1>1, <1>2, <1>3 DEF Skipped

\* What the loop leaves is reached from nothing, one segment after the other.
LEMMA CollapsedByRounds ==
    ASSUME NEW segments \in Path
    PROVE  \E stack \in [0..Len(segments) -> Path] :
              /\ stack[0] = <<>>
              /\ \A k \in 1..Len(segments) : stack[k] = Take(stack[k - 1], segments[k])
              /\ Collapsed(segments) = stack[Len(segments)]
<1> DEFINE N == Len(segments)
           Rounds(s) == [i \in 0..N |-> IF i = 0 THEN <<>> ELSE Take(s[i - 1], segments[i])]
           step == [p \in (1..N) \X Path |-> Take(p[2], segments[p[1]])]
<1>1. N \in Nat /\ <<>> \in Path /\ \A k \in 1..N : segments[k] \in Component
  BY DEF Path
<1>2. step \in [(1..N) \X Path -> Path]
  BY <1>1, TakeType
<1>3. PICK g \in [0..N -> Path] : g[0] = <<>> /\ \A k \in 1..N : g[k] = step[<<k, g[k - 1]>>]
  <2> HIDE DEF N, step
  <2>1. \E g \in [0..N -> Path] : GoesBy(g, N, <<>>, step)
    BY <1>1, <1>2, Recursion
  <2> QED  BY <2>1 DEF GoesBy
<1>4. ASSUME NEW k \in 1..N PROVE g[k] = Take(g[k - 1], segments[k])
  <2>1. k - 1 \in 0..N
    BY <1>1
  <2>2. <<k, g[k - 1]>> \in (1..N) \X Path
    BY <1>3, <2>1
  <2> QED  BY <1>3, <2>2
<1>5. g = Rounds(g)
  BY <1>1, <1>3, <1>4
<1> DEFINE stack == CHOOSE s : s = Rounds(s)
<1>6. stack = Rounds(stack)
  <2> HIDE DEF Rounds
  <2> QED  BY <1>5
<1>7. Collapsed(segments) = stack[N]
  BY DEF Collapsed
<1>8. stack[0] = <<>> /\ \A k \in 1..N : stack[k] = Take(stack[k - 1], segments[k])
  <2> HIDE DEF stack
  <2> QED  BY <1>1, <1>6
<1>9. 0..N \subseteq {k \in 0..N : stack[k] = g[k]}
  <2> DEFINE S == {k \in 0..N : stack[k] = g[k]}
  <2> HIDE DEF stack
  <2>1. 0 \in S
    BY <1>1, <1>3, <1>8
  <2>2. ASSUME NEW k \in 0..N - 1, k \in S PROVE k + 1 \in S
    <3>1. k + 1 \in 1..N /\ (k + 1) - 1 = k /\ stack[k] = g[k]
      BY <1>1, <2>2
    <3>2. stack[k + 1] = Take(stack[k], segments[k + 1]) /\ g[k + 1] = Take(g[k], segments[k + 1])
      BY <1>4, <1>8, <3>1
    <3> QED  BY <3>1, <3>2
  <2> HIDE DEF S, N
  <2>3. 0..N \subseteq S
    BY <1>1, <2>1, <2>2, EveryNumberTo
  <2> QED  BY <2>3 DEF S
<1>10. stack \in [0..N -> Path]
  <2>1. DOMAIN stack = 0..N /\ stack = [i \in 0..N |-> stack[i]]
    <3> HIDE DEF stack
    <3> QED  BY <1>6
  <2> HIDE DEF stack
  <2> QED  BY <1>3, <1>9, <2>1
<1> HIDE DEF stack
<1> QED  BY <1>7, <1>8, <1>10

\* How many of the numbers i..k are in P.
Count(P, i, k) == Cardinality({x \in i..k : x \in P})

\* Counting one number further.
LEMMA CountOneMore ==
    ASSUME NEW P, NEW i \in Nat, NEW k \in Nat, i <= k + 1
    PROVE  Count(P, i, k) \in Nat /\ Count(P, i, k + 1) = Count(P, i, k) + IF k + 1 \in P THEN 1 ELSE 0
<1> DEFINE C(n) == {x \in i..n : x \in P}
<1>1. IsFiniteSet(C(k))
  <2>1. IsFiniteSet(i..k)
    BY FS_Interval
  <2>2. C(k) \in SUBSET (i..k)
    OBVIOUS
  <2> HIDE DEF C
  <2> QED  BY <2>1, <2>2, FS_Subset
<1>2. C(k + 1) = IF k + 1 \in P THEN C(k) \cup {k + 1} ELSE C(k)
  OBVIOUS
<1>3. k + 1 \notin C(k)
  OBVIOUS
<1> HIDE DEF C
<1>4. Cardinality(C(k)) \in Nat
  BY <1>1, FS_CardinalityType
<1>5. Cardinality(C(k) \cup {k + 1}) = Cardinality(C(k)) + 1
  BY <1>1, <1>3, FS_AddElement
<1>6. Cardinality(C(k + 1)) = Cardinality(C(k)) + IF k + 1 \in P THEN 1 ELSE 0
  BY <1>2, <1>4, <1>5
<1> QED  BY <1>4, <1>6 DEF C, Count

\* A name adds to the names, DotDot to the ups, what is skipped to neither.
LEMMA CountSegment ==
    ASSUME NEW segments, NEW i \in Nat, NEW k \in Nat, i <= k + 1
    PROVE  /\ NamesIn(segments, i, k) \in Nat /\ UpsIn(segments, i, k) \in Nat
           /\ segments[k + 1] \notin Skipped =>
                 /\ NamesIn(segments, i, k + 1) = NamesIn(segments, i, k) + 1
                 /\ UpsIn(segments, i, k + 1) = UpsIn(segments, i, k)
           /\ segments[k + 1] = DotDot =>
                 /\ NamesIn(segments, i, k + 1) = NamesIn(segments, i, k)
                 /\ UpsIn(segments, i, k + 1) = UpsIn(segments, i, k) + 1
           /\ segments[k + 1] \in {Empty, Dot} =>
                 /\ NamesIn(segments, i, k + 1) = NamesIn(segments, i, k)
                 /\ UpsIn(segments, i, k + 1) = UpsIn(segments, i, k)
<1> DEFINE A == {x \in Nat : segments[x] \notin {Empty, Dot, DotDot}}
           B == {x \in Nat : segments[x] = DotDot}
<1>1. \A j \in Nat : NamesIn(segments, i, j) = Count(A, i, j)
  <2> TAKE j \in Nat
  <2>1. {x \in i..j : segments[x] \notin {Empty, Dot, DotDot}} = {x \in i..j : x \in A}
    OBVIOUS
  <2> QED  BY <2>1 DEF NamesIn, Count
<1>2. \A j \in Nat : UpsIn(segments, i, j) = Count(B, i, j)
  <2> TAKE j \in Nat
  <2>1. {x \in i..j : segments[x] = DotDot} = {x \in i..j : x \in B}
    OBVIOUS
  <2> QED  BY <2>1 DEF UpsIn, Count
<1>3. k + 1 \in A <=> segments[k + 1] \notin Skipped
  BY DEF Skipped
<1>4. k + 1 \in B <=> segments[k + 1] = DotDot
  OBVIOUS
<1> HIDE DEF A, B
<1>5. /\ NamesIn(segments, i, k) \in Nat
      /\ NamesIn(segments, i, k + 1) = NamesIn(segments, i, k) + IF k + 1 \in A THEN 1 ELSE 0
  BY <1>1, CountOneMore
<1>6. /\ UpsIn(segments, i, k) \in Nat
      /\ UpsIn(segments, i, k + 1) = UpsIn(segments, i, k) + IF k + 1 \in B THEN 1 ELSE 0
  BY <1>2, CountOneMore
<1> QED  BY <1>3, <1>4, <1>5, <1>6, SpecialNames DEF Skipped

\* Nothing is counted before the first.
LEMMA CountNothing ==
    ASSUME NEW segments, NEW i \in Nat, NEW j \in Nat, j < i
    PROVE  NamesIn(segments, i, j) = 0 /\ UpsIn(segments, i, j) = 0
<1>1. i..j = {}
  OBVIOUS
<1> QED  BY <1>1, FS_EmptySet DEF NamesIn, UpsIn

\* What remains of the first k segments, if no other follow.
KeptAt(segments, k) ==
    {i \in 1..k : /\ segments[i] \notin Skipped
                  /\ \A j \in i..k : NamesIn(segments, i, j) > UpsIn(segments, i, j)}

\* The stack holds what remains of the first k segments, from position f[1] on,
\* and a name is as high above the ups after it as it lies below the top.
Shows(segments, stack, k, f) ==
    /\ Increasing(f, Len(stack), KeptAt(segments, k))
    /\ \A a \in 1..Len(stack) :
          /\ stack[a] = segments[f[a]]
          /\ NamesIn(segments, f[a], k) = UpsIn(segments, f[a], k) + (Len(stack) - a) + 1

\* Of the earlier names those remain that one segment more leaves above the ups,
\* and a new name always does.
LEMMA KeptNext ==
    ASSUME NEW segments, NEW k \in Nat
    PROVE  /\ \A i \in 1..k : i \in KeptAt(segments, k + 1) <=>
                 /\ i \in KeptAt(segments, k)
                 /\ NamesIn(segments, i, k + 1) > UpsIn(segments, i, k + 1)
           /\ k + 1 \in KeptAt(segments, k + 1) <=> segments[k + 1] \notin Skipped
<1>1. ASSUME NEW i \in 1..k
      PROVE  i \in KeptAt(segments, k + 1) <=>
                 /\ i \in KeptAt(segments, k)
                 /\ NamesIn(segments, i, k + 1) > UpsIn(segments, i, k + 1)
  <2>1. i..k + 1 = (i..k) \cup {k + 1} /\ i \in 1..k + 1
    OBVIOUS
  <2> QED  BY <2>1 DEF KeptAt
<1>2. ASSUME segments[k + 1] \notin Skipped PROVE k + 1 \in KeptAt(segments, k + 1)
  <2>1. NamesIn(segments, k + 1, k) = 0 /\ UpsIn(segments, k + 1, k) = 0
    BY CountNothing
  <2>2. NamesIn(segments, k + 1, k + 1) = 1 /\ UpsIn(segments, k + 1, k + 1) = 0
    <3>1. PICK i \in Nat : i = k + 1
      OBVIOUS
    <3>2. i <= k + 1
      BY <3>1
    <3>3. /\ NamesIn(segments, i, k + 1) = NamesIn(segments, i, k) + 1
          /\ UpsIn(segments, i, k + 1) = UpsIn(segments, i, k)
      BY <1>2, <3>2, CountSegment
    <3> QED  BY <2>1, <3>1, <3>3
  <2>3. (k + 1)..(k + 1) = {k + 1}
    OBVIOUS
  <2> QED  BY <1>2, <2>2, <2>3 DEF KeptAt
<1>3. k + 1 \in KeptAt(segments, k + 1) => segments[k + 1] \notin Skipped
  BY DEF KeptAt
<1> QED  BY <1>1, <1>2, <1>3

\* A name is put on top.
LEMMA ShowsName ==
    ASSUME NEW segments \in Path, NEW k \in 0..Len(segments) - 1, NEW stack \in Path, NEW f,
           Shows(segments, stack, k, f), segments[k + 1] \notin Skipped
    PROVE  \E g : Shows(segments, Append(stack, segments[k + 1]), k + 1, g)
<1> DEFINE h == Len(stack)
           top == Append(stack, segments[k + 1])
           g == [a \in 1..h + 1 |-> IF a <= h THEN f[a] ELSE k + 1]
           K == KeptAt(segments, k)
           L == KeptAt(segments, k + 1)
<1>0. k \in Nat /\ h \in Nat
  BY DEF Path
<1>1. Len(top) = h + 1 /\ \A a \in 1..h + 1 : top[a] = IF a <= h THEN stack[a] ELSE segments[k + 1]
  BY DEF Path, Component
<1>2. /\ f \in [1..h -> K]
      /\ \A i \in K : \E a \in 1..h : f[a] = i
      /\ \A a, b \in 1..h : a < b => f[a] < f[b]
      /\ \A a \in 1..h : /\ stack[a] = segments[f[a]]
                         /\ NamesIn(segments, f[a], k) = UpsIn(segments, f[a], k) + (h - a) + 1
  BY DEF Shows, Increasing
<1>3. K \subseteq 1..k /\ L \subseteq 1..k + 1
  BY DEF KeptAt
<1>4. ASSUME NEW a \in 1..h
      PROVE  /\ f[a] \in 1..k /\ f[a] \in K
             /\ UpsIn(segments, f[a], k + 1) \in Nat
             /\ UpsIn(segments, f[a], k + 1) = UpsIn(segments, f[a], k)
             /\ NamesIn(segments, f[a], k + 1) = NamesIn(segments, f[a], k) + 1
  <2>1. f[a] \in K
    BY <1>2
  <2>2. f[a] \in 1..k
    BY <1>3, <2>1
  <2>3. f[a] \in Nat /\ f[a] <= k + 1
    BY <1>0, <2>2
  <2> QED  BY <1>0, <2>1, <2>2, <2>3, CountSegment
<1>5. L = K \cup {k + 1}
  <2>1. ASSUME NEW i \in 1..k PROVE i \in L <=> i \in K
    <3>1. i \in K => NamesIn(segments, i, k + 1) > UpsIn(segments, i, k + 1)
      <4>1. SUFFICES ASSUME i \in K PROVE NamesIn(segments, i, k + 1) > UpsIn(segments, i, k + 1)
        OBVIOUS
      <4>2. PICK a \in 1..h : f[a] = i
        BY <1>2, <4>1
      <4>3. NamesIn(segments, i, k + 1) = UpsIn(segments, i, k + 1) + (h - a) + 2
        BY <1>0, <1>2, <1>4, <4>2
      <4>4. UpsIn(segments, i, k + 1) \in Nat
        BY <1>4, <4>2
      <4> HIDE DEF h
      <4> QED  BY <1>0, <4>3, <4>4
    <3> QED  BY <1>0, <3>1, KeptNext
  <2>2. k + 1 \in L
    BY <1>0, KeptNext
  <2>3. 1..k + 1 = (1..k) \cup {k + 1}
    BY <1>0
  <2> HIDE DEF K, L
  <2> QED  BY <1>3, <2>1, <2>2, <2>3
<1>6. Increasing(g, h + 1, L)
  <2>1. g \in [1..h + 1 -> L]
    <3> HIDE DEF h, K, L
    <3> QED  BY <1>0, <1>2, <1>5
  <2>2. ASSUME NEW i \in L PROVE \E a \in 1..h + 1 : g[a] = i
    <3>1. CASE i = k + 1
      <4>1. g[h + 1] = k + 1 /\ h + 1 \in 1..h + 1
        BY <1>0
      <4> HIDE DEF g
      <4> QED  BY <3>1, <4>1
    <3>2. CASE i \in K
      <4>1. PICK a \in 1..h : f[a] = i
        BY <1>2, <3>2
      <4>2. a \in 1..h + 1 /\ g[a] = i
        BY <1>0, <4>1
      <4> HIDE DEF g
      <4> QED  BY <4>2
    <3> HIDE DEF K, L
    <3> QED  BY <1>5, <3>1, <3>2
  <2>3. ASSUME NEW a \in 1..h + 1, NEW b \in 1..h + 1, a < b PROVE g[a] < g[b]
    <3>1. a \in 1..h
      BY <1>0, <2>3
    <3>2. f[a] <= k
      BY <1>4, <3>1
    <3>3. CASE b <= h
      BY <1>0, <1>2, <2>3, <3>1, <3>3
    <3>4. CASE b = h + 1
      BY <1>0, <1>4, <3>1, <3>2, <3>4
    <3> QED  BY <1>0, <3>3, <3>4
  <2> HIDE DEF g, h, K, L
  <2> QED  BY <1>0, <2>1, <2>2, <2>3 DEF Increasing
<1>7. ASSUME NEW a \in 1..h + 1
      PROVE  /\ top[a] = segments[g[a]]
             /\ NamesIn(segments, g[a], k + 1) = UpsIn(segments, g[a], k + 1) + (h + 1 - a) + 1
  <2>1. CASE a <= h
    <3>1. a \in 1..h /\ g[a] = f[a] /\ top[a] = stack[a]
      BY <1>0, <1>1, <2>1
    <3>2. NamesIn(segments, f[a], k + 1) = UpsIn(segments, f[a], k + 1) + (h + 1 - a) + 1
      <4> DEFINE ups == UpsIn(segments, f[a], k + 1)
      <4>1. NamesIn(segments, f[a], k) = ups + (h - a) + 1
        BY <1>2, <1>4, <3>1
      <4>2. NamesIn(segments, f[a], k + 1) = (ups + (h - a) + 1) + 1 /\ ups \in Nat
        BY <1>4, <3>1, <4>1
      <4> HIDE DEF h, ups
      <4>3. (ups + (h - a) + 1) + 1 = ups + (h + 1 - a) + 1
        BY <1>0, <3>1, <4>2
      <4> QED  BY <4>2, <4>3 DEF ups
    <3> HIDE DEF g, h, top
    <3> QED  BY <1>2, <3>1, <3>2
  <2>2. CASE a = h + 1
    <3>1. g[a] = k + 1 /\ top[a] = segments[k + 1]
      BY <1>0, <1>1, <2>2
    <3>2. NamesIn(segments, k + 1, k + 1) = 1 /\ UpsIn(segments, k + 1, k + 1) = 0
      <4>1. PICK i \in Nat : i = k + 1
        BY <1>0
      <4>2. NamesIn(segments, i, k) = 0 /\ UpsIn(segments, i, k) = 0
        BY <1>0, <4>1, CountNothing
      <4>3. i <= k + 1
        BY <1>0, <4>1
      <4>4. /\ NamesIn(segments, i, k + 1) = NamesIn(segments, i, k) + 1
            /\ UpsIn(segments, i, k + 1) = UpsIn(segments, i, k)
        BY <1>0, <4>3, CountSegment
      <4> QED  BY <4>1, <4>2, <4>4
    <3> HIDE DEF g, h, top
    <3> QED  BY <1>0, <2>2, <3>1, <3>2
  <2> QED  BY <1>0, <2>1, <2>2
<1> HIDE DEF g, h, top
<1>8. Shows(segments, top, k + 1, g)
  <2>1. Increasing(g, Len(top), KeptAt(segments, k + 1))
    BY <1>1, <1>6
  <2>2. ASSUME NEW a \in 1..Len(top)
        PROVE  /\ top[a] = segments[g[a]]
               /\ NamesIn(segments, g[a], k + 1) = UpsIn(segments, g[a], k + 1) + (Len(top) - a) + 1
    <3>1. Len(top) = h + 1
      BY <1>1
    <3>2. a \in 1..h + 1
      BY <3>1
    <3>3. /\ top[a] = segments[g[a]]
          /\ NamesIn(segments, g[a], k + 1) = UpsIn(segments, g[a], k + 1) + (h + 1 - a) + 1
      BY <1>7, <3>2
    <3>4. Len(top) - a = h + 1 - a
      <4> HIDE DEF h
      <4> QED  BY <1>0, <3>1, <3>2
    <3> HIDE DEF h
    <3> QED  BY <3>3, <3>4
  <2> QED  BY <2>1, <2>2 DEF Shows
<1> QED  BY <1>8 DEF top

\* What is skipped changes nothing.
LEMMA ShowsSkip ==
    ASSUME NEW segments \in Path, NEW k \in 0..Len(segments) - 1, NEW stack \in Path, NEW f,
           Shows(segments, stack, k, f), segments[k + 1] \in {Empty, Dot}
    PROVE  Shows(segments, stack, k + 1, f)
<1> DEFINE h == Len(stack)
           K == KeptAt(segments, k)
           L == KeptAt(segments, k + 1)
<1>0. k \in Nat /\ h \in Nat
  BY DEF Path
<1>1. K \subseteq 1..k /\ L \subseteq 1..k + 1
  BY DEF KeptAt
<1>2. ASSUME NEW i \in 1..k
      PROVE  /\ NamesIn(segments, i, k + 1) = NamesIn(segments, i, k)
             /\ UpsIn(segments, i, k + 1) = UpsIn(segments, i, k)
  <2>1. i \in Nat /\ i <= k + 1
    BY <1>0
  <2> QED  BY <1>0, <2>1, CountSegment
<1>3. ASSUME NEW i \in K PROVE NamesIn(segments, i, k) > UpsIn(segments, i, k)
  BY <1>0 DEF KeptAt
<1>4. L = K
  <2>1. ASSUME NEW i \in 1..k PROVE i \in L <=> i \in K
    BY <1>0, <1>2, <1>3, KeptNext
  <2>2. k + 1 \notin L
    BY <1>0, KeptNext DEF Skipped
  <2>3. 1..k + 1 = (1..k) \cup {k + 1}
    BY <1>0
  <2> HIDE DEF K, L
  <2> QED  BY <1>1, <2>1, <2>2, <2>3
<1>5. ASSUME NEW a \in 1..h
      PROVE  /\ stack[a] = segments[f[a]]
             /\ NamesIn(segments, f[a], k + 1) = UpsIn(segments, f[a], k + 1) + (h - a) + 1
  <2>1. f[a] \in K
    BY DEF Shows, Increasing
  <2>2. f[a] \in 1..k
    BY <1>1, <2>1
  <2>3. /\ stack[a] = segments[f[a]]
        /\ NamesIn(segments, f[a], k) = UpsIn(segments, f[a], k) + (h - a) + 1
    BY DEF Shows
  <2> HIDE DEF h, K, L
  <2> QED  BY <1>2, <2>2, <2>3
<1>6. Increasing(f, h, L)
  BY <1>4 DEF Shows
<1> QED  BY <1>5, <1>6 DEF Shows

\* DotDot takes the last name away, if there is one.
LEMMA ShowsUp ==
    ASSUME NEW segments \in Path, NEW k \in 0..Len(segments) - 1, NEW stack \in Path, NEW f,
           Shows(segments, stack, k, f), segments[k + 1] = DotDot
    PROVE  IF stack = <<>> THEN Shows(segments, stack, k + 1, f)
           ELSE \E g : Shows(segments, Front(stack), k + 1, g)
<1> DEFINE h == Len(stack)
           K == KeptAt(segments, k)
           L == KeptAt(segments, k + 1)
<1>0. k \in Nat /\ h \in Nat
  BY DEF Path
<1>1. K \subseteq 1..k /\ L \subseteq 1..k + 1
  BY DEF KeptAt
<1>2. ASSUME NEW i \in 1..k
      PROVE  /\ NamesIn(segments, i, k + 1) = NamesIn(segments, i, k)
             /\ UpsIn(segments, i, k + 1) = UpsIn(segments, i, k) + 1
             /\ UpsIn(segments, i, k) \in Nat
  <2>1. i \in Nat /\ i <= k + 1
    BY <1>0
  <2> QED  BY <1>0, <2>1, CountSegment
<1>3. /\ f \in [1..h -> K]
      /\ \A i \in K : \E a \in 1..h : f[a] = i
      /\ \A a, b \in 1..h : a < b => f[a] < f[b]
      /\ \A a \in 1..h : /\ stack[a] = segments[f[a]]
                         /\ NamesIn(segments, f[a], k) = UpsIn(segments, f[a], k) + (h - a) + 1
  BY DEF Shows, Increasing
<1>4. \A a \in 1..h : f[a] \in 1..k /\ f[a] \in K
  <2> HIDE DEF h, K
  <2> QED  BY <1>1, <1>3
<1>5. \A a \in 1..h : f[a] \in L <=> a < h
  <2> TAKE a \in 1..h
  <2> DEFINE ups == UpsIn(segments, f[a], k)
  <2>1. f[a] \in L <=> NamesIn(segments, f[a], k) > ups + 1
    BY <1>0, <1>2, <1>4, KeptNext
  <2>2. ups \in Nat /\ NamesIn(segments, f[a], k) = ups + (h - a) + 1
    BY <1>2, <1>3, <1>4
  <2> HIDE DEF h, ups, L
  <2> QED  BY <1>0, <2>1, <2>2
<1>6. k + 1 \notin L
  BY <1>0, KeptNext DEF Skipped
<1>7. \A i \in L : \E a \in 1..h : a < h /\ f[a] = i
  <2> TAKE i \in L
  <2>1. 1..k + 1 = (1..k) \cup {k + 1}
    BY <1>0
  <2>2. i \in 1..k
    <3> HIDE DEF L
    <3> QED  BY <1>1, <1>6, <2>1
  <2>3. i \in K
    BY <1>0, <2>2, KeptNext
  <2>4. PICK a \in 1..h : f[a] = i
    BY <1>3, <2>3
  <2> HIDE DEF h, L
  <2> QED  BY <1>5, <2>4
<1>8. CASE stack = <<>>
  <2>1. h = 0
    BY <1>8
  <2>2. L = {} /\ K = {}
    <3> HIDE DEF h, K, L
    <3> QED  BY <1>3, <1>7, <2>1
  <2>3. Increasing(f, h, L)
    BY <2>2 DEF Shows
  <2>4. \A a \in 1..h : FALSE
    BY <2>1
  <2>5. Shows(segments, stack, k + 1, f)
    BY <2>3, <2>4 DEF Shows
  <2> QED  BY <1>8, <2>5
<1>9. CASE stack # <<>>
  <2> DEFINE low == Front(stack)
             g == [a \in 1..h - 1 |-> f[a]]
  <2>1. h - 1 \in Nat
    BY <1>9, <1>0 DEF Path
  <2>2. Len(low) = h - 1 /\ \A a \in 1..h - 1 : low[a] = stack[a]
    BY <1>9, FrontIsShorter DEF Path
  <2>3. \A a \in 1..h - 1 : a \in 1..h /\ a < h /\ g[a] = f[a]
    BY <1>0
  <2>4. Increasing(g, h - 1, L)
    <3>1. g \in [1..h - 1 -> L]
      BY <1>5, <2>3
    <3>2. \A i \in L : \E a \in 1..h - 1 : g[a] = i
      <4> TAKE i \in L
      <4>1. PICK a \in 1..h : a < h /\ f[a] = i
        BY <1>7
      <4>2. a \in 1..h - 1
        BY <1>0, <4>1
      <4> HIDE DEF h, L, g
      <4> QED  BY <2>3, <4>1, <4>2
    <3>3. \A a, b \in 1..h - 1 : a < b => g[a] < g[b]
      <4> HIDE DEF h, g
      <4> QED  BY <1>3, <2>3
    <3> HIDE DEF g, h, L
    <3> QED  BY <2>1, <3>1, <3>2, <3>3 DEF Increasing
  <2>5. ASSUME NEW a \in 1..h - 1
        PROVE  /\ low[a] = segments[g[a]]
               /\ NamesIn(segments, g[a], k + 1) = UpsIn(segments, g[a], k + 1) + (h - 1 - a) + 1
    <3> DEFINE ups == UpsIn(segments, f[a], k)
    <3>1. a \in 1..h /\ a \in Nat
      BY <2>3
    <3>2. low[a] = segments[f[a]] /\ g[a] = f[a]
      BY <1>3, <2>2, <2>3
    <3>3. /\ NamesIn(segments, f[a], k + 1) = ups + (h - a) + 1
          /\ UpsIn(segments, f[a], k + 1) = ups + 1 /\ ups \in Nat
      BY <1>2, <1>3, <1>4, <3>1
    <3> HIDE DEF low, g, h, ups
    <3>4. ups + (h - a) + 1 = (ups + 1) + (h - 1 - a) + 1
      BY <1>0, <3>1, <3>3
    <3> QED  BY <3>2, <3>3, <3>4
  <2> HIDE DEF low, g
  <2>6. Shows(segments, low, k + 1, g)
    <3>1. ASSUME NEW a \in 1..Len(low)
          PROVE  /\ low[a] = segments[g[a]]
                 /\ NamesIn(segments, g[a], k + 1) = UpsIn(segments, g[a], k + 1) + (Len(low) - a) + 1
      <4>1. Len(low) = h - 1
        BY <2>2
      <4>2. a \in 1..h - 1
        BY <4>1
      <4>3. Len(low) - a = h - 1 - a
        <5> HIDE DEF h
        <5> QED  BY <1>0, <4>1, <4>2
      <4>4. /\ low[a] = segments[g[a]]
            /\ NamesIn(segments, g[a], k + 1) = UpsIn(segments, g[a], k + 1) + (h - 1 - a) + 1
        BY <2>5, <4>2
      <4> HIDE DEF h
      <4> QED  BY <4>3, <4>4
    <3>2. Increasing(g, Len(low), L)
      BY <2>2, <2>4
    <3> QED  BY <3>1, <3>2 DEF Shows
  <2> QED  BY <1>9, <2>6 DEF low
<1> QED  BY <1>8, <1>9

\* The segments that remain, in their order.
Kept(segments) ==
    [i \in DOMAIN Ascending(Remaining(segments)) |-> segments[Ascending(Remaining(segments))[i]]]

\* One more round of the loop leaves the names that still count, in their order.
LEMMA ShowsNextRound ==
    ASSUME NEW segments \in Path, NEW k \in 0..Len(segments) - 1, NEW stack \in Path, NEW f,
           Shows(segments, stack, k, f)
    PROVE  \E g : Shows(segments, Take(stack, segments[k + 1]), k + 1, g)
<1> DEFINE c == segments[k + 1]
<1>1. c \in Component
  BY DEF Path
<1>2. CASE c \in {Empty, Dot}
  <2>1. Take(stack, c) = stack
    BY <1>2, SpecialNames DEF Take
  <2>2. Shows(segments, stack, k + 1, f)
    BY <1>2, ShowsSkip
  <2> QED  BY <2>1, <2>2
<1>3. CASE c = DotDot
  <2>1. Take(stack, c) = IF stack = <<>> THEN stack ELSE Front(stack)
    BY <1>3, SpecialNames DEF Take
  <2>2. IF stack = <<>> THEN Shows(segments, stack, k + 1, f)
        ELSE \E g : Shows(segments, Front(stack), k + 1, g)
    BY <1>3, ShowsUp
  <2> QED  BY <2>1, <2>2
<1>4. CASE c \notin Skipped
  <2>1. Take(stack, c) = Append(stack, c)
    BY <1>4 DEF Take, Skipped
  <2>2. \E g : Shows(segments, Append(stack, c), k + 1, g)
    BY <1>4, ShowsName
  <2> QED  BY <2>1, <2>2
<1> QED  BY <1>2, <1>3, <1>4 DEF Skipped

\* The loop over the segments keeps the names that nothing after them goes up past.
LEMMA CollapsedIsKept ==
    ASSUME NEW segments \in Path
    PROVE  /\ Collapsed(segments) = Kept(segments) /\ Collapsed(segments) \in Path
           /\ \A a \in DOMAIN Collapsed(segments) :
                 \E i \in DOMAIN segments : /\ Collapsed(segments)[a] = segments[i]
                                            /\ segments[i] \notin Skipped
<1> DEFINE N == Len(segments)
<1>1. N \in Nat /\ DOMAIN segments = 1..N
  BY DEF Path
<1>2. PICK stack \in [0..N -> Path] :
         /\ stack[0] = <<>>
         /\ \A k \in 1..N : stack[k] = Take(stack[k - 1], segments[k])
         /\ Collapsed(segments) = stack[N]
  BY CollapsedByRounds
<1> DEFINE S == {k \in 0..N : \E g : Shows(segments, stack[k], k, g)}
<1>3. 0 \in S
  <2>1. Len(stack[0]) = 0
    BY <1>2
  <2>2. KeptAt(segments, 0) = {}
    BY DEF KeptAt
  <2>3. Increasing([i \in 1..0 |-> 0], 0, {})
    BY DEF Increasing
  <2>4. Shows(segments, stack[0], 0, [i \in 1..0 |-> 0])
    BY <2>1, <2>2, <2>3 DEF Shows
  <2> QED  BY <1>1, <2>4
<1>4. ASSUME NEW k \in 0..N - 1, k \in S PROVE k + 1 \in S
  <2>1. PICK g : Shows(segments, stack[k], k, g)
    BY <1>4
  <2>2. k \in 0..N /\ k + 1 \in 1..N /\ k + 1 \in 0..N /\ (k + 1) - 1 = k
    BY <1>1
  <2>3. stack[k] \in Path /\ stack[k + 1] = Take(stack[k], segments[k + 1])
    BY <1>2, <2>2
  <2>4. \E h : Shows(segments, Take(stack[k], segments[k + 1]), k + 1, h)
    BY <2>1, <2>3, ShowsNextRound
  <2> QED  BY <2>2, <2>3, <2>4
<1>5. 0..N \subseteq S
  <2> HIDE DEF N, S
  <2> QED  BY <1>1, <1>3, <1>4, EveryNumberTo
<1>6. PICK f : Shows(segments, stack[N], N, f)
  <2>1. N \in S
    BY <1>1, <1>5
  <2> QED  BY <2>1
<1> DEFINE R == Remaining(segments)
           h == Len(stack[N])
<1>7. KeptAt(segments, N) = R
  BY <1>1 DEF KeptAt, Remaining, Skipped
<1>8. R \subseteq Nat /\ R \subseteq 1..N /\ IsFiniteSet(R)
  <2>1. R \in SUBSET (1..N)
    BY <1>1 DEF Remaining
  <2>2. IsFiniteSet(1..N)
    BY <1>1, FS_Interval
  <2>3. IsFiniteSet(R)
    BY <2>1, <2>2, FS_Subset
  <2> QED  BY <2>1, <2>3
<1>9. Increasing(f, h, R)
  BY <1>6, <1>7 DEF Shows
<1> DEFINE order == Ascending(R)
<1>10. h = Cardinality(R) /\ f = order /\ DOMAIN order = 1..h
  <2>1. Increasing(order, Cardinality(R), R) /\ DOMAIN order = 1..Cardinality(R)
    BY <1>8, AscendingLists
  <2> HIDE DEF R, order, h
  <2> QED  BY <1>8, <1>9, <2>1, OneAscendingList
<1>11. stack[N] \in Path /\ DOMAIN stack[N] = 1..h /\ h \in Nat
  <2>1. stack[N] \in Path
    BY <1>1, <1>2
  <2> QED  BY <2>1 DEF Path
<1>12. \A a \in 1..h : stack[N][a] = segments[f[a]] /\ f[a] \in R
  BY <1>6, <1>9 DEF Shows, Increasing
<1>13. stack[N] = Kept(segments)
  <2>1. Kept(segments) = [i \in 1..h |-> segments[f[i]]]
    BY <1>10 DEF Kept
  <2>2. stack[N] = [i \in 1..h |-> stack[N][i]]
    <3>1. stack[N] \in Seq(Component)
      BY <1>11 DEF Path
    <3>2. stack[N] \in [1..h -> Component]
      BY <3>1
    <3> HIDE DEF h
    <3> QED  BY <3>2
  <2> HIDE DEF h
  <2> QED  BY <1>12, <2>1, <2>2
<1>14. \A i \in R : i \in DOMAIN segments /\ segments[i] \notin Skipped
  BY DEF Remaining, Skipped
<1> HIDE DEF R, h
<1> QED  BY <1>2, <1>11, <1>12, <1>13, <1>14

-----------------------------------------------------------------------------
(* Roots *)

\* A root has one or two components.
LEMMA RootIsShort ==
    ASSUME NEW path
    PROVE  RootLength(path) \in 1..2 /\ (IsDrive(path) => path # <<>>)
BY DEF RootLength, IsDrive

\* The first component decides how long the root is.
LEMMA SameFirstSameRoot ==
    ASSUME NEW p \in Path, NEW q \in Path, p # <<>>, q # <<>>, p[1] = q[1]
    PROVE  (IsDrive(p) <=> IsDrive(q)) /\ RootLength(p) = RootLength(q)
BY DEF RootLength, IsDrive

\* A path that has its root is the root and the segments after it.
Segments(path) == SubSeq(path, RootLength(path) + 1, Len(path))
Root(path) == SubSeq(path, 1, RootLength(path))

\* A path that is long enough is its root and the segments after it.
LEMMA SplitAtRoot ==
    ASSUME NEW path \in Path, Len(path) >= RootLength(path)
    PROVE  /\ Segments(path) \in Path /\ Len(Segments(path)) = Len(path) - RootLength(path)
           /\ \A i \in 1..Len(path) - RootLength(path) : Segments(path)[i] = path[RootLength(path) + i]
           /\ Root(path) \in Path /\ Len(Root(path)) = RootLength(path)
           /\ \A i \in 1..RootLength(path) : Root(path)[i] = path[i]
           /\ path = Root(path) \o Segments(path)
<1> DEFINE n == RootLength(path)
           N == Len(path)
<1>1. n \in Nat /\ n >= 1 /\ N \in Nat /\ n <= N
  BY RootIsShort DEF Path
<1>2. \A i \in 1..N : path[i] \in Component
  BY DEF Path
<1>3. /\ Segments(path) \in Path
      /\ Len(Segments(path)) = IF n + 1 <= N THEN N - (n + 1) + 1 ELSE 0
      /\ \A i \in 1..N - (n + 1) + 1 : Segments(path)[i] = path[n + 1 + i - 1]
  <2>1. \A i \in n + 1..N : path[i] \in Component
    BY <1>1, <1>2
  <2>2. n + 1 \in Int /\ N \in Int
    BY <1>1
  <2> DEFINE m == n + 1
  <2>3. /\ SubSeq(path, m, N) \in Seq(Component)
        /\ Len(SubSeq(path, m, N)) = IF m <= N THEN N - m + 1 ELSE 0
        /\ \A i \in 1..N - m + 1 : SubSeq(path, m, N)[i] = path[m + i - 1]
    <3>1. m \in Int /\ \A i \in m..N : path[i] \in Component
      BY <2>1, <2>2
    <3> HIDE DEF m, N
    <3> QED  BY <2>2, <3>1, SubSeqProperties
  <2> QED  BY <2>3 DEF Segments, Path
<1>4. Len(Segments(path)) = N - n
  <2> HIDE DEF n, N
  <2> QED  BY <1>1, <1>3
<1>5. \A i \in 1..N - n : Segments(path)[i] = path[n + i]
  <2> TAKE i \in 1..N - n
  <2>1. i \in 1..N - (n + 1) + 1 /\ n + 1 + i - 1 = n + i
    <3> HIDE DEF n, N
    <3> QED  BY <1>1
  <2> HIDE DEF n, N
  <2> QED  BY <1>3, <2>1
<1>6. Root(path) \in Path /\ Len(Root(path)) = n /\ \A i \in 1..n : Root(path)[i] = path[i]
  <2>1. \A i \in 1..n : path[i] \in Component
    BY <1>1, <1>2
  <2>2. /\ SubSeq(path, 1, n) \in Seq(Component)
        /\ Len(SubSeq(path, 1, n)) = IF 1 <= n THEN n - 1 + 1 ELSE 0
        /\ \A i \in 1..n - 1 + 1 : SubSeq(path, 1, n)[i] = path[1 + i - 1]
    <3>1. n \in Int /\ 1 \in Int
      BY <1>1
    <3> HIDE DEF n
    <3> QED  BY <2>1, <3>1, SubSeqProperties
  <2>3. Len(SubSeq(path, 1, n)) = n
    <3> HIDE DEF n
    <3> QED  BY <1>1, <2>2
  <2>4. \A i \in 1..n : SubSeq(path, 1, n)[i] = path[i]
    <3> TAKE i \in 1..n
    <3>1. i \in 1..n - 1 + 1 /\ 1 + i - 1 = i
      <4> HIDE DEF n
      <4> QED  BY <1>1
    <3> HIDE DEF n
    <3> QED  BY <2>2, <3>1
  <2> QED  BY <2>2, <2>3, <2>4 DEF Root, Path
<1>7. path = Root(path) \o Segments(path)
  <2>1. 1 \in 1..N + 1 /\ n \in 1 - 1..N /\ N \in n..N
    <3> HIDE DEF n, N
    <3> QED  BY <1>1
  <2>2. SubSeq(path, 1, n) \o SubSeq(path, n + 1, N) = SubSeq(path, 1, N)
    <3>1. path \in Seq(Component)
      BY DEF Path
    <3> HIDE DEF n
    <3> QED  BY <2>1, <3>1, ConcatAdjacentSubSeq
  <2>3. SubSeq(path, 1, N) = path
    BY SubSeqFull DEF Path
  <2> QED  BY <2>2, <2>3 DEF Root, Segments
<1> QED  BY <1>3, <1>4, <1>5, <1>6, <1>7

\* Other segments after the same root.
LEMMA JoinToRoot ==
    ASSUME NEW path \in Path, Len(path) >= RootLength(path), NEW tail \in Path
    PROVE  LET joined == Root(path) \o tail
           IN  /\ joined \in Path /\ Len(joined) = RootLength(path) + Len(tail)
               /\ \A i \in 1..RootLength(path) : joined[i] = path[i]
               /\ \A i \in 1..Len(tail) : joined[RootLength(path) + i] = tail[i]
               /\ (IsDrive(joined) <=> IsDrive(path)) /\ RootLength(joined) = RootLength(path)
               /\ joined # <<>> /\ Segments(joined) = tail /\ Root(joined) = Root(path)
<1> DEFINE n == RootLength(path)
           joined == Root(path) \o tail
<1>1. n \in 1..2 /\ Len(path) \in Nat /\ Len(tail) \in Nat /\ path # <<>>
  BY RootIsShort DEF Path
<1>2. Root(path) \in Path /\ Len(Root(path)) = n /\ \A i \in 1..n : Root(path)[i] = path[i]
  BY SplitAtRoot
<1>3. /\ joined \in Path /\ Len(joined) = n + Len(tail)
      /\ \A i \in 1..n + Len(tail) : joined[i] = IF i <= n THEN Root(path)[i] ELSE tail[i - n]
  <2>1. /\ Root(path) \o tail \in Seq(Component)
        /\ Len(Root(path) \o tail) = Len(Root(path)) + Len(tail)
        /\ \A i \in 1..Len(Root(path)) + Len(tail) : (Root(path) \o tail)[i] =
              IF i <= Len(Root(path)) THEN Root(path)[i] ELSE tail[i - Len(Root(path))]
    BY <1>2, ConcatProperties DEF Path
  <2> HIDE DEF n
  <2> QED  BY <1>2, <2>1 DEF Path
<1> HIDE DEF joined
<1>4. \A i \in 1..n : joined[i] = path[i]
  <2> HIDE DEF n
  <2> QED  BY <1>1, <1>2, <1>3
<1>5. \A i \in 1..Len(tail) : joined[n + i] = tail[i]
  <2> TAKE i \in 1..Len(tail)
  <2> DEFINE j == n + i
  <2>1. j \in 1..n + Len(tail) /\ ~(j <= n) /\ j - n = i
    <3> HIDE DEF n
    <3> QED  BY <1>1
  <2> HIDE DEF n, j
  <2>2. joined[j] = tail[i]
    BY <1>3, <2>1
  <2> QED  BY <2>2 DEF j
<1>6. joined # <<>> /\ joined[1] = path[1]
  <2> HIDE DEF n
  <2>1. Len(joined) >= 1 /\ 1 \in 1..n
    BY <1>1, <1>3
  <2> QED  BY <1>4, <2>1
<1>7. (IsDrive(joined) <=> IsDrive(path)) /\ RootLength(joined) = n
  BY <1>1, <1>3, <1>6, SameFirstSameRoot
<1>8. Len(joined) >= RootLength(joined)
  BY <1>1, <1>3, <1>7
<1>9. Segments(joined) = tail
  <2>1. /\ Segments(joined) \in Path /\ Len(Segments(joined)) = Len(joined) - n
        /\ \A i \in 1..Len(joined) - n : Segments(joined)[i] = joined[n + i]
    <3>1. /\ Segments(joined) \in Path /\ Len(Segments(joined)) = Len(joined) - RootLength(joined)
          /\ \A i \in 1..Len(joined) - RootLength(joined) :
                Segments(joined)[i] = joined[RootLength(joined) + i]
      BY <1>3, <1>8, SplitAtRoot
    <3> HIDE DEF n
    <3> QED  BY <1>7, <3>1
  <2>2. Len(joined) - n = Len(tail)
    BY <1>1, <1>3
  <2> HIDE DEF n
  <2> QED  BY <1>5, <2>1, <2>2, SeqEqual DEF Path
<1>10. Root(joined) = Root(path)
  <2>1. /\ Root(joined) \in Path /\ Len(Root(joined)) = n
        /\ \A i \in 1..n : Root(joined)[i] = joined[i]
    BY <1>3, <1>7, <1>8, SplitAtRoot
  <2> HIDE DEF n
  <2> QED  BY <1>2, <1>4, <2>1, SeqEqual DEF Path
<1> QED  BY <1>3, <1>4, <1>5, <1>6, <1>7, <1>9, <1>10 DEF joined

\* What a path means is its root and what is kept of its segments.
LEMMA MeantByParts ==
    ASSUME NEW path
    PROVE  Meant(path) = Root(path) \o Kept(Segments(path))
BY DEF Meant, Root, Segments, Kept

\* collapse_dot_segments keeps what is meant, of what has a root and no name that
\* ends badly.
THEOREM CollapseIsMeant ==
    ASSUME NEW path \in Path
    PROVE  collapse_dot_segments(path) =
              IF /\ Len(path) >= RootLength(path)
                 /\ \A i \in 1..RootLength(path) : path[i] # Empty
                 /\ EndsWell(path)
              THEN Meant(path) ELSE Invalid
<1> DEFINE n == RootLength(path)
           segments == Segments(path)
           Bad(c) == component_has_unsafe_trailing_chars(c)
<1>1. n \in Nat /\ Len(path) \in Nat /\ DOMAIN path = 1..Len(path)
  BY RootIsShort DEF Path
<1>2. collapse_dot_segments(path) =
         IF Len(path) < n \/ (\E i \in 1..n : path[i] = Empty) \/ (\E i \in DOMAIN segments : Bad(segments[i]))
         THEN Invalid ELSE Root(path) \o Collapsed(segments)
  BY DEF collapse_dot_segments, Root, Segments
<1>3. CASE Len(path) < n
  BY <1>1, <1>2, <1>3
<1>4. CASE Len(path) >= n
  <2>1. /\ segments \in Path /\ Len(segments) = Len(path) - n
        /\ \A i \in 1..Len(path) - n : segments[i] = path[n + i]
    BY <1>4, SplitAtRoot
  <2>2. DOMAIN segments = 1..Len(path) - n
    BY <2>1 DEF Path
  <2>3. (\E i \in DOMAIN segments : Bad(segments[i])) <=> ~EndsWell(path)
    <3>1. ASSUME NEW i \in DOMAIN segments, Bad(segments[i]) PROVE ~EndsWell(path)
      <4>1. n + i \in DOMAIN path /\ n + i > n /\ segments[i] = path[n + i]
        <5> HIDE DEF n, segments
        <5> QED  BY <1>1, <2>1, <2>2
      <4> HIDE DEF segments
      <4> QED  BY <3>1, <4>1 DEF EndsWell, component_has_unsafe_trailing_chars
    <3>2. ASSUME ~EndsWell(path) PROVE \E i \in DOMAIN segments : Bad(segments[i])
      <4>1. PICK j \in DOMAIN path : j > n /\ Bad(path[j])
        BY <3>2 DEF EndsWell, component_has_unsafe_trailing_chars
      <4> DEFINE i == j - n
      <4>2. i \in DOMAIN segments /\ n + i = j
        <5> HIDE DEF n, segments
        <5> QED  BY <1>1, <2>2, <4>1
      <4> HIDE DEF i, segments
      <4>3. segments[i] = path[j]
        BY <2>1, <2>2, <4>2
      <4> QED  BY <4>1, <4>2, <4>3
    <3> QED  BY <3>1, <3>2
  <2>4. Collapsed(segments) = Kept(segments)
    BY <2>1, CollapsedIsKept
  <2>5. ~(Len(path) < n)
    BY <1>1, <1>4
  <2> HIDE DEF segments
  <2>6. Meant(path) = Root(path) \o Kept(segments)
    BY MeantByParts DEF segments
  <2> HIDE DEF Bad
  <2> QED  BY <1>2, <1>4, <2>3, <2>4, <2>5, <2>6
<1> QED  BY <1>1, <1>3, <1>4

\* What is meant by a path that has its root and ends well is normal, with the
\* same root.
LEMMA MeantIsNormal ==
    ASSUME NEW path \in Path, IsRooted(path), EndsWell(path)
    PROVE  /\ IsNormal(Meant(path)) /\ Meant(path) # Invalid
           /\ IsDrive(Meant(path)) <=> IsDrive(path)
<1> DEFINE n == RootLength(path)
           segments == Segments(path)
           kept == Kept(segments)
           p == Meant(path)
<1>1. n \in 1..2 /\ Len(path) \in Nat /\ DOMAIN path = 1..Len(path) /\ Len(path) >= n
  BY RootIsShort DEF Path, IsRooted
<1>2. /\ segments \in Path /\ Len(segments) = Len(path) - n
      /\ \A i \in 1..Len(path) - n : segments[i] = path[n + i]
  BY <1>1, SplitAtRoot
<1>3. /\ kept \in Path
      /\ \A a \in DOMAIN kept : \E i \in DOMAIN segments : kept[a] = segments[i] /\ segments[i] \notin Skipped
  BY <1>2, CollapsedIsKept
<1>4. p = Root(path) \o kept
  BY MeantByParts
<1>5. /\ p \in Path /\ Len(p) = n + Len(kept)
      /\ \A i \in 1..n : p[i] = path[i]
      /\ \A i \in 1..Len(kept) : p[n + i] = kept[i]
      /\ (IsDrive(p) <=> IsDrive(path)) /\ RootLength(p) = n /\ p # <<>>
  <2> HIDE DEF kept
  <2> QED  BY <1>1, <1>3, <1>4, JoinToRoot
<1> HIDE DEF p, kept, segments
<1>6. DOMAIN p = 1..Len(p) /\ Len(kept) \in Nat /\ DOMAIN kept = 1..Len(kept)
      /\ DOMAIN segments = 1..Len(path) - n
  BY <1>2, <1>3, <1>5 DEF Path
<1>7. ASSUME NEW i \in DOMAIN p, i > n
      PROVE  \E j \in DOMAIN path : j > n /\ p[i] = path[j] /\ path[j] \notin Skipped
  <2> DEFINE a == i - n
  <2>1. a \in 1..Len(kept) /\ n + a = i
    <3> HIDE DEF n
    <3> QED  BY <1>1, <1>5, <1>6, <1>7
  <2> HIDE DEF a
  <2>2. p[i] = kept[a]
    BY <1>5, <2>1
  <2>3. PICK b \in DOMAIN segments : kept[a] = segments[b] /\ segments[b] \notin Skipped
    BY <1>3, <1>6, <2>1
  <2> DEFINE j == n + b
  <2>4. j \in DOMAIN path /\ j > n /\ segments[b] = path[n + b]
    <3> HIDE DEF n
    <3> QED  BY <1>1, <1>2, <1>6, <2>3
  <2>5. segments[b] = path[j]
    BY <2>4
  <2> HIDE DEF j
  <2> QED  BY <2>2, <2>3, <2>4, <2>5
<1>8. Len(p) >= n /\ \A i \in 1..n : p[i] # Empty
  <2>1. \A i \in 1..n : path[i] # Empty
    BY DEF IsRooted
  <2> HIDE DEF n
  <2> QED  BY <1>1, <1>5, <1>6, <2>1
<1>9. \A i \in DOMAIN p : ":" \in ToSet(p[i]) => i = 1 /\ IsDrive(p)
  <2> TAKE i \in DOMAIN p
  <2> SUFFICES ASSUME ":" \in ToSet(p[i]) PROVE i = 1 /\ IsDrive(p)
    OBVIOUS
  <2>1. CASE i <= n
    <3>1. i \in 1..n /\ i \in DOMAIN path
      <4> HIDE DEF n
      <4> QED  BY <1>1, <1>6, <2>1
    <3>2. ":" \in ToSet(path[i])
      BY <1>5, <3>1
    <3> QED  BY <1>5, <3>1, <3>2 DEF IsRooted
  <2>2. CASE i > n
    <3>1. PICK j \in DOMAIN path : j > n /\ p[i] = path[j]
      BY <1>7, <2>2
    <3>2. j = 1
      BY <3>1 DEF IsRooted
    <3> QED  BY <1>1, <3>1, <3>2
  <2> QED  BY <1>1, <1>6, <2>1, <2>2
<1>10. EndsWell(p)
  <2>1. ASSUME NEW i \in DOMAIN p, i > n PROVE Last(p[i]) \notin {".", " "}
    <3>1. PICK j \in DOMAIN path : j > n /\ p[i] = path[j] /\ path[j] \notin Skipped
      BY <1>7, <2>1
    <3> QED  BY <3>1 DEF EndsWell, Skipped
  <2> HIDE DEF n
  <2> QED  BY <1>5, <2>1 DEF EndsWell
<1>11. \A i \in DOMAIN p : i > RootLength(p) => p[i] \notin {Empty, Dot, DotDot}
  <2> HIDE DEF n
  <2> QED  BY <1>5, <1>7 DEF Skipped
<1>12. IsRooted(p)
  BY <1>5, <1>8, <1>9 DEF IsRooted
<1> QED  BY <1>5, <1>10, <1>11, <1>12 DEF IsNormal, Invalid, p

\* Names only are left as they are.
LEMMA NamesStay ==
    ASSUME NEW segments \in Path, \A i \in DOMAIN segments : segments[i] \notin Skipped
    PROVE  Kept(segments) = segments
<1> DEFINE N == Len(segments)
<1>1. N \in Nat /\ DOMAIN segments = 1..N
  BY DEF Path
<1>2. PICK stack \in [0..N -> Path] :
              /\ stack[0] = <<>>
              /\ \A k \in 1..N : stack[k] = Take(stack[k - 1], segments[k])
              /\ Collapsed(segments) = stack[N]
  BY CollapsedByRounds
<1> DEFINE S == {k \in 0..N : Len(stack[k]) = k /\ \A a \in 1..k : stack[k][a] = segments[a]}
<1>3. 0 \in S
  BY <1>1, <1>2
<1>4. ASSUME NEW k \in 0..N - 1, k \in S PROVE k + 1 \in S
  <2> DEFINE j == k + 1
  <2>1. j \in 1..N /\ j - 1 = k /\ k \in Nat
    BY <1>1
  <2>2. stack[j] = Take(stack[k], segments[j])
    <3>1. stack[j] = Take(stack[j - 1], segments[j])
      BY <1>2, <2>1
    <3> HIDE DEF j
    <3> QED  BY <2>1, <3>1
  <2>3. stack[j] = Append(stack[k], segments[j])
    <3>1. segments[j] \notin {Empty, Dot, DotDot}
      BY <1>1, <2>1 DEF Skipped
    <3> HIDE DEF j
    <3> QED  BY <2>2, <3>1 DEF Take
  <2>4. stack[k] \in Seq(Component) /\ Len(stack[k]) = k /\ segments[j] \in Component
    BY <1>1, <1>2, <1>4, <2>1 DEF Path
  <2>5. Len(stack[j]) = j /\ \A a \in 1..j : stack[j][a] = segments[a]
    <3>1. Len(stack[j]) = k + 1
      <4> HIDE DEF j
      <4> QED  BY <2>3, <2>4
    <3>2. ASSUME NEW a \in 1..j PROVE stack[j][a] = segments[a]
      <4>1. CASE a = k + 1
        <5>1. a = j
          BY <4>1
        <5> HIDE DEF j
        <5>2. stack[j][Len(stack[k]) + 1] = segments[j]
          BY <2>3, <2>4
        <5> QED  BY <2>4, <4>1, <5>1, <5>2
      <4>2. CASE a \in 1..k
        <5>1. stack[k][a] = segments[a]
          BY <1>4, <4>2
        <5> HIDE DEF j
        <5> QED  BY <2>3, <2>4, <4>2, <5>1
      <4> QED  BY <2>1, <4>1, <4>2
    <3> QED  BY <3>1, <3>2
  <2>6. j \in 0..N
    BY <2>1
  <2> QED  BY <2>5, <2>6
<1>5. N \in S
  <2> HIDE DEF S
  <2>1. 0..N \subseteq S
    BY <1>1, <1>3, <1>4, EveryNumberTo
  <2> QED  BY <1>1, <2>1
<1>6. Collapsed(segments) = segments
  <2>1. stack[N] \in Seq(Component) /\ Len(stack[N]) = N /\ \A a \in 1..N : stack[N][a] = segments[a]
    BY <1>1, <1>2, <1>5 DEF Path
  <2>2. segments \in Seq(Component)
    BY DEF Path
  <2> HIDE DEF S
  <2>3. stack[N] = segments
    BY <1>1, <2>1, <2>2, SeqEqual
  <2> QED  BY <1>2, <2>3
<1> QED  BY <1>6, CollapsedIsKept

\* A normal path means itself.
LEMMA NormalIsMeant ==
    ASSUME NEW p, IsNormal(p)
    PROVE  /\ Meant(p) = p /\ collapse_dot_segments(p) = p /\ p # Invalid /\ p \in Path
           /\ Len(p) >= RootLength(p)
<1>1. p \in Path /\ IsRooted(p) /\ EndsWell(p)
  BY DEF IsNormal
<1>2. Len(p) >= RootLength(p) /\ \A i \in 1..RootLength(p) : p[i] # Empty
  BY <1>1 DEF IsRooted
<1> DEFINE n == RootLength(p)
           segments == Segments(p)
<1>3. /\ segments \in Path /\ Len(segments) = Len(p) - n
      /\ \A i \in 1..Len(p) - n : segments[i] = p[n + i]
      /\ p = Root(p) \o segments
  BY <1>1, <1>2, SplitAtRoot
<1>4. n \in Nat /\ Len(p) \in Nat /\ DOMAIN p = 1..Len(p) /\ n >= 1
  BY <1>1, RootIsShort DEF Path
<1>5. ASSUME NEW i \in DOMAIN segments PROVE segments[i] \notin Skipped
  <2>1. i \in 1..Len(p) - n
    BY <1>3 DEF Path
  <2>2. n + i \in DOMAIN p /\ n + i > n
    <3> HIDE DEF n
    <3> QED  BY <1>4, <2>1
  <2>3. p[n + i] \notin {Empty, Dot, DotDot}
    BY <2>2 DEF IsNormal
  <2> QED  BY <1>3, <2>1, <2>3 DEF Skipped
<1>6. Kept(segments) = segments
  <2> HIDE DEF segments
  <2> QED  BY <1>3, <1>5, NamesStay
<1>7. Meant(p) = p
  BY <1>3, <1>6, MeantByParts
<1>8. p # Invalid
  BY <1>1, MeantIsNormal, <1>7
<1>9. collapse_dot_segments(p) = p
  BY <1>1, <1>2, <1>7, CollapseIsMeant
<1> QED  BY <1>1, <1>2, <1>7, <1>8, <1>9

-----------------------------------------------------------------------------
(* Lower case *)

\* Folding keeps the special characters where they are, and only those.
LEMMA FoldOfText ==
    ASSUME NEW c \in Component
    PROVE  /\ FoldText(c) \in Component /\ Len(FoldText(c)) = Len(c)
           /\ DOMAIN FoldText(c) = DOMAIN c /\ \A i \in DOMAIN c : FoldText(c)[i] = Fold[c[i]]
           /\ FoldText(FoldText(c)) = FoldText(c)
           /\ \A i \in DOMAIN c : \A x \in Special : FoldText(c)[i] = x <=> c[i] = x
<1>1. c \in Seq(Syllable) /\ Len(c) \in Nat /\ DOMAIN c = 1..Len(c)
  BY DEF Component
<1>2. FoldText(c) = [i \in 1..Len(c) |-> Fold[c[i]]]
  BY <1>1 DEF FoldText
<1>3. \A i \in 1..Len(c) : c[i] \in Syllable /\ Fold[c[i]] \in Syllable
  BY <1>1, FoldLowersLetters
<1>4. FoldText(c) \in Component /\ Len(FoldText(c)) = Len(c) /\ DOMAIN FoldText(c) = 1..Len(c)
  BY <1>1, <1>2, <1>3 DEF Component
<1>5. FoldText(FoldText(c)) = [i \in 1..Len(c) |-> Fold[FoldText(c)[i]]]
  BY <1>4 DEF FoldText
<1>6. \A i \in 1..Len(c) : FoldText(c)[i] = Fold[c[i]] /\ Fold[FoldText(c)[i]] = Fold[c[i]]
  BY <1>2, <1>3, FoldLowersLetters
<1>7. FoldText(FoldText(c)) = FoldText(c)
  BY <1>2, <1>5, <1>6
<1>8. \A i \in 1..Len(c) : \A x \in Special : FoldText(c)[i] = x <=> c[i] = x
  BY <1>3, <1>6, FoldLowersLetters
<1> QED  BY <1>1, <1>4, <1>6, <1>7, <1>8

\* Two components that are the same in lower case are skipped, or end, alike.
LEMMA SameFoldText ==
    ASSUME NEW b \in Component, NEW c \in Component, FoldText(b) = FoldText(c)
    PROVE  /\ Len(b) = Len(c) /\ DOMAIN b = DOMAIN c
           /\ \A x \in {Empty, Dot, DotDot} : b = x <=> c = x
           /\ b # Empty => \A x \in Special : Last(b) = x <=> Last(c) = x
           /\ \A x \in Special : x \in ToSet(b) <=> x \in ToSet(c)
<1>1. /\ Len(b) = Len(c) /\ DOMAIN b = DOMAIN c
      /\ b \in Seq(Syllable) /\ c \in Seq(Syllable)
      /\ Len(b) \in Nat /\ DOMAIN b = 1..Len(b)
  BY FoldOfText DEF Component
<1>2. \A i \in 1..Len(b) : \A x \in Special : b[i] = x <=> c[i] = x
  BY <1>1, FoldOfText
<1>3. "." \in Special
  BY DEF Special
<1>4. b = Empty <=> c = Empty
  BY <1>1, EmptySeq DEF Empty
<1>5. \A a \in Seq(Syllable) : a = Dot <=> Len(a) = 1 /\ a[1] = "."
  <2> TAKE a \in Seq(Syllable)
  <2>1. a = Dot => Len(a) = 1 /\ a[1] = "."
    BY DEF Dot
  <2>2. ASSUME Len(a) = 1, a[1] = "." PROVE a = Dot
    <3>1. Dot \in Seq(Syllable) /\ Len(Dot) = 1 /\ Dot[1] = "."
      BY SpecialNames DEF Dot, Component
    <3> QED  BY <2>2, <3>1, SeqEqual
  <2> QED  BY <2>1, <2>2
<1>6. \A a \in Seq(Syllable) : a = DotDot <=> Len(a) = 2 /\ a[1] = "." /\ a[2] = "."
  <2> TAKE a \in Seq(Syllable)
  <2>1. a = DotDot => Len(a) = 2 /\ a[1] = "." /\ a[2] = "."
    BY DEF DotDot
  <2>2. ASSUME Len(a) = 2, a[1] = ".", a[2] = "." PROVE a = DotDot
    <3>1. DotDot \in Seq(Syllable) /\ Len(DotDot) = 2 /\ DotDot[1] = "." /\ DotDot[2] = "."
      BY SpecialNames DEF DotDot, Component
    <3> QED  BY <2>2, <3>1, SeqEqual
  <2> QED  BY <2>1, <2>2
<1>7. b = Dot <=> c = Dot
  <2>1. Len(b) = 1 => (b[1] = "." <=> c[1] = ".")
    BY <1>2, <1>3
  <2> QED  BY <1>1, <1>5, <2>1
<1>8. b = DotDot <=> c = DotDot
  <2>1. Len(b) = 2 => (b[1] = "." <=> c[1] = ".") /\ (b[2] = "." <=> c[2] = ".")
    BY <1>2, <1>3
  <2> QED  BY <1>1, <1>6, <2>1
<1>9. b # Empty => \A x \in Special : Last(b) = x <=> Last(c) = x
  <2>1. b # Empty => Len(b) \in 1..Len(b)
    BY <1>1, EmptySeq DEF Empty
  <2> QED  BY <1>1, <1>2, <2>1 DEF Last
<1>10. \A x \in Special : x \in ToSet(b) <=> x \in ToSet(c)
  <2>1. ToSet(b) = {b[i] : i \in 1..Len(b)} /\ ToSet(c) = {c[i] : i \in 1..Len(b)}
    BY <1>1 DEF ToSet
  <2> QED  BY <1>2, <2>1
<1> QED  BY <1>1, <1>4, <1>7, <1>8, <1>9, <1>10

\* Folding works component by component.
LEMMA FoldOfPath ==
    ASSUME NEW p \in Path
    PROVE  /\ FoldPath(p) \in Path /\ Len(FoldPath(p)) = Len(p) /\ DOMAIN FoldPath(p) = DOMAIN p
           /\ \A i \in DOMAIN p : p[i] \in Component /\ FoldPath(p)[i] = FoldText(p[i])
           /\ FoldPath(FoldPath(p)) = FoldPath(p)
           /\ FoldPath(p) = <<>> <=> p = <<>>
<1>1. p \in Seq(Component) /\ Len(p) \in Nat /\ DOMAIN p = 1..Len(p)
  BY DEF Path
<1>2. FoldPath(p) = [i \in 1..Len(p) |-> FoldText(p[i])]
  BY <1>1 DEF FoldPath
<1>3. \A i \in 1..Len(p) : /\ p[i] \in Component /\ FoldText(p[i]) \in Component
                           /\ FoldText(FoldText(p[i])) = FoldText(p[i])
  BY <1>1, FoldOfText
<1>4. FoldPath(p) \in Path /\ Len(FoldPath(p)) = Len(p) /\ DOMAIN FoldPath(p) = 1..Len(p)
  BY <1>1, <1>2, <1>3 DEF Path
<1>5. FoldPath(FoldPath(p)) = [i \in 1..Len(p) |-> FoldText(FoldPath(p)[i])]
  BY <1>4 DEF FoldPath
<1>6. \A i \in 1..Len(p) : FoldPath(p)[i] = FoldText(p[i])
  BY <1>2
<1>7. FoldPath(FoldPath(p)) = FoldPath(p)
  BY <1>2, <1>3, <1>5, <1>6
<1>8. FoldPath(p) = <<>> <=> p = <<>>
  BY <1>1, <1>4, EmptySeq DEF Path
<1> QED  BY <1>1, <1>3, <1>4, <1>6, <1>7, <1>8

\* Two paths that are the same in lower case have the same shape.
LEMMA SameFoldPath ==
    ASSUME NEW p \in Path, NEW q \in Path, FoldPath(p) = FoldPath(q)
    PROVE  /\ Len(p) = Len(q) /\ DOMAIN p = DOMAIN q
           /\ \A i \in DOMAIN p : /\ p[i] \in Component /\ q[i] \in Component
                                  /\ FoldText(p[i]) = FoldText(q[i])
           /\ IsDrive(p) <=> IsDrive(q)
           /\ RootLength(p) = RootLength(q)
           /\ IsRooted(p) <=> IsRooted(q)
           /\ EndsWell(p) <=> EndsWell(q)
<1>1. /\ Len(p) = Len(q) /\ DOMAIN p = DOMAIN q /\ DOMAIN p = 1..Len(p) /\ Len(p) \in Nat
      /\ \A i \in DOMAIN p : /\ p[i] \in Component /\ q[i] \in Component
                             /\ FoldText(p[i]) = FoldText(q[i])
  <2>1. Len(p) = Len(q) /\ DOMAIN p = DOMAIN q
    BY FoldOfPath
  <2> QED  BY <2>1, FoldOfPath DEF Path
<1>2. ASSUME NEW i \in DOMAIN p
      PROVE  /\ \A x \in {Empty, Dot, DotDot} : p[i] = x <=> q[i] = x
             /\ p[i] # Empty => \A x \in Special : Last(p[i]) = x <=> Last(q[i]) = x
             /\ \A x \in Special : x \in ToSet(p[i]) <=> x \in ToSet(q[i])
  BY <1>1, SameFoldText
<1>3. ":" \in Special /\ "." \in Special /\ " " \in Special
  BY DEF Special
<1>4. IsDrive(p) <=> IsDrive(q)
  <2>1. p = <<>> <=> q = <<>>
    BY <1>1, EmptySeq DEF Path
  <2>2. p # <<>> => 1 \in DOMAIN p
    BY <1>1, EmptySeq DEF Path
  <2>3. p # <<>> => (p[1] = Empty <=> q[1] = Empty)
    BY <1>2, <2>2
  <2>4. p # <<>> /\ p[1] # Empty => (Last(p[1]) = ":" <=> Last(q[1]) = ":")
    BY <1>2, <1>3, <2>2
  <2> QED  BY <2>1, <2>3, <2>4 DEF IsDrive
<1>5. RootLength(p) = RootLength(q)
  BY <1>4 DEF RootLength
<1> DEFINE n == RootLength(p)
<1>6. n \in Nat
  BY RootIsShort
<1>7. IsRooted(p) <=> IsRooted(q)
  <2> HIDE DEF n
  <2>1. Len(p) >= n => \A i \in 1..n : i \in DOMAIN p
    BY <1>1, <1>6
  <2>2. Len(p) >= n => \A i \in 1..n : p[i] = Empty <=> q[i] = Empty
    BY <1>2, <2>1
  <2>3. \A i \in DOMAIN p : ":" \in ToSet(p[i]) <=> ":" \in ToSet(q[i])
    BY <1>2, <1>3
  <2>4. (\A i \in DOMAIN p : ":" \in ToSet(p[i]) => i = 1 /\ IsDrive(p))
          <=> (\A i \in DOMAIN q : ":" \in ToSet(q[i]) => i = 1 /\ IsDrive(q))
    BY <1>1, <1>4, <2>3, Zenon
  <2>5. IsRooted(p) <=> /\ Len(p) >= n /\ \A i \in 1..n : p[i] # Empty
                        /\ \A i \in DOMAIN p : ":" \in ToSet(p[i]) => i = 1 /\ IsDrive(p)
    BY DEF IsRooted, n
  <2>6. IsRooted(q) <=> /\ Len(p) >= n /\ \A i \in 1..n : q[i] # Empty
                        /\ \A i \in DOMAIN q : ":" \in ToSet(q[i]) => i = 1 /\ IsDrive(q)
    BY <1>1, <1>5 DEF IsRooted, n
  <2>7. Len(p) >= n => ((\A i \in 1..n : p[i] # Empty) <=> (\A i \in 1..n : q[i] # Empty))
    BY <2>2
  <2> QED  BY <2>4, <2>5, <2>6, <2>7, Zenon
<1>8. EndsWell(p) <=> EndsWell(q)
  <2> DEFINE Well(c) == c \notin {Empty, Dot, DotDot} => Last(c) \notin {".", " "}
  <2>1. \A i \in DOMAIN p : Well(p[i]) <=> Well(q[i])
    BY <1>2, <1>3
  <2> HIDE DEF n
  <2>2. EndsWell(p) <=> \A i \in DOMAIN p : i > n => Well(p[i])
    BY DEF EndsWell, n
  <2>3. EndsWell(q) <=> \A i \in DOMAIN p : i > n => Well(q[i])
    BY <1>1, <1>5 DEF EndsWell, n
  <2> HIDE DEF Well
  <2> QED  BY <2>1, <2>2, <2>3
<1> QED  BY <1>1, <1>4, <1>5, <1>7, <1>8

-----------------------------------------------------------------------------
(* What normalisation returns *)

\* The forms that can be made absolute.
AbsoluteForms == {"drive", "extDrive", "unc", "extUnc", "relative"}

\* No colon but that of the drive.
ColonsWell(path) == \A i \in DOMAIN path : ":" \in ToSet(path[i]) => i = 1 /\ IsDrive(path)

\* IsRooted, said with ColonsWell.
LEMMA RootedByParts ==
    ASSUME NEW path
    PROVE  IsRooted(path) <=> /\ Len(path) >= RootLength(path)
                              /\ \A i \in 1..RootLength(path) : path[i] # Empty
                              /\ ColonsWell(path)
BY DEF IsRooted, ColonsWell

\* What is put after the current directory.
LEMMA BelowCwd ==
    ASSUME NEW parts \in Path
    PROVE  /\ Cwd \o parts \in Path /\ (IsDrive(Cwd \o parts) <=> IsDrive(Cwd))
           /\ Len(Cwd) \in Nat /\ Len(Cwd) >= 1 /\ Len(Cwd \o parts) = Len(Cwd) + Len(parts)
           /\ \A i \in 1..Len(Cwd) : (Cwd \o parts)[i] = Cwd[i]
           /\ \A i \in 1..Len(parts) : (Cwd \o parts)[Len(Cwd) + i] = parts[i]
<1>1. Cwd \in Seq(Component) /\ parts \in Seq(Component) /\ Len(Cwd) >= 1 /\ Len(Cwd) \in Nat
  BY CwdIsRooted, RootIsShort DEF IsRooted, Path
<1> DEFINE p == Cwd \o parts
<1>2. /\ p \in Seq(Component) /\ Len(p) = Len(Cwd) + Len(parts)
      /\ \A i \in 1..Len(p) : p[i] = IF i <= Len(Cwd) THEN Cwd[i] ELSE parts[i - Len(Cwd)]
  BY <1>1, ConcatProperties
<1>3. Len(parts) \in Nat
  BY <1>1
<1> HIDE DEF p
<1>4. \A i \in 1..Len(Cwd) : p[i] = Cwd[i]
  BY <1>1, <1>2, <1>3
<1>5. \A i \in 1..Len(parts) : p[Len(Cwd) + i] = parts[i]
  <2> TAKE i \in 1..Len(parts)
  <2> DEFINE j == Len(Cwd) + i
  <2>1. j \in 1..Len(p) /\ ~(j <= Len(Cwd)) /\ j - Len(Cwd) = i
    BY <1>1, <1>2, <1>3
  <2> HIDE DEF j
  <2>2. p[j] = parts[i]
    BY <1>2, <2>1
  <2> QED  BY <2>2 DEF j
<1>6. IsDrive(p) <=> IsDrive(Cwd)
  <2>1. p # <<>> /\ Cwd # <<>> /\ p[1] = Cwd[1]
    BY <1>1, <1>2, <1>3, <1>4
  <2> QED  BY <1>1, <1>2, <2>1, SameFirstSameRoot DEF Path
<1> QED  BY <1>1, <1>2, <1>4, <1>5, <1>6 DEF p, Path

\* A colon that is refused is one that a rooted path does not have.
LEMMA ColonsAreRefused ==
    ASSUME NEW s \in Spellings, s.form \in AbsoluteForms
    PROVE  /\ Absolute(s) \in Path
           /\ ~has_alternate_data_stream_syntax(s)
              <=> /\ ColonsWell(Absolute(s))
                  /\ s.form \in {"unc", "extUnc"} => ~IsDrive(s.parts)
<1> DEFINE parts == s.parts
           HasColon(c) == ":" \in ToSet(c)
<1>1. parts \in Path /\ s.form \in Forms /\ (s.form \in {"drive", "extDrive"} => IsDrive(parts))
  BY DEF Spellings
<1>2. DOMAIN parts = 1..Len(parts) /\ Len(parts) \in Nat /\ \A i \in DOMAIN parts : parts[i] \in Component
  BY <1>1 DEF Path
<1>3. \A i \in DOMAIN parts : (\E k \in DOMAIN parts[i] : parts[i][k] = ":") <=> HasColon(parts[i])
  <2> TAKE i \in DOMAIN parts
  <2>1. ToSet(parts[i]) = {parts[i][k] : k \in DOMAIN parts[i]}
    BY DEF ToSet
  <2> QED  BY <2>1
<1>4. has_alternate_data_stream_syntax(s)
        <=> \E i \in DOMAIN parts : /\ HasColon(parts[i])
                                    /\ i = 1 => s.form \notin {"drive", "driveRelative", "extDrive"}
  <2> HIDE DEF HasColon
  <2> QED  BY <1>3 DEF has_alternate_data_stream_syntax
<1>5. ColonsWell(Absolute(s)) <=>
         \A i \in DOMAIN Absolute(s) : HasColon(Absolute(s)[i]) => i = 1 /\ IsDrive(Absolute(s))
  BY DEF ColonsWell
<1>6. IsDrive(parts) => 1 \in DOMAIN parts /\ HasColon(parts[1])
  <2> SUFFICES ASSUME IsDrive(parts) PROVE 1 \in DOMAIN parts /\ HasColon(parts[1])
    OBVIOUS
  <2>1. parts # <<>> /\ parts[1] # Empty /\ Last(parts[1]) = ":"
    BY DEF IsDrive
  <2>2. 1 \in DOMAIN parts
    BY <1>1, <1>2, <2>1, EmptySeq DEF Path
  <2>3. parts[1] \in Seq(Syllable)
    BY <1>2, <2>2 DEF Component
  <2>4. Len(parts[1]) \in DOMAIN parts[1]
    BY <2>1, <2>3, EmptySeq DEF Empty
  <2> QED  BY <2>1, <2>2, <2>4 DEF Last, ToSet
<1>7. CASE s.form \in {"drive", "extDrive"}
  <2>1. Absolute(s) = parts /\ IsDrive(parts)
    BY <1>1, <1>7 DEF Absolute
  <2> HIDE DEF HasColon, parts
  <2> QED  BY <1>1, <1>4, <1>5, <1>7, <2>1 DEF parts
<1>8. CASE s.form \in {"unc", "extUnc"}
  <2>1. Absolute(s) = parts
    BY <1>8 DEF Absolute
  <2>2. has_alternate_data_stream_syntax(s) <=> \E i \in DOMAIN parts : HasColon(parts[i])
    <3> HIDE DEF HasColon, parts
    <3> QED  BY <1>4, <1>8
  <2> HIDE DEF HasColon
  <2>3. ~has_alternate_data_stream_syntax(s) <=> ColonsWell(Absolute(s)) /\ ~IsDrive(parts)
    <3> HIDE DEF parts
    <3> QED  BY <1>5, <1>6, <2>1, <2>2
  <2> QED  BY <1>1, <1>8, <2>1, <2>3
<1>9. CASE s.form = "relative"
  <2> DEFINE p == Cwd \o parts
             n == Len(Cwd)
  <2>1. Absolute(s) = p
    BY <1>9 DEF Absolute
  <2>2. /\ p \in Path /\ (IsDrive(p) <=> IsDrive(Cwd))
        /\ n \in Nat /\ n >= 1 /\ Len(p) = n + Len(parts)
        /\ \A i \in 1..n : p[i] = Cwd[i]
        /\ \A i \in 1..Len(parts) : p[n + i] = parts[i]
    <3>1. parts \in Path
      BY <1>1
    <3> HIDE DEF parts
    <3> QED  BY <3>1, BelowCwd
  <2>3. DOMAIN p = 1..n + Len(parts)
    BY <2>2 DEF Path
  <2>4. \A i \in 1..n : HasColon(Cwd[i]) => i = 1 /\ IsDrive(Cwd)
    <3>1. DOMAIN Cwd = 1..n
      BY CwdIsRooted DEF Path
    <3> QED  BY <3>1, CwdIsRooted DEF IsRooted
  <2>5. has_alternate_data_stream_syntax(s) <=> \E i \in DOMAIN parts : HasColon(parts[i])
    <3> HIDE DEF HasColon, parts
    <3> QED  BY <1>4, <1>9
  <2> HIDE DEF HasColon, p, n, parts
  <2>6. ASSUME NEW i \in DOMAIN parts, HasColon(parts[i]) PROVE ~ColonsWell(p)
    <3> PICK j \in Nat : j = n + i
      BY <1>2, <2>2
    <3>1. j \in DOMAIN p /\ p[j] = parts[i] /\ j # 1
      BY <1>2, <2>2, <2>3
    <3> QED  BY <1>5, <2>1, <2>6, <3>1
  <2>7. ASSUME \A i \in DOMAIN parts : ~HasColon(parts[i]) PROVE ColonsWell(p)
    <3>1. ASSUME NEW j \in DOMAIN p, HasColon(p[j]) PROVE j = 1 /\ IsDrive(p)
      <4>1. CASE j <= n
        <5>1. j \in 1..n
          BY <2>3, <4>1
        <5> QED  BY <2>2, <2>4, <3>1, <5>1
      <4>2. CASE j > n
        <5> PICK i \in 1..Len(parts) : n + i = j
          <6>1. j - n \in 1..Len(parts) /\ n + (j - n) = j
            BY <1>2, <2>2, <2>3, <4>2
          <6> QED  BY <6>1
        <5>1. p[j] = parts[i]
          BY <2>2
        <5> QED  BY <1>2, <2>7, <3>1, <5>1
      <4> QED  BY <1>2, <2>2, <2>3, <4>1, <4>2
    <3> QED  BY <1>5, <2>1, <3>1
  <2>8. ~has_alternate_data_stream_syntax(s) <=> ColonsWell(p)
    BY <2>5, <2>6, <2>7
  <2> QED  BY <1>9, <2>1, <2>2, <2>8
<1> QED  BY <1>7, <1>8, <1>9 DEF AbsoluteForms

\* The text of a name becomes what it means, if it means anything.
LEMMA LexicallyIsMeant ==
    ASSUME NEW s \in Spellings
    PROVE  /\ lexically_normal(s) = IF Usable(s) THEN Meant(Absolute(s)) ELSE Invalid
           /\ Usable(s) => Absolute(s) \in Path
<1> DEFINE path == make_absolute(canonicalize_supported_windows_prefix(s.form), s.parts)
<1>1. lexically_normal(s) = IF has_alternate_data_stream_syntax(s) \/ path = Invalid
                            THEN Invalid ELSE collapse_dot_segments(path)
  BY DEF lexically_normal
<1>2. s.form \in Forms
  BY DEF Spellings
<1>3. CASE s.form \notin AbsoluteForms
  <2>1. s.form \in {"driveRelative", "rootRelative", "extOther", "device", "blank"}
    BY <1>2, <1>3 DEF Forms, AbsoluteForms
  <2>2. path = Invalid
    BY <2>1 DEF make_absolute, canonicalize_supported_windows_prefix
  <2>3. ~Usable(s)
    BY <2>1 DEF Usable
  <2> HIDE DEF path
  <2> QED  BY <1>1, <2>2, <2>3
<1>4. CASE s.form \in AbsoluteForms
  <2>1. path = Absolute(s)
    BY <1>4 DEF make_absolute, canonicalize_supported_windows_prefix, Absolute, AbsoluteForms
  <2>2. Absolute(s) \in Path
    BY <1>4, ColonsAreRefused
  <2>3. ~has_alternate_data_stream_syntax(s)
              <=> /\ ColonsWell(Absolute(s))
                  /\ s.form \in {"unc", "extUnc"} => ~IsDrive(s.parts)
    BY <1>4, ColonsAreRefused
  <2> HIDE DEF path
  <2> DEFINE a == Absolute(s)
             full == Len(a) >= RootLength(a) /\ \A i \in 1..RootLength(a) : a[i] # Empty
  <2>4. collapse_dot_segments(a) = IF full /\ EndsWell(a) THEN Meant(a) ELSE Invalid
    BY <2>2, CollapseIsMeant
  <2>5. a = Invalid => ~full
    <3>1. RootLength(a) >= 1 /\ RootLength(a) \in Nat
      BY RootIsShort
    <3>2. a = Invalid => Len(a) = 0
      BY DEF Invalid
    <3> HIDE DEF a
    <3> QED  BY <3>1, <3>2
  <2>6. IsRooted(a) <=> full /\ ColonsWell(a)
    BY RootedByParts
  <2>7. Usable(s) <=> /\ s.form \in {"unc", "extUnc"} => ~IsDrive(s.parts)
                      /\ IsRooted(a) /\ EndsWell(a)
    BY <1>4 DEF Usable, AbsoluteForms
  <2> HIDE DEF a, full
  <2>8. lexically_normal(s) = IF has_alternate_data_stream_syntax(s) \/ a = Invalid
                            THEN Invalid ELSE collapse_dot_segments(a)
    BY <1>1, <2>1 DEF a
  <2>9. lexically_normal(s) = IF Usable(s) THEN Meant(a) ELSE Invalid
    BY <2>3, <2>4, <2>5, <2>6, <2>7, <2>8 DEF a
  <2> QED  BY <2>2, <2>9 DEF a
<1> QED  BY <1>3, <1>4

\* A canonical name that ends well is normal, and normalised already; any other
\* does not normalise.
LEMMA CanonicalName ==
    ASSUME NEW d \in Disks, NEW key \in DOMAIN d.real \ d.links
    PROVE  LET name == d.real[key]
           IN  /\ name \in Path
               /\ collapse_dot_segments(name) = IF EndsWell(name) THEN name ELSE Invalid
               /\ EndsWell(name) => IsNormal(name)
               /\ FoldPath(name) \in DOMAIN d.real \ d.links
               /\ d.real[FoldPath(name)] = name
<1> DEFINE name == d.real[key]
<1>1. /\ name \in Path /\ IsRooted(name)
      /\ \A i \in DOMAIN name : i > RootLength(name) => name[i] \notin {Empty, Dot, DotDot}
      /\ FoldPath(name) \in DOMAIN d.real \ d.links
      /\ d.real[FoldPath(name)] = name
  BY CanonicalNamesAreCanonical
<1> HIDE DEF name
<1>2. EndsWell(name) => IsNormal(name)
  BY <1>1 DEF IsNormal
<1>3. EndsWell(name) => collapse_dot_segments(name) = name
  BY <1>2, NormalIsMeant
<1>4. ~EndsWell(name) => collapse_dot_segments(name) = Invalid
  BY <1>1, CollapseIsMeant
<1> QED  BY <1>1, <1>2, <1>3, <1>4 DEF name

\* Invalid and only Invalid is the same as Invalid in lower case.
LEMMA FoldOfInvalid ==
    FoldPath(Invalid) = Invalid /\ Invalid \in Path /\ \A p \in Path : FoldPath(p) = Invalid => p = Invalid
<1>1. Invalid \in Path
  BY DEF Invalid, Path
<1> QED  BY <1>1, FoldOfPath DEF Invalid

\* What normalize_for_policy calls a spelling, in lower case: what is there and is
\* no link by its own name, anything else by what is said.
Named(d, s) ==
    LET key == Said(s)
    IN  IF ~Usable(s) THEN Invalid
        ELSE IF key \notin DOMAIN d.real \ d.links THEN key
        ELSE IF EndsWell(d.real[key]) THEN FoldPath(d.real[key])
        ELSE Invalid

\* What normalize_for_policy returns is normal, and is that name in some case; it
\* fails if there is none.
LEMMA NormalizeIsNamed ==
    ASSUME NEW d \in Disks, NEW s \in Spellings
    PROVE  LET p == normalize_for_policy(d, s)
           IN  /\ FoldPath(p) = Named(d, s) /\ p \in Path /\ Named(d, s) \in Path
               /\ p # Invalid => IsNormal(p)
               /\ p = Invalid <=> Named(d, s) = Invalid
<1> DEFINE path == lexically_normal(s)
           key == FoldPath(path)
           p == normalize_for_policy(d, s)
<1>1. path = IF Usable(s) THEN Meant(Absolute(s)) ELSE Invalid
  BY LexicallyIsMeant
<1>2. p = IF path # Invalid /\ key \in DOMAIN d.real \ d.links
          THEN collapse_dot_segments(d.real[key]) ELSE path
  BY DEF normalize_for_policy, should_canonicalize_full_path
<1>3. FoldPath(p) = Named(d, s) /\ p \in Path /\ (p # Invalid => IsNormal(p))
  <2>1. CASE ~Usable(s)
    <3>1. path = Invalid /\ Named(d, s) = Invalid
      BY <1>1, <2>1 DEF Named, Said
    <3> HIDE DEF p, path
    <3> QED  BY <1>2, <3>1, FoldOfInvalid
  <2>2. CASE Usable(s)
    <3>1. /\ Absolute(s) \in Path /\ IsRooted(Absolute(s)) /\ EndsWell(Absolute(s))
      BY <2>2, LexicallyIsMeant DEF Usable
    <3>2. path = Meant(Absolute(s))
      BY <1>1, <2>2
    <3>3. IsNormal(path) /\ path # Invalid /\ path \in Path
      <4>1. IsNormal(Meant(Absolute(s))) /\ Meant(Absolute(s)) # Invalid
        BY <3>1, MeantIsNormal
      <4> HIDE DEF path
      <4> QED  BY <3>2, <4>1 DEF IsNormal
    <3>4. Named(d, s) = IF key \notin DOMAIN d.real \ d.links THEN key
                        ELSE IF EndsWell(d.real[key]) THEN FoldPath(d.real[key])
                        ELSE Invalid
      BY <2>2, <3>2 DEF Named, Said
    <3> HIDE DEF p, path, key
    <3>5. CASE key \notin DOMAIN d.real \ d.links
      BY <1>2, <3>3, <3>4, <3>5 DEF key
    <3>6. CASE key \in DOMAIN d.real \ d.links
      <4> DEFINE name == d.real[key]
      <4>1. /\ name \in Path
            /\ collapse_dot_segments(name) = IF EndsWell(name) THEN name ELSE Invalid
            /\ EndsWell(name) => IsNormal(name)
        BY <3>6, CanonicalName
      <4>2. p = collapse_dot_segments(name)
        BY <1>2, <3>3, <3>6
      <4>3. Named(d, s) = IF EndsWell(name) THEN FoldPath(name) ELSE Invalid
        BY <3>4, <3>6
      <4> HIDE DEF name
      <4> QED  BY <4>1, <4>2, <4>3, FoldOfInvalid
    <3> QED  BY <3>5, <3>6
  <2> QED  BY <2>1, <2>2
<1> HIDE DEF p, path, key
<1>4. Named(d, s) \in Path
  BY <1>3, FoldOfPath
<1>5. p = Invalid <=> Named(d, s) = Invalid
  BY <1>3, FoldOfInvalid
<1> QED  BY <1>3, <1>4, <1>5 DEF p

\* The greatest of some of the numbers up to one of them.
LEMMA LastIsMax ==
    ASSUME NEW n \in Nat, NEW S, S \subseteq 1..n, n \in S
    PROVE  Max(S) = n
<1>1. \A y \in S : n >= y
  OBVIOUS
<1>2. Max(S) \in S /\ \A y \in S : Max(S) >= y
  BY <1>1, Zenon DEF Max
<1> DEFINE m == Max(S)
<1> HIDE DEF m
<1>3. m \in S /\ m >= n /\ n >= m
  BY <1>1, <1>2 DEF m
<1>4. m \in 1..n
  BY <1>3
<1>5. m = n
  BY <1>3, <1>4
<1> QED  BY <1>5 DEF m

\* A place that is reached straight is found by asking for the whole name, or not
\* at all.
LEMMA WholeName ==
    ASSUME NEW d \in Disks, NEW key \in DOMAIN d.real \ d.links, key \in Path, key # <<>>
    PROVE  Resolved(d, key, Len(key))
              = IF EndsWell(d.real[key]) THEN FoldPath(d.real[key]) ELSE Invalid
<1> DEFINE n == Len(key)
           known == {i \in 1..n : SubSeq(key, 1, i) \in DOMAIN d.real}
           real == d.real[key]
<1>1. n \in Nat /\ n # 0 /\ SubSeq(key, 1, n) = key /\ SubSeq(key, n + 1, n) = <<>>
  BY DEF Path
<1>2. n \in known /\ known # {}
  <2>1. n \in 1..n /\ SubSeq(key, 1, n) \in DOMAIN d.real
    <3>1. key \in DOMAIN d.real
      OBVIOUS
    <3>2. SubSeq(key, 1, n) = key /\ n \in Nat /\ n # 0
      BY <1>1
    <3>3. SubSeq(key, 1, n) \in DOMAIN d.real
      BY <3>1, <3>2, Zenon
    <3> HIDE DEF n
    <3> QED  BY <3>2, <3>3
  <2> HIDE DEF n
  <2> QED  BY <2>1
<1>3. Max(known) = n
  <2>1. known \subseteq 1..n
    OBVIOUS
  <2> HIDE DEF known, n
  <2> QED  BY <1>1, <1>2, <2>1, LastIsMax
<1>4. real \in Seq(Component)
  BY CanonicalName DEF Path
<1>5. real \o SubSeq(key, n + 1, n) = real
  <2> HIDE DEF real, n
  <2> QED  BY <1>1, <1>4
<1>6. Resolved(d, key, n)
        = LET name == IF known = {} THEN key
                      ELSE d.real[SubSeq(key, 1, Max(known))] \o SubSeq(key, Max(known) + 1, n)
          IN  IF EndsWell(name) THEN FoldPath(name) ELSE Invalid
  BY DEF Resolved
<1>7. d.real[SubSeq(key, 1, Max(known))] \o SubSeq(key, Max(known) + 1, n) = real
  BY <1>1, <1>3, <1>5
<1> HIDE DEF known, n, real
<1> QED  BY <1>2, <1>6, <1>7 DEF n, real

\* What a spelling says is a path, with its root.
LEMMA SaidIsPath ==
    ASSUME NEW s \in Spellings, Usable(s)
    PROVE  Said(s) \in Path /\ Said(s) # <<>>
<1>1. Absolute(s) \in Path /\ IsRooted(Absolute(s)) /\ EndsWell(Absolute(s))
  BY LexicallyIsMeant DEF Usable
<1>2. Meant(Absolute(s)) \in Path /\ Meant(Absolute(s)) # Invalid
  BY <1>1, MeantIsNormal DEF IsNormal
<1>3. FoldPath(Meant(Absolute(s))) \in Path
  BY <1>2, FoldOfPath
<1> QED  BY <1>2, <1>3, FoldOfInvalid DEF Said, Invalid

\* What is there and is no link lies where its own name says.
LEMMA PlaceOfThing ==
    ASSUME NEW d \in Disks, NEW s \in Spellings, Usable(s), Said(s) \in DOMAIN d.real \ d.links
    PROVE  LET name == d.real[Said(s)]
               place == IF EndsWell(name) THEN FoldPath(name) ELSE Invalid
           IN  Place(d, s) = place /\ Extent(d, s) = place
<1> DEFINE key == Said(s)
           place == IF EndsWell(d.real[key]) THEN FoldPath(d.real[key]) ELSE Invalid
<1>1. Place(d, s) = Resolved(d, key, Len(key)) /\ Extent(d, s) = Resolved(d, key, Len(key))
  BY DEF Place, Extent
<1>2. key \in Path /\ key # <<>> /\ key \in DOMAIN d.real \ d.links
  BY SaidIsPath
<1>3. Resolved(d, key, Len(key)) = place
  <2> HIDE DEF key
  <2> QED  BY <1>2, WholeName
<1> QED  BY <1>1, <1>3

\* Straight ways lead to what normalize_for_policy calls the spelling.
LEMMA StraightIsNamed ==
    ASSUME NEW d \in Disks, NEW s \in Spellings, NEW place \in {Place(d, s), Extent(d, s)},
           Straight(d, s, place)
    PROVE  place = Named(d, s)
<1>1. CASE ~Usable(s)
  BY <1>1 DEF Place, Extent, Named
<1>2. CASE Usable(s) /\ Said(s) \in DOMAIN d.real \ d.links
  BY <1>2, PlaceOfThing DEF Named
<1>3. CASE Usable(s) /\ Said(s) \notin DOMAIN d.real \ d.links
  BY <1>3 DEF Named, Straight
<1> QED  BY <1>1, <1>2, <1>3

\* If the way is straight, what normalize_for_policy returns is normal, and says,
\* in some case, where the name leads; it fails if the name means nothing.  The
\* place is that of a link, or the directory an entry stands for.
THEOREM NormalizeIsPlace ==
    ASSUME NEW d \in Disks, NEW s \in Spellings, NEW place \in {Place(d, s), Extent(d, s)},
           Straight(d, s, place)
    PROVE  LET p == normalize_for_policy(d, s)
           IN  /\ FoldPath(p) = place /\ p \in Path /\ place \in Path
               /\ p # Invalid => IsNormal(p)
               /\ p = Invalid <=> place = Invalid
<1>1. place = Named(d, s)
  BY StraightIsNamed
<1> QED  BY <1>1, NormalizeIsNamed

\* A normal path can be taken for a spelling, and means itself.
LEMMA RespelledMeans ==
    ASSUME NEW p, IsNormal(p)
    PROVE  /\ Respelled(p) \in Spellings /\ Usable(Respelled(p))
           /\ Meant(Absolute(Respelled(p))) = p
<1> DEFINE s == Respelled(p)
<1>1. p \in Path /\ IsRooted(p) /\ EndsWell(p)
  BY DEF IsNormal
<1>2. s.parts = p /\ s.form = IF IsDrive(p) THEN "drive" ELSE "unc"
  BY DEF Respelled, Spelling
<1>3. s \in Spellings
  BY <1>1 DEF Respelled, Spelling, Spellings, Forms
<1>4. Absolute(s) = p
  BY <1>2 DEF Absolute
<1>5. Usable(s)
  <2> HIDE DEF s
  <2> QED  BY <1>1, <1>2, <1>4 DEF Usable
<1> HIDE DEF s
<1>6. Meant(Absolute(s)) = p
  BY <1>4, NormalIsMeant
<1> QED  BY <1>3, <1>5, <1>6 DEF s

\* Spellings that say the same lead to the same place.
LEMMA SameSaid ==
    ASSUME NEW s, NEW t, Usable(s) <=> Usable(t), Usable(s) => Said(s) = Said(t)
    PROVE  \A d : /\ Place(d, s) = Place(d, t) /\ Extent(d, s) = Extent(d, t)
                  /\ Named(d, s) = Named(d, t)
                  /\ \A p : Straight(d, s, p) <=> Straight(d, t, p)
BY DEF Place, Extent, Named, Straight

\* Taken for a spelling, a normal path leads where it says, if it is in any case
\* a place that is reached straight.
LEMMA PlaceStays ==
    ASSUME NEW d \in Disks, NEW s \in Spellings, NEW p, IsNormal(p),
           Straight(d, s, Place(d, s)), FoldPath(p) = Place(d, s)
    PROVE  /\ Place(d, Respelled(p)) = Place(d, s)
           /\ Straight(d, Respelled(p), Place(d, Respelled(p)))
<1> DEFINE t == Respelled(p)
<1>1. p \in Path /\ p # Invalid
  BY NormalIsMeant
<1>2. Place(d, s) # Invalid
  BY <1>1, FoldOfInvalid
<1>3. Usable(s)
  BY <1>2 DEF Place
<1>4. t \in Spellings /\ Usable(t) /\ Said(t) = Place(d, s)
  BY RespelledMeans DEF Said
<1> HIDE DEF t
<1>5. CASE Said(s) \in DOMAIN d.real \ d.links
  <2> DEFINE name == d.real[Said(s)]
  <2>1. FoldPath(name) \in DOMAIN d.real \ d.links /\ d.real[FoldPath(name)] = name
    BY <1>5, CanonicalName
  <2>2. EndsWell(name) /\ Place(d, s) = FoldPath(name)
    BY <1>2, <1>3, <1>5, PlaceOfThing
  <2> HIDE DEF name
  <2>3. Said(t) \in DOMAIN d.real \ d.links /\ d.real[Said(t)] = name
    BY <1>4, <2>1, <2>2
  <2>4. Place(d, t) = FoldPath(name)
    BY <1>4, <2>2, <2>3, PlaceOfThing
  <2> QED  BY <2>2, <2>3, <2>4 DEF Straight, t
<1>6. CASE Said(s) \notin DOMAIN d.real \ d.links
  <2>1. Said(s) = Place(d, s)
    BY <1>3, <1>6 DEF Straight
  <2>2. Place(d, t) = Place(d, s)
    BY <1>3, <1>4, <2>1, SameSaid
  <2> QED  BY <1>4, <2>2 DEF Straight, t
<1> QED  BY <1>5, <1>6

\* What has been normalised is not changed by being normalised again, as long as
\* the disk keeps still.
THEOREM NormalizeStays ==
    ASSUME NEW d \in Disks, NEW s \in Spellings, normalize_for_policy(d, s) # Invalid
    PROVE  normalize_for_policy(d, Respelled(normalize_for_policy(d, s))) = normalize_for_policy(d, s)
<1> DEFINE path == lexically_normal(s)
           key == FoldPath(path)
           p == normalize_for_policy(d, s)
<1>1. p = IF path # Invalid /\ key \in DOMAIN d.real \ d.links
          THEN collapse_dot_segments(d.real[key]) ELSE path
  BY DEF normalize_for_policy, should_canonicalize_full_path
<1>2. IsNormal(p)
  BY NormalizeIsNamed
<1>3. lexically_normal(Respelled(p)) = p
  <2> HIDE DEF p
  <2> QED  BY <1>2, RespelledMeans, LexicallyIsMeant
<1>4. normalize_for_policy(d, Respelled(p)) =
         IF FoldPath(p) \in DOMAIN d.real \ d.links
         THEN collapse_dot_segments(d.real[FoldPath(p)]) ELSE p
  <2>1. p # Invalid
    OBVIOUS
  <2> HIDE DEF p
  <2> QED  BY <1>3, <2>1 DEF normalize_for_policy, should_canonicalize_full_path
<1>5. p # Invalid
  OBVIOUS
<1> HIDE DEF p, path
<1>6. CASE path # Invalid /\ key \in DOMAIN d.real \ d.links
  <2> DEFINE name == d.real[key]
  <2>1. /\ collapse_dot_segments(name) = IF EndsWell(name) THEN name ELSE Invalid
        /\ FoldPath(name) \in DOMAIN d.real \ d.links /\ d.real[FoldPath(name)] = name
    BY <1>6, CanonicalName
  <2> HIDE DEF key
  <2>2. p = collapse_dot_segments(name)
    BY <1>1, <1>6
  <2> HIDE DEF name
  <2>3. normalize_for_policy(d, Respelled(p)) = p
    BY <1>4, <1>5, <2>1, <2>2
  <2> QED  BY <2>3 DEF p
<1>7. CASE ~(path # Invalid /\ key \in DOMAIN d.real \ d.links)
  BY <1>1, <1>4, <1>5, <1>7 DEF p, key
<1> QED  BY <1>6, <1>7 DEF p

-----------------------------------------------------------------------------
(* Texts *)

\* FlattenSeq puts one sequence after the other.
LEMMA FlattenByRounds ==
    ASSUME NEW V, NEW seqs \in Seq(Seq(V))
    PROVE  \E g \in [0..Len(seqs) -> Seq(V)] :
              /\ g[0] = <<>>
              /\ \A k \in 1..Len(seqs) : g[k] = g[k - 1] \o seqs[k]
              /\ FlattenSeq(seqs) = g[Len(seqs)]
<1> DEFINE N == Len(seqs)
           Rounds(f) == [i \in 1..N |-> IF i = 1 THEN seqs[i] ELSE f[i - 1] \o seqs[i]]
           step == [p \in (1..N) \X Seq(V) |-> p[2] \o seqs[p[1]]]
<1>1. N \in Nat /\ <<>> \in Seq(V) /\ \A k \in 1..N : seqs[k] \in Seq(V)
  OBVIOUS
<1>2. step \in [(1..N) \X Seq(V) -> Seq(V)]
  <2>1. ASSUME NEW p \in (1..N) \X Seq(V) PROVE p[2] \o seqs[p[1]] \in Seq(V)
    <3>1. p[2] \in Seq(V) /\ seqs[p[1]] \in Seq(V)
      BY <1>1
    <3> QED  BY <3>1, ConcatProperties
  <2> QED  BY <2>1
<1>3. PICK g \in [0..N -> Seq(V)] : g[0] = <<>> /\ \A k \in 1..N : g[k] = step[<<k, g[k - 1]>>]
  <2> HIDE DEF N, step
  <2>1. \E g \in [0..N -> Seq(V)] : GoesBy(g, N, <<>>, step)
    BY <1>1, <1>2, Recursion
  <2> QED  BY <2>1 DEF GoesBy
<1>4. ASSUME NEW k \in 1..N PROVE g[k] = g[k - 1] \o seqs[k]
  <2>1. k - 1 \in 0..N
    BY <1>1
  <2>2. <<k, g[k - 1]>> \in (1..N) \X Seq(V)
    BY <1>3, <2>1
  <2> QED  BY <1>3, <2>2
<1>5. CASE N = 0
  <2>1. seqs = <<>> /\ FlattenSeq(seqs) = seqs
    BY <1>5, EmptySeq DEF FlattenSeq
  <2> HIDE DEF step
  <2> QED  BY <1>3, <1>4, <1>5, <2>1
<1>6. CASE N # 0
  <2> DEFINE h == [i \in 1..N |-> g[i]]
  <2>1. h = Rounds(h)
    <3>1. ASSUME NEW i \in 1..N PROVE h[i] = IF i = 1 THEN seqs[i] ELSE h[i - 1] \o seqs[i]
      <4>1. g[i] = g[i - 1] \o seqs[i]
        BY <1>4
      <4>2. CASE i = 1
        <5>1. g[i] = <<>> \o seqs[i]
          <6>1. i - 1 = 0
            BY <4>2
          <6> QED  BY <1>3, <4>1, <6>1
        <5>2. <<>> \o seqs[i] = seqs[i]
          BY <1>1, ConcatEmptySeq
        <5> QED  BY <4>2, <5>1, <5>2
      <4>3. CASE i # 1
        <5>1. i - 1 \in 1..N
          BY <1>1, <4>3
        <5> HIDE DEF N
        <5> QED  BY <4>1, <4>3, <5>1
      <4> QED  BY <4>2, <4>3
    <3> QED  BY <3>1
  <2> DEFINE flatten == CHOOSE f : f = Rounds(f)
  <2>2. flatten = Rounds(flatten)
    <3> HIDE DEF Rounds, h
    <3> QED  BY <2>1
  <2>3. FlattenSeq(seqs) = flatten[N]
    BY <1>6 DEF FlattenSeq
  <2>4. \A i \in 1..N : flatten[i] = IF i = 1 THEN seqs[i] ELSE flatten[i - 1] \o seqs[i]
    <3> HIDE DEF flatten
    <3> QED  BY <2>2
  <2> DEFINE S == {k \in 0..N : k = 0 \/ flatten[k] = g[k]}
  <2> HIDE DEF flatten
  <2>5. 0 \in S
    BY <1>1
  <2>6. ASSUME NEW k \in 0..N - 1, k \in S PROVE k + 1 \in S
    <3> PICK j \in 1..N : j = k + 1 /\ j - 1 = k
      BY <1>1, <2>6
    <3>1. g[j] = g[k] \o seqs[j]
      <4>1. g[j] = g[j - 1] \o seqs[j]
        BY <1>4
      <4> QED  BY <4>1
    <3>2. flatten[j] = g[j]
      <4>1. CASE k = 0
        <5>1. j = 1
          BY <4>1
        <5>2. flatten[j] = seqs[j]
          BY <2>4, <5>1
        <5>3. <<>> \o seqs[j] = seqs[j]
          BY <1>1, ConcatEmptySeq
        <5> QED  BY <1>3, <3>1, <4>1, <5>2, <5>3
      <4>2. CASE k # 0
        <5>1. j # 1
          BY <2>6, <4>2
        <5>2. flatten[j] = flatten[j - 1] \o seqs[j]
          BY <2>4, <5>1
        <5>3. flatten[k] = g[k]
          BY <2>6, <4>2
        <5> QED  BY <3>1, <5>2, <5>3
      <4> QED  BY <4>1, <4>2
    <3>3. j \in S
      BY <1>1, <3>2
    <3> HIDE DEF S
    <3> QED  BY <3>3
  <2> HIDE DEF S
  <2>7. 0..N \subseteq S
    BY <1>1, <2>5, <2>6, EveryNumberTo
  <2>8. flatten[N] = g[N]
    BY <1>1, <1>6, <2>7 DEF S
  <2> HIDE DEF N, step
  <2> QED  BY <1>3, <1>4, <2>3, <2>8 DEF N
<1> QED  BY <1>5, <1>6

\* The first n elements, as a sequence.
LEMMA FirstElements ==
    ASSUME NEW V, NEW t \in Seq(V), NEW n \in Nat, n <= Len(t)
    PROVE  /\ SubSeq(t, 1, n) \in Seq(V) /\ Len(SubSeq(t, 1, n)) = n
           /\ \A i \in 1..n : SubSeq(t, 1, n)[i] = t[i]
<1>1. \A i \in 1..n : t[i] \in V
  OBVIOUS
<1>2. /\ SubSeq(t, 1, n) \in Seq(V)
      /\ Len(SubSeq(t, 1, n)) = IF 1 <= n THEN n - 1 + 1 ELSE 0
      /\ \A i \in 1..n - 1 + 1 : SubSeq(t, 1, n)[i] = t[1 + i - 1]
  <2>1. n \in Int /\ 1 \in Int
    OBVIOUS
  <2> QED  BY <1>1, <2>1, SubSeqProperties
<1>3. Len(SubSeq(t, 1, n)) = n
  BY <1>2
<1>4. \A i \in 1..n : SubSeq(t, 1, n)[i] = t[i]
  <2> TAKE i \in 1..n
  <2>1. i \in 1..n - 1 + 1 /\ 1 + i - 1 = i
    OBVIOUS
  <2> QED  BY <1>2, <2>1
<1> QED  BY <1>2, <1>3, <1>4

\* Two sequences begin alike if their elements do.
LEMMA SubSeqByElements ==
    ASSUME NEW V, NEW s \in Seq(V), NEW t \in Seq(V), NEW n \in Nat, n <= Len(s), n <= Len(t)
    PROVE  SubSeq(s, 1, n) = SubSeq(t, 1, n) <=> \A i \in 1..n : s[i] = t[i]
<1> DEFINE u == SubSeq(s, 1, n)
           v == SubSeq(t, 1, n)
<1>1. u \in Seq(V) /\ Len(u) = n /\ \A i \in 1..n : u[i] = s[i]
  BY FirstElements
<1>2. v \in Seq(V) /\ Len(v) = n /\ \A i \in 1..n : v[i] = t[i]
  BY FirstElements
<1> HIDE DEF u, v
<1>3. u = v <=> \A i \in 1..n : u[i] = v[i]
  BY <1>1, <1>2, SeqEqual
<1>4. u = v <=> \A i \in 1..n : s[i] = t[i]
  BY <1>1, <1>2, <1>3
<1> QED  BY <1>4 DEF u, v

\* A sequence is a prefix of another if the elements agree.
LEMMA PrefixByElements ==
    ASSUME NEW V, NEW s \in Seq(V), NEW t \in Seq(V)
    PROVE  IsPrefix(s, t) <=> Len(s) <= Len(t) /\ \A i \in 1..Len(s) : s[i] = t[i]
<1>1. Len(s) \in Nat /\ Len(s) <= Len(s)
  OBVIOUS
<1>2. Len(s) <= Len(t) => (SubSeq(s, 1, Len(s)) = SubSeq(t, 1, Len(s)) <=> \A i \in 1..Len(s) : s[i] = t[i])
  BY <1>1, SubSeqByElements
<1> QED  BY <1>2 DEF IsPrefix

\* Where the components of a path end in its text.
Char == {Sep} \cup Syllable
Ends(e, p) ==
    /\ e \in [0..Len(p) -> Nat] /\ e[0] = 0
    /\ \A k \in 1..Len(p) : e[k] = e[k - 1] + 1 + Len(p[k])

\* t is the text of the first k components: each is a separator and, one place
\* further on, the component in lower case.
LaidOut(t, p, k, e) ==
    /\ Len(t) = e[k]
    /\ \A m \in 1..k : /\ e[m] <= e[k]
                       /\ t[e[m - 1] + 1] = Sep
                       /\ \A j \in 1..Len(p[m]) : t[e[m - 1] + 1 + j] = FoldText(p[m])[j]
    /\ \A i \in 1..e[k] : \E m \in 1..k : \E j \in 0..Len(p[m]) : i = e[m - 1] + 1 + j

\* How far one component reaches.
LEMMA EndsStep ==
    ASSUME NEW p \in Path, NEW e, Ends(e, p), NEW m \in 1..Len(p)
    PROVE  /\ e[m - 1] \in Nat /\ Len(p[m]) \in Nat /\ e[m] = e[m - 1] + 1 + Len(p[m])
           /\ e[m] \in Nat
<1>1. Len(p) \in Nat /\ p[m] \in Seq(Syllable)
  BY DEF Path, Component
<1>2. m - 1 \in 0..Len(p) /\ m \in 0..Len(p)
  BY <1>1
<1>3. e \in [0..Len(p) -> Nat]
  BY DEF Ends
<1>4. e[m] = e[m - 1] + 1 + Len(p[m])
  BY Zenon DEF Ends
<1>5. e[m - 1] \in Nat /\ e[m] \in Nat
  BY <1>2, <1>3, Zenon
<1>6. Len(p[m]) \in Nat
  BY <1>1
<1> QED  BY <1>4, <1>5, <1>6

\* One component more.
LEMMA LaidOutNext ==
    ASSUME NEW p \in Path, NEW e, Ends(e, p), NEW k \in 0..Len(p) - 1, NEW l \in 1..Len(p), k < l, l <= k + 1,
           NEW t \in Seq(Char), LaidOut(t, p, k, e)
    PROVE  /\ t \o (<<Sep>> \o FoldText(p[l])) \in Seq(Char)
           /\ LaidOut(t \o (<<Sep>> \o FoldText(p[l])), p, l, e)
<1> DEFINE c == FoldText(p[l])
           name == <<Sep>> \o c
           u == t \o name
           h == e[k]
           w == Len(c)
<1>1. /\ p[l] \in Component /\ c \in Seq(Char) /\ w \in Nat /\ w = Len(p[l]) /\ k \in Nat /\ l \in Nat
      /\ Len(p) \in Nat
  <2>1. p[l] \in Component
    BY DEF Path
  <2>2. c \in Seq(Syllable) /\ w = Len(p[l])
    BY <2>1, FoldOfText DEF Component
  <2> QED  BY <2>1, <2>2 DEF Char, Path
<1>2. /\ name \in Seq(Char) /\ Len(name) = w + 1 /\ name[1] = Sep
      /\ \A j \in 1..w : name[j + 1] = c[j]
  <2>1. <<Sep>> \in Seq(Char) /\ Len(<<Sep>>) = 1 /\ <<Sep>>[1] = Sep
    BY DEF Char
  <2> HIDE DEF c
  <2>2. /\ name \in Seq(Char) /\ Len(name) = 1 + w
        /\ \A i \in 1..1 + w : name[i] = IF i <= 1 THEN <<Sep>>[i] ELSE c[i - 1]
    BY <1>1, <2>1, ConcatProperties
  <2> HIDE DEF name, w
  <2>3. \A j \in 1..w : name[j + 1] = c[j]
    <3> TAKE j \in 1..w
    <3> PICK i \in 1..1 + w : i = j + 1 /\ i - 1 = j /\ ~(i <= 1)
      BY <1>1
    <3>1. name[i] = c[i - 1]
      BY <2>2
    <3>2. name[i] = c[j]
      BY <3>1
    <3> QED  BY <3>2
  <2>4. name[1] = Sep
    BY <1>1, <2>1, <2>2
  <2> QED  BY <1>1, <2>2, <2>3, <2>4
<1>3. h \in Nat /\ Len(t) = h /\ e[l] = h + 1 + w
  <2>1. k \in 0..Len(p) /\ l - 1 = k
    BY <1>1
  <2>2. e[l] = e[l - 1] + 1 + Len(p[l]) /\ e[l - 1] \in Nat
    BY EndsStep
  <2>3. e[l - 1] = h
    BY <2>1
  <2> QED  BY <1>1, <2>2, <2>3 DEF LaidOut
<1> HIDE DEF name, c, w, h
<1>4. /\ u \in Seq(Char) /\ Len(u) = h + (w + 1)
      /\ \A i \in 1..h + (w + 1) : u[i] = IF i <= h THEN t[i] ELSE name[i - h]
  <2>1. /\ u \in Seq(Char) /\ Len(u) = Len(t) + Len(name)
        /\ \A i \in 1..Len(t) + Len(name) : u[i] = IF i <= Len(t) THEN t[i] ELSE name[i - Len(t)]
    BY <1>2, ConcatProperties
  <2>2. Len(t) = h /\ Len(name) = w + 1
    BY <1>2, <1>3
  <2> HIDE DEF u
  <2> QED  BY <2>1, <2>2
<1> HIDE DEF u
<1>11. h \in Nat /\ w \in Nat /\ k \in Nat /\ l \in Nat /\ e[l] = h + 1 + w
  BY <1>1, <1>3
<1>5. \A i \in 1..h : u[i] = t[i]
  <2>2. ASSUME NEW i \in 1..h PROVE u[i] = t[i]
    <3>1. i \in 1..h + (w + 1) /\ i <= h
      BY <1>11
    <3> QED  BY <1>4, <3>1
  <2> QED  BY <2>2
<1>6. \A j \in 1..w + 1 : u[h + j] = name[j]
  <2> TAKE j \in 1..w + 1
  <2> PICK i \in 1..h + (w + 1) : i = h + j /\ ~(i <= h) /\ i - h = j
    BY <1>11
  <2>1. u[i] = name[i - h]
    BY <1>4
  <2>2. u[i] = name[j]
    BY <2>1
  <2> QED  BY <2>2
<1>7. Len(u) = e[l]
  <2>1. Len(u) = h + (w + 1)
    BY <1>4
  <2> QED  BY <1>11, <2>1
<1>8. ASSUME NEW m \in 1..l
      PROVE  /\ e[m] <= e[l]
             /\ u[e[m - 1] + 1] = Sep
             /\ \A j \in 1..Len(p[m]) : u[e[m - 1] + 1 + j] = FoldText(p[m])[j]
  <2>1. CASE m = l
    <3>1. e[m - 1] = h
      <4>1. m - 1 = k
        BY <1>1, <2>1
      <4> QED  BY <4>1 DEF h
    <3>2. u[h + 1] = Sep
      BY <1>1, <1>2, <1>6
    <3>3. \A j \in 1..w : u[h + 1 + j] = c[j]
      <4> TAKE j \in 1..w
      <4> PICK i \in 1..w + 1 : i = j + 1 /\ h + i = h + 1 + j
        BY <1>11
      <4>1. u[h + i] = name[i]
        BY <1>6
      <4>2. name[i] = c[j]
        BY <1>2
      <4> QED  BY <4>1, <4>2
    <3>4. e[m] <= e[l]
      BY <1>11, <2>1
    <3> QED  BY <1>1, <2>1, <3>1, <3>2, <3>3, <3>4 DEF c
  <2>2. CASE m \in 1..k
    <3>1. /\ e[m] <= h /\ t[e[m - 1] + 1] = Sep
          /\ \A j \in 1..Len(p[m]) : t[e[m - 1] + 1 + j] = FoldText(p[m])[j]
      BY <2>2 DEF LaidOut, h
    <3> DEFINE b == e[m - 1]
               v == Len(p[m])
    <3>2. b \in Nat /\ v \in Nat /\ e[m] = b + 1 + v
      <4>1. m \in 1..Len(p) /\ m - 1 \in 0..Len(p)
        BY <1>1, <2>2
      <4> QED  BY <4>1, EndsStep
    <3> HIDE DEF b, v
    <3>7. h \in Nat /\ b + 1 + v <= h
      BY <1>11, <3>1, <3>2
    <3>3. \A j \in 0..v : b + 1 + j \in 1..h
      BY <3>2, <3>7
    <3>4. u[b + 1] = Sep
      <4>1. b + 1 \in 1..h
        BY <3>2, <3>7
      <4> QED  BY <1>5, <3>1, <4>1 DEF b
    <3>5. \A j \in 1..v : u[b + 1 + j] = FoldText(p[m])[j]
      <4> TAKE j \in 1..v
      <4>1. b + 1 + j \in 1..h
        <5>1. j \in 0..v
          BY <3>2
        <5> QED  BY <3>3, <5>1
      <4>2. t[b + 1 + j] = FoldText(p[m])[j]
        BY <3>1 DEF b, v
      <4> PICK i \in 1..h : i = b + 1 + j
        BY <4>1
      <4>3. u[i] = t[i]
        BY <1>5
      <4> QED  BY <4>2, <4>3
    <3>6. e[m] <= e[l]
      <4>1. e[m] <= h
        BY <3>1
      <4> QED  BY <1>11, <3>2, <4>1
    <3> QED  BY <3>4, <3>5, <3>6 DEF b, v
  <2> QED  BY <1>1, <2>1, <2>2
<1>9. ASSUME NEW i \in 1..e[l] PROVE \E m \in 1..l : \E j \in 0..Len(p[m]) : i = e[m - 1] + 1 + j
  <2>1. CASE i <= h
    <3>1. i \in 1..h
      BY <1>11, <2>1
    <3>2. PICK m \in 1..k : \E j \in 0..Len(p[m]) : i = e[m - 1] + 1 + j
      BY <3>1 DEF LaidOut, h
    <3>3. m \in 1..l
      BY <1>1
    <3> QED  BY <3>2, <3>3
  <2>2. CASE i > h
    <3>1. PICK j \in 0..w : i = h + 1 + j
      <4>1. i - (h + 1) \in 0..w /\ i = h + 1 + (i - (h + 1))
        BY <1>11, <2>2
      <4> QED  BY <4>1
    <3>2. l - 1 = k /\ l \in 1..l
      BY <1>1
    <3>3. i = e[l - 1] + 1 + j
      BY <3>1, <3>2 DEF h
    <3> QED  BY <1>1, <3>2, <3>3
  <2> QED  BY <1>11, <2>1, <2>2
<1>10. LaidOut(u, p, l, e)
  BY <1>7, <1>8, <1>9 DEF LaidOut
<1> QED  BY <1>4, <1>10 DEF u, name, c

\* The text of a path is laid out so.
LEMMA TextLaidOut ==
    ASSUME NEW p \in Path
    PROVE  Text(p) \in Seq(Char) /\ \E e : Ends(e, p) /\ LaidOut(Text(p), p, Len(p), e)
<1> DEFINE N == Len(p)
           seqs == [i \in DOMAIN p |-> <<Sep>> \o FoldText(p[i])]
           step == [x \in (1..N) \X Nat |-> x[2] + 1 + Len(p[x[1]])]
<1>1. N \in Nat /\ DOMAIN p = 1..N /\ \A k \in 1..N : p[k] \in Component /\ Len(p[k]) \in Nat
  BY DEF Path, Component
<1>2. seqs \in Seq(Seq(Char)) /\ Len(seqs) = N
  <2>1. ASSUME NEW i \in 1..N PROVE <<Sep>> \o FoldText(p[i]) \in Seq(Char)
    <3>1. FoldText(p[i]) \in Seq(Syllable)
      BY <1>1, FoldOfText DEF Component
    <3>2. FoldText(p[i]) \in Seq(Char) /\ <<Sep>> \in Seq(Char)
      BY <3>1 DEF Char
    <3> HIDE DEF N
    <3> QED  BY <3>2, ConcatProperties
  <2> QED  BY <1>1, <2>1
<1>3. PICK g \in [0..N -> Seq(Char)] :
              /\ g[0] = <<>>
              /\ \A k \in 1..N : g[k] = g[k - 1] \o seqs[k]
              /\ Text(p) = g[N]
  <2>1. Text(p) = FlattenSeq(seqs)
    BY DEF Text
  <2> HIDE DEF seqs, N
  <2> QED  BY <1>2, <2>1, FlattenByRounds
<1>4. \E e : Ends(e, p)
  <2>1. step \in [(1..N) \X Nat -> Nat]
    BY <1>1
  <2>2. PICK e \in [0..N -> Nat] : e[0] = 0 /\ \A k \in 1..N : e[k] = step[<<k, e[k - 1]>>]
    <3> HIDE DEF N, step
    <3>1. \E e \in [0..N -> Nat] : GoesBy(e, N, 0, step)
      BY <1>1, <2>1, Recursion
    <3> QED  BY <3>1 DEF GoesBy
  <2>3. ASSUME NEW k \in 1..N PROVE e[k] = e[k - 1] + 1 + Len(p[k])
    <3>1. k - 1 \in 0..N
      BY <1>1
    <3>2. <<k, e[k - 1]>> \in (1..N) \X Nat
      BY <2>2, <3>1
    <3> QED  BY <2>2, <3>2
  <2> QED  BY <2>2, <2>3 DEF Ends
<1>5. PICK e : Ends(e, p)
  BY <1>4
<1> DEFINE S == {k \in 0..N : LaidOut(g[k], p, k, e)}
<1>6. 0 \in S
  <2>1. g[0] = <<>> /\ e[0] = 0 /\ Len(g[0]) = 0 /\ 1..0 = {}
    BY <1>3, <1>5 DEF Ends
  <2> QED  BY <1>1, <2>1 DEF LaidOut
<1>7. ASSUME NEW k \in 0..N - 1, k \in S PROVE k + 1 \in S
  <2> DEFINE l == k + 1
  <2>1. l \in 1..N /\ l - 1 = k /\ k < l /\ l <= k + 1 /\ l \in 0..N /\ k \in 0..N
    BY <1>1
  <2>2. LaidOut(g[k], p, k, e) /\ g[k] \in Seq(Char)
    BY <1>3, <1>7, <2>1
  <2> HIDE DEF l
  <2>3. g[l] = g[k] \o (<<Sep>> \o FoldText(p[l]))
    <3>1. g[l] = g[l - 1] \o seqs[l]
      BY <1>3, <2>1
    <3>2. seqs[l] = <<Sep>> \o FoldText(p[l])
      BY <1>1, <2>1
    <3> HIDE DEF seqs
    <3> QED  BY <2>1, <3>1, <3>2
  <2>4. LaidOut(g[k] \o (<<Sep>> \o FoldText(p[l])), p, l, e)
    <3> HIDE DEF S
    <3> QED  BY <1>5, <2>1, <2>2, LaidOutNext
  <2>5. l \in S
    BY <2>1, <2>3, <2>4
  <2> QED  BY <2>5 DEF l
<1>8. N \in S
  <2> HIDE DEF S
  <2>1. 0..N \subseteq S
    BY <1>1, <1>6, <1>7, EveryNumberTo
  <2> QED  BY <1>1, <2>1
<1>9. LaidOut(Text(p), p, N, e) /\ Text(p) \in Seq(Char)
  BY <1>1, <1>3, <1>8
<1> QED  BY <1>5, <1>9

\* A component has its letters between its separator and the next, or the end.
LEMMA ComponentInText ==
    ASSUME NEW p \in Path, NEW e, Ends(e, p), NEW t \in Seq(Char), LaidOut(t, p, Len(p), e),
           NEW l \in 1..Len(p)
    PROVE  /\ e[l - 1] \in Nat /\ Len(p[l]) \in Nat /\ e[l] = e[l - 1] + 1 + Len(p[l])
           /\ e[l] <= Len(t) /\ Len(t) \in Nat
           /\ t[e[l - 1] + 1] = Sep
           /\ \A j \in 1..Len(p[l]) : /\ t[e[l - 1] + 1 + j] = FoldText(p[l])[j]
                                      /\ t[e[l - 1] + 1 + j] # Sep
           /\ l = Len(p) => Len(t) = e[l]
           /\ l # Len(p) => t[e[l] + 1] = Sep /\ e[l] + 1 <= Len(t)
<1>1. Len(p) \in Nat /\ p[l] \in Component /\ Len(t) \in Nat
  BY DEF Path
<1>2. e[l - 1] \in Nat /\ Len(p[l]) \in Nat /\ e[l] = e[l - 1] + 1 + Len(p[l])
  BY EndsStep
<1>3. /\ e[l] <= Len(t) /\ t[e[l - 1] + 1] = Sep
      /\ \A j \in 1..Len(p[l]) : t[e[l - 1] + 1 + j] = FoldText(p[l])[j]
  <2>1. Len(t) = e[Len(p)]
    BY DEF LaidOut
  <2>2. e[l] <= e[Len(p)] /\ t[e[l - 1] + 1] = Sep
        /\ \A j \in 1..Len(p[l]) : t[e[l - 1] + 1 + j] = FoldText(p[l])[j]
    BY Zenon DEF LaidOut
  <2> QED  BY <2>1, <2>2, Zenon
<1>4. \A j \in 1..Len(p[l]) : FoldText(p[l])[j] # Sep
  <2>1. FoldText(p[l]) \in Seq(Syllable) /\ Len(FoldText(p[l])) = Len(p[l])
    BY <1>1, FoldOfText DEF Component
  <2>2. \A j \in 1..Len(p[l]) : FoldText(p[l])[j] \in Syllable
    BY <2>1
  <2> QED  BY <2>2, FoldLowersLetters
<1>5. l = Len(p) => Len(t) = e[l]
  BY Zenon DEF LaidOut
<1>6. ASSUME l # Len(p) PROVE t[e[l] + 1] = Sep /\ e[l] + 1 <= Len(t)
  <2> PICK m \in 1..Len(p) : m - 1 = l
    <3>1. l + 1 \in 1..Len(p) /\ (l + 1) - 1 = l
      BY <1>1, <1>6
    <3> QED  BY <3>1
  <2>1. e[m - 1] \in Nat /\ Len(p[m]) \in Nat /\ e[m] = e[m - 1] + 1 + Len(p[m]) /\ e[m] \in Nat
    BY EndsStep
  <2>2. t[e[m - 1] + 1] = Sep /\ e[m] <= e[Len(p)] /\ Len(t) = e[Len(p)]
    BY Zenon DEF LaidOut
  <2>3. e[m - 1] = e[l]
    OBVIOUS
  <2>4. e[m] <= Len(t)
    BY <2>2
  <2>5. e[l] + 1 <= Len(t)
    BY <1>1, <2>1, <2>3, <2>4
  <2> QED  BY <2>2, <2>3, <2>5
<1> QED  BY <1>1, <1>2, <1>3, <1>4, <1>5, <1>6, Zenon

\* u goes on, if it does, with a separator where t ends.
Leads(t, u) ==
    /\ Len(t) <= Len(u) /\ \A i \in 1..Len(t) : u[i] = t[i]
    /\ Len(t) < Len(u) => u[Len(t) + 1] = Sep

\* This is what path_has_component_prefix asks of the texts.
LEMMA LeadsByPrefix ==
    ASSUME NEW t \in Seq(Char), NEW u \in Seq(Char)
    PROVE  (u = t \/ IsPrefix(t \o <<Sep>>, u)) <=> Leads(t, u)
<1> DEFINE s == t \o <<Sep>>
           n == Len(t)
<1>1. n \in Nat /\ Len(u) \in Nat
  OBVIOUS
<1>2. /\ s \in Seq(Char) /\ Len(s) = n + 1 /\ s[n + 1] = Sep
      /\ \A i \in 1..n : s[i] = t[i]
  <2>1. <<Sep>> \in Seq(Char) /\ Len(<<Sep>>) = 1 /\ <<Sep>>[1] = Sep
    BY DEF Char
  <2>2. /\ s \in Seq(Char) /\ Len(s) = n + Len(<<Sep>>)
        /\ \A i \in 1..n + Len(<<Sep>>) : s[i] = IF i <= n THEN t[i] ELSE <<Sep>>[i - n]
    BY <2>1, ConcatProperties
  <2> HIDE DEF s, n
  <2> QED  BY <1>1, <2>1, <2>2
<1> HIDE DEF s
<1>3. IsPrefix(s, u) <=> Len(s) <= Len(u) /\ \A i \in 1..Len(s) : s[i] = u[i]
  BY <1>2, PrefixByElements
<1>4. IsPrefix(s, u) <=> n + 1 <= Len(u) /\ (\A i \in 1..n : t[i] = u[i]) /\ u[n + 1] = Sep
  <2> HIDE DEF n
  <2>1. 1..n + 1 = (1..n) \cup {n + 1}
    BY <1>1
  <2>2. (\A i \in 1..n + 1 : s[i] = u[i]) <=> (\A i \in 1..n : t[i] = u[i]) /\ u[n + 1] = Sep
    BY <1>2, <2>1
  <2> QED  BY <1>2, <1>3, <2>2
<1>5. u = t <=> Len(u) = n /\ \A i \in 1..n : t[i] = u[i]
  <2>1. u = t => Len(u) = n /\ \A i \in 1..n : t[i] = u[i]
    OBVIOUS
  <2>2. ASSUME Len(u) = n, \A i \in 1..n : t[i] = u[i] PROVE u = t
    BY <2>2, SeqEqual
  <2> QED  BY <2>1, <2>2
<1>6. Leads(t, u) <=> /\ n <= Len(u) /\ \A i \in 1..n : u[i] = t[i]
                      /\ n < Len(u) => u[n + 1] = Sep
  BY DEF Leads
<1>7. n <= Len(u) <=> Len(u) = n \/ n + 1 <= Len(u)
  BY <1>1
<1>8. n < Len(u) <=> n + 1 <= Len(u)
  BY <1>1
<1>9. Len(u) = n => ~(n + 1 <= Len(u))
  BY <1>1
<1> HIDE DEF n
<1>10. (\A i \in 1..n : u[i] = t[i]) <=> (\A i \in 1..n : t[i] = u[i])
  OBVIOUS
<1>11. (u = t \/ IsPrefix(s, u)) <=> Leads(t, u)
  BY <1>4, <1>5, <1>6, <1>7, <1>8, <1>9, <1>10, Zenon
<1> QED  BY <1>11 DEF s

\* The first components of two texts of which one leads to the other are the same.
LEMMA LeadsOneFurther ==
    ASSUME NEW p \in Path, NEW q \in Path,
           NEW e, Ends(e, p), NEW u \in Seq(Char), LaidOut(u, p, Len(p), e),
           NEW f, Ends(f, q), NEW t \in Seq(Char), LaidOut(t, q, Len(q), f),
           Leads(t, u), NEW l \in 1..Len(q), l - 1 <= Len(p), e[l - 1] = f[l - 1]
    PROVE  l <= Len(p) /\ e[l] = f[l] /\ FoldText(p[l]) = FoldText(q[l])
<1> DEFINE b == f[l - 1]
           w == Len(q[l])
           v == Len(p[l])
<1>1. Len(p) \in Nat /\ Len(q) \in Nat /\ Len(t) \in Nat /\ Len(u) \in Nat
  BY DEF Path
<1>2. /\ b \in Nat /\ w \in Nat /\ f[l] = b + 1 + w
      /\ f[l] <= Len(t) /\ t[b + 1] = Sep
      /\ \A j \in 1..w : /\ t[b + 1 + j] = FoldText(q[l])[j]
                         /\ t[b + 1 + j] # Sep
      /\ l = Len(q) => Len(t) = f[l]
      /\ l # Len(q) => t[f[l] + 1] = Sep /\ f[l] + 1 <= Len(t)
  BY ComponentInText
<1>3. /\ Len(t) <= Len(u) /\ \A i \in 1..Len(t) : u[i] = t[i]
      /\ Len(t) < Len(u) => u[Len(t) + 1] = Sep
  BY DEF Leads
<1>4. l <= Len(p)
  <2>1. CASE l - 1 # Len(p)
    BY <1>1, <2>1
  <2>2. CASE l - 1 = Len(p)
    <3>1. Len(u) = e[Len(p)]
      BY DEF LaidOut
    <3>2. Len(u) = b
      BY <2>2, <3>1
    <3>3. b + 1 + w <= Len(t) /\ Len(t) <= Len(u)
      BY <1>2, <1>3
    <3> HIDE DEF b, w
    <3> QED  BY <1>1, <1>2, <3>2, <3>3
  <2> QED  BY <2>1, <2>2
<1>5. l \in 1..Len(p)
  BY <1>1, <1>4
<1>6. /\ v \in Nat /\ e[l] = b + 1 + v
      /\ e[l] <= Len(u)
      /\ \A j \in 1..v : /\ u[b + 1 + j] = FoldText(p[l])[j]
                         /\ u[b + 1 + j] # Sep
      /\ l = Len(p) => Len(u) = e[l]
      /\ l # Len(p) => u[e[l] + 1] = Sep /\ e[l] + 1 <= Len(u)
  <2>1. e[l - 1] = b
    OBVIOUS
  <2>2. /\ v \in Nat /\ e[l] = e[l - 1] + 1 + v
        /\ e[l] <= Len(u)
        /\ \A j \in 1..v : /\ u[e[l - 1] + 1 + j] = FoldText(p[l])[j]
                           /\ u[e[l - 1] + 1 + j] # Sep
        /\ l = Len(p) => Len(u) = e[l]
        /\ l # Len(p) => u[e[l] + 1] = Sep /\ e[l] + 1 <= Len(u)
    BY <1>5, ComponentInText
  <2> HIDE DEF b, v
  <2> QED  BY <2>1, <2>2
<1> HIDE DEF b, w, v
<1>7. ~(w < v)
  <2> SUFFICES ASSUME w < v PROVE FALSE
    OBVIOUS
  <2> PICK x \in Nat : x = b + 1 + w + 1
    BY <1>2
  <2> PICK j \in 1..v : b + 1 + j = x
    <3>1. w + 1 \in 1..v /\ b + 1 + (w + 1) = x
      BY <1>2, <1>6
    <3> QED  BY <3>1
  <2>1. u[x] # Sep
    BY <1>6
  <2>2. x <= Len(u)
    <3>1. e[l] = b + 1 + v /\ e[l] <= Len(u)
      BY <1>6
    <3>2. v \in Nat /\ w \in Nat /\ b \in Nat
      BY <1>2, <1>6
    <3> QED  BY <1>1, <3>1, <3>2
  <2>3. x = f[l] + 1
    <3>1. f[l] = b + 1 + w
      BY <1>2
    <3> QED  BY <3>1
  <2>4. CASE l = Len(q)
    <3>1. x = Len(t) + 1
      BY <1>2, <2>3, <2>4
    <3>2. Len(t) < Len(u)
      BY <1>1, <2>2, <3>1
    <3> QED  BY <1>3, <2>1, <3>1, <3>2
  <2>5. CASE l # Len(q)
    <3>1. t[x] = Sep /\ x <= Len(t)
      BY <1>2, <2>3, <2>5
    <3>2. x \in 1..Len(t)
      BY <1>1, <1>2, <3>1
    <3> QED  BY <1>3, <2>1, <3>1, <3>2
  <2> QED  BY <2>4, <2>5
<1>8. ~(v < w)
  <2> SUFFICES ASSUME v < w PROVE FALSE
    OBVIOUS
  <2> PICK x \in Nat : x = b + 1 + v + 1
    BY <1>2, <1>6
  <2> PICK j \in 1..w : b + 1 + j = x
    <3>1. v + 1 \in 1..w /\ b + 1 + (v + 1) = x
      BY <1>2, <1>6
    <3> QED  BY <3>1
  <2>1. t[x] # Sep
    BY <1>2
  <2>2. x <= Len(t) /\ x \in 1..Len(t)
    <3>1. f[l] = b + 1 + w /\ f[l] <= Len(t)
      BY <1>2
    <3>2. v \in Nat /\ w \in Nat /\ b \in Nat
      BY <1>2, <1>6
    <3> QED  BY <1>1, <3>1, <3>2
  <2>3. x = e[l] + 1
    <3>1. e[l] = b + 1 + v
      BY <1>6
    <3> QED  BY <3>1
  <2>4. u[x] # Sep
    BY <1>3, <2>1, <2>2
  <2>5. CASE l = Len(p)
    <3>1. x = Len(u) + 1
      BY <1>6, <2>3, <2>5
    <3>2. Len(t) <= Len(u)
      BY <1>3
    <3> QED  BY <1>1, <2>2, <3>1, <3>2
  <2>6. CASE l # Len(p)
    BY <1>6, <2>3, <2>4, <2>6
  <2> QED  BY <2>5, <2>6
<1>9. v = w
  <2>1. v \in Nat /\ w \in Nat
    BY <1>2, <1>6
  <2> QED  BY <1>7, <1>8, <2>1
<1>10. \A j \in 1..w : FoldText(p[l])[j] = FoldText(q[l])[j]
  <2> TAKE j \in 1..w
  <2> PICK x \in Nat : x = b + 1 + j
    BY <1>2
  <2>1. x \in 1..Len(t)
    <3>1. f[l] = b + 1 + w /\ f[l] <= Len(t) /\ b \in Nat /\ w \in Nat
      BY <1>2
    <3> QED  BY <1>1, <3>1
  <2>2. u[x] = t[x]
    BY <1>3, <2>1
  <2>3. u[x] = FoldText(p[l])[j]
    BY <1>6, <1>9
  <2>4. t[x] = FoldText(q[l])[j]
    BY <1>2
  <2> QED  BY <2>2, <2>3, <2>4
<1>11. FoldText(p[l]) = FoldText(q[l])
  <2>1. p[l] \in Component /\ q[l] \in Component
    BY <1>5 DEF Path
  <2>2. /\ FoldText(p[l]) \in Seq(Syllable) /\ Len(FoldText(p[l])) = w
        /\ FoldText(q[l]) \in Seq(Syllable) /\ Len(FoldText(q[l])) = w
    BY <1>9, <2>1, FoldOfText DEF Component, v, w
  <2> QED  BY <1>10, <2>2, SeqEqual
<1>12. e[l] = f[l]
  <2>1. e[l] = b + 1 + v /\ f[l] = b + 1 + w
    BY <1>2, <1>6
  <2> QED  BY <1>9, <2>1
<1> QED  BY <1>4, <1>11, <1>12

\* The text of a path leads to that of another exactly if the other lies within it.
LEMMA TextWithin ==
    ASSUME NEW p \in Path, NEW q \in Path
    PROVE  (Text(p) = Text(q) \/ IsPrefix(Text(q) \o <<Sep>>, Text(p)))
              <=> Within(FoldPath(p), FoldPath(q))
<1> DEFINE u == Text(p)
           t == Text(q)
           N == Len(p)
           M == Len(q)
<1>1. u \in Seq(Char) /\ t \in Seq(Char)
  BY TextLaidOut
<1>2. PICK e : Ends(e, p) /\ LaidOut(u, p, N, e)
  BY TextLaidOut
<1>3. PICK f : Ends(f, q) /\ LaidOut(t, q, M, f)
  BY TextLaidOut
<1>4. N \in Nat /\ M \in Nat
  BY DEF Path
<1> HIDE DEF u, t
<1>5. Within(FoldPath(p), FoldPath(q)) <=> M <= N /\ \A i \in 1..M : FoldText(p[i]) = FoldText(q[i])
  <2>1. Len(FoldPath(p)) = N /\ Len(FoldPath(q)) = M
        /\ DOMAIN FoldPath(q) = 1..M /\ DOMAIN p = 1..N /\ DOMAIN q = 1..M
    BY FoldOfPath DEF Path
  <2>2. M <= N => \A i \in 1..M : FoldPath(p)[i] = FoldText(p[i]) /\ FoldPath(q)[i] = FoldText(q[i])
    <3> HIDE DEF N, M
    <3>1. ASSUME M <= N, NEW i \in 1..M PROVE i \in 1..N
      BY <1>4, <3>1
    <3> QED  BY <2>1, <3>1, FoldOfPath
  <2> HIDE DEF N, M
  <2>3. Within(FoldPath(p), FoldPath(q)) <=> M <= N /\ \A i \in 1..M : FoldPath(p)[i] = FoldPath(q)[i]
    BY <2>1 DEF Within
  <2> QED  BY <2>2, <2>3
<1>6. ASSUME Leads(t, u) PROVE Within(FoldPath(p), FoldPath(q))
  <2> DEFINE S == {k \in 0..M : k <= N /\ e[k] = f[k] /\ \A i \in 1..k : FoldText(p[i]) = FoldText(q[i])}
  <2>1. 0 \in S
    BY <1>2, <1>3, <1>4 DEF Ends
  <2>2. ASSUME NEW k \in 0..M - 1, k \in S PROVE k + 1 \in S
    <3> PICK l \in 1..M : l - 1 = k /\ k + 1 = l
      <4>1. k + 1 \in 1..M /\ (k + 1) - 1 = k
        BY <1>4
      <4> QED  BY <4>1
    <3>1. k <= N /\ e[k] = f[k] /\ \A i \in 1..k : FoldText(p[i]) = FoldText(q[i])
      BY <2>2
    <3>2. l - 1 <= N /\ e[l - 1] = f[l - 1]
      BY <3>1
    <3> HIDE DEF S
    <3>3. l <= N /\ e[l] = f[l] /\ FoldText(p[l]) = FoldText(q[l])
      BY <1>1, <1>2, <1>3, <1>6, <3>2, LeadsOneFurther
    <3>4. 1..l = (1..k) \cup {l} /\ l \in 0..M
      BY <1>4
    <3>5. l \in S
      BY <3>1, <3>3, <3>4 DEF S
    <3> QED  BY <3>5
  <2>3. M \in S
    <3> HIDE DEF S, M
    <3>1. 0..M \subseteq S
      BY <1>4, <2>1, <2>2, EveryNumberTo
    <3> QED  BY <1>4, <3>1
  <2> QED  BY <1>5, <2>3
<1>7. ASSUME M <= N, \A i \in 1..M : FoldText(p[i]) = FoldText(q[i]) PROVE Leads(t, u)
  <2>1. \A i \in 1..M : i \in 1..N /\ Len(p[i]) = Len(q[i])
    <3> TAKE i \in 1..M
    <3>1. i \in 1..N
      BY <1>4, <1>7
    <3>2. p[i] \in Component /\ q[i] \in Component
      BY <3>1 DEF Path
    <3>3. FoldText(p[i]) = FoldText(q[i])
      BY <1>7
    <3> QED  BY <3>1, <3>2, <3>3, FoldOfText
  <2> DEFINE S == {k \in 0..M : e[k] = f[k]}
  <2>2. 0 \in S
    BY <1>2, <1>3, <1>4 DEF Ends
  <2>3. ASSUME NEW k \in 0..M - 1, k \in S PROVE k + 1 \in S
    <3> PICK l \in 1..M : l - 1 = k /\ k + 1 = l
      <4>1. k + 1 \in 1..M /\ (k + 1) - 1 = k
        BY <1>4
      <4> QED  BY <4>1
    <3>1. e[l - 1] = f[l - 1]
      BY <2>3
    <3>2. e[l] = e[l - 1] + 1 + Len(p[l])
      BY <1>2, <2>1, EndsStep
    <3>3. f[l] = f[l - 1] + 1 + Len(q[l])
      BY <1>3, EndsStep
    <3>4. e[l] = f[l] /\ l \in 0..M
      BY <2>1, <3>1, <3>2, <3>3
    <3>5. l \in S
      BY <3>4
    <3> HIDE DEF S
    <3> QED  BY <3>5
  <2>4. 0..M \subseteq S
    <3> HIDE DEF S, M
    <3> QED  BY <1>4, <2>2, <2>3, EveryNumberTo
  <2>5. ASSUME NEW k \in 0..M PROVE e[k] = f[k]
    BY <2>4
  <2> HIDE DEF S
  <2>6. Len(t) = f[M] /\ f[M] = e[M] /\ Len(u) = e[N]
    <3>1. M \in 0..M
      BY <1>4
    <3> QED  BY <1>2, <1>3, <2>5, <3>1 DEF LaidOut
  <2>10. ASSUME NEW i \in 1..Len(t) PROVE u[i] = t[i]
    <3>1. i \in 1..f[M]
      BY <2>6
    <3>2. PICK m \in 1..M : \E j \in 0..Len(q[m]) : i = f[m - 1] + 1 + j
      BY <1>3, <3>1, Zenon DEF LaidOut
    <3>3. PICK j \in 0..Len(q[m]) : i = f[m - 1] + 1 + j
      BY <3>2
    <3>4. e[m - 1] = f[m - 1]
      <4>1. m - 1 \in 0..M
        BY <1>4
      <4> QED  BY <2>5, <4>1
    <3>5. /\ t[f[m - 1] + 1] = Sep /\ f[m - 1] \in Nat /\ Len(q[m]) \in Nat
          /\ \A x \in 1..Len(q[m]) : t[f[m - 1] + 1 + x] = FoldText(q[m])[x]
      BY <1>1, <1>3, ComponentInText
    <3>6. /\ u[e[m - 1] + 1] = Sep
          /\ \A x \in 1..Len(p[m]) : u[e[m - 1] + 1 + x] = FoldText(p[m])[x]
      BY <1>1, <1>2, <2>1, ComponentInText
    <3>7. FoldText(p[m]) = FoldText(q[m]) /\ Len(p[m]) = Len(q[m])
      BY <1>7, <2>1
    <3> DEFINE b == f[m - 1]
    <3>8. CASE j = 0
      <4>1. i = b + 1
        BY <3>3, <3>5, <3>8
      <4> QED  BY <3>4, <3>5, <3>6, <4>1
    <3>9. CASE j # 0
      <4>1. j \in 1..Len(q[m])
        BY <3>5, <3>9
      <4>2. t[b + 1 + j] = FoldText(q[m])[j]
        BY <3>5, <4>1, Zenon
      <4>3. u[b + 1 + j] = FoldText(q[m])[j]
        BY <3>4, <3>6, <3>7, <4>1, Zenon
      <4> QED  BY <3>3, <4>2, <4>3
    <3> QED  BY <3>8, <3>9
  <2>7. M = N \/ M < N
    BY <1>4, <1>7
  <2>8. CASE M = N
    <3>2. Len(t) = Len(u)
      BY <2>6, <2>8
    <3>3. Len(u) \in Nat
      BY <1>1
    <3> QED  BY <2>10, <3>2, <3>3 DEF Leads
  <2>9. CASE M < N
    <3>0. M \in Nat /\ N \in Nat
      BY <1>4
    <3> PICK l \in 1..N : l - 1 = M
      <4>1. M + 1 \in 1..N /\ (M + 1) - 1 = M
        BY <1>4, <2>9
      <4> QED  BY <4>1
    <3>1. /\ e[l - 1] \in Nat /\ Len(p[l]) \in Nat /\ e[l] = e[l - 1] + 1 + Len(p[l]) /\ e[l] <= Len(u)
          /\ Len(u) \in Nat /\ u[e[l - 1] + 1] = Sep
      BY <1>1, <1>2, ComponentInText
    <3>2. e[l - 1] = Len(t)
      BY <2>6
    <3>3. u[Len(t) + 1] = Sep
      BY <3>1, <3>2
    <3>4. Len(t) < Len(u)
      <4>1. e[l] = Len(t) + 1 + Len(p[l])
        BY <3>1, <3>2
      <4>2. Len(t) \in Nat
        BY <1>1
      <4> DEFINE w == Len(p[l])
                 h == Len(t)
      <4>3. h + 1 + w <= Len(u) /\ w \in Nat /\ h \in Nat /\ Len(u) \in Nat
        BY <3>1, <4>1, <4>2, Zenon
      <4> HIDE DEF w
      <4> QED  BY <4>3
    <3> QED  BY <2>10, <3>3, <3>4 DEF Leads
  <2> QED  BY <2>7, <2>8, <2>9
<1>8. (u = t \/ IsPrefix(t \o <<Sep>>, u)) <=> Leads(t, u)
  BY <1>1, LeadsByPrefix
<1> HIDE DEF N, M
<1> QED  BY <1>5, <1>6, <1>7, <1>8 DEF u, t

\* Paths are the same in lower case if their components are.
LEMMA FoldPathByParts ==
    ASSUME NEW p \in Path, NEW q \in Path, Len(p) = Len(q),
           \A i \in 1..Len(p) : FoldText(p[i]) = FoldText(q[i])
    PROVE  FoldPath(p) = FoldPath(q)
<1>1. DOMAIN p = 1..Len(p) /\ DOMAIN q = 1..Len(p)
  BY DEF Path
<1> QED  BY <1>1 DEF FoldPath

\* Equal texts are those of paths that are the same in lower case.
LEMMA SameTextSameFold ==
    ASSUME NEW p \in Path, NEW q \in Path
    PROVE  Text(p) = Text(q) <=> FoldPath(p) = FoldPath(q)
<1>1. DOMAIN p = 1..Len(p) /\ DOMAIN q = 1..Len(q) /\ Len(p) \in Nat /\ Len(q) \in Nat
  BY DEF Path
<1>2. ASSUME Text(p) = Text(q) PROVE FoldPath(p) = FoldPath(q)
  <2>1. Within(FoldPath(p), FoldPath(q)) /\ Within(FoldPath(q), FoldPath(p))
    BY <1>2, TextWithin
  <2>2. /\ FoldPath(p) \in Seq(Component) /\ FoldPath(q) \in Seq(Component)
        /\ DOMAIN FoldPath(q) = 1..Len(FoldPath(q))
    BY FoldOfPath DEF Path
  <2> DEFINE a == FoldPath(p)
             b == FoldPath(q)
  <2>3. Len(a) <= Len(b) /\ Len(b) <= Len(a) /\ \A i \in 1..Len(b) : a[i] = b[i]
    BY <2>1, <2>2 DEF Within
  <2>4. Len(a) = Len(b)
    <3>1. Len(a) \in Nat /\ Len(b) \in Nat
      BY <2>2
    <3> HIDE DEF a, b
    <3> QED  BY <2>3, <3>1
  <2> HIDE DEF a, b
  <2>5. a = b
    BY <2>2, <2>3, <2>4, SeqEqual DEF a, b
  <2> QED  BY <2>5 DEF a, b
<1>3. ASSUME FoldPath(p) = FoldPath(q) PROVE Text(p) = Text(q)
  <2>1. DOMAIN p = DOMAIN q /\ \A i \in DOMAIN p : FoldText(p[i]) = FoldText(q[i])
    BY <1>3, SameFoldPath
  <2>2. [i \in DOMAIN p |-> <<Sep>> \o FoldText(p[i])] = [i \in DOMAIN q |-> <<Sep>> \o FoldText(q[i])]
    BY <2>1
  <2> QED  BY <2>2 DEF Text
<1> QED  BY <1>2, <1>3

\* The segments of two paths that are the same in lower case remain alike.
LEMMA SameFoldKept ==
    ASSUME NEW a \in Path, NEW b \in Path, FoldPath(a) = FoldPath(b)
    PROVE  FoldPath(Kept(a)) = FoldPath(Kept(b))
<1> DEFINE N == Len(a)
           order == Ascending(Remaining(a))
<1>1. /\ Len(b) = N /\ N \in Nat /\ DOMAIN a = 1..N /\ DOMAIN b = 1..N
      /\ \A i \in 1..N : /\ a[i] \in Component /\ b[i] \in Component
                         /\ FoldText(a[i]) = FoldText(b[i])
  <2>1. Len(a) = Len(b) /\ DOMAIN a = DOMAIN b
    BY SameFoldPath
  <2>2. DOMAIN a = 1..N /\ N \in Nat
    BY DEF Path
  <2> QED  BY <2>1, <2>2, SameFoldPath
<1>2. \A i \in 1..N : \A x \in {Empty, Dot, DotDot} : a[i] = x <=> b[i] = x
  BY <1>1, SameFoldText
<1>3. ASSUME NEW i \in 1..N, NEW j \in 1..N
      PROVE  NamesIn(a, i, j) = NamesIn(b, i, j) /\ UpsIn(a, i, j) = UpsIn(b, i, j)
  <2>1. \A k \in i..j : k \in 1..N
    BY <1>1
  <2>2. {k \in i..j : a[k] \notin {Empty, Dot, DotDot}} = {k \in i..j : b[k] \notin {Empty, Dot, DotDot}}
    BY <1>2, <2>1
  <2>3. {k \in i..j : a[k] = DotDot} = {k \in i..j : b[k] = DotDot}
    BY <1>2, <2>1
  <2> QED  BY <2>2, <2>3 DEF NamesIn, UpsIn
<1>4. Remaining(a) = Remaining(b)
  <2>1. \A i \in 1..N : \A j \in i..N : j \in 1..N
    BY <1>1
  <2>2. ASSUME NEW i \in 1..N PROVE i \in Remaining(a) <=> i \in Remaining(b)
    <3>1. (\A j \in i..N : NamesIn(a, i, j) > UpsIn(a, i, j)) <=> (\A j \in i..N : NamesIn(b, i, j) > UpsIn(b, i, j))
      BY <1>3, <2>1
    <3>2. a[i] \notin {Empty, Dot, DotDot} <=> b[i] \notin {Empty, Dot, DotDot}
      BY <1>2
    <3> HIDE DEF N
    <3>3. i \in Remaining(a) <=> a[i] \notin {Empty, Dot, DotDot} /\ \A j \in i..N : NamesIn(a, i, j) > UpsIn(a, i, j)
      BY <1>1 DEF Remaining, N
    <3>4. i \in Remaining(b) <=> b[i] \notin {Empty, Dot, DotDot} /\ \A j \in i..N : NamesIn(b, i, j) > UpsIn(b, i, j)
      BY <1>1 DEF Remaining
    <3> QED  BY <3>1, <3>2, <3>3, <3>4
  <2>3. Remaining(a) \subseteq 1..N /\ Remaining(b) \subseteq 1..N
    BY <1>1 DEF Remaining
  <2> QED  BY <2>2, <2>3
<1>5. /\ Remaining(a) \subseteq 1..N /\ Remaining(a) \subseteq Nat /\ IsFiniteSet(Remaining(a))
  <2>1. Remaining(a) \subseteq 1..N
    BY <1>1 DEF Remaining
  <2>2. IsFiniteSet(1..N)
    BY <1>1, FS_Interval
  <2> QED  BY <1>1, <2>1, <2>2, FS_Subset
<1>6. Kept(a) = [i \in DOMAIN order |-> a[order[i]]] /\ Kept(b) = [i \in DOMAIN order |-> b[order[i]]]
  BY <1>4 DEF Kept
<1>7. \A i \in DOMAIN order : order[i] \in 1..N
  <2>1. Increasing(order, Cardinality(Remaining(a)), Remaining(a)) /\ DOMAIN order = 1..Cardinality(Remaining(a))
    BY <1>5, AscendingLists
  <2> QED  BY <1>5, <2>1 DEF Increasing
<1> HIDE DEF order
<1>8. Kept(a) \in Path /\ Kept(b) \in Path
  BY CollapsedIsKept
<1>9. DOMAIN Kept(a) = DOMAIN order /\ DOMAIN Kept(b) = DOMAIN order
  BY <1>6
<1>10. FoldPath(Kept(a)) = [i \in DOMAIN order |-> FoldText(Kept(a)[i])]
       /\ FoldPath(Kept(b)) = [i \in DOMAIN order |-> FoldText(Kept(b)[i])]
  BY <1>9 DEF FoldPath
<1>11. \A i \in DOMAIN order : FoldText(Kept(a)[i]) = FoldText(Kept(b)[i])
  BY <1>1, <1>6, <1>7
<1> QED  BY <1>10, <1>11

\* What is meant does not depend on the case of the letters.
LEMMA SameFoldMeant ==
    ASSUME NEW p \in Path, NEW q \in Path, FoldPath(p) = FoldPath(q), IsRooted(p)
    PROVE  FoldPath(Meant(p)) = FoldPath(Meant(q))
<1> DEFINE n == RootLength(p)
           a == Segments(p)
           b == Segments(q)
           ka == Kept(a)
           kb == Kept(b)
<1>1. /\ Len(p) = Len(q) /\ RootLength(q) = n /\ Len(p) >= n /\ IsRooted(q)
      /\ \A i \in DOMAIN p : FoldText(p[i]) = FoldText(q[i])
  BY SameFoldPath DEF IsRooted
<1>2. DOMAIN p = 1..Len(p) /\ Len(p) \in Nat /\ n \in Nat
  BY RootIsShort DEF Path
<1>3. /\ a \in Path /\ Len(a) = Len(p) - n
      /\ \A i \in 1..Len(p) - n : a[i] = p[n + i]
  BY <1>1, SplitAtRoot
<1>4. /\ b \in Path /\ Len(b) = Len(p) - n
      /\ \A i \in 1..Len(p) - n : b[i] = q[n + i]
  <2>1. Len(q) >= RootLength(q)
    BY <1>1
  <2>2. /\ b \in Path /\ Len(b) = Len(q) - RootLength(q)
        /\ \A i \in 1..Len(q) - RootLength(q) : b[i] = q[RootLength(q) + i]
    BY <2>1, SplitAtRoot
  <2> HIDE DEF b, n
  <2> QED  BY <1>1, <2>2
<1>5. FoldPath(a) = FoldPath(b)
  <2>1. \A i \in 1..Len(p) - n : n + i \in DOMAIN p
    <3> HIDE DEF n
    <3> QED  BY <1>2
  <2>2. \A i \in 1..Len(a) : FoldText(a[i]) = FoldText(b[i])
    <3> HIDE DEF n, a, b
    <3> QED  BY <1>1, <1>3, <1>4, <2>1
  <2> HIDE DEF a, b
  <2> QED  BY <1>3, <1>4, <2>2, FoldPathByParts
<1>6. ka \in Path /\ kb \in Path
  <2> HIDE DEF a, b
  <2> QED  BY <1>3, <1>4, CollapsedIsKept
<1>7. FoldPath(ka) = FoldPath(kb)
  <2> HIDE DEF a, b
  <2> QED  BY <1>3, <1>4, <1>5, SameFoldKept
<1>8. Len(ka) = Len(kb) /\ Len(ka) \in Nat /\ \A i \in 1..Len(ka) : FoldText(ka[i]) = FoldText(kb[i])
  <2> HIDE DEF ka, kb
  <2>1. DOMAIN ka = 1..Len(ka) /\ Len(ka) \in Nat
    BY <1>6 DEF Path
  <2> QED  BY <1>6, <1>7, <2>1, SameFoldPath
<1> HIDE DEF ka, kb
<1>9. /\ Root(p) \o ka \in Path /\ Len(Root(p) \o ka) = n + Len(ka)
      /\ \A i \in 1..n : (Root(p) \o ka)[i] = p[i]
      /\ \A i \in 1..Len(ka) : (Root(p) \o ka)[n + i] = ka[i]
  BY <1>1, <1>6, JoinToRoot
<1>10. /\ Root(q) \o kb \in Path /\ Len(Root(q) \o kb) = n + Len(ka)
       /\ \A i \in 1..n : (Root(q) \o kb)[i] = q[i]
       /\ \A i \in 1..Len(ka) : (Root(q) \o kb)[n + i] = kb[i]
  <2>1. Len(q) >= RootLength(q)
    BY <1>1
  <2>2. /\ Root(q) \o kb \in Path /\ Len(Root(q) \o kb) = RootLength(q) + Len(kb)
        /\ \A i \in 1..RootLength(q) : (Root(q) \o kb)[i] = q[i]
        /\ \A i \in 1..Len(kb) : (Root(q) \o kb)[RootLength(q) + i] = kb[i]
    BY <1>6, <2>1, JoinToRoot
  <2> HIDE DEF n
  <2> QED  BY <1>1, <1>8, <2>2
<1>11. Meant(p) = Root(p) \o ka /\ Meant(q) = Root(q) \o kb
  BY MeantByParts DEF ka, kb
<1> DEFINE x == Meant(p)
           y == Meant(q)
<1>12. /\ x \in Path /\ y \in Path /\ Len(x) = n + Len(ka) /\ Len(y) = n + Len(ka)
       /\ \A i \in 1..n : x[i] = p[i] /\ y[i] = q[i]
       /\ \A i \in 1..Len(ka) : x[n + i] = ka[i] /\ y[n + i] = kb[i]
  BY <1>9, <1>10, <1>11
<1> HIDE DEF x, y, n, a, b
<1>13. ASSUME NEW i \in 1..Len(x) PROVE FoldText(x[i]) = FoldText(y[i])
  <2>1. CASE i \in 1..n
    <3>1. i \in DOMAIN p
      BY <1>1, <1>2, <2>1
    <3> QED  BY <1>1, <1>12, <2>1, <3>1
  <2>2. CASE i \notin 1..n
    <3> PICK j \in 1..Len(ka) : n + j = i
      <4>1. i - n \in 1..Len(ka) /\ n + (i - n) = i
        BY <1>2, <1>8, <1>12, <2>2
      <4> QED  BY <4>1
    <3>1. x[n + j] = ka[j] /\ y[n + j] = kb[j]
      BY <1>12
    <3>2. x[i] = ka[j] /\ y[i] = kb[j]
      BY <3>1
    <3> QED  BY <1>8, <3>2
  <2> QED  BY <2>1, <2>2
<1>14. FoldPath(x) = FoldPath(y)
  BY <1>12, <1>13, FoldPathByParts
<1> QED  BY <1>14 DEF x, y

\* If the ways are straight, comparing the texts asks whether the place of the one
\* name lies in the directory of the other.
THEOREM PrefixIsHolds ==
    ASSUME NEW d \in Disks, NEW s \in Spellings, NEW outer \in Spellings,
           Straight(d, s, Place(d, s)), Straight(d, outer, Extent(d, outer))
    PROVE  path_has_component_prefix(d, s, outer) <=> Holds(d, outer, s)
<1> DEFINE p == normalize_for_policy(d, s)
           q == normalize_for_policy(d, outer)
<1>1. FoldPath(p) = Place(d, s) /\ p \in Path /\ (p = Invalid <=> Place(d, s) = Invalid)
  BY NormalizeIsPlace
<1>2. FoldPath(q) = Extent(d, outer) /\ q \in Path /\ (q = Invalid <=> Extent(d, outer) = Invalid)
  BY NormalizeIsPlace
<1>3. path_has_component_prefix(d, s, outer)
        <=> /\ p # Invalid /\ q # Invalid
            /\ Text(p) = Text(q) \/ IsPrefix(Text(q) \o <<Sep>>, Text(p))
  BY DEF path_has_component_prefix
<1> HIDE DEF p, q
<1>4. (Text(p) = Text(q) \/ IsPrefix(Text(q) \o <<Sep>>, Text(p))) <=> Within(FoldPath(p), FoldPath(q))
  BY <1>1, <1>2, TextWithin
<1>5. Holds(d, outer, s) <=> p # Invalid /\ q # Invalid /\ Within(FoldPath(p), FoldPath(q))
  BY <1>1, <1>2 DEF Holds
<1> QED  BY <1>3, <1>4, <1>5, Zenon

\* Spellings with one key have one form, and the same components in some case.
LEMMA SameKey ==
    ASSUME NEW s \in Spellings, NEW t \in Spellings, Key(s) = Key(t)
    PROVE  s.form = t.form /\ FoldPath(s.parts) = FoldPath(t.parts)
<1>1. /\ s.form \in Forms /\ t.form \in Forms
      /\ s.parts \in Path /\ t.parts \in Path
  BY DEF Spellings
<1> DEFINE V == Forms \cup Char
           x == Text(s.parts)
           y == Text(t.parts)
<1>2. x \in Seq(Char) /\ y \in Seq(Char)
  BY <1>1, TextLaidOut
<1>3. x \in Seq(V) /\ y \in Seq(V) /\ <<s.form>> \in Seq(V) /\ <<t.form>> \in Seq(V)
  BY <1>1, <1>2
<1>4. <<s.form>> \o x = <<t.form>> \o y
  BY DEF Key
<1> HIDE DEF x, y, V
<1>5. s.form = t.form
  <2>1. (<<s.form>> \o x)[1] = s.form /\ (<<t.form>> \o y)[1] = t.form
    <3>1. Len(<<s.form>>) = 1 /\ Len(<<t.form>>) = 1 /\ <<s.form>>[1] = s.form /\ <<t.form>>[1] = t.form
      OBVIOUS
    <3>2. 1 \in 1..1 + Len(x) /\ 1 \in 1..1 + Len(y)
      BY <1>3
    <3> QED  BY <1>3, <3>1, <3>2, ConcatProperties
  <2> QED  BY <1>4, <2>1
<1>6. x = y
  <2>1. <<s.form>> \o x = <<s.form>> \o y
    BY <1>4, <1>5
  <2> QED  BY <1>3, <2>1, ConcatSimplifications
<1>7. FoldPath(s.parts) = FoldPath(t.parts)
  BY <1>1, <1>6, SameTextSameFold DEF x, y
<1> QED  BY <1>5, <1>7

\* Spellings with one key lead to one place, on every disk.
LEMMA SameKeySamePlace ==
    ASSUME NEW s \in Spellings, NEW t \in Spellings, Key(s) = Key(t)
    PROVE  \A d : /\ Place(d, s) = Place(d, t) /\ Extent(d, s) = Extent(d, t)
                  /\ \A p : Straight(d, s, p) <=> Straight(d, t, p)
<1> DEFINE a == Absolute(s)
           b == Absolute(t)
<1>1. s.form = t.form /\ FoldPath(s.parts) = FoldPath(t.parts) /\ s.parts \in Path /\ t.parts \in Path
  BY SameKey DEF Spellings
<1>2. a \in Path /\ b \in Path /\ FoldPath(a) = FoldPath(b)
  <2>1. CASE s.form # "relative"
    BY <1>1, <2>1 DEF Absolute
  <2>2. CASE s.form = "relative"
    <3> DEFINE p == s.parts
               q == t.parts
               c == Cwd \o p
               e == Cwd \o q
               h == Len(Cwd)
    <3>1. a = c /\ b = e
      BY <1>1, <2>2 DEF Absolute
    <3>2. Len(p) = Len(q) /\ \A i \in 1..Len(p) : FoldText(p[i]) = FoldText(q[i])
      <4>1. DOMAIN p = 1..Len(p)
        BY <1>1 DEF Path
      <4> HIDE DEF p, q
      <4> QED  BY <1>1, <4>1, SameFoldPath DEF p, q
    <3>3. /\ c \in Path /\ Len(c) = h + Len(p) /\ h \in Nat
          /\ \A i \in 1..h : c[i] = Cwd[i]
          /\ \A i \in 1..Len(p) : c[h + i] = p[i]
      <4>1. p \in Path
        BY <1>1
      <4> HIDE DEF p
      <4> QED  BY <4>1, BelowCwd
    <3>4. /\ e \in Path /\ Len(e) = h + Len(q)
          /\ \A i \in 1..h : e[i] = Cwd[i]
          /\ \A i \in 1..Len(q) : e[h + i] = q[i]
      <4>1. q \in Path
        BY <1>1
      <4> HIDE DEF q
      <4> QED  BY <4>1, BelowCwd
    <3>5. Len(p) \in Nat
      BY <1>1 DEF Path
    <3> HIDE DEF c, e, h, p, q
    <3>6. ASSUME NEW i \in 1..Len(c) PROVE FoldText(c[i]) = FoldText(e[i])
      <4>1. CASE i \in 1..h
        BY <3>3, <3>4, <4>1
      <4>2. CASE i \notin 1..h
        <5> PICK j \in 1..Len(p) : h + j = i
          <6>1. i - h \in 1..Len(p) /\ h + (i - h) = i
            BY <3>3, <3>5, <4>2
          <6> QED  BY <6>1
        <5>1. c[h + j] = p[j] /\ e[h + j] = q[j]
          BY <3>2, <3>3, <3>4
        <5>2. c[i] = p[j] /\ e[i] = q[j]
          BY <5>1
        <5> QED  BY <3>2, <5>2
      <4> QED  BY <4>1, <4>2
    <3>7. FoldPath(c) = FoldPath(e)
      BY <3>2, <3>3, <3>4, <3>6, FoldPathByParts
    <3> HIDE DEF a, b
    <3> QED  BY <3>1, <3>3, <3>4, <3>7
  <2> QED  BY <2>1, <2>2
<1> HIDE DEF a, b
<1>3. (IsDrive(s.parts) <=> IsDrive(t.parts)) /\ (IsRooted(a) <=> IsRooted(b)) /\ (EndsWell(a) <=> EndsWell(b))
  BY <1>1, <1>2, SameFoldPath
<1>4. Usable(s) <=> Usable(t)
  BY <1>1, <1>3 DEF Usable, a, b
<1>5. Usable(s) => FoldPath(Meant(a)) = FoldPath(Meant(b))
  <2>1. Usable(s) => IsRooted(a)
    BY DEF Usable, a
  <2> QED  BY <1>2, <2>1, SameFoldMeant
<1> QED  BY <1>4, <1>5, SameSaid DEF Said, a, b

-----------------------------------------------------------------------------
(* The order of the entries *)

\* The keys are sequences of what has a rank.
Keys == Seq(DOMAIN Rank)

\* A key is a sequence of what has a rank.
LEMMA KeyType ==
    ASSUME NEW s \in Spellings
    PROVE  Key(s) \in Keys
<1>1. Text(s.parts) \in Seq(Char) /\ s.form \in Forms
  BY TextLaidOut DEF Spellings
<1>2. DOMAIN Rank = Forms \cup {Sep} \cup Syllable
  BY RankIsAnOrder
<1>3. <<s.form>> \in Seq(DOMAIN Rank) /\ Text(s.parts) \in Seq(DOMAIN Rank)
  BY <1>1, <1>2 DEF Char
<1> QED  BY <1>3, ConcatProperties DEF Key, Keys

\* The first i - 1 elements agree, and the next decides.
Decides(k, l, i) ==
    /\ i \in 1..Len(k) /\ i <= Len(l)
    /\ \A j \in 1..i - 1 : k[j] = l[j]
    /\ Rank[k[i]] < Rank[l[i]]

\* All elements agree as far as k goes, and l goes on.
Continues(k, l) == Len(k) < Len(l) /\ \A j \in 1..Len(k) : k[j] = l[j]

\* One key precedes another if the first element in which they differ is smaller, or
\* it ends first.
LEMMA PrecedesByElements ==
    ASSUME NEW k \in Keys, NEW l \in Keys
    PROVE  Precedes(k, l) <=> Continues(k, l) \/ \E i \in Nat : Decides(k, l, i)
<1>1. /\ k \in Seq(DOMAIN Rank) /\ l \in Seq(DOMAIN Rank)
      /\ Len(k) \in Nat /\ Len(l) \in Nat /\ DOMAIN k = 1..Len(k) /\ DOMAIN l = 1..Len(l)
  BY DEF Keys
<1>2. IsStrictPrefix(k, l) <=> Continues(k, l)
  <2>6. IsPrefix(k, l) <=> Len(k) <= Len(l) /\ (\A i \in 1..Len(k) : k[i] = l[i])
    <3> DEFINE V == DOMAIN Rank
    <3>1. k \in Seq(V) /\ l \in Seq(V)
      BY <1>1
    <3> HIDE DEF V
    <3> QED  BY <3>1, PrefixByElements
  <2>1. IsStrictPrefix(k, l) <=> Len(k) <= Len(l) /\ (\A i \in 1..Len(k) : k[i] = l[i]) /\ k # l
    BY <2>6, Zenon DEF IsStrictPrefix
  <2>7. Len(k) \in Nat /\ Len(l) \in Nat
    BY <1>1
  <2>2. Len(k) = Len(l) /\ (\A i \in 1..Len(k) : k[i] = l[i]) => k = l
    BY <1>1, SeqEqual
  <2>3. k = l => Len(k) = Len(l)
    OBVIOUS
  <2>4. Len(k) <= Len(l) <=> Len(k) < Len(l) \/ Len(k) = Len(l)
    BY <2>7
  <2>5. Len(k) = Len(l) => ~(Len(k) < Len(l))
    BY <2>7
  <2> QED  BY <2>1, <2>2, <2>3, <2>4, <2>5, Zenon DEF Continues
<1>3. ASSUME NEW i \in DOMAIN k \cap DOMAIN l
      PROVE  SubSeq(k, 1, i - 1) = SubSeq(l, 1, i - 1) <=> \A j \in 1..i - 1 : k[j] = l[j]
  <2> DEFINE n == i - 1
  <2>1. n \in Nat /\ n <= Len(k) /\ n <= Len(l)
    BY <1>1
  <2> HIDE DEF n
  <2>2. SubSeq(k, 1, n) = SubSeq(l, 1, n) <=> \A j \in 1..n : k[j] = l[j]
    BY <1>1, <2>1, SubSeqByElements
  <2> QED  BY <2>2 DEF n
<1>4. (\E i \in DOMAIN k \cap DOMAIN l : SubSeq(k, 1, i - 1) = SubSeq(l, 1, i - 1) /\ Rank[k[i]] < Rank[l[i]])
        <=> \E i \in Nat : Decides(k, l, i)
  <2>1. ASSUME NEW i \in DOMAIN k \cap DOMAIN l,
               SubSeq(k, 1, i - 1) = SubSeq(l, 1, i - 1), Rank[k[i]] < Rank[l[i]]
        PROVE  \E j \in Nat : Decides(k, l, j)
    <3>1. i \in 1..Len(k) /\ i <= Len(l) /\ i \in Nat
      BY <1>1
    <3>2. \A j \in 1..i - 1 : k[j] = l[j]
      BY <1>3, <2>1
    <3> QED  BY <2>1, <3>1, <3>2 DEF Decides
  <2>2. ASSUME NEW i \in Nat, Decides(k, l, i)
        PROVE  /\ i \in DOMAIN k \cap DOMAIN l
               /\ SubSeq(k, 1, i - 1) = SubSeq(l, 1, i - 1) /\ Rank[k[i]] < Rank[l[i]]
    <3>1. i \in DOMAIN k \cap DOMAIN l
      BY <1>1, <2>2 DEF Decides
    <3> QED  BY <1>3, <2>2, <3>1 DEF Decides
  <2> QED  BY <2>1, <2>2
<1> QED  BY <1>2, <1>4 DEF Precedes

\* No key precedes itself, nor is preceded by what it precedes.
LEMMA PrecedesIsTransitive ==
    ASSUME NEW k \in Keys, NEW l \in Keys, NEW m \in Keys, Precedes(k, l), Precedes(l, m)
    PROVE  Precedes(k, m)
<1>1. /\ Len(k) \in Nat /\ Len(l) \in Nat /\ Len(m) \in Nat
      /\ \A i \in 1..Len(k) : Rank[k[i]] \in Nat
      /\ \A i \in 1..Len(l) : Rank[l[i]] \in Nat
      /\ \A i \in 1..Len(m) : Rank[m[i]] \in Nat
  BY RankIsAnOrder DEF Keys
<1>2. CASE Continues(k, l) /\ Continues(l, m)
  <2>1. Len(k) < Len(m) /\ \A j \in 1..Len(k) : j \in 1..Len(l)
    BY <1>1, <1>2 DEF Continues
  <2>2. \A j \in 1..Len(k) : k[j] = m[j]
    BY <1>2, <2>1 DEF Continues
  <2> QED  BY <2>1, <2>2, PrecedesByElements DEF Continues
<1>3. ASSUME Continues(k, l), NEW i \in Nat, Decides(l, m, i) PROVE Precedes(k, m)
  <2>1. CASE i <= Len(k)
    <3>1. i \in 1..Len(k) /\ i <= Len(m)
      BY <1>1, <1>3, <2>1 DEF Decides
    <3>2. \A j \in 1..i - 1 : j \in 1..Len(k)
      BY <1>1, <2>1
    <3>3. \A j \in 1..i - 1 : k[j] = m[j]
      BY <1>3, <3>2 DEF Continues, Decides
    <3>4. Rank[k[i]] < Rank[m[i]]
      BY <1>3, <3>1 DEF Continues, Decides
    <3> QED  BY <3>1, <3>3, <3>4, PrecedesByElements DEF Decides
  <2>2. CASE i > Len(k)
    <3>1. Len(k) < Len(m) /\ \A j \in 1..Len(k) : j \in 1..i - 1
      BY <1>1, <1>3, <2>2 DEF Decides
    <3>2. \A j \in 1..Len(k) : k[j] = m[j]
      BY <1>3, <3>1 DEF Continues, Decides
    <3> QED  BY <3>1, <3>2, PrecedesByElements DEF Continues
  <2> QED  BY <1>1, <2>1, <2>2
<1>4. ASSUME NEW i \in Nat, Decides(k, l, i), Continues(l, m) PROVE Precedes(k, m)
  <2>1. i \in 1..Len(k) /\ i <= Len(m) /\ i \in 1..Len(l)
    BY <1>1, <1>4 DEF Decides, Continues
  <2>2. \A j \in 1..i - 1 : j \in 1..Len(l)
    BY <1>1, <2>1
  <2>3. \A j \in 1..i - 1 : k[j] = m[j]
    BY <1>4, <2>2 DEF Continues, Decides
  <2>4. Rank[k[i]] < Rank[m[i]]
    BY <1>4, <2>1 DEF Continues, Decides
  <2> QED  BY <2>1, <2>3, <2>4, PrecedesByElements DEF Decides
<1>5. ASSUME NEW i \in Nat, Decides(k, l, i), NEW j \in Nat, Decides(l, m, j) PROVE Precedes(k, m)
  <2>1. /\ i \in 1..Len(k) /\ i \in 1..Len(l) /\ j \in 1..Len(l) /\ j \in 1..Len(m)
    BY <1>1, <1>5 DEF Decides
  <2>2. \A x \in 1..i - 1 : k[x] = l[x]
    BY <1>5 DEF Decides
  <2>3. \A x \in 1..j - 1 : l[x] = m[x]
    BY <1>5 DEF Decides
  <2>4. Rank[k[i]] < Rank[l[i]] /\ Rank[l[j]] < Rank[m[j]]
    BY <1>5 DEF Decides
  <2>5. CASE i < j
    <3>1. i \in 1..j - 1 /\ i <= Len(m) /\ \A x \in 1..i - 1 : x \in 1..j - 1
      BY <1>1, <2>1, <2>5
    <3>2. l[i] = m[i] /\ \A x \in 1..i - 1 : k[x] = m[x]
      BY <2>2, <2>3, <3>1
    <3>3. Rank[k[i]] < Rank[m[i]]
      BY <2>4, <3>2
    <3> QED  BY <2>1, <3>1, <3>2, <3>3, PrecedesByElements DEF Decides
  <2>6. CASE i = j
    <3>1. i <= Len(m) /\ \A x \in 1..i - 1 : k[x] = m[x]
      BY <1>1, <2>1, <2>2, <2>3, <2>6
    <3>2. Rank[k[i]] < Rank[m[i]]
      <4>1. Rank[k[i]] < Rank[l[i]] /\ Rank[l[i]] < Rank[m[i]]
        BY <2>4, <2>6
      <4>2. Rank[k[i]] \in Nat /\ Rank[l[i]] \in Nat /\ Rank[m[i]] \in Nat
        BY <1>1, <2>1, <2>6
      <4> QED  BY <4>1, <4>2
    <3> QED  BY <2>1, <3>1, <3>2, PrecedesByElements DEF Decides
  <2>7. CASE i > j
    <3>1. j \in 1..i - 1 /\ j \in 1..Len(k) /\ j <= Len(m) /\ \A x \in 1..j - 1 : x \in 1..i - 1
      BY <1>1, <2>1, <2>7
    <3>2. k[j] = l[j] /\ \A x \in 1..j - 1 : k[x] = m[x]
      BY <2>2, <2>3, <3>1
    <3>3. Rank[k[j]] < Rank[m[j]]
      BY <2>4, <3>2
    <3> QED  BY <3>1, <3>2, <3>3, PrecedesByElements DEF Decides
  <2> QED  BY <1>1, <2>5, <2>6, <2>7
<1> QED  BY <1>2, <1>3, <1>4, <1>5, PrecedesByElements

\* No key precedes itself.
LEMMA PrecedesIsStrict ==
    ASSUME NEW k \in Keys
    PROVE  ~Precedes(k, k)
<1>1. Len(k) \in Nat /\ \A i \in 1..Len(k) : Rank[k[i]] \in Nat
  BY RankIsAnOrder DEF Keys
<1>2. ~Continues(k, k)
  BY <1>1 DEF Continues
<1>3. \A i \in Nat : ~Decides(k, k, i)
  BY <1>1 DEF Decides
<1> QED  BY <1>2, <1>3, PrecedesByElements

\* Of two keys one precedes the other: what comes first, where they differ.
LEMMA PrecedesIsTotal ==
    ASSUME NEW k \in Keys, NEW l \in Keys
    PROVE  k = l \/ Precedes(k, l) \/ Precedes(l, k)
<1>1. /\ k \in Seq(DOMAIN Rank) /\ l \in Seq(DOMAIN Rank) /\ Len(k) \in Nat /\ Len(l) \in Nat
      /\ \A i \in 1..Len(k) : k[i] \in DOMAIN Rank
      /\ \A i \in 1..Len(l) : l[i] \in DOMAIN Rank
  BY DEF Keys
<1> DEFINE D == {i \in Nat : i \in 1..Len(k) /\ i <= Len(l) /\ k[i] # l[i]}
<1>2. CASE D = {}
  <2>1. \A i \in 1..Len(k) : i <= Len(l) => k[i] = l[i]
    BY <1>1, <1>2
  <2>2. CASE Len(k) = Len(l)
    <3>1. \A i \in 1..Len(k) : k[i] = l[i]
      BY <1>1, <2>1, <2>2
    <3> QED  BY <1>1, <2>2, <3>1, SeqEqual
  <2>3. CASE Len(k) < Len(l)
    <3>1. Continues(k, l)
      BY <1>1, <2>1, <2>3 DEF Continues
    <3> QED  BY <3>1, PrecedesByElements
  <2>4. CASE Len(l) < Len(k)
    <3>1. Continues(l, k)
      <4>1. \A i \in 1..Len(l) : i \in 1..Len(k) /\ i <= Len(l)
        BY <1>1, <2>4
      <4> QED  BY <2>1, <2>4, <4>1 DEF Continues
    <3> QED  BY <3>1, PrecedesByElements
  <2> QED  BY <1>1, <2>2, <2>3, <2>4
<1>3. CASE D # {}
  <2>1. PICK m \in D : \A i \in D : m <= i
    <3>1. D \subseteq Nat
      OBVIOUS
    <3> HIDE DEF D
    <3> QED  BY <1>3, <3>1, LeastNumber
  <2>2. m \in Nat /\ m \in 1..Len(k) /\ m \in 1..Len(l) /\ m <= Len(l) /\ m <= Len(k) /\ k[m] # l[m]
    BY <1>1, <2>1
  <2>3. \A j \in 1..m - 1 : k[j] = l[j] /\ l[j] = k[j]
    <3> TAKE j \in 1..m - 1
    <3>1. j \notin D
      <4>1. ~(m <= j)
        BY <2>2
      <4> HIDE DEF D
      <4> QED  BY <2>1, <4>1
    <3>2. j \in Nat /\ j \in 1..Len(k) /\ j <= Len(l)
      BY <1>1, <2>2
    <3> QED  BY <3>1, <3>2
  <2>4. Rank[k[m]] < Rank[l[m]] \/ Rank[l[m]] < Rank[k[m]]
    <3>1. k[m] \in DOMAIN Rank /\ l[m] \in DOMAIN Rank
      BY <1>1, <2>2
    <3>2. Rank[k[m]] \in Nat /\ Rank[l[m]] \in Nat /\ Rank[k[m]] # Rank[l[m]]
      BY <2>2, <3>1, RankIsAnOrder
    <3> QED  BY <3>2
  <2>5. Decides(k, l, m) \/ Decides(l, k, m)
    <3> HIDE DEF D
    <3> QED  BY <2>2, <2>3, <2>4 DEF Decides
  <2> QED  BY <2>2, <2>5, PrecedesByElements
<1> QED  BY <1>2, <1>3

\* sort_by_key arranges the entries by their keys.
Entry == [path : Spellings, source : Sources]
KeyAt(entries, i) == Key(entries[i].path)
Rearranges(r, entries, order) ==
    /\ Len(r) = Len(entries) /\ order \in [1..Len(entries) -> 1..Len(entries)]
    /\ \A k \in 1..Len(entries) : r[k] = entries[order[k]]
    /\ \A i \in 1..Len(entries) : \E k \in 1..Len(entries) : order[k] = i
    /\ \A a, b \in 1..Len(entries) : order[a] = order[b] => a = b
Ordered(entries) ==
    \A a, b \in 1..Len(entries) :
        a < b => Precedes(KeyAt(entries, a), KeyAt(entries, b)) \/ KeyAt(entries, a) = KeyAt(entries, b)

\* Sorting rearranges the entries, and leaves their keys in order.
THEOREM SortedIsOrdered ==
    ASSUME NEW entries \in Seq(Entry)
    PROVE  /\ Sorted(entries) \in Seq(Entry) /\ Ordered(Sorted(entries))
           /\ \E order : Rearranges(Sorted(entries), entries, order)
<1> DEFINE n == Len(entries)
           K(i) == KeyAt(entries, i)
           After(i, j) == Precedes(K(i), K(j)) \/ (K(i) = K(j) /\ i < j)
           places == 1..n
           R == {p \in places \X places : After(p[1], p[2])}
           order == InOrder(places, R)
           r == Sorted(entries)
<1>1. n \in Nat /\ DOMAIN entries = places /\ \A i \in places : entries[i] \in Entry
  OBVIOUS
<1>2. \A i \in places : K(i) \in Keys
  <2> TAKE i \in places
  <2>1. entries[i].path \in Spellings
    BY <1>1 DEF Entry
  <2> QED  BY <2>1, KeyType DEF KeyAt
<1>3. r = [i \in places |-> entries[order[i]]]
  BY <1>1 DEF Sorted, KeyAt
<1>4. \A i, j \in places : <<i, j>> \in R <=> After(i, j)
  OBVIOUS
<1> HIDE DEF R, K
<1>5. IsOrder(places, R)
  <2>1. \A i \in places : ~After(i, i)
    BY <1>1, <1>2, PrecedesIsStrict
  <2>2. ASSUME NEW i \in places, NEW j \in places, NEW k \in places, After(i, j), After(j, k) PROVE After(i, k)
    <3>1. K(i) \in Keys /\ K(j) \in Keys /\ K(k) \in Keys
      BY <1>2
    <3>2. CASE K(i) = K(j) /\ K(j) = K(k)
      <4>1. ~Precedes(K(i), K(j)) /\ ~Precedes(K(j), K(k))
        BY <3>1, <3>2, PrecedesIsStrict
      <4>2. i < j /\ j < k
        BY <2>2, <4>1
      <4> QED  BY <1>1, <3>2, <4>2
    <3>3. CASE Precedes(K(i), K(j)) /\ Precedes(K(j), K(k))
      BY <3>1, <3>3, PrecedesIsTransitive
    <3>4. CASE Precedes(K(i), K(j)) /\ K(j) = K(k)
      BY <3>4
    <3>5. CASE K(i) = K(j) /\ Precedes(K(j), K(k))
      BY <3>5
    <3> QED  BY <2>2, <3>2, <3>3, <3>4, <3>5
  <2>3. ASSUME NEW i \in places, NEW j \in places PROVE i = j \/ After(i, j) \/ After(j, i)
    <3>1. K(i) \in Keys /\ K(j) \in Keys
      BY <1>2
    <3>2. CASE K(i) = K(j)
      <4>1. i = j \/ i < j \/ j < i
        BY <1>1
      <4> QED  BY <3>2, <4>1
    <3>3. CASE K(i) # K(j)
      BY <3>1, <3>3, PrecedesIsTotal
    <3> QED  BY <3>2, <3>3
  <2> HIDE DEF After, places
  <2> QED  BY <1>4, <2>1, <2>2, <2>3 DEF IsOrder
<1>6. IsFiniteSet(places) /\ Cardinality(places) = n
  <2>1. IsFiniteSet(1..n) /\ Cardinality(1..n) = IF 1 > n THEN 0 ELSE n - 1 + 1
    <3>1. n \in Int /\ 1 \in Int
      BY <1>1
    <3> HIDE DEF n
    <3> QED  BY <3>1, FS_Interval
  <2> HIDE DEF n
  <2> QED  BY <1>1, <2>1
<1>7. /\ order \in [1..n -> places]
      /\ \A i \in places : \E k \in 1..n : order[k] = i
      /\ \A a, b \in 1..n : a < b => <<order[a], order[b]>> \in R
  <2>1. /\ order \in [1..Cardinality(places) -> places]
        /\ \A i \in places : \E k \in 1..Cardinality(places) : order[k] = i
        /\ \A a, b \in 1..Cardinality(places) : a < b => <<order[a], order[b]>> \in R
    <3> HIDE DEF places
    <3> QED  BY <1>5, <1>6, InOrderLists
  <2> HIDE DEF places, order
  <2> QED  BY <1>6, <2>1
<1> HIDE DEF order
<1>8. ASSUME NEW a \in 1..n, NEW b \in 1..n, a < b PROVE After(order[a], order[b])
  <2>1. order[a] \in places /\ order[b] \in places /\ <<order[a], order[b]>> \in R
    BY <1>7, <1>8
  <2> HIDE DEF After, places
  <2> QED  BY <1>4, <2>1
<1>9. ASSUME NEW a \in 1..n, NEW b \in 1..n, order[a] = order[b] PROVE a = b
  <2>1. ~After(order[a], order[a])
    <3>1. order[a] \in places
      BY <1>7
    <3> QED  BY <1>1, <1>2, <3>1, PrecedesIsStrict
  <2> HIDE DEF After
  <2>2. ~(a < b) /\ ~(b < a)
    BY <1>8, <1>9, <2>1
  <2> QED  BY <1>1, <2>2
<1>10. r \in Seq(Entry) /\ Len(r) = n /\ \A k \in 1..n : r[k] = entries[order[k]]
  <2>1. \A k \in 1..n : entries[order[k]] \in Entry
    BY <1>1, <1>7
  <2> HIDE DEF r
  <2> QED  BY <1>1, <1>3, <2>1
<1> HIDE DEF r
<1>11. Rearranges(r, entries, order)
  BY <1>7, <1>9, <1>10 DEF Rearranges
<1>12. Ordered(r)
  <2>1. ASSUME NEW a \in 1..n, NEW b \in 1..n, a < b
        PROVE  Precedes(KeyAt(r, a), KeyAt(r, b)) \/ KeyAt(r, a) = KeyAt(r, b)
    <3>1. KeyAt(r, a) = K(order[a]) /\ KeyAt(r, b) = K(order[b])
      BY <1>10 DEF KeyAt, K
    <3>2. After(order[a], order[b])
      BY <1>8, <2>1
    <3> QED  BY <3>1, <3>2
  <2> QED  BY <1>10, <2>1 DEF Ordered
<1> QED  BY <1>10, <1>11, <1>12 DEF r

\* The entries at some places, in their order.
Picked(entries, kept) ==
    [i \in DOMAIN Ascending(kept) |-> entries[Ascending(kept)[i]]]

Picks(r, entries, kept, f) ==
    Increasing(f, Len(r), kept) /\ \A i \in 1..Len(r) : r[i] = entries[f[i]]

\* The entries at some places stand there in the order of the places, once each.
LEMMA PickedInOrder ==
    ASSUME NEW entries \in Seq(Entry), NEW kept, kept \subseteq 1..Len(entries)
    PROVE  /\ Picked(entries, kept) \in Seq(Entry)
           /\ \E f : Picks(Picked(entries, kept), entries, kept, f)
<1> DEFINE order == Ascending(kept)
           m == Cardinality(kept)
           r == Picked(entries, kept)
<1>1. Len(entries) \in Nat /\ \A i \in 1..Len(entries) : entries[i] \in Entry
  OBVIOUS
<1>2. IsFiniteSet(kept) /\ kept \subseteq Nat
  <2>1. IsFiniteSet(1..Len(entries))
    BY <1>1, FS_Interval
  <2>2. kept \in SUBSET (1..Len(entries))
    OBVIOUS
  <2>3. IsFiniteSet(kept)
    BY <2>1, <2>2, FS_Subset
  <2> QED  BY <1>1, <2>3
<1>3. Increasing(order, m, kept) /\ DOMAIN order = 1..m
  BY <1>2, AscendingLists
<1>4. r = [i \in 1..m |-> entries[order[i]]]
  BY <1>3 DEF Picked
<1> HIDE DEF order, m, r
<1>5. m \in Nat /\ \A i \in 1..m : order[i] \in kept
  BY <1>3 DEF Increasing
<1>6. \A i \in 1..m : entries[order[i]] \in Entry
  BY <1>1, <1>5
<1>7. r \in Seq(Entry) /\ Len(r) = m /\ \A i \in 1..m : r[i] = entries[order[i]]
  BY <1>4, <1>5, <1>6
<1>8. Picks(r, entries, kept, order)
  BY <1>3, <1>7 DEF Picks
<1> QED  BY <1>7, <1>8 DEF r

-----------------------------------------------------------------------------
(* The merged blacklist *)

\* r has each of the paths once, in any case, and nothing else.
Lists(r, paths, source) ==
    /\ r \in Seq(Entry)
    /\ \A a, b \in 1..Len(r) : KeyAt(r, a) = KeyAt(r, b) => a = b
    /\ \A i \in 1..Len(paths) : \E a \in 1..Len(r) : KeyAt(r, a) = Key(paths[i])
    /\ \A a \in 1..Len(r) : /\ r[a].source = source
                            /\ \E i \in 1..Len(paths) : KeyAt(r, a) = Key(paths[i])

\* That is what entries_from_paths makes.
LEMMA EntriesAreListed ==
    ASSUME NEW paths \in Seq(Spellings), NEW source \in Sources
    PROVE  Lists(entries_from_paths(paths, source), paths, source)
<1> DEFINE raw == [i \in DOMAIN paths |-> [path |-> paths[i], source |-> source]]
           s == Sorted(raw)
           n == Len(paths)
           kept == {i \in DOMAIN s : i = 1 \/ ~SamePath(s[i - 1], s[i])}
           r == entries_from_paths(paths, source)
<1>1. /\ n \in Nat /\ raw \in Seq(Entry) /\ Len(raw) = n
      /\ \A i \in 1..n : raw[i].source = source /\ KeyAt(raw, i) = Key(paths[i])
  <2>1. n \in Nat /\ DOMAIN paths = 1..n /\ \A i \in 1..n : paths[i] \in Spellings
    OBVIOUS
  <2>2. \A i \in 1..n : [path |-> paths[i], source |-> source] \in Entry
    BY <2>1 DEF Entry
  <2>3. raw = [i \in 1..n |-> [path |-> paths[i], source |-> source]]
    BY <2>1
  <2>4. raw \in Seq(Entry) /\ Len(raw) = n
    <3> HIDE DEF raw
    <3> QED  BY <2>1, <2>2, <2>3
  <2>5. \A i \in 1..n : raw[i] = [path |-> paths[i], source |-> source]
    <3> HIDE DEF raw
    <3> QED  BY <2>3
  <2>6. \A i \in 1..n : raw[i].source = source /\ raw[i].path = paths[i]
    <3> TAKE i \in 1..n
    <3> HIDE DEF raw
    <3>1. raw[i] = [path |-> paths[i], source |-> source]
      BY <2>5
    <3> QED  BY <3>1
  <2> HIDE DEF raw
  <2> QED  BY <2>1, <2>4, <2>6 DEF KeyAt
<1>2. r = Picked(s, kept)
  BY DEF entries_from_paths, Deduplicated, Picked
<1> HIDE DEF raw, r
<1>3. s \in Seq(Entry) /\ Ordered(s) /\ \E order : Rearranges(s, raw, order)
  BY <1>1, SortedIsOrdered
<1>4. PICK order : Rearranges(s, raw, order)
  BY <1>3
<1> HIDE DEF s
<1>5. Len(s) = n /\ DOMAIN s = 1..n
  BY <1>1, <1>3, <1>4 DEF Rearranges
<1>6. \A i \in 1..n : i \in kept <=> i = 1 \/ KeyAt(s, i - 1) # KeyAt(s, i)
  BY <1>5 DEF SamePath, KeyAt
<1>7. kept \subseteq 1..n
  BY <1>5
<1> HIDE DEF kept, n
<1>8. r \in Seq(Entry) /\ \E f : Picks(r, s, kept, f)
  <2>1. kept \subseteq 1..Len(s)
    BY <1>5, <1>7
  <2>2. Picked(s, kept) \in Seq(Entry) /\ \E f : Picks(Picked(s, kept), s, kept, f)
    BY <1>3, <2>1, PickedInOrder
  <2> QED  BY <1>2, <2>2
<1>9. PICK f : Picks(r, s, kept, f)
  BY <1>8
<1>10. /\ Len(r) \in Nat /\ \A a \in 1..Len(r) : f[a] \in kept /\ f[a] \in 1..n /\ KeyAt(r, a) = KeyAt(s, f[a])
       /\ \A i \in kept : \E a \in 1..Len(r) : f[a] = i
       /\ \A a, b \in 1..Len(r) : a < b => f[a] < f[b]
  BY <1>7, <1>9 DEF Picks, Increasing, KeyAt
<1>11. \A i \in 1..n : KeyAt(s, i) \in Keys
  <2> TAKE i \in 1..n
  <2>1. s[i] \in Entry
    BY <1>3, <1>5
  <2>2. s[i].path \in Spellings
    BY <2>1 DEF Entry
  <2> QED  BY <2>2, KeyType DEF KeyAt
<1>12. ASSUME NEW a \in 1..Len(r), NEW b \in 1..Len(r), a < b PROVE KeyAt(r, a) # KeyAt(r, b)
  <2>1. f[a] \in 1..n /\ f[b] \in 1..n /\ f[a] < f[b] /\ f[b] \in kept
    BY <1>10, <1>12
  <2> DEFINE j == f[b] - 1
  <2>2. j \in 1..n /\ f[a] <= j /\ j < f[b]
    BY <1>1, <2>1
  <2>3. f[b] # 1 /\ KeyAt(s, j) # KeyAt(s, f[b])
    BY <1>1, <1>6, <2>1
  <2> HIDE DEF j
  <2>4. Precedes(KeyAt(s, j), KeyAt(s, f[b]))
    BY <1>3, <1>5, <2>1, <2>2, <2>3 DEF Ordered
  <2>5. f[a] = j \/ Precedes(KeyAt(s, f[a]), KeyAt(s, j)) \/ KeyAt(s, f[a]) = KeyAt(s, j)
    <3>1. f[a] = j \/ f[a] < j
      BY <1>1, <2>1, <2>2
    <3> QED  BY <1>3, <1>5, <2>1, <2>2, <3>1 DEF Ordered
  <2>6. Precedes(KeyAt(s, f[a]), KeyAt(s, f[b]))
    <3>1. KeyAt(s, f[a]) \in Keys /\ KeyAt(s, j) \in Keys /\ KeyAt(s, f[b]) \in Keys
      BY <1>11, <2>1, <2>2
    <3>2. CASE Precedes(KeyAt(s, f[a]), KeyAt(s, j))
      BY <2>4, <3>1, <3>2, PrecedesIsTransitive
    <3>3. CASE KeyAt(s, f[a]) = KeyAt(s, j)
      BY <2>4, <3>3
    <3>4. CASE f[a] = j
      BY <2>4, <3>4
    <3> QED  BY <2>5, <3>2, <3>3, <3>4
  <2>7. ~Precedes(KeyAt(s, f[a]), KeyAt(s, f[a]))
    BY <1>11, <2>1, PrecedesIsStrict
  <2>8. KeyAt(s, f[a]) # KeyAt(s, f[b])
    BY <2>6, <2>7
  <2> QED  BY <1>10, <2>8
<1>13. ASSUME NEW a \in 1..Len(r), NEW b \in 1..Len(r), KeyAt(r, a) = KeyAt(r, b) PROVE a = b
  <2>1. ~(a < b) /\ ~(b < a)
    BY <1>12, <1>13
  <2> QED  BY <1>10, <2>1
<1>14. ASSUME NEW i \in 1..Len(paths) PROVE \E a \in 1..Len(r) : KeyAt(r, a) = Key(paths[i])
  <2>1. i \in 1..n
    BY DEF n
  <2>2. PICK k \in 1..n : order[k] = i
    BY <1>1, <1>4, <2>1 DEF Rearranges
  <2>3. KeyAt(s, k) = KeyAt(raw, i)
    BY <1>1, <1>4, <2>2 DEF Rearranges, KeyAt
  <2> DEFINE T == {x \in 1..n : KeyAt(s, x) = KeyAt(s, k)}
  <2>4. PICK m \in T : \A x \in T : m <= x
    <3>1. T \subseteq Nat /\ T # {}
      OBVIOUS
    <3> HIDE DEF T
    <3> QED  BY <3>1, LeastNumber
  <2>5. m \in 1..n /\ KeyAt(s, m) = KeyAt(s, k)
    OBVIOUS
  <2>6. m # 1 => KeyAt(s, m - 1) # KeyAt(s, m)
    <3> SUFFICES ASSUME m # 1, KeyAt(s, m - 1) = KeyAt(s, m) PROVE FALSE
      OBVIOUS
    <3> DEFINE j == m - 1
    <3>1. j \in 1..n /\ ~(m <= j)
      BY <1>1, <2>5
    <3>2. j \in T
      BY <2>5, <3>1
    <3> HIDE DEF j, T
    <3> QED  BY <2>4, <3>1, <3>2
  <2>7. m \in kept
    BY <1>6, <2>5, <2>6
  <2>8. PICK a \in 1..Len(r) : f[a] = m
    BY <1>10, <2>7
  <2>9. KeyAt(r, a) = Key(paths[i])
    BY <1>1, <1>10, <2>1, <2>3, <2>5, <2>8
  <2> QED  BY <2>9
<1>15. ASSUME NEW a \in 1..Len(r)
       PROVE  r[a].source = source /\ \E i \in 1..Len(paths) : KeyAt(r, a) = Key(paths[i])
  <2>1. f[a] \in 1..n /\ r[a] = s[f[a]]
    BY <1>9, <1>10 DEF Picks
  <2>2. order[f[a]] \in 1..n /\ s[f[a]] = raw[order[f[a]]]
    BY <1>1, <1>4, <2>1 DEF Rearranges
  <2>3. r[a].source = source /\ KeyAt(r, a) = Key(paths[order[f[a]]])
    BY <1>1, <2>1, <2>2 DEF KeyAt
  <2> QED  BY <2>2, <2>3 DEF n
<1>16. Lists(r, paths, source)
  BY <1>8, <1>13, <1>14, <1>15 DEF Lists
<1> QED  BY <1>16 DEF r

\* The list has each default as a built-in and each user path as a user entry,
\* nothing twice, and nothing else.
Merges(l, defaults, users) ==
    /\ l \in Seq(Entry)
    /\ \A a, b \in 1..Len(l) : KeyAt(l, a) = KeyAt(l, b) /\ l[a].source = l[b].source => a = b
    /\ \A i \in 1..Len(defaults) : \E a \in 1..Len(l) : l[a].source = "BuiltIn" /\ KeyAt(l, a) = Key(defaults[i])
    /\ \A i \in 1..Len(users) : \E a \in 1..Len(l) : l[a].source = "User" /\ KeyAt(l, a) = Key(users[i])
    /\ \A a \in 1..Len(l) :
          \/ l[a].source = "BuiltIn" /\ \E i \in 1..Len(defaults) : KeyAt(l, a) = Key(defaults[i])
          \/ l[a].source = "User" /\ \E i \in 1..Len(users) : KeyAt(l, a) = Key(users[i])

\* That is what merge_source_blacklist makes.
THEOREM MergeIsMerged ==
    ASSUME NEW users \in Seq(Spellings)
    PROVE  Merges(merge_source_blacklist(users), FixedEntries \o EnvEntries, users)
<1> DEFINE defaults == FixedEntries \o EnvEntries
           B == built_in_source_blacklist
           U == entries_from_paths(users, "User")
           both == B \o U
           s == Sorted(both)
           kept == {i \in DOMAIN s : i = 1 \/ ~(s[i - 1].source = s[i].source /\ SamePath(s[i - 1], s[i]))}
           r == merge_source_blacklist(users)
           n == Len(both)
<1>1. defaults \in Seq(Spellings) /\ "BuiltIn" \in Sources /\ "User" \in Sources
  BY InputsAreSpellings, ConcatProperties DEF Sources
<1>2. r = Picked(s, kept)
  BY DEF merge_source_blacklist, Deduplicated, Picked
<1> HIDE DEF defaults, r
<1>3. Lists(B, defaults, "BuiltIn") /\ Lists(U, users, "User")
  <2>1. B = entries_from_paths(defaults, "BuiltIn")
    BY DEF built_in_source_blacklist, defaults
  <2> QED  BY <1>1, <2>1, EntriesAreListed
<1> HIDE DEF B, U
<1>4. /\ B \in Seq(Entry) /\ U \in Seq(Entry) /\ Len(B) \in Nat /\ Len(U) \in Nat
  BY <1>3 DEF Lists
<1>5. /\ both \in Seq(Entry) /\ n = Len(B) + Len(U)
      /\ \A i \in 1..n : both[i] = IF i <= Len(B) THEN B[i] ELSE U[i - Len(B)]
  <2>1. /\ both \in Seq(Entry) /\ Len(both) = Len(B) + Len(U)
        /\ \A i \in 1..Len(B) + Len(U) : both[i] = IF i <= Len(B) THEN B[i] ELSE U[i - Len(B)]
    BY <1>4, ConcatProperties
  <2> HIDE DEF both
  <2> QED  BY <2>1
<1> HIDE DEF both
<1>6. ASSUME NEW i \in 1..n
      PROVE  \/ i \in 1..Len(B) /\ both[i] = B[i] /\ both[i].source = "BuiltIn"
             \/ /\ i - Len(B) \in 1..Len(U) /\ both[i] = U[i - Len(B)] /\ both[i].source = "User"
                /\ i \notin 1..Len(B)
  <2>1. CASE i <= Len(B)
    <3>1. i \in 1..Len(B)
      BY <1>4, <1>5, <2>1
    <3>2. both[i] = B[i]
      BY <1>5, <2>1
    <3> QED  BY <1>3, <3>1, <3>2 DEF Lists
  <2>2. CASE i > Len(B)
    <3>1. i - Len(B) \in 1..Len(U) /\ i \notin 1..Len(B) /\ ~(i <= Len(B))
      BY <1>4, <1>5, <2>2
    <3>2. both[i] = U[i - Len(B)]
      BY <1>5, <3>1
    <3> QED  BY <1>3, <3>1, <3>2 DEF Lists
  <2> QED  BY <1>4, <1>5, <2>1, <2>2
<1>7. ASSUME NEW i \in 1..n, NEW j \in 1..n, KeyAt(both, i) = KeyAt(both, j), both[i].source = both[j].source
      PROVE  i = j
  <2>1. CASE i \in 1..Len(B)
    <3>1. both[i] = B[i] /\ both[j] = B[j] /\ j \in 1..Len(B)
      BY <1>6, <1>7, <2>1
    <3>2. KeyAt(B, i) = KeyAt(B, j)
      BY <1>7, <3>1 DEF KeyAt
    <3> QED  BY <1>3, <2>1, <3>1, <3>2 DEF Lists
  <2>2. CASE i \notin 1..Len(B)
    <3> DEFINE x == i - Len(B)
               y == j - Len(B)
    <3>1. x \in 1..Len(U) /\ y \in 1..Len(U) /\ both[i] = U[x] /\ both[j] = U[y]
      <4>1. both[i].source = "User" /\ both[j].source = "User"
        BY <1>6, <1>7, <2>2
      <4> QED  BY <1>6, <2>2, <4>1
    <3> HIDE DEF x, y
    <3>2. KeyAt(U, x) = KeyAt(U, y)
      BY <1>7, <3>1 DEF KeyAt
    <3>3. x = y
      BY <1>3, <3>1, <3>2 DEF Lists
    <3> QED  BY <1>4, <1>5, <3>3 DEF x, y
  <2> QED  BY <2>1, <2>2
<1>8. s \in Seq(Entry) /\ \E order : Rearranges(s, both, order)
  BY <1>5, SortedIsOrdered
<1>9. PICK order : Rearranges(s, both, order)
  BY <1>8
<1> HIDE DEF s
<1>10. /\ Len(s) = n /\ DOMAIN s = 1..n /\ n \in Nat
       /\ \A k \in 1..n : order[k] \in 1..n /\ s[k] = both[order[k]] /\ KeyAt(s, k) = KeyAt(both, order[k])
       /\ \A i \in 1..n : \E k \in 1..n : order[k] = i
       /\ \A a, b \in 1..n : order[a] = order[b] => a = b
  <2>1. n \in Nat /\ Len(s) = n
    BY <1>4, <1>5, <1>9 DEF Rearranges
  <2>2. DOMAIN s = 1..n
    <3> HIDE DEF n
    <3> QED  BY <1>8, <2>1
  <2>3. /\ \A k \in 1..n : order[k] \in 1..n /\ s[k] = both[order[k]]
        /\ \A i \in 1..n : \E k \in 1..n : order[k] = i
        /\ \A a, b \in 1..n : order[a] = order[b] => a = b
    BY <1>9 DEF Rearranges
  <2> HIDE DEF n
  <2> QED  BY <2>1, <2>2, <2>3 DEF KeyAt
<1>11. kept = 1..n
  <2>1. ASSUME NEW i \in 1..n, i # 1 PROVE ~(s[i - 1].source = s[i].source /\ SamePath(s[i - 1], s[i]))
    <3> SUFFICES ASSUME s[i - 1].source = s[i].source /\ SamePath(s[i - 1], s[i]) PROVE FALSE
      OBVIOUS
    <3> DEFINE j == i - 1
    <3>1. j \in 1..n /\ j # i
      BY <1>10, <2>1
    <3>2. s[j].source = s[i].source /\ KeyAt(s, j) = KeyAt(s, i)
      BY DEF SamePath, KeyAt
    <3> HIDE DEF j
    <3>3. /\ order[i] \in 1..n /\ order[j] \in 1..n
          /\ KeyAt(both, order[j]) = KeyAt(both, order[i]) /\ both[order[j]].source = both[order[i]].source
      BY <1>10, <3>1, <3>2
    <3>4. order[j] = order[i]
      BY <1>7, <3>3
    <3> QED  BY <1>10, <3>1, <3>4
  <2> QED  BY <1>10, <2>1
<1> HIDE DEF kept
<1>12. r \in Seq(Entry) /\ \E f : Picks(r, s, 1..n, f)
  <2>1. 1..n \subseteq 1..Len(s)
    BY <1>10
  <2>2. Picked(s, 1..n) \in Seq(Entry) /\ \E f : Picks(Picked(s, 1..n), s, 1..n, f)
    BY <1>8, <2>1, PickedInOrder
  <2> QED  BY <1>2, <1>11, <2>2
<1>13. PICK f : Picks(r, s, 1..n, f)
  BY <1>12
<1> HIDE DEF n
<1>14. /\ Len(r) \in Nat
       /\ \A a \in 1..Len(r) : f[a] \in 1..n /\ r[a] = s[f[a]]
       /\ \A k \in 1..n : \E a \in 1..Len(r) : f[a] = k
       /\ \A a, b \in 1..Len(r) : f[a] = f[b] => a = b
  <2>1. /\ Len(r) \in Nat
        /\ \A a \in 1..Len(r) : f[a] \in 1..n /\ r[a] = s[f[a]]
        /\ \A k \in 1..n : \E a \in 1..Len(r) : f[a] = k
        /\ \A a, b \in 1..Len(r) : a < b => f[a] < f[b]
    BY <1>13 DEF Picks, Increasing
  <2>2. ASSUME NEW a \in 1..Len(r), NEW b \in 1..Len(r), f[a] = f[b] PROVE a = b
    <3>1. ~(f[a] < f[b]) /\ ~(f[b] < f[a])
      <4>1. f[a] \in Nat
        BY <1>10, <2>1
      <4> QED  BY <2>2, <4>1
    <3>2. ~(a < b) /\ ~(b < a)
      BY <2>1, <3>1
    <3> QED  BY <2>1, <3>2
  <2> QED  BY <2>1, <2>2
<1>15. ASSUME NEW a \in 1..Len(r)
       PROVE  order[f[a]] \in 1..n /\ r[a] = both[order[f[a]]] /\ KeyAt(r, a) = KeyAt(both, order[f[a]])
  BY <1>10, <1>14 DEF KeyAt
<1>16. ASSUME NEW i \in 1..n PROVE \E a \in 1..Len(r) : r[a] = both[i] /\ KeyAt(r, a) = KeyAt(both, i)
  <2>1. PICK k \in 1..n : order[k] = i
    BY <1>10
  <2>2. PICK a \in 1..Len(r) : f[a] = k
    BY <1>14
  <2> QED  BY <1>15, <2>1, <2>2
<1>17. ASSUME NEW a \in 1..Len(r), NEW b \in 1..Len(r), KeyAt(r, a) = KeyAt(r, b), r[a].source = r[b].source
       PROVE  a = b
  <2>1. order[f[a]] = order[f[b]]
    BY <1>7, <1>15, <1>17
  <2>2. f[a] = f[b]
    BY <1>10, <1>14, <2>1
  <2> QED  BY <1>14, <2>2
<1>18. ASSUME NEW i \in 1..Len(defaults)
       PROVE  \E a \in 1..Len(r) : r[a].source = "BuiltIn" /\ KeyAt(r, a) = Key(defaults[i])
  <2>1. PICK b \in 1..Len(B) : KeyAt(B, b) = Key(defaults[i])
    BY <1>3 DEF Lists
  <2>2. b \in 1..n
    BY <1>4, <1>5
  <2>3. both[b] = B[b] /\ both[b].source = "BuiltIn"
    BY <1>6, <2>2
  <2>4. PICK a \in 1..Len(r) : r[a] = both[b] /\ KeyAt(r, a) = KeyAt(both, b)
    BY <1>16, <2>2
  <2>5. r[a].source = "BuiltIn" /\ KeyAt(r, a) = Key(defaults[i])
    BY <2>1, <2>3, <2>4 DEF KeyAt
  <2> QED  BY <2>5
<1>19. ASSUME NEW i \in 1..Len(users)
       PROVE  \E a \in 1..Len(r) : r[a].source = "User" /\ KeyAt(r, a) = Key(users[i])
  <2>1. PICK b \in 1..Len(U) : KeyAt(U, b) = Key(users[i])
    BY <1>3 DEF Lists
  <2> PICK c \in 1..n : c - Len(B) = b /\ c \notin 1..Len(B)
    <3>1. Len(B) + b \in 1..n /\ (Len(B) + b) - Len(B) = b /\ Len(B) + b \notin 1..Len(B)
      BY <1>4, <1>5
    <3> QED  BY <3>1
  <2>3. both[c] = U[b] /\ both[c].source = "User"
    BY <1>6
  <2>4. PICK a \in 1..Len(r) : r[a] = both[c] /\ KeyAt(r, a) = KeyAt(both, c)
    BY <1>16
  <2>5. r[a].source = "User" /\ KeyAt(r, a) = Key(users[i])
    BY <2>1, <2>3, <2>4 DEF KeyAt
  <2> QED  BY <2>5
<1>20. ASSUME NEW a \in 1..Len(r)
       PROVE  \/ r[a].source = "BuiltIn" /\ \E i \in 1..Len(defaults) : KeyAt(r, a) = Key(defaults[i])
              \/ r[a].source = "User" /\ \E i \in 1..Len(users) : KeyAt(r, a) = Key(users[i])
  <2> DEFINE x == order[f[a]]
  <2>1. x \in 1..n /\ r[a] = both[x] /\ KeyAt(r, a) = KeyAt(both, x)
    BY <1>15
  <2> HIDE DEF x
  <2>2. CASE x \in 1..Len(B)
    <3>1. both[x] = B[x] /\ both[x].source = "BuiltIn"
      BY <1>6, <2>1, <2>2
    <3>2. PICK i \in 1..Len(defaults) : KeyAt(B, x) = Key(defaults[i])
      BY <1>3, <2>2 DEF Lists
    <3> QED  BY <2>1, <3>1, <3>2 DEF KeyAt
  <2>3. CASE x \notin 1..Len(B)
    <3> DEFINE y == x - Len(B)
    <3>1. y \in 1..Len(U) /\ both[x] = U[y] /\ both[x].source = "User"
      BY <1>6, <2>1, <2>3
    <3> HIDE DEF y
    <3>2. PICK i \in 1..Len(users) : KeyAt(U, y) = Key(users[i])
      BY <1>3, <3>1 DEF Lists
    <3> QED  BY <2>1, <3>1, <3>2 DEF KeyAt
  <2> QED  BY <2>2, <2>3
<1> HIDE DEF r
<1>21. Merges(r, defaults, users)
  BY <1>12, <1>17, <1>18, <1>19, <1>20 DEF Merges
<1> QED  BY <1>21 DEF r, defaults

\* What MergeLosesNothing says of a list and the entries of the user.
Has(l, s, source) == {i \in DOMAIN l : Key(l[i].path) = Key(s) /\ l[i].source = source}
HasAll(l, users) ==
    /\ \A s \in ToSet(FixedEntries \o EnvEntries) : Cardinality(Has(l, s, "BuiltIn")) = 1
    /\ \A s \in ToSet(users) : Cardinality(Has(l, s, "User")) = 1
    /\ \A i \in DOMAIN l :
          \E s \in ToSet(FixedEntries \o EnvEntries \o users) :
              i \in Has(l, s, "BuiltIn") \cup Has(l, s, "User")

\* MergeLosesNothing is HasAll, from the merge on.
LEMMA MergeLosesNothingByParts ==
    MergeLosesNothing <=> (pc \in {"roots", "profile", "entries"} => HasAll(list, UserEntries))
BY DEF MergeLosesNothing, HasAll, Has, Entries

\* The elements of two sequences, one after the other.
LEMMA ElementsOfBoth ==
    ASSUME NEW V, NEW s \in Seq(V), NEW t \in Seq(V)
    PROVE  ToSet(s \o t) = ToSet(s) \cup ToSet(t)
<1> DEFINE u == s \o t
<1>1. /\ u \in Seq(V) /\ Len(u) = Len(s) + Len(t)
      /\ \A i \in 1..Len(s) + Len(t) : u[i] = IF i <= Len(s) THEN s[i] ELSE t[i - Len(s)]
  BY ConcatProperties
<1>2. Len(s) \in Nat /\ Len(t) \in Nat
  OBVIOUS
<1>3. DOMAIN u = 1..Len(s) + Len(t) /\ DOMAIN s = 1..Len(s) /\ DOMAIN t = 1..Len(t)
  <2> HIDE DEF u
  <2> QED  BY <1>1
<1> HIDE DEF u
<1>4. ASSUME NEW i \in DOMAIN u PROVE u[i] \in ToSet(s) \cup ToSet(t)
  <2>1. CASE i <= Len(s)
    <3>1. i \in DOMAIN s /\ u[i] = s[i]
      BY <1>1, <1>2, <1>3, <2>1
    <3> QED  BY <3>1 DEF ToSet
  <2>2. CASE ~(i <= Len(s))
    <3>1. i - Len(s) \in DOMAIN t /\ u[i] = t[i - Len(s)]
      BY <1>1, <1>2, <1>3, <2>2
    <3> QED  BY <3>1 DEF ToSet
  <2> QED  BY <2>1, <2>2
<1>5. ASSUME NEW i \in DOMAIN s PROVE s[i] \in ToSet(u)
  <2>1. i \in DOMAIN u /\ u[i] = s[i]
    BY <1>1, <1>2, <1>3
  <2> QED  BY <2>1 DEF ToSet
<1>6. ASSUME NEW i \in DOMAIN t PROVE t[i] \in ToSet(u)
  <2> PICK j \in 1..Len(s) + Len(t) : j - Len(s) = i /\ ~(j <= Len(s))
    <3>1. Len(s) + i \in 1..Len(s) + Len(t) /\ (Len(s) + i) - Len(s) = i /\ ~(Len(s) + i <= Len(s))
      BY <1>2, <1>3
    <3> QED  BY <3>1
  <2>1. j \in DOMAIN u /\ u[j] = t[i]
    BY <1>1, <1>3
  <2> QED  BY <2>1 DEF ToSet
<1>7. ToSet(u) = ToSet(s) \cup ToSet(t)
  <2>1. ToSet(u) = {u[i] : i \in DOMAIN u} /\ ToSet(s) = {s[i] : i \in DOMAIN s} /\ ToSet(t) = {t[i] : i \in DOMAIN t}
    BY DEF ToSet
  <2> QED  BY <1>4, <1>5, <1>6, <2>1
<1> QED  BY <1>7 DEF u

\* What is merged has everything.
LEMMA MergedHasAll ==
    ASSUME NEW l, NEW users \in Seq(Spellings), Merges(l, FixedEntries \o EnvEntries, users)
    PROVE  HasAll(l, users)
<1> DEFINE defaults == FixedEntries \o EnvEntries
<1>1. defaults \in Seq(Spellings)
  BY InputsAreSpellings, ConcatProperties
<1>2. ToSet(defaults \o users) = ToSet(defaults) \cup ToSet(users)
  <2> HIDE DEF defaults
  <2> QED  BY <1>1, ElementsOfBoth
<1>3. Merges(l, defaults, users)
  OBVIOUS
<1> HIDE DEF defaults
<1>4. l \in Seq(Entry) /\ DOMAIN l = 1..Len(l)
  BY <1>3 DEF Merges
<1>5. DOMAIN defaults = 1..Len(defaults) /\ DOMAIN users = 1..Len(users)
  BY <1>1
<1>6. ASSUME NEW s, NEW source, NEW a \in DOMAIN l, Key(l[a].path) = Key(s), l[a].source = source
      PROVE  Cardinality(Has(l, s, source)) = 1
  <2>1. ASSUME NEW b \in Has(l, s, source) PROVE b = a
    BY <1>3, <1>4, <1>6, <2>1 DEF Has, Merges, KeyAt
  <2>2. a \in Has(l, s, source)
    BY <1>6 DEF Has
  <2>3. Has(l, s, source) = {a}
    BY <2>1, <2>2
  <2> QED  BY <2>3, FS_Singleton
<1>7. ASSUME NEW s \in ToSet(defaults) PROVE Cardinality(Has(l, s, "BuiltIn")) = 1
  <2>1. PICK i \in 1..Len(defaults) : s = defaults[i]
    BY <1>5 DEF ToSet
  <2>2. PICK a \in 1..Len(l) : l[a].source = "BuiltIn" /\ KeyAt(l, a) = Key(defaults[i])
    BY <1>3 DEF Merges
  <2> QED  BY <1>4, <1>6, <2>1, <2>2 DEF KeyAt
<1>8. ASSUME NEW s \in ToSet(users) PROVE Cardinality(Has(l, s, "User")) = 1
  <2>1. PICK i \in 1..Len(users) : s = users[i]
    BY <1>5 DEF ToSet
  <2>2. PICK a \in 1..Len(l) : l[a].source = "User" /\ KeyAt(l, a) = Key(users[i])
    BY <1>3 DEF Merges
  <2> QED  BY <1>4, <1>6, <2>1, <2>2 DEF KeyAt
<1>9. ASSUME NEW a \in DOMAIN l
      PROVE  \E s \in ToSet(defaults \o users) : a \in Has(l, s, "BuiltIn") \cup Has(l, s, "User")
  <2>1. a \in 1..Len(l)
    BY <1>4
  <2>2. CASE l[a].source = "BuiltIn" /\ \E i \in 1..Len(defaults) : KeyAt(l, a) = Key(defaults[i])
    <3>1. PICK i \in 1..Len(defaults) : KeyAt(l, a) = Key(defaults[i])
      BY <2>2
    <3>2. defaults[i] \in ToSet(defaults)
      BY <1>5 DEF ToSet
    <3>3. a \in Has(l, defaults[i], "BuiltIn")
      BY <2>2, <3>1 DEF Has, KeyAt
    <3> QED  BY <1>2, <3>2, <3>3
  <2>3. CASE l[a].source = "User" /\ \E i \in 1..Len(users) : KeyAt(l, a) = Key(users[i])
    <3>1. PICK i \in 1..Len(users) : KeyAt(l, a) = Key(users[i])
      BY <2>3
    <3>2. users[i] \in ToSet(users)
      BY <1>5 DEF ToSet
    <3>3. a \in Has(l, users[i], "User")
      BY <2>3, <3>1 DEF Has, KeyAt
    <3> QED  BY <1>2, <3>2, <3>3
  <2> QED  BY <1>3, <2>1, <2>2, <2>3 DEF Merges
<1> QED  BY <1>7, <1>8, <1>9 DEF HasAll, defaults

\* Whoever has everything has a key for each entry, and an entry for each key.
LEMMA EntryForKey ==
    ASSUME NEW l \in Seq(Entry), NEW users \in Seq(Spellings), HasAll(l, users)
    PROVE  LET all == FixedEntries \o EnvEntries \o users
           IN  /\ all \in Seq(Spellings)
               /\ \A i \in DOMAIN all : \E a \in 1..Len(l) : Key(l[a].path) = Key(all[i])
               /\ \A a \in 1..Len(l) : \E i \in DOMAIN all : Key(l[a].path) = Key(all[i])
<1> DEFINE defaults == FixedEntries \o EnvEntries
           all == defaults \o users
<1>1. defaults \in Seq(Spellings)
  BY InputsAreSpellings, ConcatProperties
<1>2. all \in Seq(Spellings) /\ ToSet(all) = ToSet(defaults) \cup ToSet(users)
  <2> HIDE DEF defaults
  <2> QED  BY <1>1, ElementsOfBoth, ConcatProperties
<1>3. DOMAIN l = 1..Len(l)
  OBVIOUS
<1>4. ASSUME NEW s, NEW source, Cardinality(Has(l, s, source)) = 1
      PROVE  \E a \in 1..Len(l) : Key(l[a].path) = Key(s)
  <2>1. Has(l, s, source) # {}
    BY <1>4, FS_EmptySet
  <2> QED  BY <1>3, <2>1 DEF Has
<1>5. HasAll(l, users)
  OBVIOUS
<1>6. ASSUME NEW i \in DOMAIN all PROVE \E a \in 1..Len(l) : Key(l[a].path) = Key(all[i])
  <2>1. all[i] \in ToSet(defaults) \cup ToSet(users)
    <3> HIDE DEF all
    <3>1. all[i] \in ToSet(all)
      BY DEF ToSet
    <3> QED  BY <1>2, <3>1
  <2>2. Cardinality(Has(l, all[i], "BuiltIn")) = 1 \/ Cardinality(Has(l, all[i], "User")) = 1
    BY <1>5, <2>1 DEF HasAll
  <2> HIDE DEF all
  <2> QED  BY <1>4, <2>2
<1>7. ASSUME NEW a \in 1..Len(l) PROVE \E i \in DOMAIN all : Key(l[a].path) = Key(all[i])
  <2>1. PICK s \in ToSet(all) : a \in Has(l, s, "BuiltIn") \cup Has(l, s, "User")
    BY <1>3, <1>5 DEF HasAll
  <2>2. Key(l[a].path) = Key(s)
    BY <2>1 DEF Has
  <2> HIDE DEF all
  <2>3. PICK i \in DOMAIN all : s = all[i]
    BY <2>1 DEF ToSet
  <2> QED  BY <2>2, <2>3
<1> QED  BY <1>2, <1>6, <1>7


-----------------------------------------------------------------------------
(* What the judgement asks of the operators *)

\* A path is a root of some kind if it is one in lower case.
LEMMA RootsAreRoots ==
    ASSUME NEW p, IsNormal(p)
    PROVE  is_volume_root(p) \/ is_unc_admin_share(p) <=> IsRoot(FoldPath(p))
<1> DEFINE q == FoldPath(p)
<1>1. p \in Path /\ Len(p) >= RootLength(p) /\ \A i \in 1..RootLength(p) : p[i] # Empty
  BY DEF IsNormal, IsRooted
<1>2. q \in Path /\ Len(q) = Len(p) /\ FoldPath(q) = FoldPath(p)
  BY <1>1, FoldOfPath
<1>3. IsDrive(p) <=> IsDrive(q)
  BY <1>1, <1>2, SameFoldPath
<1>4. CASE IsDrive(p)
  BY <1>2, <1>3, <1>4 DEF is_volume_root, is_unc_admin_share, IsRoot
<1>5. CASE ~IsDrive(p)
  <2> DEFINE c == p[2]
  <2>1. 2 \in 1..Len(p) /\ c # Empty
    <3>1. RootLength(p) = 2 /\ Len(p) \in Nat
      BY <1>1, <1>5 DEF RootLength, Path
    <3> QED  BY <1>1, <3>1
  <2>2. c \in Component /\ q[2] = FoldText(c)
    <3>1. 2 \in DOMAIN p
      BY <1>1, <2>1 DEF Path
    <3> QED  BY <1>1, <3>1, FoldOfPath
  <2> HIDE DEF c, q
  <2>3. /\ Len(FoldText(c)) = Len(c) /\ \A i \in DOMAIN c : FoldText(c)[i] = "$" <=> c[i] = "$"
    BY <2>2, FoldOfText DEF Special
  <2>4. Len(c) \in DOMAIN c
    BY <2>1, <2>2 DEF Component, Empty
  <2>5. Last(q[2]) = "$" <=> Last(c) = "$"
    BY <2>2, <2>3, <2>4 DEF Last
  <2>6. is_unc_admin_share(p) <=> Last(c) = "$"
    BY <1>5, <2>1 DEF is_unc_admin_share, c
  <2>7. IsRoot(q) <=> Last(q[2]) = "$"
    BY <1>3, <1>5 DEF IsRoot
  <2> QED  BY <1>5, <2>5, <2>6, <2>7 DEF is_volume_root, q
<1> QED  BY <1>4, <1>5 DEF q

\* The directory the profile lies in can be spelled.
LEMMA UsersRootIsSpelling ==
    ASSUME NEW s \in Spellings, HasUsersRoot(s)
    PROVE  UsersRoot(s) \in Spellings
<1> DEFINE p == s.parts
           t == UsersRoot(s)
<1>1. s.form \in Forms /\ p \in Seq(Component) /\ (s.form \in {"drive", "extDrive"} => IsDrive(p))
  BY DEF Spellings, Path
<1>2. t.form = s.form /\ t.parts = Front(p) /\ t = [form |-> s.form, parts |-> Front(p)]
  <2>1. s = [form |-> s.form, parts |-> s.parts]
    BY DEF Spellings
  <2> QED  BY <2>1 DEF UsersRoot
<1>3. Len(p) \in Nat /\ Len(p) > RootLength(p)
  BY <1>1 DEF HasUsersRoot
<1> HIDE DEF p, t
<1>4. Len(p) > 1 /\ p # <<>>
  BY <1>3 DEF RootLength
<1>5. Front(p) \in Seq(Component) /\ Len(Front(p)) = Len(p) - 1 /\ Front(p)[1] = p[1]
  <2>1. 1 \in 1..Len(p) - 1
    BY <1>3, <1>4
  <2> QED  BY <1>1, <1>4, <2>1, FrontIsShorter
<1>6. IsDrive(p) => IsDrive(Front(p))
  <2>1. Front(p) # <<>>
    BY <1>3, <1>4, <1>5
  <2> QED  BY <1>5, <2>1 DEF IsDrive
<1>7. t \in [form : Forms, parts : Path] /\ (t.form \in {"drive", "extDrive"} => IsDrive(t.parts))
  BY <1>1, <1>2, <1>5, <1>6 DEF Path
<1> QED  BY <1>7 DEF t, Spellings

\* Any path can be taken for a spelling.
LEMMA RespelledIsSpelling ==
    ASSUME NEW p \in Path
    PROVE  Respelled(p) \in Spellings
BY DEF Respelled, Spelling, Spellings, Forms

\* What is normalised once more is what it was; and if the way was straight it leads
\* where it led before.
LEMMA RespelledPlace ==
    ASSUME NEW d \in Disks, NEW s \in Spellings, normalize_for_policy(d, s) # Invalid
    PROVE  LET p == normalize_for_policy(d, s)
           IN  /\ IsNormal(p) /\ p \in Path
               /\ normalize_for_policy(d, Respelled(p)) = p
               /\ Straight(d, s, Place(d, s)) =>
                     /\ FoldPath(p) = Place(d, s)
                     /\ Place(d, Respelled(p)) = Place(d, s)
                     /\ Straight(d, Respelled(p), Place(d, Respelled(p)))
<1> DEFINE p == normalize_for_policy(d, s)
<1>1. IsNormal(p) /\ p \in Path
  BY NormalizeIsNamed
<1>2. normalize_for_policy(d, Respelled(p)) = p
  BY NormalizeStays
<1>3. Straight(d, s, Place(d, s)) => FoldPath(p) = Place(d, s)
  BY NormalizeIsPlace
<1> HIDE DEF p
<1>4. Straight(d, s, Place(d, s)) => /\ Place(d, Respelled(p)) = Place(d, s)
                                     /\ Straight(d, Respelled(p), Place(d, Respelled(p)))
  BY <1>1, <1>3, PlaceStays
<1> QED  BY <1>1, <1>2, <1>3, <1>4 DEF p

-----------------------------------------------------------------------------
(* The judgement *)

\* What the inductive invariant says of the types.
LEMMA Typed ==
    ASSUME TypeOK
    PROVE  /\ disk \in Disks /\ link \in Spellings /\ profile \in Spellings
           /\ UserEntries \in Seq(Spellings) /\ Entries \in Seq(Spellings)
           /\ list \in Seq(Entry) /\ Len(list) \in Nat /\ DOMAIN list = 1..Len(list)
           /\ candidate \in Path /\ NameInUse \in Spellings
           /\ next \in 1..Len(list) + 1 /\ pc \in Steps
           /\ changes \in 0..MaxChanges /\ around \subseteq Nat
<1>1. /\ disk \in Disks /\ link \in Asked /\ profile \in Profiles /\ config \in Configs
      /\ candidate \in Path /\ list \in Seq(Entry) /\ next \in 1..Len(list) + 1 /\ pc \in Steps
      /\ changes \in 0..MaxChanges /\ around \subseteq Nat
  BY DEF TypeOK, Entry
<1>2. link \in Spellings /\ profile \in Spellings
  BY <1>1, InputsAreSpellings
<1>3. config.entries \in Seq(Spellings)
  BY <1>1, InputsAreSpellings
<1>4. UserEntries \in Seq(Spellings)
  BY <1>3 DEF UserEntries
<1>5. FixedEntries \o EnvEntries \in Seq(Spellings)
  BY InputsAreSpellings, ConcatProperties
<1>6. Entries \in Seq(Spellings)
  BY <1>4, <1>5, ConcatProperties DEF Entries
<1>7. NameInUse \in Spellings
  BY <1>1, <1>2, RespelledIsSpelling DEF NameInUse
<1> QED  BY <1>1, <1>2, <1>4, <1>6, <1>7

\* Two names of one place lie in the same directories.
LEMMA SamePlaceHolds ==
    ASSUME NEW d, NEW s, NEW t, Place(d, s) = Place(d, t)
    PROVE  \A outer : Holds(d, outer, s) <=> Holds(d, outer, t)
BY DEF Holds

\* Two entries for one directory hold the same names.
LEMMA SameExtentHolds ==
    ASSUME NEW d, NEW s, NEW o, NEW outer, Extent(d, o) = Extent(d, outer)
    PROVE  Holds(d, o, s) <=> Holds(d, outer, s)
BY DEF Holds

\* What is around a name is around what it is normalised to, and nothing is around
\* a name that cannot be.
LEMMA AroundNormalized ==
    ASSUME NEW d \in Disks, NEW s \in Spellings
    PROVE  LET p == normalize_for_policy(d, s)
           IN  Around(d, s) \subseteq IF p = Invalid THEN {} ELSE Around(d, Respelled(p))
<1> DEFINE p == normalize_for_policy(d, s)
<1> SUFFICES ASSUME NEW i \in Around(d, s)
             PROVE  p # Invalid /\ i \in Around(d, Respelled(p))
  OBVIOUS
<1>1. /\ i \in DOMAIN Entries /\ Holds(d, Entries[i], s)
      /\ Straight(d, s, Place(d, s)) /\ Straight(d, Entries[i], Extent(d, Entries[i]))
  BY DEF Around
<1>2. p # Invalid
  <2>1. p = Invalid <=> Place(d, s) = Invalid
    BY <1>1, NormalizeIsPlace
  <2> QED  BY <1>1, <2>1 DEF Holds
<1>3. Place(d, Respelled(p)) = Place(d, s) /\ Straight(d, Respelled(p), Place(d, Respelled(p)))
  BY <1>1, <1>2, RespelledPlace
<1> HIDE DEF p
<1>4. Holds(d, Entries[i], Respelled(p))
  BY <1>1, <1>3, SamePlaceHolds
<1> QED  BY <1>1, <1>2, <1>3, <1>4 DEF Around

\* The entries are those of the request.
LEMMA SameEntries ==
    ASSUME UNCHANGED config
    PROVE  Entries' = Entries /\ UserEntries' = UserEntries
BY DEF Entries, UserEntries

\* As long as the disk and the request are the same, so is what they mean.
LEMMA SamePolicy ==
    ASSUME Policy
    PROVE  /\ disk' = disk /\ changes' = changes /\ link' = link /\ profile' = profile /\ config' = config
           /\ steady' = steady /\ around' = around
           /\ Entries' = Entries /\ UserEntries' = UserEntries
           /\ MeansNothing(disk)' <=> MeansNothing(disk)
           /\ ProfileMeansNothing(disk)' <=> ProfileMeansNothing(disk)
           /\ InOtherProfile(disk)' <=> InOtherProfile(disk)
           /\ RightVerdict(disk)' = RightVerdict(disk)
           /\ SteadyIsStraight' <=> SteadyIsStraight
<1>1. /\ disk' = disk /\ changes' = changes /\ link' = link /\ profile' = profile /\ config' = config
      /\ steady' = steady /\ around' = around
  BY DEF Policy, world, history
<1>2. Entries' = Entries /\ UserEntries' = UserEntries
  BY <1>1, SameEntries
<1>3. /\ MeansNothing(disk)' <=> MeansNothing(disk)
      /\ ProfileMeansNothing(disk)' <=> ProfileMeansNothing(disk)
      /\ InOtherProfile(disk)' <=> InOtherProfile(disk)
  BY <1>1 DEF MeansNothing, ProfileMeansNothing, InOtherProfile
<1>4. RightVerdict(disk)' = RightVerdict(disk)
  BY <1>1, <1>2, <1>3 DEF RightVerdict
<1>5. SteadyIsStraight' <=> SteadyIsStraight
  BY <1>1, <1>2 DEF SteadyIsStraight, StraightWays, Directories
<1> QED  BY <1>1, <1>2, <1>3, <1>4, <1>5

\* What lies around the name in use, when that is the only thing that changes.
LEMMA AroundLater ==
    ASSUME UNCHANGED config
    PROVE  AroundIsNow' <=> around' \subseteq Around(disk', NameInUse')
<1>1. Around(disk, NameInUse)' = Around(disk', NameInUse')
  BY SameEntries DEF Around
<1> QED  BY <1>1 DEF AroundIsNow

\* The list is right once it has been made.
LEMMA ListStays ==
    ASSUME MergeLosesNothing, UNCHANGED <<config, list>>,
           pc' \in {"roots", "profile", "entries"} => pc \in {"roots", "profile", "entries"}
    PROVE  MergeLosesNothing'
<1>1. UserEntries' = UserEntries
  BY SameEntries
<1>2. MergeLosesNothing' <=> (pc' \in {"roots", "profile", "entries"} => HasAll(list', UserEntries'))
  BY DEF MergeLosesNothing, HasAll, Has, Entries
<1> QED  BY <1>1, <1>2, MergeLosesNothingByParts

\* While all is as it was the ways are straight.
LEMMA StraightWhileSteady ==
    ASSUME Inductive, steady
    PROVE  /\ Straight(disk, link, Place(disk, link))
           /\ Straight(disk, profile, Extent(disk, profile))
           /\ Straight(disk, UsersRoot(profile), Extent(disk, UsersRoot(profile)))
           /\ \A i \in DOMAIN Entries : Straight(disk, Entries[i], Extent(disk, Entries[i]))
<1>1. StraightWays(disk)
  BY DEF Inductive, PathPolicyInvariant, SteadyIsStraight
<1> QED  BY <1>1 DEF StraightWays, Directories, ToSet

\* The invariant holds at the start: nothing has been looked at.
LEMMA InductiveInit == Init => Inductive
<1> SUFFICES ASSUME Init PROVE Inductive
  OBVIOUS
<1> USE DEF Init
<1>1. TypeOK
  <2>1. disk \in Disks /\ changes \in 0..MaxChanges /\ next \in 1..Len(list) + 1 /\ list \in Seq([path : Spellings, source : Sources])
    BY InputsAreSpellings
  <2>2. link \in Asked /\ link.form \in Forms /\ profile \in Profiles
    <3>1. link \in Spellings
      BY InputsAreSpellings
    <3> QED  BY <3>1 DEF Spellings
  <2>3. config \in Configs /\ config.file \in FileStates
    BY InputsAreSpellings
  <2>4. pc \in Steps /\ candidate \in Path
    BY FoldOfInvalid DEF Steps
  <2>5. around \subseteq Nat
    <3>1. DOMAIN UserEntries \subseteq Nat /\ UserEntries \in Seq(Spellings)
      <4>1. config.entries \in Seq(Spellings)
        BY InputsAreSpellings
      <4>2. UserEntries \in Seq(Spellings)
        BY <4>1 DEF UserEntries
      <4> QED  BY <4>2
    <3>2. FixedEntries \o EnvEntries \in Seq(Spellings)
      BY InputsAreSpellings, ConcatProperties
    <3>3. Entries \in Seq(Spellings)
      BY <3>1, <3>2, ConcatProperties DEF Entries
    <3>4. DOMAIN Entries \subseteq Nat
      BY <3>3
    <3> QED  BY <3>4 DEF Around
  <2>6. steady \in BOOLEAN
    BY DEF StraightWays
  <2> QED  BY <2>1, <2>2, <2>3, <2>4, <2>5, <2>6 DEF TypeOK
<1>2. CandidateIsNormal /\ CandidateIsMeant
  BY DEF CandidateIsNormal, CandidateIsMeant
<1>3. AroundIsNow /\ SteadyIsStraight
  BY DEF AroundIsNow, NameInUse, SteadyIsStraight
<1>4. ListInOrder /\ ComparedAreOutside
  BY DEF ListInOrder, ComparedAreOutside
<1>5. RuledOut
  BY DEF RuledOut
<1>6. MergeLosesNothing /\ ClearWasOutside /\ VerdictIsRight
  BY DEF MergeLosesNothing, ClearWasOutside, VerdictIsRight
<1> QED  BY <1>1, <1>2, <1>3, <1>4, <1>5, <1>6 DEF Inductive, PathPolicyInvariant

\* What means nothing is refused; what is normalised is what LINK means.
LEMMA NormalizeLinkKeeps ==
    ASSUME Inductive, NormalizeLink
    PROVE  Inductive'
<1> USE DEF Inductive, PathPolicyInvariant
<1>1. /\ pc = "normalize" /\ candidate' = normalize_for_policy(disk, link)
      /\ list' = list /\ next' = next /\ Policy
      /\ \/ candidate' = Invalid /\ pc' = "done" /\ verdict' = "error"
         \/ candidate' # Invalid /\ pc' = "load" /\ verdict' = verdict
  BY DEF NormalizeLink, Judged, GoOn
<1>2. /\ disk' = disk /\ changes' = changes /\ link' = link /\ profile' = profile /\ config' = config
      /\ steady' = steady /\ around' = around /\ RightVerdict(disk)' = RightVerdict(disk)
  BY <1>1, SamePolicy
<1>3. disk \in Disks /\ link \in Spellings
  BY Typed
<1>4. candidate' \in Path /\ (candidate' # Invalid => IsNormal(candidate'))
  BY <1>1, <1>3, NormalizeIsNamed
<1>5. steady =>
         /\ FoldPath(candidate') = Place(disk, link)
         /\ candidate' = Invalid <=> Place(disk, link) = Invalid
         /\ candidate' # Invalid => FoldPath(normalize_for_policy(disk, Respelled(candidate'))) = FoldPath(candidate')
  BY <1>1, <1>3, NormalizeIsPlace, RespelledPlace, StraightWhileSteady
<1>6. around \subseteq Around(disk, link)
  BY <1>1 DEF AroundIsNow, NameInUse
<1>7. TypeOK'
  BY <1>1, <1>2, <1>4 DEF TypeOK, Steps
<1>8. CandidateIsNormal'
  BY <1>4 DEF CandidateIsNormal
<1>9. CandidateIsMeant'
  BY <1>2, <1>5 DEF CandidateIsMeant
<1>10. AroundIsNow' /\ SteadyIsStraight'
  <2>1. NameInUse' = Respelled(candidate')
    BY <1>1 DEF NameInUse
  <2>2. around \subseteq Around(disk, Respelled(candidate'))
    BY <1>1, <1>3, <1>6, AroundNormalized
  <2> QED  BY <1>1, <1>2, <2>1, <2>2, AroundLater, SamePolicy
<1>11. ListInOrder'
  BY <1>1 DEF ListInOrder
<1>12. ComparedAreOutside'
  BY <1>1, <1>11 DEF ComparedAreOutside, ListInOrder
<1>13. RuledOut'
  BY <1>1, <1>2, <1>5 DEF RuledOut
<1>14. MergeLosesNothing'
  BY <1>1 DEF MergeLosesNothing
<1>15. ClearWasOutside' /\ VerdictIsRight'
  <2>1. steady => RightVerdict(disk) = "error" \/ candidate' # Invalid
    BY <1>5 DEF RightVerdict, MeansNothing
  <2> QED  BY <1>1, <1>2, <2>1 DEF ClearWasOutside, VerdictIsRight, TypeOK
<1> QED  BY <1>7, <1>8, <1>9, <1>10, <1>11, <1>12, <1>13, <1>14, <1>15

\* A call that leaves the name under judgement alone leaves what is known of it.
LEMMA CandidateStays ==
    ASSUME Inductive, Policy, UNCHANGED candidate, pc # "normalize", pc' # "normalize"
    PROVE  /\ CandidateIsNormal' /\ CandidateIsMeant' /\ AroundIsNow' /\ SteadyIsStraight'
           /\ NameInUse' = NameInUse
<1> USE DEF Inductive, PathPolicyInvariant
<1>1. /\ disk' = disk /\ link' = link /\ config' = config
      /\ steady' = steady /\ around' = around /\ Entries' = Entries
  BY SamePolicy
<1>2. NameInUse' = NameInUse
  BY DEF NameInUse
<1>3. CandidateIsNormal' /\ CandidateIsMeant'
  BY <1>1 DEF CandidateIsNormal, CandidateIsMeant
<1>4. AroundIsNow' /\ SteadyIsStraight'
  BY <1>1, <1>2, AroundLater, SamePolicy DEF AroundIsNow
<1> QED  BY <1>2, <1>3, <1>4

\* A configuration that cannot be read is an error, and means nothing.
LEMMA LoadConfigKeeps ==
    ASSUME Inductive, LoadConfig
    PROVE  Inductive'
<1> USE DEF Inductive, PathPolicyInvariant
<1>1. /\ pc = "load" /\ candidate' = candidate /\ list' = list /\ next' = next /\ Policy
      /\ \/ /\ config.file \in {"unreadable", "garbled"}
            /\ pc' = "done" /\ verdict' = "error"
         \/ /\ config.file \notin {"unreadable", "garbled"}
            /\ pc' = "merge" /\ verdict' = verdict
  BY DEF LoadConfig, Judged, GoOn
<1>2. /\ disk' = disk /\ changes' = changes /\ link' = link /\ profile' = profile /\ config' = config
      /\ steady' = steady /\ around' = around /\ RightVerdict(disk)' = RightVerdict(disk)
      /\ MeansNothing(disk)' <=> MeansNothing(disk)
  BY <1>1, SamePolicy
<1>3. TypeOK'
  BY <1>1, <1>2 DEF TypeOK, Steps
<1>4. CandidateIsNormal' /\ CandidateIsMeant' /\ AroundIsNow' /\ SteadyIsStraight'
  BY <1>1, CandidateStays
<1>5. ListInOrder'
  BY <1>1 DEF ListInOrder
<1>6. ComparedAreOutside'
  BY <1>1, <1>5 DEF ComparedAreOutside, ListInOrder
<1>7. RuledOut'
  BY <1>1, <1>2 DEF RuledOut, MeansNothing
<1>8. MergeLosesNothing'
  BY <1>1 DEF MergeLosesNothing
<1>9. ClearWasOutside' /\ VerdictIsRight'
  <2>1. config.file \in {"unreadable", "garbled"} => RightVerdict(disk) = "error"
    BY DEF RightVerdict, MeansNothing
  <2> QED  BY <1>1, <1>2, <2>1 DEF ClearWasOutside, VerdictIsRight, TypeOK
<1> QED  BY <1>3, <1>4, <1>5, <1>6, <1>7, <1>8, <1>9

\* The blacklist is merged from all there is.
LEMMA MergeBlacklistKeeps ==
    ASSUME Inductive, MergeBlacklist
    PROVE  Inductive'
<1> USE DEF Inductive, PathPolicyInvariant
<1>1. /\ pc = "merge" /\ candidate' = candidate /\ next' = next /\ Policy
      /\ list' = merge_source_blacklist(UserEntries)
      /\ pc' = "roots" /\ verdict' = verdict
  BY DEF MergeBlacklist, GoOn
<1>2. /\ disk' = disk /\ changes' = changes /\ link' = link /\ profile' = profile /\ config' = config
      /\ steady' = steady /\ around' = around /\ UserEntries' = UserEntries
      /\ MeansNothing(disk)' <=> MeansNothing(disk)
  BY <1>1, SamePolicy
<1>3. UserEntries \in Seq(Spellings)
  BY Typed
<1>4. Merges(list', FixedEntries \o EnvEntries, UserEntries)
  BY <1>1, <1>3, MergeIsMerged
<1>5. HasAll(list', UserEntries')
  BY <1>2, <1>3, <1>4, MergedHasAll
<1>6. list' \in Seq(Entry) /\ next' = 1 /\ 1 \in 1..Len(list') + 1
  <2>1. list' \in Seq(Entry)
    BY <1>4 DEF Merges
  <2>2. Len(list') \in Nat
    BY <2>1
  <2> QED  BY <1>1, <2>1, <2>2 DEF ListInOrder
<1>7. TypeOK'
  BY <1>1, <1>2, <1>6 DEF TypeOK, Steps, Entry
<1>8. CandidateIsNormal' /\ CandidateIsMeant' /\ AroundIsNow' /\ SteadyIsStraight'
  BY <1>1, CandidateStays
<1>9. ListInOrder' /\ ComparedAreOutside'
  BY <1>1, <1>6 DEF ListInOrder, ComparedAreOutside
<1>10. RuledOut'
  BY <1>1, <1>2 DEF RuledOut
<1>11. MergeLosesNothing'
  <2>1. MergeLosesNothing' <=> (pc' \in {"roots", "profile", "entries"} => HasAll(list', UserEntries'))
    BY DEF MergeLosesNothing, HasAll, Has, Entries
  <2> QED  BY <1>5, <2>1
<1>12. ClearWasOutside' /\ VerdictIsRight'
  BY <1>1 DEF ClearWasOutside, VerdictIsRight, TypeOK
<1> QED  BY <1>7, <1>8, <1>9, <1>10, <1>11, <1>12

\* The roots are blocked, however they are spelled; the name that is normalised
\* once more leads where it led.
LEMMA JudgeRootsKeeps ==
    ASSUME Inductive, JudgeRoots
    PROVE  Inductive'
<1> USE DEF Inductive, PathPolicyInvariant
<1> DEFINE AtRoot(p) == is_volume_root(p) \/ is_unc_admin_share(p)
<1>1. /\ pc = "roots" /\ candidate' = normalize_for_policy(disk, Respelled(candidate))
      /\ list' = list /\ next' = next /\ Policy
      /\ \/ candidate' = Invalid /\ pc' = "done" /\ verdict' = "error"
         \/ candidate' # Invalid /\ AtRoot(candidate') /\ pc' = "done" /\ verdict' = "blocked"
         \/ candidate' # Invalid /\ ~AtRoot(candidate') /\ pc' = "profile" /\ verdict' = verdict
  BY DEF JudgeRoots, Judged, GoOn
<1>2. /\ disk' = disk /\ changes' = changes /\ link' = link /\ profile' = profile /\ config' = config
      /\ steady' = steady /\ around' = around /\ RightVerdict(disk)' = RightVerdict(disk)
      /\ MeansNothing(disk)' <=> MeansNothing(disk)
  BY <1>1, SamePolicy
<1>3. /\ disk \in Disks /\ link \in Spellings /\ Respelled(candidate) \in Spellings
      /\ NameInUse = Respelled(candidate)
  BY <1>1, Typed DEF NameInUse
<1>4. candidate # Invalid
  BY <1>1 DEF TypeOK
<1>5. candidate' \in Path /\ (candidate' # Invalid => IsNormal(candidate'))
  BY <1>1, <1>3, NormalizeIsNamed
<1>6. candidate' # Invalid => normalize_for_policy(disk, Respelled(candidate')) = candidate'
  BY <1>1, <1>3, RespelledPlace
<1>7. steady => /\ FoldPath(candidate') = Place(disk, link) /\ Place(disk, link) # Invalid
                /\ candidate' # Invalid
  <2>1. steady => /\ FoldPath(candidate) = Place(disk, link) /\ IsNormal(candidate)
                  /\ Place(disk, link) # Invalid /\ Straight(disk, link, Place(disk, link))
    BY <1>1, <1>4, StraightWhileSteady DEF CandidateIsMeant, CandidateIsNormal, RuledOut
  <2>2. steady => /\ Place(disk, Respelled(candidate)) = Place(disk, link)
                  /\ Straight(disk, Respelled(candidate), Place(disk, Respelled(candidate)))
    BY <1>3, <2>1, PlaceStays
  <2>3. steady => FoldPath(candidate') = Place(disk, Respelled(candidate))
    BY <1>1, <1>3, <2>2, NormalizeIsPlace
  <2> QED  BY <2>1, <2>2, <2>3, FoldOfInvalid
<1>8. steady => (AtRoot(candidate') <=> IsRoot(Place(disk, link)))
  BY <1>5, <1>7, RootsAreRoots
<1> HIDE DEF AtRoot
<1>9. TypeOK'
  BY <1>1, <1>2, <1>5 DEF TypeOK, Steps
<1>10. CandidateIsNormal'
  BY <1>5 DEF CandidateIsNormal
<1>11. CandidateIsMeant'
  BY <1>2, <1>6, <1>7 DEF CandidateIsMeant
<1>12. AroundIsNow' /\ SteadyIsStraight'
  <2>1. NameInUse' = Respelled(candidate') /\ around \subseteq Around(disk, Respelled(candidate))
    BY <1>1, <1>3 DEF NameInUse, AroundIsNow
  <2>2. around \subseteq Around(disk, Respelled(candidate'))
    BY <1>1, <1>3, <2>1, AroundNormalized
  <2> QED  BY <1>1, <1>2, <2>1, <2>2, AroundLater, SamePolicy
<1>13. ListInOrder'
  BY <1>1 DEF ListInOrder
<1>14. ComparedAreOutside'
  BY <1>1, <1>13 DEF ComparedAreOutside, ListInOrder
<1>15. RuledOut'
  BY <1>1, <1>2, <1>7, <1>8 DEF RuledOut
<1>16. MergeLosesNothing'
  BY <1>1, <1>2, ListStays
<1>17. ClearWasOutside' /\ VerdictIsRight'
  <2>1. ASSUME steady, candidate' # Invalid, AtRoot(candidate') PROVE RightVerdict(disk) = "blocked"
    <3>1. ~MeansNothing(disk) /\ IsRoot(Place(disk, link))
      BY <1>1, <1>7, <1>8, <2>1 DEF RuledOut
    <3> QED  BY <3>1 DEF RightVerdict
  <2>2. steady => candidate' # Invalid
    BY <1>7
  <2> QED  BY <1>1, <1>2, <2>1, <2>2 DEF ClearWasOutside, VerdictIsRight, TypeOK
<1> QED  BY <1>9, <1>10, <1>11, <1>12, <1>13, <1>14, <1>15, <1>16, <1>17

\* What cannot be compared is what means nothing, and the path of another profile is
\* one beside this one, up to the case of the directory itself.
LEMMA ProfileJudged ==
    ASSUME NEW d \in Disks, NEW s \in Spellings, NEW p \in Path,
           Straight(d, Respelled(p), Place(d, Respelled(p))),
           Straight(d, s, Extent(d, s)), Straight(d, UsersRoot(s), Extent(d, UsersRoot(s)))
    PROVE  /\ profile_check_fails(d, s, p)
                <=> /\ HasUsersRoot(s)
                    /\ \/ Place(d, Respelled(p)) = Invalid
                       \/ Extent(d, s) = Invalid \/ Extent(d, UsersRoot(s)) = Invalid
           /\ is_other_users_profile_path(d, s, p)
                <=> /\ HasUsersRoot(s)
                    /\ Holds(d, UsersRoot(s), Respelled(p)) /\ ~Holds(d, s, Respelled(p))
                    /\ normalize_for_policy(d, Respelled(p)) # normalize_for_policy(d, UsersRoot(s))
<1>1. CASE ~HasUsersRoot(s)
  BY <1>1 DEF profile_check_fails, is_other_users_profile_path
<1>2. CASE HasUsersRoot(s)
  <2>1. UsersRoot(s) \in Spellings /\ Respelled(p) \in Spellings
    BY <1>2, UsersRootIsSpelling, RespelledIsSpelling
  <2>2. /\ normalize_for_policy(d, s) = Invalid <=> Extent(d, s) = Invalid
        /\ normalize_for_policy(d, UsersRoot(s)) = Invalid <=> Extent(d, UsersRoot(s)) = Invalid
        /\ normalize_for_policy(d, Respelled(p)) = Invalid <=> Place(d, Respelled(p)) = Invalid
    <3>1. normalize_for_policy(d, s) = Invalid <=> Extent(d, s) = Invalid
      BY NormalizeIsPlace
    <3>2. normalize_for_policy(d, UsersRoot(s)) = Invalid <=> Extent(d, UsersRoot(s)) = Invalid
      BY <2>1, NormalizeIsPlace
    <3>3. normalize_for_policy(d, Respelled(p)) = Invalid <=> Place(d, Respelled(p)) = Invalid
      BY <2>1, NormalizeIsPlace
    <3> QED  BY <3>1, <3>2, <3>3
  <2>3. profile_check_fails(d, s, p)
          <=> \/ normalize_for_policy(d, Respelled(p)) = Invalid
              \/ normalize_for_policy(d, s) = Invalid \/ normalize_for_policy(d, UsersRoot(s)) = Invalid
    BY <1>2 DEF profile_check_fails
  <2>4. /\ path_has_component_prefix(d, Respelled(p), UsersRoot(s)) <=> Holds(d, UsersRoot(s), Respelled(p))
        /\ path_has_component_prefix(d, Respelled(p), s) <=> Holds(d, s, Respelled(p))
    BY <2>1, PrefixIsHolds
  <2>5. is_other_users_profile_path(d, s, p)
          <=> /\ path_has_component_prefix(d, Respelled(p), UsersRoot(s))
              /\ ~path_has_component_prefix(d, Respelled(p), s)
              /\ normalize_for_policy(d, Respelled(p)) # normalize_for_policy(d, UsersRoot(s))
    BY <1>2 DEF is_other_users_profile_path
  <2> QED  BY <1>2, <2>2, <2>3, <2>4, <2>5
<1> QED  BY <1>1, <1>2

\* As long as all is as it was, the name under judgement leads where LINK does.
LEMMA CandidateLeadsThere ==
    ASSUME Inductive, steady, candidate # Invalid
    PROVE  /\ Place(disk, Respelled(candidate)) = Place(disk, link)
           /\ Straight(disk, Respelled(candidate), Place(disk, Respelled(candidate)))
<1>1. FoldPath(candidate) = Place(disk, link) /\ IsNormal(candidate) /\ disk \in Disks /\ link \in Spellings
  BY Typed DEF Inductive, PathPolicyInvariant, CandidateIsMeant, CandidateIsNormal
<1>2. Straight(disk, link, Place(disk, link))
  BY StraightWhileSteady
<1> QED  BY <1>1, <1>2, PlaceStays

\* Names in another profile are blocked, and only they.
LEMMA JudgeProfileKeeps ==
    ASSUME Inductive, JudgeProfile
    PROVE  Inductive'
<1> USE DEF Inductive, PathPolicyInvariant
<1> DEFINE other == is_other_users_profile_path(disk, profile, candidate)
           fails == profile_check_fails(disk, profile, candidate)
           here == normalize_for_policy(disk, Respelled(candidate))
           users == normalize_for_policy(disk, UsersRoot(profile))
<1>1. /\ pc = "profile" /\ candidate' = candidate /\ list' = list /\ next' = next /\ Policy
      /\ \/ fails /\ pc' = "done" /\ verdict' = "error"
         \/ ~fails /\ other /\ pc' = "done" /\ verdict' = "blocked"
         \/ ~fails /\ ~other /\ pc' = "entries" /\ verdict' = verdict
  BY DEF JudgeProfile, Judged, GoOn
<1>2. /\ disk' = disk /\ changes' = changes /\ link' = link /\ profile' = profile /\ config' = config
      /\ steady' = steady /\ around' = around /\ RightVerdict(disk)' = RightVerdict(disk)
      /\ MeansNothing(disk)' <=> MeansNothing(disk)
      /\ ProfileMeansNothing(disk)' <=> ProfileMeansNothing(disk)
      /\ InOtherProfile(disk)' <=> InOtherProfile(disk)
  BY <1>1, SamePolicy
<1>3. /\ disk \in Disks /\ link \in Spellings /\ profile \in Spellings /\ candidate \in Path
      /\ Respelled(candidate) \in Spellings
  BY Typed, RespelledIsSpelling
<1>4. candidate # Invalid /\ next = 1
  BY <1>1 DEF TypeOK, ListInOrder
<1>5. ASSUME steady
      PROVE  /\ fails <=> ProfileMeansNothing(disk)
             /\ other <=> /\ HasUsersRoot(profile)
                          /\ Holds(disk, UsersRoot(profile), link) /\ ~Holds(disk, profile, link)
                          /\ here # users
  <2>1. /\ Place(disk, Respelled(candidate)) = Place(disk, link)
        /\ Straight(disk, Respelled(candidate), Place(disk, Respelled(candidate)))
    BY <1>4, <1>5, CandidateLeadsThere
  <2>2. /\ Straight(disk, profile, Extent(disk, profile))
        /\ Straight(disk, UsersRoot(profile), Extent(disk, UsersRoot(profile)))
    BY <1>5, StraightWhileSteady
  <2>3. /\ fails <=> /\ HasUsersRoot(profile)
                     /\ \/ Place(disk, Respelled(candidate)) = Invalid
                        \/ Extent(disk, profile) = Invalid \/ Extent(disk, UsersRoot(profile)) = Invalid
        /\ other <=> /\ HasUsersRoot(profile)
                     /\ Holds(disk, UsersRoot(profile), Respelled(candidate))
                     /\ ~Holds(disk, profile, Respelled(candidate))
                     /\ here # users
    BY <1>3, <2>1, <2>2, ProfileJudged
  <2>4. Place(disk, Respelled(candidate)) # Invalid
    BY <1>1, <1>5, <2>1 DEF RuledOut
  <2>5. \A outer : Holds(disk, outer, Respelled(candidate)) <=> Holds(disk, outer, link)
    BY <2>1, SamePlaceHolds
  <2> HIDE DEF fails, other, here, users
  <2> QED  BY <2>3, <2>4, <2>5 DEF ProfileMeansNothing
<1>6. other => HasUsersRoot(profile)
  BY DEF is_other_users_profile_path
<1> HIDE DEF other, fails
<1>7. steady => (other <=> /\ HasUsersRoot(profile)
                           /\ Holds(disk, UsersRoot(profile), link) /\ ~Holds(disk, profile, link)
                           /\ here # users)
  BY <1>5
<1>8. steady => FoldPath(here) = Place(disk, link)
  <2>1. steady => /\ Place(disk, Respelled(candidate)) = Place(disk, link)
                  /\ Straight(disk, Respelled(candidate), Place(disk, Respelled(candidate)))
    BY <1>4, CandidateLeadsThere
  <2> QED  BY <1>3, <2>1, NormalizeIsPlace
<1>9. steady /\ HasUsersRoot(profile) =>
         /\ FoldPath(users) = Extent(disk, UsersRoot(profile)) /\ UsersRoot(profile) \in Spellings
         /\ candidate = users => here = users
  <2>1. SUFFICES ASSUME steady, HasUsersRoot(profile)
                 PROVE  /\ FoldPath(users) = Extent(disk, UsersRoot(profile)) /\ UsersRoot(profile) \in Spellings
                        /\ candidate = users => here = users
    OBVIOUS
  <2>2. UsersRoot(profile) \in Spellings
    BY <1>3, <2>1, UsersRootIsSpelling
  <2>3. FoldPath(users) = Extent(disk, UsersRoot(profile))
    <3>1. Straight(disk, UsersRoot(profile), Extent(disk, UsersRoot(profile)))
      BY <2>1, StraightWhileSteady
    <3> QED  BY <1>3, <2>2, <3>1, NormalizeIsPlace
  <2>4. ASSUME candidate = users PROVE here = users
    BY <1>3, <1>4, <2>2, <2>4, NormalizeStays
  <2> QED  BY <2>2, <2>3, <2>4
<1> HIDE DEF here, users
<1>10. ASSUME steady, ~other PROVE ~InOtherProfile(disk)
  <2>1. FoldPath(here) = Place(disk, link)
    BY <1>8, <1>10
  <2> QED  BY <1>7, <1>9, <1>10, <2>1 DEF InOtherProfile
<1>11. ASSUME steady, other PROVE InOtherProfile(disk) \/ RootInOtherCase
  <2>1. HasUsersRoot(profile) /\ here # users /\ candidate # users
    BY <1>7, <1>9, <1>11
  <2>2. Place(disk, link) # Extent(disk, UsersRoot(profile)) => InOtherProfile(disk)
    BY <1>7, <1>11 DEF InOtherProfile
  <2>3. Place(disk, link) = Extent(disk, UsersRoot(profile)) => RootInOtherCase
    BY <2>1 DEF RootInOtherCase, users
  <2> QED  BY <2>2, <2>3
<1>12. TypeOK'
  BY <1>1, <1>2 DEF TypeOK, Steps
<1>13. CandidateIsNormal' /\ CandidateIsMeant' /\ AroundIsNow' /\ SteadyIsStraight'
  BY <1>1, CandidateStays
<1>14. ListInOrder' /\ ComparedAreOutside'
  BY <1>1, <1>4 DEF ListInOrder, ComparedAreOutside
<1>15. RuledOut'
  <2>1. CASE ~steady \/ pc' = "done"
    BY <1>2, <2>1 DEF RuledOut
  <2>2. CASE steady /\ pc' = "entries"
    <3>1. ~ProfileMeansNothing(disk) /\ ~InOtherProfile(disk)
      BY <1>1, <1>5, <1>10, <2>2
    <3>2. Place(disk, link) # Invalid /\ ~MeansNothing(disk) /\ ~IsRoot(Place(disk, link))
      BY <1>1, <2>2 DEF RuledOut
    <3>3. \A j \in 1..next' - 1 : ~Holds(disk', list'[j].path, link')
      BY <1>1, <1>4
    <3> QED  BY <1>2, <2>2, <3>1, <3>2, <3>3 DEF RuledOut
  <2> QED  BY <1>1, <2>1, <2>2
<1>16. MergeLosesNothing'
  BY <1>1, <1>2, ListStays
<1>17. ClearWasOutside'
  BY <1>1 DEF ClearWasOutside, TypeOK
<1>18. VerdictIsRight'
  <2>1. SUFFICES ASSUME pc' = "done", steady
                 PROVE  \/ verdict' = RightVerdict(disk)
                        \/ verdict' = "blocked" /\ HasUsersRoot(profile) /\ RootInOtherCase'
    BY <1>2 DEF VerdictIsRight
  <2>2. ~MeansNothing(disk) /\ ~IsRoot(Place(disk, link))
    BY <1>1, <2>1 DEF RuledOut
  <2>3. CASE fails
    BY <1>1, <1>5, <2>1, <2>2, <2>3 DEF RightVerdict
  <2>4. CASE ~fails
    <3>1. other /\ verdict' = "blocked" /\ ~ProfileMeansNothing(disk)
      BY <1>1, <1>5, <2>1, <2>4
    <3>2. InOtherProfile(disk) => RightVerdict(disk) = "blocked"
      BY <2>2, <3>1 DEF RightVerdict
    <3>3. RootInOtherCase' <=> RootInOtherCase
      BY <1>1, <1>2 DEF RootInOtherCase
    <3>4. HasUsersRoot(profile)
      BY <1>6, <3>1
    <3> QED  BY <1>11, <2>1, <3>1, <3>2, <3>3, <3>4
  <2> QED  BY <2>3, <2>4
<1> QED  BY <1>12, <1>13, <1>14, <1>15, <1>16, <1>17, <1>18

\* Two spellings of one entry.
SameEntry(s, t) ==
    \A d : /\ Extent(d, s) = Extent(d, t)
           /\ \A p : Straight(d, s, p) <=> Straight(d, t, p)

\* On the merged list stands each entry, under its key, and nothing else.
LEMMA ListedEntries ==
    ASSUME Inductive, pc \in {"roots", "profile", "entries"}
    PROVE  /\ \A i \in DOMAIN Entries : \E a \in 1..Len(list) :
                 /\ Key(list[a].path) = Key(Entries[i])
                 /\ SameEntry(list[a].path, Entries[i])
           /\ \A a \in 1..Len(list) : \E i \in DOMAIN Entries :
                 /\ Key(list[a].path) = Key(Entries[i])
                 /\ SameEntry(list[a].path, Entries[i])
<1>1. /\ list \in Seq(Entry) /\ UserEntries \in Seq(Spellings) /\ Entries \in Seq(Spellings)
      /\ DOMAIN list = 1..Len(list)
  BY Typed DEF Inductive, PathPolicyInvariant
<1>2. HasAll(list, UserEntries)
  BY MergeLosesNothingByParts DEF Inductive
<1>3. /\ \A i \in DOMAIN Entries : \E a \in 1..Len(list) : Key(list[a].path) = Key(Entries[i])
      /\ \A a \in 1..Len(list) : \E i \in DOMAIN Entries : Key(list[a].path) = Key(Entries[i])
  BY <1>1, <1>2, EntryForKey DEF Entries
<1>4. ASSUME NEW i \in DOMAIN Entries, NEW a \in 1..Len(list), Key(list[a].path) = Key(Entries[i])
      PROVE  SameEntry(list[a].path, Entries[i])
  <2>1. Entries[i] \in Spellings /\ list[a] \in Entry
    BY <1>1
  <2>2. list[a].path \in Spellings
    BY <2>1 DEF Entry
  <2> QED  BY <1>4, <2>1, <2>2, SameKeySamePlace DEF SameEntry
<1>5. ASSUME NEW i \in DOMAIN Entries
      PROVE  \E a \in 1..Len(list) : /\ Key(list[a].path) = Key(Entries[i])
                                     /\ SameEntry(list[a].path, Entries[i])
  <2>1. PICK a \in 1..Len(list) : Key(list[a].path) = Key(Entries[i])
    BY <1>3
  <2>2. SameEntry(list[a].path, Entries[i])
    BY <1>4, <2>1
  <2> QED  BY <2>1, <2>2
<1>6. ASSUME NEW a \in 1..Len(list)
      PROVE  \E i \in DOMAIN Entries : /\ Key(list[a].path) = Key(Entries[i])
                                       /\ SameEntry(list[a].path, Entries[i])
  <2>1. PICK i \in DOMAIN Entries : Key(list[a].path) = Key(Entries[i])
    BY <1>3
  <2>2. SameEntry(list[a].path, Entries[i])
    BY <1>4, <2>1
  <2> QED  BY <2>1, <2>2
<1> QED  BY <1>5, <1>6

\* Every entry of the list is compared before the name is clear, and the one it is
\* blocked for is an entry it lies in.
LEMMA JudgeEntryKeeps ==
    ASSUME Inductive, JudgeEntry
    PROVE  Inductive'
<1> USE DEF Inductive, PathPolicyInvariant
<1> DEFINE name == Respelled(candidate)
           inside == path_has_component_prefix(disk, name, list[next].path)
<1>1. /\ pc = "entries" /\ candidate' = candidate /\ list' = list /\ Policy
      /\ \/ /\ next > Len(list)
            /\ pc' = "done" /\ verdict' = "clear" /\ next' = next
         \/ /\ ~(next > Len(list)) /\ inside
            /\ pc' = "done" /\ verdict' = "blocked" /\ next' = next
         \/ /\ ~(next > Len(list)) /\ ~inside
            /\ pc' = "entries" /\ verdict' = verdict /\ next' = next + 1
  BY DEF JudgeEntry, Judged, GoOn
<1>2. /\ disk' = disk /\ changes' = changes /\ link' = link /\ profile' = profile /\ config' = config
      /\ steady' = steady /\ around' = around /\ RightVerdict(disk)' = RightVerdict(disk)
      /\ Entries' = Entries
      /\ MeansNothing(disk)' <=> MeansNothing(disk)
      /\ ProfileMeansNothing(disk)' <=> ProfileMeansNothing(disk)
      /\ InOtherProfile(disk)' <=> InOtherProfile(disk)
  BY <1>1, SamePolicy
<1>3. /\ disk \in Disks /\ list \in Seq(Entry) /\ Len(list) \in Nat /\ next \in 1..Len(list) + 1
      /\ name \in Spellings /\ NameInUse = name /\ candidate # Invalid
  BY <1>1, Typed DEF TypeOK, NameInUse
<1>4. around \subseteq Around(disk, name)
  BY <1>3 DEF AroundIsNow
<1>5. ~(next > Len(list)) =>
         /\ next \in 1..Len(list) /\ list[next].path \in Spellings
         /\ Straight(disk, name, Place(disk, name))
               /\ Straight(disk, list[next].path, Extent(disk, list[next].path))
            => (inside <=> Holds(disk, list[next].path, name))
  <2>1. SUFFICES ASSUME ~(next > Len(list))
                 PROVE  /\ next \in 1..Len(list) /\ list[next].path \in Spellings
                        /\ Straight(disk, name, Place(disk, name))
                              /\ Straight(disk, list[next].path, Extent(disk, list[next].path))
                           => (inside <=> Holds(disk, list[next].path, name))
    OBVIOUS
  <2>2. next \in 1..Len(list)
    BY <1>3, <2>1
  <2>3. list[next].path \in Spellings
    <3>1. list[next] \in Entry
      BY <1>3, <2>2
    <3> QED  BY <3>1 DEF Entry
  <2>4. name \in Spellings /\ disk \in Disks
    BY <1>3
  <2> HIDE DEF name
  <2> QED  BY <2>2, <2>3, <2>4, PrefixIsHolds
<1>6. steady => /\ \A outer : Holds(disk, outer, name) <=> Holds(disk, outer, link)
                /\ Straight(disk, name, Place(disk, name))
  BY <1>3, CandidateLeadsThere, SamePlaceHolds
<1> HIDE DEF name, inside
<1>7. ASSUME next > Len(list)
      PROVE  around = {} /\ (steady => \A i \in DOMAIN Entries : ~Holds(disk, Entries[i], link))
  <2>1. next - 1 = Len(list)
    BY <1>3, <1>7
  <2>2. ASSUME NEW i \in around PROVE FALSE
    <3>1. i \in DOMAIN Entries
      BY <1>4 DEF Around
    <3>2. PICK a \in 1..Len(list) : Key(list[a].path) = Key(Entries[i])
      BY <1>1, <3>1, ListedEntries
    <3> QED  BY <2>1, <2>2, <3>2 DEF ComparedAreOutside
  <2>3. ASSUME steady, NEW i \in DOMAIN Entries, Holds(disk, Entries[i], link) PROVE FALSE
    <3>2. PICK a \in 1..Len(list) : SameEntry(list[a].path, Entries[i])
      BY <1>1, ListedEntries
    <3>3. Holds(disk, list[a].path, link)
      BY <2>3, <3>2, SameExtentHolds DEF SameEntry
    <3> QED  BY <1>1, <2>1, <2>3, <3>3 DEF RuledOut
  <2> QED  BY <2>2, <2>3
<1>8. ASSUME ~(next > Len(list)), steady
      PROVE  /\ inside <=> Holds(disk, list[next].path, link)
             /\ inside => \E i \in DOMAIN Entries : Holds(disk, Entries[i], link)
  <2>1. next \in 1..Len(list)
    BY <1>5, <1>8
  <2>2. PICK i \in DOMAIN Entries : SameEntry(list[next].path, Entries[i])
    BY <1>1, <2>1, ListedEntries
  <2>3. Straight(disk, list[next].path, Extent(disk, list[next].path))
    BY <1>8, <2>2, StraightWhileSteady DEF SameEntry
  <2>4. inside <=> Holds(disk, list[next].path, link)
    BY <1>5, <1>6, <1>8, <2>3
  <2>5. Holds(disk, list[next].path, link) <=> Holds(disk, Entries[i], link)
    BY <2>2, SameExtentHolds DEF SameEntry
  <2> QED  BY <2>4, <2>5
<1>9. ASSUME ~(next > Len(list)), ~inside, NEW i \in around
      PROVE  Key(Entries[i]) # Key(list[next].path)
  <2>1. /\ i \in DOMAIN Entries /\ Holds(disk, Entries[i], name) /\ Entries[i] \in Spellings
        /\ Straight(disk, name, Place(disk, name))
        /\ Straight(disk, Entries[i], Extent(disk, Entries[i]))
    <3>1. i \in DOMAIN Entries /\ Entries \in Seq(Spellings)
      BY <1>4, Typed DEF Around
    <3> QED  BY <1>4, <3>1 DEF Around
  <2>2. list[next].path \in Spellings
    BY <1>5, <1>9
  <2>3. SUFFICES ASSUME Key(Entries[i]) = Key(list[next].path) PROVE FALSE
    OBVIOUS
  <2>4. /\ Extent(disk, Entries[i]) = Extent(disk, list[next].path)
        /\ \A p : Straight(disk, Entries[i], p) <=> Straight(disk, list[next].path, p)
    BY <2>1, <2>2, <2>3, SameKeySamePlace
  <2>5. Holds(disk, list[next].path, name)
    BY <2>1, <2>4, SameExtentHolds
  <2> QED  BY <1>5, <1>9, <2>1, <2>4, <2>5
<1>10. TypeOK'
  <2>1. next' \in 1..Len(list') + 1
    BY <1>1, <1>3
  <2> QED  BY <1>1, <1>2, <2>1 DEF TypeOK, Steps
<1>11. CandidateIsNormal' /\ CandidateIsMeant' /\ AroundIsNow' /\ SteadyIsStraight'
  BY <1>1, CandidateStays
<1>12. ListInOrder'
  BY <1>1 DEF ListInOrder
<1>13. ComparedAreOutside'
  <2>1. SUFFICES ASSUME NEW j \in 1..next' - 1, NEW i \in around
                 PROVE  Key(Entries[i]) # Key(list[j].path)
    BY <1>1, <1>2 DEF ComparedAreOutside
  <2>2. CASE j \in 1..next - 1
    BY <2>1, <2>2 DEF ComparedAreOutside
  <2>3. CASE j \notin 1..next - 1
    <3>1. j = next /\ ~(next > Len(list)) /\ ~inside
      BY <1>1, <1>3, <2>3
    <3> QED  BY <1>9, <3>1
  <2> QED  BY <2>2, <2>3
<1>14. RuledOut'
  <2>1. CASE ~steady \/ pc' = "done"
    BY <1>2, <2>1 DEF RuledOut
  <2>2. CASE steady /\ pc' = "entries"
    <3>1. /\ Place(disk, link) # Invalid /\ ~MeansNothing(disk) /\ ~IsRoot(Place(disk, link))
          /\ ~ProfileMeansNothing(disk) /\ ~InOtherProfile(disk)
      BY <1>1, <2>2 DEF RuledOut
    <3>2. ASSUME NEW j \in 1..next' - 1 PROVE ~Holds(disk, list[j].path, link)
      <4>1. CASE j \in 1..next - 1
        BY <1>1, <2>2, <4>1 DEF RuledOut
      <4>2. CASE j \notin 1..next - 1
        <5>1. j = next /\ ~(next > Len(list)) /\ ~inside
          BY <1>1, <1>3, <4>2
        <5> QED  BY <1>8, <2>2, <5>1
      <4> QED  BY <4>1, <4>2
    <3> QED  BY <1>1, <1>2, <2>2, <3>1, <3>2 DEF RuledOut
  <2> QED  BY <1>1, <2>1, <2>2
<1>15. MergeLosesNothing'
  BY <1>1, <1>2, ListStays
<1>16. ClearWasOutside'
  BY <1>1, <1>2, <1>7 DEF ClearWasOutside, TypeOK
<1>17. VerdictIsRight'
  <2>1. SUFFICES ASSUME pc' = "done", steady PROVE verdict' = RightVerdict(disk)
    BY <1>2 DEF VerdictIsRight
  <2>2. /\ ~MeansNothing(disk) /\ ~IsRoot(Place(disk, link))
        /\ ~ProfileMeansNothing(disk) /\ ~InOtherProfile(disk)
    BY <1>1, <2>1 DEF RuledOut
  <2>3. RightVerdict(disk) = IF \E i \in DOMAIN Entries : Holds(disk, Entries[i], link)
                             THEN "blocked" ELSE "clear"
    BY <2>2 DEF RightVerdict
  <2> QED  BY <1>1, <1>7, <1>8, <2>1, <2>3
<1> QED  BY <1>10, <1>11, <1>12, <1>13, <1>14, <1>15, <1>16, <1>17

\* While nobody has led a name elsewhere, all is as it was; and what the name in use
\* is inside of all the time is what it is inside of now.
LEMMA ChangeDiskKeeps ==
    ASSUME Inductive, ChangeDisk
    PROVE  Inductive'
<1> USE DEF Inductive, PathPolicyInvariant
<1>1. /\ pc # "done" /\ changes < MaxChanges /\ changes' = changes + 1 /\ disk' \in Disks
      /\ steady' = (/\ steady /\ StraightWays(disk')
                    /\ Place(disk', link) = Place(disk, link)
                    /\ \A s \in Directories : Extent(disk', s) = Extent(disk, s))
      /\ around' = around \cap Around(disk', NameInUse)
      /\ link' = link /\ profile' = profile /\ config' = config /\ pc' = pc
      /\ candidate' = candidate /\ list' = list /\ next' = next /\ verdict' = verdict
  BY DEF ChangeDisk, world
<1>2. Entries' = Entries /\ UserEntries' = UserEntries /\ NameInUse' = NameInUse
  BY <1>1, SameEntries DEF NameInUse
<1>3. TypeOK'
  <2>1. changes' \in 0..MaxChanges
    BY <1>1, InputsAreSpellings DEF TypeOK
  <2>2. steady' \in BOOLEAN /\ around' \subseteq Nat
    BY <1>1 DEF TypeOK
  <2> QED  BY <1>1, <2>1, <2>2 DEF TypeOK
<1>4. ASSUME steady'
      PROVE  /\ steady /\ Place(disk', link) = Place(disk, link)
             /\ Extent(disk', profile) = Extent(disk, profile)
             /\ Extent(disk', UsersRoot(profile)) = Extent(disk, UsersRoot(profile))
             /\ \A i \in DOMAIN Entries : Extent(disk', Entries[i]) = Extent(disk, Entries[i])
             /\ StraightWays(disk')
  BY <1>1, <1>4 DEF Directories, ToSet
<1>5. CandidateIsNormal'
  BY <1>1 DEF CandidateIsNormal
<1>6. CandidateIsMeant'
  <2>1. SUFFICES ASSUME steady', candidate # Invalid
                 PROVE  /\ FoldPath(candidate) = Place(disk', link)
                        /\ FoldPath(normalize_for_policy(disk', Respelled(candidate))) = FoldPath(candidate)
    BY <1>1 DEF CandidateIsMeant
  <2>2. FoldPath(candidate) = Place(disk', link) /\ IsNormal(candidate)
    BY <1>4, <2>1 DEF CandidateIsMeant, CandidateIsNormal
  <2>3. link \in Spellings /\ Respelled(candidate) \in Spellings
    BY Typed, RespelledIsSpelling
  <2>4. /\ Place(disk', Respelled(candidate)) = Place(disk', link)
        /\ Straight(disk', Respelled(candidate), Place(disk', Respelled(candidate)))
    <3>1. Straight(disk', link, Place(disk', link))
      BY <1>4, <2>1 DEF StraightWays
    <3> QED  BY <1>1, <2>2, <2>3, <3>1, PlaceStays
  <2>5. FoldPath(normalize_for_policy(disk', Respelled(candidate))) = Place(disk', Respelled(candidate))
    BY <1>1, <2>3, <2>4, NormalizeIsPlace
  <2> QED  BY <2>2, <2>4, <2>5
<1>7. AroundIsNow' /\ SteadyIsStraight'
  <2>1. AroundIsNow'
    BY <1>1, <1>2, AroundLater
  <2>2. StraightWays(disk)' <=> StraightWays(disk')
    BY <1>1, <1>2 DEF StraightWays, Directories
  <2> QED  BY <1>4, <2>1, <2>2 DEF SteadyIsStraight
<1>8. ListInOrder'
  BY <1>1 DEF ListInOrder
<1>9. ComparedAreOutside'
  BY <1>1, <1>2 DEF ComparedAreOutside
<1>10. RuledOut'
  <2>1. SUFFICES ASSUME steady' PROVE RuledOut'
    BY DEF RuledOut
  <2>2. MeansNothing(disk)' <=> MeansNothing(disk)
    BY <1>1, <1>4, <2>1 DEF MeansNothing
  <2>3. ProfileMeansNothing(disk)' <=> ProfileMeansNothing(disk)
    BY <1>1, <1>4, <2>1 DEF ProfileMeansNothing
  <2>4. InOtherProfile(disk)' <=> InOtherProfile(disk)
    BY <1>1, <1>4, <2>1 DEF InOtherProfile, Holds
  <2>5. ASSUME pc = "entries", NEW j \in 1..next - 1 PROVE ~Holds(disk', list[j].path, link)
    <3>1. j \in 1..Len(list)
      <4>1. next \in 1..Len(list) + 1 /\ Len(list) \in Nat
        BY Typed
      <4> QED  BY <4>1
    <3>2. PICK i \in DOMAIN Entries : SameEntry(list[j].path, Entries[i])
      BY <2>5, <3>1, ListedEntries
    <3>3. Extent(disk', list[j].path) = Extent(disk, list[j].path)
      BY <1>4, <2>1, <3>2 DEF SameEntry
    <3>4. ~Holds(disk, list[j].path, link)
      BY <1>4, <2>1, <2>5 DEF RuledOut
    <3> QED  BY <1>4, <2>1, <3>3, <3>4 DEF Holds
  <2> QED  BY <1>1, <1>4, <2>1, <2>2, <2>3, <2>4, <2>5 DEF RuledOut
<1>11. MergeLosesNothing'
  BY <1>1, ListStays
<1>12. ClearWasOutside'
  BY <1>1 DEF ClearWasOutside, TypeOK
<1>13. VerdictIsRight'
  BY <1>1 DEF VerdictIsRight
<1> QED  BY <1>3, <1>5, <1>6, <1>7, <1>8, <1>9, <1>10, <1>11, <1>12, <1>13

\* Nothing happens, nothing changes.
LEMMA StutteringKeeps ==
    ASSUME Inductive, UNCHANGED vars
    PROVE  Inductive'
<1> USE DEF Inductive, PathPolicyInvariant
<1>1. /\ disk' = disk /\ changes' = changes /\ link' = link /\ profile' = profile /\ config' = config
      /\ pc' = pc /\ candidate' = candidate /\ list' = list /\ next' = next /\ verdict' = verdict
      /\ steady' = steady /\ around' = around
  BY DEF vars, world, history
<1>2. Policy
  BY <1>1 DEF Policy, world, history
<1>3. /\ Entries' = Entries /\ NameInUse' = NameInUse
      /\ MeansNothing(disk)' <=> MeansNothing(disk)
      /\ ProfileMeansNothing(disk)' <=> ProfileMeansNothing(disk)
      /\ InOtherProfile(disk)' <=> InOtherProfile(disk)
      /\ RightVerdict(disk)' = RightVerdict(disk)
  BY <1>1, <1>2, SamePolicy DEF NameInUse
<1>4. TypeOK' /\ CandidateIsNormal' /\ CandidateIsMeant'
  BY <1>1 DEF TypeOK, CandidateIsNormal, CandidateIsMeant
<1>5. AroundIsNow' /\ SteadyIsStraight'
  BY <1>1, <1>2, <1>3, AroundLater, SamePolicy DEF AroundIsNow
<1>6. ListInOrder' /\ ComparedAreOutside'
  BY <1>1, <1>3 DEF ListInOrder, ComparedAreOutside
<1>7. RuledOut'
  BY <1>1, <1>3 DEF RuledOut
<1>8. MergeLosesNothing'
  BY <1>1, ListStays
<1>9. ClearWasOutside' /\ VerdictIsRight'
  BY <1>1, <1>3 DEF ClearWasOutside, VerdictIsRight, RootInOtherCase
<1> QED  BY <1>4, <1>5, <1>6, <1>7, <1>8, <1>9

\* No step leaves the invariant.
LEMMA InductiveNext == Inductive /\ [Next]_vars => Inductive'
<1> SUFFICES ASSUME Inductive, [Next]_vars PROVE Inductive'
  OBVIOUS
<1>1. CASE NormalizeLink
  BY <1>1, NormalizeLinkKeeps
<1>2. CASE LoadConfig
  BY <1>2, LoadConfigKeeps
<1>3. CASE MergeBlacklist
  BY <1>3, MergeBlacklistKeeps
<1>4. CASE JudgeRoots
  BY <1>4, JudgeRootsKeeps
<1>5. CASE JudgeProfile
  BY <1>5, JudgeProfileKeeps
<1>6. CASE JudgeEntry
  BY <1>6, JudgeEntryKeeps
<1>7. CASE ChangeDisk
  BY <1>7, ChangeDiskKeeps
<1>8. CASE UNCHANGED vars
  BY <1>8, StutteringKeeps
<1> QED  BY <1>1, <1>2, <1>3, <1>4, <1>5, <1>6, <1>7, <1>8 DEF Next

-----------------------------------------------------------------------------
(* The theorems *)

\* The invariant and the properties hold together, whatever the disks, the
\* spellings and the entries are.
LEMMA PathPolicyInduction == Spec => []Inductive
BY InductiveInit, InductiveNext, PTL DEF Spec

\* The invariant holds in every reachable state.
THEOREM PathPolicyInvariance == Spec => []PathPolicyInvariant
<1>1. Inductive => PathPolicyInvariant
  BY DEF Inductive
<1> QED  BY <1>1, PathPolicyInduction, PTL

\* The name that is judged and used is that of the place LINK leads to, however it
\* is spelled, while the ways are straight: CandidateIsMeant.
THEOREM CandidateIsAlwaysMeant == Spec => []CandidateIsMeant
<1>1. Inductive => CandidateIsMeant
  BY DEF Inductive
<1> QED  BY <1>1, PathPolicyInduction, PTL

\* Sorting, merging and removing duplicates loses no entry: MergeLosesNothing.
THEOREM MergeNeverLoses == Spec => []MergeLosesNothing
<1>1. Inductive => MergeLosesNothing
  BY DEF Inductive
<1> QED  BY <1>1, PathPolicyInduction, PTL

\* A name that stays inside of an entry, and straight, is never judged clear,
\* whatever else the disk does: ClearWasOutside.
THEOREM ClearIsOutside == Spec => []ClearWasOutside
<1>1. Inductive => ClearWasOutside
  BY DEF Inductive
<1> QED  BY <1>1, PathPolicyInduction, PTL

\* While the ways are straight and stay the same the calls decide as the policy
\* does: VerdictIsRight.
THEOREM VerdictIsAlwaysRight == Spec => []VerdictIsRight
<1>1. Inductive => VerdictIsRight
  BY DEF Inductive
<1> QED  BY <1>1, PathPolicyInduction, PTL
=============================================================================
