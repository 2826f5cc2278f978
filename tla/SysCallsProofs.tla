----------------------------- MODULE SysCallsProofs -----------------------------
(***************************************************************************)
(* Proofs about the calls of sys.c, for any number of processes, threads,  *)
(* groups and pages: GroupInfo counts the references to every group_info   *)
(* and loses no page; what Usage tells a caller of times is what they were *)
(* at an instant of the call; what SysCalls composes is both; and what a   *)
(* process has dropped of its Credentials it does not get back.            *)
(***************************************************************************)
EXTENDS SysCalls, Credentials, FiniteSetTheorems, SequenceTheorems, WellFoundedInduction,
        TLAPS

-----------------------------------------------------------------------------
(* Induction, over numbers and over the subsets of a finite set, in the    *)
(* form of a least element; and sums over a set.                           *)

\* A set of numbers has a least one.
LEMMA LeastNumber ==
  ASSUME NEW N, N \subseteq Nat, N # {}
  PROVE  \E n \in N : \A m \in N : n <= m
<1>1. PICK n \in N : \A m \in N : <<m, n>> \notin OpToRel(<, Nat)
  BY NatLessThanWellFounded, WFMin
<1>2. ASSUME NEW m \in N PROVE n <= m
  <2>1. <<m, n>> \in Nat \X Nat /\ <<m, n>>[1] = m /\ <<m, n>>[2] = n OBVIOUS
  <2>2. ~(m < n) BY <1>1, <2>1 DEF OpToRel
  <2>3. QED BY <2>2
<1>3. QED BY <1>2

\* Of some subsets of a finite set, one has none of the others in it.
LEMMA LeastSubset ==
  ASSUME NEW S, IsFiniteSet(S), NEW F, F \subseteq SUBSET S, F # {}
  PROVE  \E s \in F : \A r \in F : r \subseteq s => r = s
<1>1. IsWellFoundedOn(StrictSubsetOrdering(S), SUBSET S)
  BY FS_StrictSubsetOrderingWellFounded, FS_FiniteSubsetsOfFinite
<1>2. PICK s \in F : \A r \in F : <<r, s>> \notin StrictSubsetOrdering(S)
  BY <1>1, WFMin
<1>3. ASSUME NEW r \in F, r \subseteq s PROVE r = s
  <2>1. <<r, s>> \in (SUBSET S) \X (SUBSET S) /\ <<r, s>>[1] = r /\ <<r, s>>[2] = s OBVIOUS
  <2>2. QED BY <1>2, <1>3, <2>1 DEF StrictSubsetOrdering
<1>4. QED BY <1>3

\* A loop: from d it goes on with down[d], and then does step, until it is in stop.
Loop(f, D, stop, down, base, step) ==
  f = [d \in D |-> IF d \in stop THEN base[d] ELSE step[<<d, f[down[d]]>>]]

\* A loop that comes closer to its end with every turn has a result.
LEMMA LoopEnds ==
  ASSUME NEW D, NEW V, NEW stop, NEW down, NEW base \in [D -> V], NEW step \in [D \X V -> V],
         NEW left \in [D -> Nat], NEW most \in Nat,
         \A d \in D : left[d] <= most,
         \A d \in D : d \notin stop => down[d] \in D /\ left[down[d]] < left[d]
  PROVE  \E f \in [D -> V] : Loop(f, D, stop, down, base, step)
<1> DEFINE value(f, d) == IF d \in stop THEN base[d] ELSE step[<<d, f[down[d]]>>]
           Upto(f, n) == \A d \in D : left[d] < n => f[d] = value(f, d)
           Without == {n \in Nat : ~\E f \in [D -> V] : Upto(f, n)}
<1>1. ASSUME NEW f \in [D -> V], NEW d \in D PROVE value(f, d) \in V
  <2>1. CASE d \in stop BY <2>1
  <2>2. CASE d \notin stop
    <3>1. f[down[d]] \in V BY <2>2
    <3>2. <<d, f[down[d]]>> \in D \X V BY <3>1
    <3>3. step[<<d, f[down[d]]>>] \in V BY <3>2
    <3>4. QED BY <2>2, <3>3
  <2>3. QED BY <2>1, <2>2
<1>2. Without = {}
  <2> SUFFICES ASSUME Without # {} PROVE FALSE OBVIOUS
  <2>1. PICK n \in Without : \A m \in Without : n <= m
    <3>1. Without \subseteq Nat OBVIOUS
    <3> HIDE DEF Without
    <3>2. QED BY <3>1, LeastNumber
  <2>2. n # 0
    <3>1. Upto(base, 0) OBVIOUS
    <3>2. QED BY <2>1, <3>1
  <2>3. n - 1 \in Nat /\ n - 1 \notin Without
    <3>1. n \in Nat OBVIOUS
    <3> HIDE DEF Without
    <3>2. QED BY <2>1, <2>2, <3>1
  <2>4. PICK f \in [D -> V] : Upto(f, n - 1) BY <2>3
  <2> DEFINE g == [d \in D |-> value(f, d)]
  <2>5. g \in [D -> V]
    <3> HIDE DEF value
    <3> QED BY <1>1
  <2>6. ASSUME NEW d \in D, left[d] < n PROVE g[d] = value(g, d)
    <3>1. g[d] = value(f, d) OBVIOUS
    <3>2. CASE d \in stop BY <3>1, <3>2
    <3>3. CASE d \notin stop
      <4>1. down[d] \in D /\ left[down[d]] < n - 1 BY <2>6, <3>3, <2>3
      <4>2. f[down[d]] = value(f, down[d]) BY <2>4, <4>1
      <4>3. g[down[d]] = value(f, down[d]) BY <4>1
      <4>4. QED BY <3>1, <3>3, <4>2, <4>3
    <3>4. QED BY <3>2, <3>3
  <2>7. Upto(g, n)
    <3> HIDE DEF g, value
    <3> QED BY <2>6
  <2>8. QED BY <2>1, <2>5, <2>7
<1>3. most + 1 \in Nat OBVIOUS
<1>4. PICK f \in [D -> V] : Upto(f, most + 1) BY <1>2, <1>3
<1>5. \A d \in D : f[d] = value(f, d)
  <2> HIDE DEF value
  <2> QED BY <1>4
<1>6. f = [d \in D |-> value(f, d)]
  <2> HIDE DEF value
  <2> QED BY <1>5
<1>7. QED BY <1>6 DEF Loop

Some(s) == CHOOSE x \in s : TRUE

\* The element chosen of a set is one of it.
LEMMA SomeIsIn == ASSUME NEW s, s # {} PROVE Some(s) \in s
BY DEF Some

\* h is defined from the empty set upwards: each set from the one without the element
\* chosen of it, by step.
Recursive(h, S, base, step) ==
  h = [s \in SUBSET S |-> IF s = {} THEN base ELSE step[<<Some(s), h[s \ {Some(s)}]>>]]

\* There is such an h: else there is a least size of subsets for which there is none.
LEMMA RecursiveExists ==
  ASSUME NEW S, IsFiniteSet(S), NEW base, NEW step
  PROVE  \E h : Recursive(h, S, base, step)
<1> DEFINE Upto(n) == {s \in SUBSET S : Cardinality(s) <= n}
           value(g, s) == IF s = {} THEN base ELSE step[<<Some(s), g[s \ {Some(s)}]>>]
           IsUpto(h, n) == h = [s \in Upto(n) |-> value(h, s)]
           Without == {n \in Nat : ~\E h : IsUpto(h, n)}
<1>1. \A s \in SUBSET S : IsFiniteSet(s) /\ Cardinality(s) \in Nat
                          /\ Cardinality(s) <= Cardinality(S)
  BY FS_Subset, FS_CardinalityType
<1>2. \A s \in SUBSET S : Cardinality(s) = 0 <=> s = {}
  BY <1>1, FS_EmptySet
<1>3. ASSUME NEW s \in SUBSET S, s # {}
      PROVE  /\ Some(s) \in s /\ s \ {Some(s)} \in SUBSET S
             /\ Cardinality(s \ {Some(s)}) = Cardinality(s) - 1
  BY <1>1, <1>3, SomeIsIn, FS_RemoveElement
<1>4. Without = {}
  <2> SUFFICES ASSUME Without # {} PROVE FALSE OBVIOUS
  <2>1. PICK n \in Without : \A m \in Without : n <= m BY LeastNumber
  <2>2. n # 0
    <3>1. IsUpto([s \in Upto(0) |-> base], 0)
      <4>1. \A s \in Upto(0) : s = {} BY <1>1, <1>2
      <4>2. QED BY <4>1
    <3>2. QED BY <2>1, <3>1, ZenonT(60)
  <2>3. n - 1 \in Nat /\ n - 1 \notin Without
    <3>1. n \in Nat OBVIOUS
    <3> HIDE DEF Without
    <3>2. QED BY <2>1, <2>2, <3>1
  <2>4. PICK g : IsUpto(g, n - 1) BY <2>3
  <2> DEFINE h == [s \in Upto(n) |-> value(g, s)]
  <2>5. ASSUME NEW s \in Upto(n - 1) PROVE h[s] = g[s]
    <3>1. s \in Upto(n) BY <1>1, <2>1
    <3> HIDE DEF value
    <3>2. h[s] = value(g, s) BY <3>1
    <3>3. g[s] = value(g, s) BY <2>4
    <3>4. QED BY <3>2, <3>3
  <2>6. ASSUME NEW s \in Upto(n), s # {} PROVE h[s \ {Some(s)}] = g[s \ {Some(s)}]
    <3>1. s \ {Some(s)} \in Upto(n - 1) BY <1>1, <1>3, <2>1, <2>6
    <3>2. QED BY <2>5, <3>1
  <2>7. \A s \in Upto(n) : value(g, s) = value(h, s)
    <3> HIDE DEF h
    <3>1. QED BY <2>6
  <2>8. IsUpto(h, n)
    <3>1. h = [s \in Upto(n) |-> value(g, s)] OBVIOUS
    <3> HIDE DEF h, Upto, value
    <3>2. QED BY <3>1, <2>7
  <2>9. QED BY <2>1, <2>8
<1>5. PICK h : IsUpto(h, Cardinality(S)) BY <1>4, FS_CardinalityType
<1>6. Upto(Cardinality(S)) = SUBSET S BY <1>1
<1>7. QED BY <1>5, <1>6 DEF Recursive

\* h adds up f over each subset of S.
AddsUp(h, f, S) ==
  h = [s \in SUBSET S |-> IF s = {} THEN 0 ELSE f[Some(s)] + h[s \ {Some(s)}]]

\* There is such an h.
LEMMA AddsUpExists ==
  ASSUME NEW S, IsFiniteSet(S), NEW f \in [S -> Int]
  PROVE  \E h : AddsUp(h, f, S)
<1> DEFINE step == [xn \in S \X Int |-> f[xn[1]] + xn[2]]
<1>1. PICK h : Recursive(h, S, 0, step)
  <2> HIDE DEF step
  <2> QED BY RecursiveExists
<1>2. \A s \in SUBSET S : s # {} => Some(s) \in S /\ s \ {Some(s)} \in SUBSET S
  BY SomeIsIn
<1> DEFINE Wrong == {s \in SUBSET S : h[s] \notin Int}
<1>3. Wrong = {}
  <2> SUFFICES ASSUME Wrong # {} PROVE FALSE OBVIOUS
  <2>1. PICK s \in Wrong : \A r \in Wrong : r \subseteq s => r = s
    <3>1. Wrong \subseteq SUBSET S OBVIOUS
    <3> HIDE DEF Wrong
    <3>2. QED BY <3>1, LeastSubset
  <2>2. s # {} BY <1>1 DEF Recursive
  <2>3. h[s \ {Some(s)}] \in Int BY <1>2, <2>1, <2>2, SomeIsIn
  <2>4. h[s] = f[Some(s)] + h[s \ {Some(s)}] BY <1>1, <1>2, <2>2, <2>3 DEF Recursive
  <2>5. f[Some(s)] \in Int BY <1>2, <2>2
  <2>6. QED BY <2>3, <2>4, <2>5
<1>4. \A s \in SUBSET S : s # {} => step[<<Some(s), h[s \ {Some(s)}]>>]
                                    = f[Some(s)] + h[s \ {Some(s)}]
  BY <1>2, <1>3
<1> DEFINE one(s) == IF s = {} THEN 0 ELSE step[<<Some(s), h[s \ {Some(s)}]>>]
           other(s) == IF s = {} THEN 0 ELSE f[Some(s)] + h[s \ {Some(s)}]
<1> HIDE DEF step
<1>5. \A s \in SUBSET S : one(s) = other(s) BY <1>4
<1>6. h = [s \in SUBSET S |-> one(s)] BY <1>1 DEF Recursive
<1> HIDE DEF one, other
<1>7. h = [s \in SUBSET S |-> other(s)] BY <1>5, <1>6
<1>8. QED BY <1>7 DEF AddsUp, other

\* SumFunction is what AddsUp says.
LEMMA SumFunctionAddsUp ==
  ASSUME NEW S, IsFiniteSet(S), NEW f \in [S -> Int]
  PROVE  \E h : AddsUp(h, f, S) /\ SumFunction(f) = h[S]
<1>1. SumFunction(f) = (CHOOSE h : AddsUp(h, f, S))[S]
  BY DEF SumFunction, SumFunctionOnSet, FoldFunctionOnSet, MapThenFoldSet, AddsUp, Some
<1>2. QED BY <1>1, AddsUpExists

\* The sum changes by as much as one of the numbers does.
LEMMA SumChanges ==
  ASSUME NEW S, IsFiniteSet(S), NEW f \in [S -> Int], NEW i \in S, NEW v \in Int
  PROVE  /\ SumFunction(f) \in Int
         /\ SumFunction([f EXCEPT ![i] = v]) = SumFunction(f) - f[i] + v
<1> DEFINE g == [f EXCEPT ![i] = v]
<1>1. PICK h : AddsUp(h, f, S) /\ SumFunction(f) = h[S] BY SumFunctionAddsUp
<1>2. g \in [S -> Int] /\ g[i] = v /\ \A x \in S \ {i} : g[x] = f[x] OBVIOUS
<1>3. PICK k : AddsUp(k, g, S) /\ SumFunction(g) = k[S]
  <2> HIDE DEF g
  <2> QED BY <1>2, SumFunctionAddsUp
<1> HIDE DEF g
<1> DEFINE Wrong == {s \in SUBSET S : ~(/\ h[s] \in Int
                                      /\ k[s] = h[s] + (IF i \in s THEN v - f[i] ELSE 0))}
<1>4. Wrong = {}
  <2> SUFFICES ASSUME Wrong # {} PROVE FALSE OBVIOUS
  <2>1. PICK s \in Wrong : \A r \in Wrong : r \subseteq s => r = s
    <3>1. Wrong \subseteq SUBSET S OBVIOUS
    <3> HIDE DEF Wrong
    <3>2. QED BY <3>1, LeastSubset
  <2>2. s # {} BY <1>1, <1>3 DEF AddsUp
  <2> DEFINE x == Some(s)
             r == s \ {x}
  <2>3. x \in s /\ x \in S BY <2>2, SomeIsIn
  <2>4. r \in SUBSET S /\ r \subseteq s /\ r # s BY <2>3
  <2>5. h[r] \in Int /\ k[r] = h[r] + (IF i \in r THEN v - f[i] ELSE 0)
    BY <2>1, <2>4
  <2>6. h[s] = f[x] + h[r] /\ k[s] = g[x] + k[r] BY <1>1, <1>3, <2>2 DEF AddsUp
  <2> HIDE DEF x
  <2>7. f[x] \in Int /\ f[i] \in Int /\ (x # i => g[x] = f[x]) BY <1>2, <2>3
  <2>8. (i \in r <=> i \in s /\ i # x) OBVIOUS
  <2> HIDE DEF r
  <2>9. h[s] \in Int /\ k[s] = h[s] + (IF i \in s THEN v - f[i] ELSE 0)
    BY <1>2, <2>3, <2>5, <2>6, <2>7, <2>8
  <2>10. QED BY <2>9
<1>5. h[S] \in Int /\ k[S] = h[S] + (v - f[i]) BY <1>4
<1>6. f[i] \in Int OBVIOUS
<1>7. QED BY <1>1, <1>3, <1>5, <1>6 DEF g

\* The sum of naught.
LEMMA SumOfZeros ==
  ASSUME NEW S, IsFiniteSet(S), NEW f, f = [x \in S |-> 0]
  PROVE  SumFunction(f) = 0
<1>0. f \in [S -> Int] OBVIOUS
<1>1. PICK h : AddsUp(h, f, S) /\ SumFunction(f) = h[S] BY <1>0, SumFunctionAddsUp
<1> DEFINE Wrong == {s \in SUBSET S : h[s] # 0}
<1>2. Wrong = {}
  <2> SUFFICES ASSUME Wrong # {} PROVE FALSE OBVIOUS
  <2>1. PICK s \in Wrong : \A r \in Wrong : r \subseteq s => r = s
    <3>1. Wrong \subseteq SUBSET S OBVIOUS
    <3> HIDE DEF Wrong
    <3>2. QED BY <3>1, LeastSubset
  <2>2. s # {} BY <1>1 DEF AddsUp
  <2>3. Some(s) \in s BY <2>2, SomeIsIn
  <2>4. s \ {Some(s)} \in SUBSET S /\ h[s \ {Some(s)}] = 0 BY <2>1, <2>3
  <2>5. h[s] = f[Some(s)] + h[s \ {Some(s)}] BY <1>1, <2>2 DEF AddsUp
  <2>6. QED BY <2>3, <2>4, <2>5
<1>3. QED BY <1>1, <1>2

-----------------------------------------------------------------------------
(* GroupInfo: the lists.  A sort returns an arrangement of a list, in order; *)
(* in such a list the bisection finds what is there.                       *)

\* The arrangements of a list.
Orders(n) == Surjection(1..n, 1..n)
Arranged(s, p) == [i \in 1..Len(s) |-> s[p[i]]]
Arrangements(s) == {Arranged(s, p) : p \in Orders(Len(s))}

\* They are lists of the same length, and the list is one.
LEMMA ArrangementsAreLists ==
  ASSUME NEW G, NEW s \in Seq(G)
  PROVE  /\ s \in Arrangements(s)
         /\ \A t \in Arrangements(s) : t \in Seq(G) /\ Len(t) = Len(s)
<1>1. Len(s) \in Nat /\ s \in [1..Len(s) -> G] BY LenProperties
<1>2. [i \in 1..Len(s) |-> i] \in Orders(Len(s)) BY DEF Orders, Surjection
<1>3. Arranged(s, [i \in 1..Len(s) |-> i]) = s BY <1>1 DEF Arranged
<1>4. ASSUME NEW p \in Orders(Len(s))
      PROVE  Arranged(s, p) \in Seq(G) /\ Len(Arranged(s, p)) = Len(s)
  <2>1. p \in [1..Len(s) -> 1..Len(s)] BY DEF Orders, Surjection
  <2>2. Arranged(s, p) \in [1..Len(s) -> G] BY <1>1, <2>1 DEF Arranged
  <2>3. QED BY <1>1, <2>2
<1>5. QED BY <1>2, <1>3, <1>4 DEF Arrangements

\* An arrangement of an arrangement is one.
LEMMA ArrangedTwice ==
  ASSUME NEW G, NEW s \in Seq(G), NEW t \in Arrangements(s), NEW u \in Arrangements(t)
  PROVE  u \in Arrangements(s)
<1>1. Len(s) \in Nat /\ Len(t) = Len(s) BY LenProperties, ArrangementsAreLists
<1>2. PICK p \in Orders(Len(s)) : t = Arranged(s, p) BY DEF Arrangements
<1>3. PICK q \in Orders(Len(s)) : u = Arranged(t, q) BY <1>1 DEF Arrangements
<1> DEFINE r == [i \in 1..Len(s) |-> p[q[i]]]
<1>4. /\ p \in [1..Len(s) -> 1..Len(s)] /\ \A k \in 1..Len(s) : \E i \in 1..Len(s) : p[i] = k
      /\ q \in [1..Len(s) -> 1..Len(s)] /\ \A k \in 1..Len(s) : \E i \in 1..Len(s) : q[i] = k
  BY <1>2, <1>3 DEF Orders, Surjection
<1>5. r \in Orders(Len(s))
  <2>1. r \in [1..Len(s) -> 1..Len(s)] BY <1>4
  <2>2. ASSUME NEW k \in 1..Len(s) PROVE \E i \in 1..Len(s) : r[i] = k
    <3>1. PICK j \in 1..Len(s) : p[j] = k BY <1>4
    <3>2. PICK i \in 1..Len(s) : q[i] = j BY <1>4
    <3>3. QED BY <3>1, <3>2
  <2> HIDE DEF r
  <2>3. QED BY <2>1, <2>2 DEF Orders, Surjection
<1>6. u = Arranged(s, r) BY <1>1, <1>2, <1>3, <1>4 DEF Arranged
<1>7. QED BY <1>5, <1>6 DEF Arrangements

\* The elements a turn of the sort moves up.
Strided(right, stride) == {right - m * stride : m \in 1..right} \cap 1..right
Moved(s, right, stride) ==
  {k \in Strided(right, stride) : \A j \in Strided(right, stride) : j >= k => s[j] > s[right]}

\* They are before right, and so is the next of each, unless right is.
LEMMA MovedInARow ==
  ASSUME NEW s, NEW right \in Nat, NEW stride \in Nat \ {0}
  PROVE  /\ Moved(s, right, stride) \subseteq 1..right
         /\ right \notin Moved(s, right, stride)
         /\ \A k \in Moved(s, right, stride) :
              k + stride = right \/ k + stride \in Moved(s, right, stride)
<1>1. ASSUME NEW k \in Strided(right, stride)
      PROVE  /\ k \in 1..right /\ k # right
             /\ k + stride = right \/ k + stride \in Strided(right, stride)
  <2>1. PICK m \in 1..right : k = right - m * stride BY DEF Strided
  <2>2. k \in 1..right BY DEF Strided
  <2>3. m * stride >= stride
    <3>1. (m - 1) * stride >= 0 BY SMT
    <3>2. (m - 1) * stride = m * stride - stride BY SMT
    <3>3. m * stride \in Int BY SMT
    <3>4. QED BY <3>1, <3>2, <3>3
  <2>4. k # right BY <2>1, <2>3
  <2>5. CASE m = 1 BY <2>1, <2>2, <2>4, <2>5
  <2>6. CASE m # 1
    <3>1. m - 1 \in 1..right BY <2>6
    <3>2. k + stride = right - (m - 1) * stride BY <2>1
    <3>3. (m - 1) * stride >= 0 BY <3>1
    <3>4. k + stride \in 1..right BY <2>2, <3>2, <3>3
    <3>5. QED BY <2>2, <2>4, <3>1, <3>2, <3>4 DEF Strided
  <2>7. QED BY <2>5, <2>6
<1>2. \A k \in Moved(s, right, stride) : k \in Strided(right, stride) BY DEF Moved
<1>3. ASSUME NEW k \in Moved(s, right, stride), k + stride \in Strided(right, stride)
      PROVE  k + stride \in Moved(s, right, stride)
  <2>1. \A j \in Strided(right, stride) : j >= k + stride => j >= k BY <1>1, <1>2
  <2>2. QED BY <1>3, <2>1 DEF Moved
<1>4. QED BY <1>1, <1>2, <1>3

\* Where each element of the list after a turn was before it.
Source(s, right, stride) ==
  [k \in 1..Len(s) |-> IF k - stride \in Moved(s, right, stride) THEN k - stride
                       ELSE IF k \in Moved(s, right, stride) \cup {right} THEN right ELSE k]

\* A turn rearranges the list.
LEMMA SinkArranges ==
  ASSUME NEW G, NEW s \in Seq(G), NEW right \in 1..Len(s), NEW stride \in Nat \ {0}
  PROVE  Sink(s, right, stride) \in Arrangements(s)
<1> DEFINE up == Moved(s, right, stride)
           p == Source(s, right, stride)
<1>1. /\ Len(s) \in Nat /\ right \in Nat
      /\ up \subseteq 1..right /\ right \notin up
      /\ \A k \in up : k + stride = right \/ k + stride \in up
  <2>1. Len(s) \in Nat BY LenProperties
  <2>2. right \in Nat BY <2>1
  <2> HIDE DEF up
  <2>3. QED BY <2>1, <2>2, MovedInARow DEF up
<1>2. Sink(s, right, stride) = Arranged(s, p)
  <2>1. Sink(s, right, stride) =
          [k \in 1..Len(s) |-> IF k - stride \in up THEN s[k - stride]
                               ELSE IF k \in up \cup {right} THEN s[right] ELSE s[k]]
    BY DEF Sink, Moved, Strided
  <2>2. ASSUME NEW k \in 1..Len(s)
        PROVE  s[p[k]] = IF k - stride \in up THEN s[k - stride]
                         ELSE IF k \in up \cup {right} THEN s[right] ELSE s[k]
    BY DEF Source
  <2> HIDE DEF up, p
  <2>3. QED BY <2>1, <2>2 DEF Arranged
<1>3. p \in [1..Len(s) -> 1..Len(s)]
  BY <1>1 DEF Source
<1>4. ASSUME NEW k \in 1..Len(s) PROVE \E i \in 1..Len(s) : p[i] = k
  <2>1. CASE k \in up
    <3>1. k + stride \in 1..Len(s) BY <1>1, <2>1
    <3>2. k + stride - stride = k BY <1>1
    <3>3. p[k + stride] = k BY <2>1, <3>1, <3>2 DEF Source
    <3>4. QED BY <3>1, <3>3
  <2>2. CASE k = right
    <3>1. PICK low \in up \cup {right} : \A j \in up \cup {right} : low <= j
      <4>1. up \cup {right} \subseteq Nat BY <1>1
      <4> HIDE DEF up
      <4>2. QED BY <4>1, LeastNumber
    <3>2. low - stride \notin up BY <1>1, <3>1
    <3>3. low \in 1..Len(s) BY <1>1, <3>1
    <3>4. p[low] = right BY <3>2, <3>3 DEF Source
    <3>5. QED BY <2>2, <3>3, <3>4
  <2>3. CASE k \notin up \cup {right}
    <3>1. k - stride \notin up
      <4> SUFFICES ASSUME k - stride \in up PROVE FALSE OBVIOUS
      <4>1. (k - stride) + stride = k OBVIOUS
      <4>2. QED BY <1>1, <2>3, <4>1
    <3>2. p[k] = k BY <2>3, <3>1 DEF Source
    <3>3. QED BY <3>2
  <2>4. QED BY <2>1, <2>2, <2>3
<1>5. p \in Orders(Len(s))
  <2> HIDE DEF p
  <2> QED BY <1>3, <1>4 DEF Orders, Surjection
<1>6. QED BY <1>2, <1>5 DEF Arrangements

OrderedUpto(s, n) == \A i, j \in 1..n : i <= j => s[i] <= s[j]

\* With a stride of 1 a turn puts one more element in its place before it.
LEMMA SinkOrders ==
  ASSUME NEW s \in Seq(Int), NEW right \in 1..Len(s), OrderedUpto(s, right - 1)
  PROVE  OrderedUpto(Sink(s, right, 1), right)
<1> DEFINE up == Moved(s, right, 1)
           t == Sink(s, right, 1)
<1>1. Len(s) \in Nat /\ right \in Nat /\ \A k \in 1..Len(s) : s[k] \in Int
  BY LenProperties, ElementOfSeq
<1>2. Strided(right, 1) = 1..right - 1
  <2>1. \A k \in 1..right - 1 : right - k \in 1..right /\ k = right - (right - k) * 1
    BY <1>1
  <2>2. \A m \in 1..right : right - m * 1 < right BY <1>1
  <2>3. ASSUME NEW k \in Strided(right, 1) PROVE k \in 1..right - 1
    BY <1>1, <2>2 DEF Strided
  <2>4. ASSUME NEW k \in 1..right - 1 PROVE k \in Strided(right, 1)
    <3>1. k \in 1..right BY <1>1
    <3>2. \E m \in 1..right : k = right - m * 1 BY <2>1
    <3>3. QED BY <3>1, <3>2 DEF Strided
  <2>5. QED BY <2>3, <2>4
<1>3. up = {k \in 1..right - 1 : s[k] > s[right]}
  <2>1. ASSUME NEW k \in 1..right - 1, s[k] > s[right], NEW j \in 1..right - 1, j >= k
        PROVE  s[j] > s[right]
    <3>1. s[k] <= s[j] BY <2>1 DEF OrderedUpto
    <3>2. QED BY <1>1, <2>1, <3>1
  <2>2. \A k \in 1..right - 1 : k >= k BY <1>1
  <2>3. QED BY <1>2, <2>1, <2>2 DEF Moved
<1>4. \A k \in 1..Len(s) : t[k] = IF k - 1 \in up THEN s[k - 1]
                                  ELSE IF k \in up \cup {right} THEN s[right] ELSE s[k]
  BY DEF Sink, Moved, Strided
<1> HIDE DEF up, t
<1>5. ASSUME NEW i \in 1..right, NEW j \in 1..right, i <= j PROVE t[i] <= t[j]
  <2>1. i \in 1..Len(s) /\ j \in 1..Len(s) BY <1>1
  <2>2. CASE i = j
    <3>1. i - 1 \in up => i - 1 \in 1..Len(s) BY <1>1, <1>3
    <3>2. t[i] \in Int BY <1>1, <1>4, <2>1, <3>1
    <3>3. QED BY <2>2, <3>2
  <2>3. CASE i < j
    <3>1. \A k \in 1..right - 1 : \A l \in 1..right - 1 : k <= l => s[k] <= s[l]
      BY DEF OrderedUpto
    <3>2. CASE i - 1 \in up
      <4>1. i - 1 \in 1..right - 1 /\ j - 1 \in 1..right - 1 /\ s[i - 1] > s[right]
        BY <1>1, <1>3, <2>3, <3>2
      <4>2. s[i - 1] <= s[j - 1] BY <2>3, <3>1, <4>1
      <4>3. s[j - 1] > s[right] BY <1>1, <4>1, <4>2, SMTT(60)
      <4>4. j - 1 \in up BY <1>3, <4>1, <4>3
      <4>5. t[i] = s[i - 1] /\ t[j] = s[j - 1] BY <1>4, <2>1, <3>2, <4>4
      <4>6. QED BY <4>2, <4>5
    <3>3. CASE i - 1 \notin up /\ i \in up
      <4>1. i \in 1..right - 1 /\ j - 1 \in 1..right - 1 /\ s[i] > s[right]
        BY <1>1, <1>3, <2>3, <3>3
      <4>2. s[i] <= s[j - 1] BY <2>3, <3>1, <4>1
      <4>3. s[j - 1] > s[right] BY <1>1, <4>1, <4>2, SMTT(60)
      <4>4. j - 1 \in up BY <1>3, <4>1, <4>3
      <4>5. t[i] = s[right] /\ t[j] = s[j - 1] BY <1>4, <2>1, <3>3, <4>4
      <4>6. QED BY <1>1, <4>1, <4>3, <4>5
    <3>4. CASE i - 1 \notin up /\ i \notin up
      <4>1. i \in 1..right - 1 BY <1>1, <2>3
      <4>2. t[i] = s[i] BY <1>1, <1>4, <2>1, <2>3, <3>4
      <4>3. s[i] <= s[right] BY <1>1, <1>3, <3>4, <4>1
      <4>4. CASE j - 1 \in up
        <5>1. t[j] = s[j - 1] /\ s[j - 1] > s[right] /\ j - 1 \in 1..Len(s)
          BY <1>1, <1>3, <1>4, <2>1, <4>4
        <5>2. QED BY <1>1, <4>1, <4>2, <4>3, <5>1, SMTT(60)
      <4>5. CASE j - 1 \notin up /\ j \in up \cup {right}
        BY <1>4, <2>1, <4>2, <4>3, <4>5
      <4>6. CASE j - 1 \notin up /\ j \notin up \cup {right}
        <5>1. t[j] = s[j] /\ j \in 1..right - 1 BY <1>1, <1>4, <2>1, <4>6
        <5>2. QED BY <2>3, <3>1, <4>1, <4>2, <5>1
      <4>7. QED BY <4>4, <4>5, <4>6
    <3>5. QED BY <3>2, <3>3, <3>4
  <2>4. QED BY <1>1, <1>5, <2>2, <2>3
<1>6. QED BY <1>5 DEF OrderedUpto, t

\* What a pass does, turn by turn; every list on the way is an arrangement of the first.
LEMMA PassTurns ==
  ASSUME NEW s \in Seq(Int), NEW stride \in Nat \ {0}, stride < Len(s)
  PROVE  \E f \in [0..Len(s) - stride -> Arrangements(s)] :
           /\ f[0] = s
           /\ \A base \in 1..Len(s) - stride : f[base] = Sink(f[base - 1], base + stride, stride)
           /\ Pass(s, stride) = f[Len(s) - stride]
<1> DEFINE D == 0..Len(s) - stride
           V == Arrangements(s)
           base == [d \in D |-> s]
           step == [dv \in D \X V |-> IF dv[1] = 0 THEN s ELSE Sink(dv[2], dv[1] + stride, stride)]
           down == [d \in D |-> d - 1]
           left == [d \in D |-> d]
           body(f, d) == IF d = 0 THEN s ELSE Sink(f[d - 1], d + stride, stride)
<1>1. Len(s) \in Nat BY LenProperties
<1>2. s \in V /\ \A t \in V : t \in Seq(Int) /\ Len(t) = Len(s) BY ArrangementsAreLists
<1>3. ASSUME NEW d \in D, NEW t \in V, d # 0 PROVE Sink(t, d + stride, stride) \in V
  <2>1. t \in Seq(Int) /\ Len(t) = Len(s) BY <1>2
  <2>2. d + stride \in 1..Len(t) BY <1>1, <1>3, <2>1
  <2>3. Sink(t, d + stride, stride) \in Arrangements(t) BY <2>1, <2>2, SinkArranges
  <2>4. QED BY <2>3, ArrangedTwice
<1>4. step \in [D \X V -> V]
  <2> HIDE DEF V, D
  <2>1. QED BY <1>2, <1>3
<1>5. \E f \in [D -> V] : Loop(f, D, {0}, down, base, step)
  <2>1. base \in [D -> V] BY <1>2
  <2>2. left \in [D -> Nat] /\ \A d \in D : left[d] <= Len(s) BY <1>1
  <2>3. \A d \in D : d \notin {0} => down[d] \in D /\ left[down[d]] < left[d] BY <1>1
  <2> HIDE DEF D, V, base, step, down, left
  <2>4. QED BY <1>1, <1>4, <2>1, <2>2, <2>3, LoopEnds, Zenon
<1>6. \E f : f = [d \in D |-> body(f, d)]
  <2>1. PICK f \in [D -> V] : Loop(f, D, {0}, down, base, step) BY <1>5, Zenon
  <2>2. ASSUME NEW d \in D PROVE f[d] = body(f, d)
    <3>1. f[d] = IF d \in {0} THEN base[d] ELSE step[<<d, f[down[d]]>>] BY <2>1 DEF Loop
    <3>2. CASE d = 0 BY <3>1, <3>2
    <3>3. CASE d # 0
      <4>1. down[d] = d - 1 /\ d - 1 \in D BY <1>1, <3>3
      <4>2. f[d - 1] \in V BY <4>1
      <4>3. step[<<d, f[d - 1]>>] = Sink(f[d - 1], d + stride, stride)
        <5> HIDE DEF V, D
        <5> QED BY <3>3, <4>2
      <4> HIDE DEF step, down, D, V
      <4>4. QED BY <3>1, <3>3, <4>1, <4>3
    <3>4. QED BY <3>2, <3>3
  <2>3. f = [d \in D |-> f[d]] OBVIOUS
  <2> HIDE DEF body, D
  <2>4. QED BY <2>2, <2>3
<1> DEFINE g == CHOOSE f : f = [d \in D |-> body(f, d)]
<1>7. g = [d \in D |-> body(g, d)]
  <2> HIDE DEF body, D
  <2> QED BY <1>6
<1>8. Pass(s, stride) = g[Len(s) - stride] BY DEF Pass
<1> HIDE DEF g
<1>9. g \in [D -> V]
  <2> DEFINE Wrong == {d \in D : g[d] \notin V}
  <2>1. Wrong = {}
    <3> SUFFICES ASSUME Wrong # {} PROVE FALSE OBVIOUS
    <3>1. PICK d \in Wrong : \A e \in Wrong : d <= e
      <4>1. Wrong \subseteq Nat BY <1>1
      <4> HIDE DEF Wrong
      <4>2. QED BY <4>1, LeastNumber
    <3>2. g[d] = body(g, d) BY <1>7
    <3>3. d # 0 BY <1>2, <3>1, <3>2
    <3>4. d - 1 \in D /\ d - 1 < d BY <1>1, <3>3
    <3>5. g[d - 1] \in V BY <3>1, <3>4
    <3>6. QED BY <1>3, <3>1, <3>2, <3>3, <3>5
  <2>2. g = [d \in D |-> g[d]] BY <1>7
  <2> HIDE DEF V, D
  <2>3. QED BY <2>1, <2>2
<1>10. \A b \in D : g[b] = body(g, b)
  <2> HIDE DEF body, D
  <2> QED BY <1>7
<1>11. 0 \in D /\ \A b \in 1..Len(s) - stride : b \in D /\ b # 0 BY <1>1
<1>12. g[0] = s /\ \A b \in 1..Len(s) - stride : g[b] = Sink(g[b - 1], b + stride, stride)
  <2> HIDE DEF D
  <2> QED BY <1>10, <1>11
<1>13. QED BY <1>8, <1>9, <1>12

\* A pass is an arrangement, and the one with a stride of 1 puts the list in order.
LEMMA PassOrders ==
  ASSUME NEW s \in Seq(Int), NEW stride \in Nat \ {0}, stride < Len(s)
  PROVE  /\ Pass(s, stride) \in Arrangements(s)
         /\ stride = 1 => InOrder(Pass(s, stride))
<1>1. Len(s) \in Nat /\ \A t \in Arrangements(s) : t \in Seq(Int) /\ Len(t) = Len(s)
  BY LenProperties, ArrangementsAreLists
<1>2. PICK f \in [0..Len(s) - stride -> Arrangements(s)] :
        /\ f[0] = s
        /\ \A base \in 1..Len(s) - stride : f[base] = Sink(f[base - 1], base + stride, stride)
        /\ Pass(s, stride) = f[Len(s) - stride]
  BY PassTurns
<1>3. Pass(s, stride) \in Arrangements(s)
  <2>1. Len(s) - stride \in 0..Len(s) - stride BY <1>1
  <2>2. QED BY <1>2, <2>1
<1>4. ASSUME stride = 1 PROVE InOrder(Pass(s, stride))
  <2> DEFINE Wrong == {b \in 0..Len(s) - 1 : ~OrderedUpto(f[b], b + 1)}
  <2>1. Wrong = {}
    <3> SUFFICES ASSUME Wrong # {} PROVE FALSE OBVIOUS
    <3>1. PICK b \in Wrong : \A c \in Wrong : b <= c
      <4>1. Wrong \subseteq Nat BY <1>1
      <4> HIDE DEF Wrong
      <4>2. QED BY <4>1, LeastNumber
    <3>2. b # 0
      <4>1. s[1] \in Int BY <1>1, <1>4, ElementOfSeq
      <4>2. f[0] = s BY <1>2
      <4>3. OrderedUpto(s, 0 + 1) BY ONLY <4>1 DEF OrderedUpto
      <4>4. QED BY <3>1, <4>2, <4>3
    <3>3. b \in 1..Len(s) - 1 /\ b - 1 \in 0..Len(s) - 1 /\ b - 1 < b BY <1>1, <3>1, <3>2
    <3>4. b - 1 \notin Wrong
      <4> HIDE DEF Wrong
      <4> QED BY <1>1, <3>1, <3>3
    <3>5. OrderedUpto(f[b - 1], (b - 1) + 1) BY <3>3, <3>4
    <3>6. (b - 1) + 1 = (b + 1) - 1 BY <3>3
    <3>7. f[b - 1] \in Arrangements(s) BY <1>2, <1>4, <3>3
    <3>8. f[b - 1] \in Seq(Int) /\ Len(f[b - 1]) = Len(s) BY <1>1, <3>7
    <3>9. b + 1 \in 1..Len(f[b - 1]) BY <1>1, <3>3, <3>8
    <3>10. OrderedUpto(f[b - 1], (b + 1) - 1) BY <3>5, <3>6
    <3>11. OrderedUpto(Sink(f[b - 1], b + 1, 1), b + 1)
      BY ONLY <3>8, <3>9, <3>10, SinkOrders
    <3>12. f[b] = Sink(f[b - 1], b + 1, 1) BY <1>2, <1>4, <3>3
    <3>13. QED BY <3>1, <3>11, <3>12
  <2>2. Len(s) - 1 \in 0..Len(s) - 1 /\ (Len(s) - 1) + 1 = Len(s) BY <1>1, <1>4
  <2>3. OrderedUpto(f[Len(s) - 1], (Len(s) - 1) + 1) BY <2>1, <2>2
  <2>4. Len(Pass(s, stride)) = Len(s) BY <1>1, <1>3
  <2>5. QED BY <1>2, <1>4, <2>2, <2>3, <2>4 DEF OrderedUpto, InOrder
<1>5. QED BY <1>3, <1>4

\* What the sort does, pass by pass.
LEMMA SortPasses ==
  ASSUME NEW list \in Seq(Int)
  PROVE  \E f \in [Nat \ {0} -> Arrangements(list)] :
           /\ \A stride \in Nat \ {0} :
                f[stride] = IF stride >= Len(list) THEN list
                            ELSE Pass(f[3 * stride + 1], stride)
           /\ GroupsSort(list) = f[1]
<1> DEFINE D == Nat \ {0}
           V == Arrangements(list)
           stop == {d \in D : d >= Len(list)}
           base == [d \in D |-> list]
           step == [dv \in D \X V |-> IF dv[1] >= Len(list) THEN list ELSE Pass(dv[2], dv[1])]
           down == [d \in D |-> 3 * d + 1]
           left == [d \in D |-> IF d >= Len(list) THEN 0 ELSE Len(list) - d]
           body(f, d) == IF d >= Len(list) THEN list ELSE Pass(f[3 * d + 1], d)
<1>1. Len(list) \in Nat BY LenProperties
<1>2. list \in V /\ \A t \in V : t \in Seq(Int) /\ Len(t) = Len(list) BY ArrangementsAreLists
<1>3. ASSUME NEW d \in D, NEW t \in V, ~(d >= Len(list)) PROVE Pass(t, d) \in V
  <2>1. t \in Seq(Int) /\ Len(t) = Len(list) BY <1>2
  <2>2. d < Len(t) BY <1>1, <1>3, <2>1
  <2>3. Pass(t, d) \in Arrangements(t) BY <2>1, <2>2, PassOrders
  <2>4. QED BY <2>3, ArrangedTwice
<1>4. step \in [D \X V -> V]
  <2> HIDE DEF V, D
  <2>1. QED BY <1>2, <1>3
<1>5. \E f \in [D -> V] : Loop(f, D, stop, down, base, step)
  <2>1. base \in [D -> V] BY <1>2
  <2>2. left \in [D -> Nat] /\ \A d \in D : left[d] <= Len(list) BY <1>1
  <2>3. \A d \in D : d \notin stop => down[d] \in D /\ left[down[d]] < left[d] BY <1>1
  <2> HIDE DEF D, V, stop, base, step, down, left
  <2>4. QED BY <1>1, <1>4, <2>1, <2>2, <2>3, LoopEnds
<1>6. \E f \in [D -> V] : f = [d \in D |-> body(f, d)]
  <2>1. PICK f \in [D -> V] : Loop(f, D, stop, down, base, step) BY <1>5, Zenon
  <2>2. ASSUME NEW d \in D PROVE f[d] = body(f, d)
    <3>1. f[d] = IF d \in stop THEN base[d] ELSE step[<<d, f[down[d]]>>] BY <2>1 DEF Loop
    <3>2. CASE d >= Len(list) BY <3>1, <3>2
    <3>3. CASE ~(d >= Len(list))
      <4>1. down[d] = 3 * d + 1 /\ 3 * d + 1 \in D BY <1>1, <3>3
      <4>2. f[3 * d + 1] \in V BY <4>1
      <4>3. step[<<d, f[3 * d + 1]>>] = Pass(f[3 * d + 1], d)
        <5> HIDE DEF V, D
        <5> QED BY <3>3, <4>2
      <4>4. d \notin stop BY <3>3
      <4> HIDE DEF step, down, D, V, stop
      <4>5. QED BY <3>1, <3>3, <4>1, <4>3, <4>4
    <3>4. QED BY <3>2, <3>3
  <2>3. f = [d \in D |-> f[d]] OBVIOUS
  <2> HIDE DEF body, D
  <2>4. QED BY <2>2, <2>3
<1> DEFINE g == CHOOSE f : f = [d \in D |-> body(f, d)]
<1>7. g = [d \in D |-> body(g, d)]
  <2> HIDE DEF body, D
  <2> QED BY <1>6
<1>8. GroupsSort(list) = g[1] BY DEF GroupsSort
<1> HIDE DEF g
<1>9. g \in [D -> V]
  <2> DEFINE Wrong == {n \in Nat : \E d \in D : left[d] = n /\ g[d] \notin V}
  <2>1. Wrong = {}
    <3> SUFFICES ASSUME Wrong # {} PROVE FALSE OBVIOUS
    <3>1. PICK n \in Wrong : \A m \in Wrong : n <= m
      <4>1. Wrong \subseteq Nat OBVIOUS
      <4> HIDE DEF Wrong
      <4>2. QED BY <4>1, LeastNumber
    <3>2. PICK d \in D : left[d] = n /\ g[d] \notin V BY <3>1
    <3>3. g[d] = body(g, d) BY <1>7
    <3>4. ~(d >= Len(list)) BY <1>2, <3>2, <3>3
    <3>5. 3 * d + 1 \in D /\ left[3 * d + 1] \in Nat /\ left[3 * d + 1] < n
      BY <1>1, <3>2, <3>4, SMTT(60)
    <3>6. left[3 * d + 1] \notin Wrong
      <4>1. n \in Nat OBVIOUS
      <4> HIDE DEF Wrong, left
      <4>2. QED BY <3>1, <3>5, <4>1
    <3>7. g[3 * d + 1] \in V
      <4> HIDE DEF V, D, left
      <4> QED BY <3>5, <3>6
    <3>8. QED BY <1>3, <3>2, <3>3, <3>4, <3>7
  <2>2. g = [d \in D |-> g[d]] BY <1>7
  <2>3. \A d \in D : left[d] \in Nat BY <1>1
  <2>4. \A d \in D : g[d] \in V
    <3> HIDE DEF V, D, left
    <3> QED BY <2>1, <2>3
  <2> HIDE DEF V, D
  <2>5. QED BY <2>2, <2>4
<1>10. \A d \in D : g[d] = body(g, d)
  <2> HIDE DEF body, D
  <2> QED BY <1>7
<1>11. QED BY <1>8, <1>9, <1>10

\* The sort returns an arrangement of the list, in order: the last pass has a stride of 1.
THEOREM SortOrders ==
  ASSUME NEW list \in Seq(Int)
  PROVE  /\ GroupsSort(list) \in Arrangements(list)
         /\ InOrder(GroupsSort(list))
<1>1. Len(list) \in Nat BY LenProperties
<1>2. PICK f \in [Nat \ {0} -> Arrangements(list)] :
        /\ \A stride \in Nat \ {0} :
             f[stride] = IF stride >= Len(list) THEN list
                         ELSE Pass(f[3 * stride + 1], stride)
        /\ GroupsSort(list) = f[1]
  BY SortPasses
<1>3. CASE 1 >= Len(list)
  <2>1. GroupsSort(list) = list BY <1>2, <1>3
  <2>2. \A i \in 1..Len(list) : list[i] \in Int BY ElementOfSeq
  <2>3. InOrder(list) BY <1>1, <1>3, <2>2 DEF InOrder
  <2>4. QED BY <2>1, <2>3, ArrangementsAreLists
<1>4. CASE ~(1 >= Len(list))
  <2>1. f[1] = Pass(f[4], 1) BY <1>2, <1>4
  <2>2. f[4] \in Arrangements(list) BY <1>2
  <2>3. f[4] \in Seq(Int) /\ Len(f[4]) = Len(list) BY <2>2, ArrangementsAreLists
  <2>4. 1 < Len(f[4]) BY <1>1, <1>4, <2>3
  <2>5. Pass(f[4], 1) \in Arrangements(f[4]) /\ InOrder(Pass(f[4], 1))
    BY <2>3, <2>4, PassOrders
  <2>6. QED BY <1>2, <2>1, <2>2, <2>5, ArrangedTwice
<1>5. QED BY <1>3, <1>4

\* The bisection: the places it has still to search are from span[1] up to span[2].
Mid(span) == (span[1] + span[2]) \div 2
Compared(s, grp, span) == Signed(grp - s[Mid(span) + 1])
Spans(s) == (0..Len(s)) \X (0..Len(s))

Bisected(f, s, grp, span) ==
  IF span[1] >= span[2] THEN FALSE
  ELSE IF Compared(s, grp, span) > 0 THEN f[<<Mid(span) + 1, span[2]>>]
  ELSE IF Compared(s, grp, span) < 0 THEN f[<<span[1], Mid(span)>>]
  ELSE TRUE

\* The middle is between the ends, and either half is shorter.
LEMMA Halves ==
  ASSUME NEW s \in Seq(Int), NEW span \in Spans(s), ~(span[1] >= span[2])
  PROVE  /\ span[1] \in 0..Len(s) /\ span[2] \in 0..Len(s)
         /\ Mid(span) \in 0..Len(s) - 1
         /\ span[1] <= Mid(span) /\ Mid(span) < span[2]
         /\ <<Mid(span) + 1, span[2]>> \in Spans(s)
         /\ <<span[1], Mid(span)>> \in Spans(s)
<1>1. Len(s) \in Nat BY LenProperties
<1>2. span[1] \in 0..Len(s) /\ span[2] \in 0..Len(s) BY DEF Spans
<1>3. span[1] <= Mid(span) /\ Mid(span) < span[2] /\ Mid(span) \in Int BY <1>1, <1>2 DEF Mid
<1>4. Mid(span) \in 0..Len(s) - 1 /\ Mid(span) \in 0..Len(s) /\ Mid(span) + 1 \in 0..Len(s)
  BY <1>1, <1>2, <1>3
<1>5. QED BY <1>2, <1>3, <1>4 DEF Spans

\* What the bisection does, half by half.
LEMMA SearchHalves ==
  ASSUME NEW s \in Seq(Int), NEW grp
  PROVE  \E f : /\ \A span \in Spans(s) : f[span] = Bisected(f, s, grp, span)
                /\ GroupsSearch(s, grp) = f[<<0, Len(s)>>]
<1> DEFINE D == Spans(s)
           cmp(d) == Compared(s, grp, d)
           stop == {d \in D : d[1] >= d[2] \/ ~(cmp(d) > 0 \/ cmp(d) < 0)}
           base == [d \in D |-> IF d[1] >= d[2] THEN FALSE ELSE TRUE]
           step == [dv \in D \X BOOLEAN |-> dv[2]]
           down == [d \in D |-> IF cmp(d) > 0 THEN <<Mid(d) + 1, d[2]>> ELSE <<d[1], Mid(d)>>]
           left == [d \in D |-> IF d[1] >= d[2] THEN 0 ELSE d[2] - d[1]]
<1>1. Len(s) \in Nat BY LenProperties
<1>2. \A d \in D : d[1] \in 0..Len(s) /\ d[2] \in 0..Len(s) BY DEF Spans
<1>3. left \in [D -> Nat] /\ \A d \in D : left[d] <= Len(s)
  <2> HIDE DEF D
  <2> QED BY <1>1, <1>2
<1>4. ASSUME NEW d \in D, d \notin stop PROVE down[d] \in D /\ left[down[d]] < left[d]
  <2>1. ~(d[1] >= d[2]) BY <1>4
  <2>2. /\ d[1] \in 0..Len(s) /\ d[2] \in 0..Len(s)
        /\ Mid(d) \in 0..Len(s) - 1 /\ d[1] <= Mid(d) /\ Mid(d) < d[2]
        /\ <<Mid(d) + 1, d[2]>> \in D /\ <<d[1], Mid(d)>> \in D
    <3> HIDE DEF D
    <3> QED BY <2>1, Halves DEF D
  <2>3. left[d] = d[2] - d[1] BY <2>1
  <2>4. left[<<Mid(d) + 1, d[2]>>] = IF Mid(d) + 1 >= d[2] THEN 0 ELSE d[2] - (Mid(d) + 1)
    <3> HIDE DEF D
    <3> QED BY <2>2
  <2>5. left[<<d[1], Mid(d)>>] = IF d[1] >= Mid(d) THEN 0 ELSE Mid(d) - d[1]
    <3> HIDE DEF D
    <3> QED BY <2>2
  <2>6. down[d] = IF cmp(d) > 0 THEN <<Mid(d) + 1, d[2]>> ELSE <<d[1], Mid(d)>> OBVIOUS
  <2> HIDE DEF D, left, down, cmp
  <2>7. left[<<Mid(d) + 1, d[2]>>] < left[d] /\ left[<<d[1], Mid(d)>>] < left[d]
    <3>1. d[1] \in Int /\ d[2] \in Int /\ Mid(d) \in Int /\ d[1] <= Mid(d) /\ Mid(d) < d[2]
      BY <1>1, <2>2
    <3>2. 0 < left[d] BY ONLY <2>3, <3>1
    <3>3. d[2] - (Mid(d) + 1) < left[d] /\ Mid(d) - d[1] < left[d] BY ONLY <2>3, <3>1
    <3>4. QED BY ONLY <2>4, <2>5, <3>2, <3>3
  <2>8. QED BY <2>2, <2>6, <2>7
<1>5. \E f \in [D -> BOOLEAN] : Loop(f, D, stop, down, base, step)
  <2>1. base \in [D -> BOOLEAN] OBVIOUS
  <2>2. step \in [D \X BOOLEAN -> BOOLEAN] OBVIOUS
  <2> HIDE DEF D, stop, base, step, down, left
  <2>3. QED BY <1>1, <1>3, <1>4, <2>1, <2>2, LoopEnds, Zenon
<1>6. \E f : f = [d \in D |-> Bisected(f, s, grp, d)]
  <2>1. PICK f \in [D -> BOOLEAN] : Loop(f, D, stop, down, base, step) BY <1>5, Zenon
  <2>2. ASSUME NEW d \in D PROVE f[d] = Bisected(f, s, grp, d)
    <3>1. f[d] = IF d \in stop THEN base[d] ELSE step[<<d, f[down[d]]>>] BY <2>1 DEF Loop
    <3>2. CASE d \in stop
      <4>1. f[d] = base[d] BY <3>1, <3>2
      <4>2. QED BY <3>2, <4>1 DEF Bisected
    <3>3. CASE d \notin stop
      <4>1. down[d] \in D BY <1>4, <3>3
      <4>2. f[down[d]] \in BOOLEAN BY <2>1, <4>1
      <4>3. step[<<d, f[down[d]]>>] = f[down[d]]
        <5> HIDE DEF D, down
        <5> QED BY <4>2
      <4>4. f[d] = f[down[d]] BY <3>1, <3>3, <4>3
      <4>5. down[d] = IF cmp(d) > 0 THEN <<Mid(d) + 1, d[2]>> ELSE <<d[1], Mid(d)>> OBVIOUS
      <4>6. ~(d[1] >= d[2]) /\ (cmp(d) > 0 \/ cmp(d) < 0) BY <3>3
      <4> HIDE DEF D, down, stop, base, step, left
      <4>7. QED BY <4>4, <4>5, <4>6 DEF Bisected
    <3>4. QED BY <3>2, <3>3
  <2>3. f = [d \in D |-> f[d]] BY <2>1
  <2> HIDE DEF D
  <2>4. QED BY <2>2, <2>3
<1> DEFINE g == CHOOSE f : f = [d \in D |-> Bisected(f, s, grp, d)]
<1>7. g = [d \in D |-> Bisected(g, s, grp, d)]
  <2> HIDE DEF D
  <2> QED BY <1>6
<1>8. GroupsSearch(s, grp) = g[<<0, Len(s)>>]
  BY DEF GroupsSearch, Bisected, Compared, Mid, Spans
<1> HIDE DEF g
<1>9. QED BY <1>7, <1>8

\* A difference less than half the width is read as what it is.
LEMMA SignedIs ==
  ASSUME NEW n \in Int, 2 * n < Width, -(2 * n) < Width
  PROVE  Signed(n) = n
<1>1. Width \in Nat /\ Width > 0 BY GroupInfoAssumption
<1>2. CASE n >= 0
  <2>1. n % Width = n BY <1>1, <1>2
  <2>2. QED BY <1>1, <1>2, <2>1 DEF Signed
<1>3. CASE n < 0
  <2>1. n % Width = n + Width
    <3>1. n + Width >= 0 /\ n + Width < Width BY <1>1, <1>3
    <3>2. QED BY <1>1, <1>3, <3>1
  <2>2. QED BY <1>1, <1>3, <2>1 DEF Signed
<1>4. QED BY <1>2, <1>3

\* A stretch is what lies before its middle, the middle and what lies after, and both
\* halves are shorter.
LEMMA StretchHalves ==
  ASSUME NEW a \in Int, NEW b \in Int, NEW m \in Int, a <= m, m < b
  PROVE  /\ \A i \in m + 2..b : i \in a + 1..b
         /\ \A i \in a + 1..m : i \in a + 1..b
         /\ \A i \in a + 1..b : /\ ~(i <= m + 1) => i \in m + 2..b
                                /\ ~(i >= m + 1) => i \in a + 1..m
         /\ m + 1 \in a + 1..b
         /\ b - (m + 1) < b - a /\ m - a < b - a
  OBVIOUS

\* In a list in order, the bisection finds what is there and nothing else.
THEOREM SearchFinds ==
  ASSUME NEW s \in Seq(Int), InOrder(s), NEW grp \in Int,
         \A i \in 1..Len(s) : Signed(grp - s[i]) = grp - s[i]
  PROVE  GroupsSearch(s, grp) <=> \E i \in 1..Len(s) : s[i] = grp
<1> DEFINE There(span) == \E i \in span[1] + 1..span[2] : s[i] = grp
<1>1. Len(s) \in Nat /\ \A i \in 1..Len(s) : s[i] \in Int BY LenProperties, ElementOfSeq
<1>2. PICK f : /\ \A span \in Spans(s) : f[span] = Bisected(f, s, grp, span)
               /\ GroupsSearch(s, grp) = f[<<0, Len(s)>>]
  BY SearchHalves
<1> DEFINE Wrong == {n \in Nat : \E span \in Spans(s) : /\ span[2] - span[1] <= n
                                                        /\ ~(f[span] <=> There(span))}
<1>3. Wrong = {}
  <2> SUFFICES ASSUME Wrong # {} PROVE FALSE OBVIOUS
  <2>1. PICK n \in Wrong : \A m \in Wrong : n <= m
    <3>1. Wrong \subseteq Nat OBVIOUS
    <3> HIDE DEF Wrong
    <3>2. QED BY <3>1, LeastNumber
  <2>2. PICK span \in Spans(s) : span[2] - span[1] <= n /\ ~(f[span] <=> There(span))
    BY <2>1
  <2>3. f[span] = Bisected(f, s, grp, span) BY <1>2
  <2>4. span[1] \in 0..Len(s) /\ span[2] \in 0..Len(s) BY DEF Spans
  <2>5. CASE span[1] >= span[2]
    <3>1. ~There(span) BY <1>1, <2>4, <2>5
    <3>2. ~f[span] BY <2>3, <2>5 DEF Bisected
    <3>3. QED BY <2>2, <3>1, <3>2
  <2>6. CASE ~(span[1] >= span[2])
    <3> DEFINE mid == Mid(span)
    <3>1. /\ mid \in 0..Len(s) - 1 /\ span[1] <= mid /\ mid < span[2]
          /\ <<mid + 1, span[2]>> \in Spans(s) /\ <<span[1], mid>> \in Spans(s)
      BY <2>6, Halves
    <3> HIDE DEF mid
    <3>0. /\ \A i \in mid + 2..span[2] : i \in span[1] + 1..span[2]
          /\ \A i \in span[1] + 1..mid : i \in span[1] + 1..span[2]
          /\ \A i \in span[1] + 1..span[2] : /\ ~(i <= mid + 1) => i \in mid + 2..span[2]
                                             /\ ~(i >= mid + 1) => i \in span[1] + 1..mid
          /\ mid + 1 \in span[1] + 1..span[2]
          /\ span[2] - (mid + 1) < span[2] - span[1] /\ mid - span[1] < span[2] - span[1]
      <4>1. mid \in Int /\ span[1] \in Int /\ span[2] \in Int BY <1>1, <2>4, <3>1
      <4>2. QED BY ONLY <3>1, <4>1, StretchHalves
    <3>2. mid + 1 \in 1..Len(s) /\ s[mid + 1] \in Int BY ONLY <1>1, <3>1
    <3>3. Compared(s, grp, span) = grp - s[mid + 1] BY <3>2 DEF Compared, mid
    <3>4. f[span] = IF grp > s[mid + 1] THEN f[<<mid + 1, span[2]>>]
                    ELSE IF grp < s[mid + 1] THEN f[<<span[1], mid>>] ELSE TRUE
      <4>1. grp - s[mid + 1] > 0 <=> grp > s[mid + 1] BY ONLY <3>2, grp \in Int
      <4>2. grp - s[mid + 1] < 0 <=> grp < s[mid + 1] BY ONLY <3>2, grp \in Int
      <4>3. QED BY <2>3, <2>6, <3>3, <4>1, <4>2 DEF Bisected, mid
    <3>5. ASSUME NEW half \in Spans(s), half[2] - half[1] < span[2] - span[1]
          PROVE  f[half] <=> There(half)
      <4>1. half[1] \in 0..Len(s) /\ half[2] \in 0..Len(s) BY DEF Spans
      <4>2. n \in Nat /\ n > 0 /\ n - 1 \in Nat BY <1>1, <2>1, <2>2, <2>4, <2>6
      <4>3. half[2] - half[1] <= n - 1
        <5>1. half[2] - half[1] < span[2] - span[1] /\ span[2] - span[1] <= n BY <2>2, <3>5
        <5>2. QED BY ONLY <1>1, <2>4, <4>1, <4>2, <5>1
      <4>4. n - 1 \notin Wrong
        <5> HIDE DEF Wrong
        <5> QED BY <2>1, <4>2
      <4>5. QED BY <4>2, <4>3, <4>4
    <3>6. CASE grp > s[mid + 1]
      <4>1. ASSUME NEW i \in span[1] + 1..span[2], s[i] = grp PROVE i \in mid + 2..span[2]
        <5>1. i \in 1..Len(s) BY ONLY <1>1, <2>4, <4>1
        <5>2. i <= mid + 1 => s[i] <= s[mid + 1] BY <3>2, <5>1 DEF InOrder
        <5>3. ~(grp <= s[mid + 1]) BY ONLY <3>2, <3>6, grp \in Int
        <5>4. ~(i <= mid + 1) BY ONLY <4>1, <5>2, <5>3
        <5>5. QED BY ONLY <3>0, <4>1, <5>4
      <4>2. \A i \in mid + 2..span[2] : i \in span[1] + 1..span[2] BY ONLY <3>0
      <4>3. There(<<mid + 1, span[2]>>) <=> There(span)
        <5>1. There(<<mid + 1, span[2]>>) <=> \E i \in (mid + 1) + 1..span[2] : s[i] = grp
          OBVIOUS
        <5>2. (mid + 1) + 1 = mid + 2 BY <3>1
        <5>3. QED BY <4>1, <4>2, <5>1, <5>2
      <4>4. f[<<mid + 1, span[2]>>] <=> There(<<mid + 1, span[2]>>)
        <5>1. span[2] - (mid + 1) < span[2] - span[1] BY ONLY <3>0
        <5> HIDE DEF There
        <5>2. QED BY <3>1, <3>5, <5>1
      <4>5. f[span] = f[<<mid + 1, span[2]>>] BY <3>4, <3>6
      <4> HIDE DEF There
      <4>6. QED BY <2>2, <4>3, <4>4, <4>5
    <3>7. CASE grp < s[mid + 1]
      <4>1. ASSUME NEW i \in span[1] + 1..span[2], s[i] = grp PROVE i \in span[1] + 1..mid
        <5>1. i \in 1..Len(s) BY ONLY <1>1, <2>4, <4>1
        <5>2. i >= mid + 1 => s[mid + 1] <= s[i] BY <3>2, <5>1 DEF InOrder
        <5>3. ~(s[mid + 1] <= grp) BY ONLY <3>2, <3>7, grp \in Int
        <5>4. ~(i >= mid + 1) BY ONLY <4>1, <5>2, <5>3
        <5>5. QED BY ONLY <3>0, <4>1, <5>4
      <4>2. \A i \in span[1] + 1..mid : i \in span[1] + 1..span[2] BY ONLY <3>0
      <4>3. There(<<span[1], mid>>) <=> There(span) BY <4>1, <4>2
      <4>4. f[<<span[1], mid>>] <=> There(<<span[1], mid>>)
        <5>1. mid - span[1] < span[2] - span[1] BY ONLY <3>0
        <5> HIDE DEF There
        <5>2. QED BY <3>1, <3>5, <5>1
      <4>5. f[span] = f[<<span[1], mid>>] BY <3>2, <3>4, <3>7
      <4> HIDE DEF There
      <4>6. QED BY <2>2, <4>3, <4>4, <4>5
    <3>8. CASE ~(grp > s[mid + 1]) /\ ~(grp < s[mid + 1])
      <4>1. s[mid + 1] = grp BY <3>2, <3>8
      <4>2. mid + 1 \in span[1] + 1..span[2] BY ONLY <3>0
      <4>3. There(span) BY <4>1, <4>2
      <4>4. f[span] BY <3>4, <3>8
      <4>5. QED BY <2>2, <4>3, <4>4
    <3>9. QED BY <3>6, <3>7, <3>8
  <2>7. QED BY <2>5, <2>6
<1>4. <<0, Len(s)>> \in Spans(s) BY <1>1 DEF Spans
<1>5. f[<<0, Len(s)>>] <=> There(<<0, Len(s)>>)
  <2>1. Len(s) - 0 <= Len(s) BY <1>1
  <2>2. QED BY <1>1, <1>3, <1>4, <2>1
<1>6. There(<<0, Len(s)>>) <=> \E i \in 1..Len(s) : s[i] = grp BY <1>1
<1> HIDE DEF There
<1>7. QED BY <1>2, <1>5, <1>6

\* Division leaves less than the divisor.
LEMMA DivisionLeaves ==
  ASSUME NEW n \in Nat, NEW d \in Nat \ {0}
  PROVE  /\ n \div d \in Nat /\ n % d \in 0..d - 1
         /\ n = (n \div d) * d + (n % d)
<1>1. n % d \in 0..d - 1 BY SMT
<1>2. n \div d \in Nat BY SMT
<1>3. n = (n \div d) * d + (n % d) BY SMT
<1>4. QED BY <1>1, <1>2, <1>3

\* Block by block, the list is copied whole.
LEMMA CopyIsWhole == ASSUME NEW G, NEW s \in Seq(G) PROVE CopyBlocks(s) = s
<1>1. Len(s) \in Nat /\ s \in [1..Len(s) -> G] BY LenProperties
<1>2. PerBlock \in Nat \ {0} BY GroupInfoAssumption
<1>3. ASSUME NEW i \in 1..Len(s)
      PROVE  Block(s, (i - 1) \div PerBlock)[((i - 1) % PerBlock) + 1] = s[i]
  <2> DEFINE b == (i - 1) \div PerBlock
             o == (i - 1) % PerBlock
             last == Min({PerBlock, Len(s) - b * PerBlock})
  <2>1. i - 1 \in Nat BY <1>1
  <2>2. b \in Nat /\ o \in 0..PerBlock - 1 /\ i - 1 = b * PerBlock + o
    BY <1>2, <2>1, DivisionLeaves
  <2> HIDE DEF b, o
  <2>3. b * PerBlock \in Int BY <1>2, <2>2
  <2>4. last \in {PerBlock, Len(s) - b * PerBlock}
    <3> DEFINE x == PerBlock
               y == Len(s) - b * PerBlock
    <3>1. x \in Int /\ y \in Int BY <1>1, <1>2, <2>3
    <3> HIDE DEF x, y
    <3>2. \E m \in {x, y} : \A n \in {x, y} : m <= n BY <3>1
    <3>3. Min({x, y}) \in {x, y} BY <3>2 DEF Min
    <3>4. QED BY <3>3 DEF x, y
  <2> HIDE DEF last
  <2>5. o + 1 <= PerBlock /\ o + 1 <= Len(s) - b * PerBlock BY <1>1, <1>2, <2>2, <2>3
  <2>6. o + 1 \in 1..last
    <3>1. \A m \in {PerBlock, Len(s) - b * PerBlock} : m \in Int /\ o + 1 <= m
      BY <1>1, <1>2, <2>3, <2>5
    <3>2. last \in Int /\ o + 1 <= last BY <2>4, <3>1
    <3>3. QED BY <2>2, <3>2
  <2>7. b * PerBlock + (o + 1) = i BY <1>1, <1>2, <2>2, <2>3
  <2>8. Block(s, b) = [k \in 1..last |-> s[b * PerBlock + k]] BY DEF Block, last
  <2>9. Block(s, b)[o + 1] = s[i] BY <2>6, <2>7, <2>8
  <2>10. QED BY <2>9 DEF b, o
<1>4. CopyBlocks(s) = [i \in 1..Len(s) |-> s[i]] BY <1>3 DEF CopyBlocks
<1>5. QED BY <1>1, <1>4

\* In an arrangement every value is as often as in the list.
LEMMA ArrangementsCount ==
  ASSUME NEW G, NEW s \in Seq(G), NEW t \in Arrangements(s), NEW gid
  PROVE  Occurs(gid, t) = Occurs(gid, s)
<1> DEFINE A == {i \in 1..Len(t) : t[i] = gid}
           B == {i \in 1..Len(s) : s[i] = gid}
<1>1. Len(s) \in Nat /\ Len(t) = Len(s) BY LenProperties, ArrangementsAreLists
<1>2. PICK p \in Orders(Len(s)) : t = Arranged(s, p) BY DEF Arrangements
<1>3. p \in Surjection(1..Len(s), 1..Len(s)) BY <1>2 DEF Orders
<1>4. IsFiniteSet(1..Len(s)) BY <1>1, FS_Interval
<1>5. p \in Injection(1..Len(s), 1..Len(s)) BY <1>3, <1>4, FS_SurjSameCardinalityImpliesInj
<1>6. /\ p \in [1..Len(s) -> 1..Len(s)]
      /\ \A k \in 1..Len(s) : \E i \in 1..Len(s) : p[i] = k
      /\ \A i, j \in 1..Len(s) : p[i] = p[j] => i = j
  BY <1>3, <1>5 DEF Surjection, Injection, IsInjective
<1>7. \A i \in 1..Len(s) : t[i] = s[p[i]] BY <1>2 DEF Arranged
<1> DEFINE q == [i \in A |-> p[i]]
<1>8. q \in [A -> B] BY <1>1, <1>6, <1>7
<1>9. \A k \in B : \E i \in A : q[i] = k
  <2> SUFFICES ASSUME NEW k \in B PROVE \E i \in A : q[i] = k OBVIOUS
  <2>1. PICK i \in 1..Len(s) : p[i] = k BY <1>6
  <2>2. i \in A BY <1>1, <1>7, <2>1
  <2>3. QED BY <2>1, <2>2
<1>10. \A i, j \in A : q[i] = q[j] => i = j BY <1>1, <1>6
<1>11. q \in Bijection(A, B)
  <2> HIDE DEF q, A, B
  <2> QED BY <1>8, <1>9, <1>10 DEF Bijection, Surjection, Injection, IsInjective
<1>12. IsFiniteSet(A) BY <1>1, <1>4, FS_Subset
<1>13. Cardinality(B) = Cardinality(A)
  <2>1. ExistsBijection(A, B) BY <1>11 DEF ExistsBijection
  <2> HIDE DEF A, B
  <2>2. QED BY <1>12, <2>1, FS_Bijection
<1>14. QED BY <1>13 DEF Occurs

-----------------------------------------------------------------------------
(* GroupInfo: the references.                                              *)

CallPC == {"idle", "alloc", "fill", "old", "new"}

GroupShape ==
  /\ cur \in [Task -> Info \cup {NoInfo}]
  /\ usage \in [Info -> Nat] /\ held \in [Info -> Nat]
  /\ calls \in [Task -> [pc : CallPC, new : Info \cup {NoInfo}, old : Info \cup {NoInfo},
                         list : Lists \cup {<<>>}]]

\* A call in progress has its object, and until it installs it no one else does; the
\* process's old object is the call's between the two puts.
CallFits(t) ==
  LET c == calls[t] IN
  /\ c.pc = "idle" <=> c.new = NoInfo
  /\ c.pc = "old" <=> c.old # NoInfo
  /\ c.pc # "idle" => Alive(t)
  /\ c.pc \in {"alloc", "fill"} =>
       /\ c.new # InitGroups
       /\ \A u \in Task : /\ cur[u] # c.new /\ calls[u].old # c.new
                          /\ u # t => calls[u].new # c.new

\* No page that is counted is beyond those there are.
PagesFit == SumFunction(held) <= Pages /\ \A i \in Info : usage[i] = 0 => held[i] = 0

GroupInv ==
  /\ GroupShape
  /\ \A t \in Task : CallFits(t)
  /\ CountsAreReferences
  /\ PagesFit

USE GroupInfoAssumption

Holders(i) == {t \in Task : cur[t] = i}
Makers(i) == {t \in Task : calls[t].new = i}
Droppers(i) == {t \in Task : calls[t].old = i}

\* The references a process accounts for, with its call in progress.
Of(t, i) == (IF cur[t] = i THEN 1 ELSE 0) + (IF calls[t].new = i THEN 1 ELSE 0)
            + (IF calls[t].old = i THEN 1 ELSE 0)

\* References are counted by three sets of processes.
LEMMA ReferencesAre ==
  ASSUME NEW i
  PROVE  /\ References(i) = Cardinality(Holders(i)) + Cardinality(Makers(i))
                            + Cardinality(Droppers(i)) + (IF i = InitGroups THEN 1 ELSE 0)
         /\ Cardinality(Holders(i)) \in Nat /\ Cardinality(Makers(i)) \in Nat
         /\ Cardinality(Droppers(i)) \in Nat /\ References(i) \in Nat
<1>1. /\ IsFiniteSet(Holders(i)) /\ IsFiniteSet(Makers(i)) /\ IsFiniteSet(Droppers(i))
  BY FS_Subset DEF Holders, Makers, Droppers
<1>2. /\ Cardinality(Holders(i)) \in Nat /\ Cardinality(Makers(i)) \in Nat
      /\ Cardinality(Droppers(i)) \in Nat
  BY <1>1, FS_CardinalityType
<1>3. References(i) = Cardinality(Holders(i)) + Cardinality(Makers(i))
                      + Cardinality(Droppers(i)) + (IF i = InitGroups THEN 1 ELSE 0)
  BY DEF References, Holders, Makers, Droppers
<1>4. QED BY <1>2, <1>3

\* A set that differs in one process counts for one more or one less.
LEMMA OneProcess ==
  ASSUME NEW A \in SUBSET Task, NEW B \in SUBSET Task, NEW t \in Task,
         \A u \in Task \ {t} : u \in A <=> u \in B
  PROVE  Cardinality(B) = Cardinality(A) + (IF t \in B THEN 1 ELSE 0)
                                         - (IF t \in A THEN 1 ELSE 0)
<1>1. IsFiniteSet(A) /\ IsFiniteSet(B) BY FS_Subset
<1>2. Cardinality(A) \in Nat /\ Cardinality(B) \in Nat BY <1>1, FS_CardinalityType
<1>3. CASE t \in A /\ t \in B
  <2>1. A = B BY <1>3
  <2>2. QED BY <1>2, <1>3, <2>1
<1>4. CASE t \notin A /\ t \notin B
  <2>1. A = B BY <1>4
  <2>2. QED BY <1>2, <1>4, <2>1
<1>5. CASE t \notin A /\ t \in B
  <2>1. B = A \cup {t} BY <1>5
  <2>2. Cardinality(B) = Cardinality(A) + 1 BY <1>1, <1>5, <2>1, FS_AddElement
  <2>3. QED BY <1>2, <1>5, <2>2
<1>6. CASE t \in A /\ t \notin B
  <2>1. B = A \ {t} BY <1>6
  <2>2. Cardinality(B) = Cardinality(A) - 1 BY <1>1, <1>6, <2>1, FS_RemoveElement
  <2>3. QED BY <1>2, <1>6, <2>2
<1>7. QED BY <1>3, <1>4, <1>5, <1>6

\* A step of one process changes the references by what that process has more or less.
LEMMA ReferencesChange ==
  ASSUME NEW i, NEW t \in Task,
         \A u \in Task \ {t} : /\ cur'[u] = cur[u] /\ calls'[u].new = calls[u].new
                               /\ calls'[u].old = calls[u].old
  PROVE  References(i)' = References(i) + Of(t, i)' - Of(t, i)
<1>1. Cardinality(Holders(i)') = Cardinality(Holders(i)) + (IF cur'[t] = i THEN 1 ELSE 0)
                                 - (IF cur[t] = i THEN 1 ELSE 0)
  <2>1. /\ Holders(i) \in SUBSET Task /\ Holders(i)' \in SUBSET Task
        /\ \A u \in Task \ {t} : u \in Holders(i) <=> u \in Holders(i)'
        /\ t \in Holders(i) <=> cur[t] = i
        /\ t \in Holders(i)' <=> cur'[t] = i
    BY DEF Holders
  <2>2. QED BY <2>1, OneProcess
<1>2. Cardinality(Makers(i)') = Cardinality(Makers(i)) + (IF calls'[t].new = i THEN 1 ELSE 0)
                                - (IF calls[t].new = i THEN 1 ELSE 0)
  <2>1. /\ Makers(i) \in SUBSET Task /\ Makers(i)' \in SUBSET Task
        /\ \A u \in Task \ {t} : u \in Makers(i) <=> u \in Makers(i)'
        /\ t \in Makers(i) <=> calls[t].new = i
        /\ t \in Makers(i)' <=> calls'[t].new = i
    BY DEF Makers
  <2>2. QED BY <2>1, OneProcess
<1>3. Cardinality(Droppers(i)') = Cardinality(Droppers(i))
                                  + (IF calls'[t].old = i THEN 1 ELSE 0)
                                  - (IF calls[t].old = i THEN 1 ELSE 0)
  <2>1. /\ Droppers(i) \in SUBSET Task /\ Droppers(i)' \in SUBSET Task
        /\ \A u \in Task \ {t} : u \in Droppers(i) <=> u \in Droppers(i)'
        /\ t \in Droppers(i) <=> calls[t].old = i
        /\ t \in Droppers(i)' <=> calls'[t].old = i
    BY DEF Droppers
  <2>2. QED BY <2>1, OneProcess
<1>4. References(i)' = Cardinality(Holders(i)') + Cardinality(Makers(i)')
                       + Cardinality(Droppers(i)') + (IF i = InitGroups THEN 1 ELSE 0)
  BY DEF References, Holders, Makers, Droppers
<1>5. QED BY <1>1, <1>2, <1>3, <1>4, ReferencesAre DEF Of

\* Who refers to an object whose count is zero, or one a call has just allocated.
LEMMA WhoRefers ==
  ASSUME GroupInv, NEW i \in Info
  PROVE  /\ \A t \in Task : cur[t] = i \/ calls[t].new = i \/ calls[t].old = i => usage[i] >= 1
         /\ usage[i] = 0 => i # InitGroups
         /\ \A t \in Task : calls[t].pc \in {"alloc", "fill"} /\ calls[t].new = i => usage[i] = 1
<1>1. usage[i] = References(i) BY DEF GroupInv, CountsAreReferences
<1>2. /\ IsFiniteSet(Holders(i)) /\ IsFiniteSet(Makers(i)) /\ IsFiniteSet(Droppers(i))
  BY FS_Subset DEF Holders, Makers, Droppers
<1>3. ASSUME NEW t \in Task, cur[t] = i \/ calls[t].new = i \/ calls[t].old = i
      PROVE  usage[i] >= 1
  <2>1. Holders(i) # {} \/ Makers(i) # {} \/ Droppers(i) # {}
    BY <1>3 DEF Holders, Makers, Droppers
  <2>2. \/ Cardinality(Holders(i)) # 0 \/ Cardinality(Makers(i)) # 0
        \/ Cardinality(Droppers(i)) # 0
    BY <1>2, <2>1, FS_EmptySet
  <2>3. QED BY <1>1, <2>2, ReferencesAre
<1>4. usage[i] = 0 => i # InitGroups
  <2> SUFFICES ASSUME i = InitGroups PROVE usage[i] # 0 OBVIOUS
  <2>1. References(i) = Cardinality(Holders(i)) + Cardinality(Makers(i))
                        + Cardinality(Droppers(i)) + 1
    BY ReferencesAre
  <2>2. /\ Cardinality(Holders(i)) \in Nat /\ Cardinality(Makers(i)) \in Nat
        /\ Cardinality(Droppers(i)) \in Nat
    BY ReferencesAre
  <2>3. QED BY <1>1, <2>1, <2>2
<1>5. ASSUME NEW t \in Task, calls[t].pc \in {"alloc", "fill"}, calls[t].new = i
      PROVE  usage[i] = 1
  <2>1. /\ i # InitGroups
        /\ \A u \in Task : /\ cur[u] # i /\ calls[u].old # i
                           /\ u # t => calls[u].new # i
    BY <1>5 DEF GroupInv, CallFits
  <2>2. Holders(i) = {} /\ Droppers(i) = {} BY <2>1 DEF Holders, Droppers
  <2>3. Makers(i) = {t} BY <1>5, <2>1 DEF Makers
  <2>4. Cardinality(Holders(i)) = 0 /\ Cardinality(Droppers(i)) = 0 /\ Cardinality(Makers(i)) = 1
    BY <2>2, <2>3, FS_EmptySet, FS_Singleton
  <2>5. QED BY <1>1, <2>1, <2>4, ReferencesAre
<1>6. QED BY <1>3, <1>4, <1>5

\* The pages held change by as many as one object takes or gives back.
LEMMA PagesChange ==
  ASSUME held \in [Info -> Nat], NEW i \in Info, NEW v \in Nat
  PROVE  /\ SumFunction(held) \in Int
         /\ SumFunction([held EXCEPT ![i] = v]) = SumFunction(held) - held[i] + v
<1>1. IsFiniteSet(Info) BY GroupInfoAssumption
<1>2. held \in [Info -> Int] /\ v \in Int OBVIOUS
<1>3. ASSUME NEW f \in [Info -> Int], NEW n \in Int
      PROVE  /\ SumFunction(f) \in Int
             /\ SumFunction([f EXCEPT ![i] = n]) = SumFunction(f) - f[i] + n
  BY ONLY <1>1, i \in Info, SumChanges, ZenonT(60)
<1>4. QED BY ONLY <1>2, <1>3, ZenonT(60)

\* The last reference to an object takes its pages with it.
LEMMA PutKeepsPages ==
  ASSUME GroupInv, NEW i \in Info, Put(i), usage[i] >= 1
  PROVE  /\ usage' \in [Info -> Nat] /\ held' \in [Info -> Nat]
         /\ usage'[i] = usage[i] - 1 /\ \A j \in Info \ {i} : usage'[j] = usage[j]
         /\ PagesFit'
<1>1. /\ usage \in [Info -> Nat] /\ held \in [Info -> Nat]
      /\ SumFunction(held) <= Pages /\ \A j \in Info : usage[j] = 0 => held[j] = 0
  BY DEF GroupInv, GroupShape, PagesFit
<1>2. /\ usage' \in [Info -> Nat]
      /\ usage'[i] = usage[i] - 1 /\ \A j \in Info \ {i} : usage'[j] = usage[j]
  BY <1>1 DEF Put
<1>3. CASE usage[i] = 1
  <2>1. held' = [held EXCEPT ![i] = 0] BY <1>3 DEF Put
  <2>2. held \in [Info -> Int] /\ held[i] \in Nat BY <1>1
  <2>3. SumFunction(held) \in Int /\ SumFunction(held') = SumFunction(held) - held[i] + 0
    <3>1. /\ SumFunction(held) \in Int
          /\ SumFunction([held EXCEPT ![i] = 0]) = SumFunction(held) - held[i] + 0
      BY <1>1, PagesChange
    <3>2. QED BY <2>1, <3>1
  <2>4. SumFunction(held') <= Pages BY <1>1, <2>2, <2>3
  <2>5. QED BY <1>1, <1>2, <2>1, <2>4 DEF PagesFit
<1>4. CASE usage[i] # 1
  <2>1. held' = held BY <1>4 DEF Put
  <2>2. usage'[i] # 0 BY <1>1, <1>2, <1>4
  <2>3. QED BY <1>1, <1>2, <2>1, <2>2 DEF PagesFit
<1>5. QED BY <1>3, <1>4

\* A step of one process keeps the invariant if it counts the references it changes
\* and takes no object that another call has just allocated.
LEMMA GroupStep ==
  ASSUME GroupInv, NEW t \in Task,
         \A u \in Task \ {t} : cur'[u] = cur[u] /\ calls'[u] = calls[u],
         GroupShape', PagesFit', CallFits(t)',
         \A i \in Info : usage'[i] = usage[i] + Of(t, i)' - Of(t, i),
         \A u \in Task \ {t} : calls[u].pc \in {"alloc", "fill"} =>
           calls[u].new \notin {cur'[t], calls'[t].new, calls'[t].old}
  PROVE  GroupInv'
<1>1. \A u \in Task : CallFits(u)'
  <2> SUFFICES ASSUME NEW u \in Task \ {t} PROVE CallFits(u)' OBVIOUS
  <2>1. CallFits(u) BY DEF GroupInv
  <2>2. calls'[u] = calls[u] /\ cur'[u] = cur[u] OBVIOUS
  <2>3. QED BY <2>1, <2>2 DEF CallFits, Alive
<1>2. CountsAreReferences'
  <2> SUFFICES ASSUME NEW i \in Info PROVE usage'[i] = References(i)' BY DEF CountsAreReferences
  <2>1. References(i)' = References(i) + Of(t, i)' - Of(t, i) BY ReferencesChange
  <2>2. usage[i] = References(i) BY DEF GroupInv, CountsAreReferences
  <2>3. QED BY <2>1, <2>2
<1>3. QED BY <1>1, <1>2 DEF GroupInv

\* At the start init's process and the kernel refer to init_groups.
LEMMA GroupInitInv == Init => GroupInv
<1> SUFFICES ASSUME Init PROVE GroupInv OBVIOUS
<1>1. GroupShape BY DEF Init, GroupShape, NoCall, CallPC
<1>2. \A t \in Task : CallFits(t) BY DEF Init, CallFits, NoCall
<1>3. CountsAreReferences
  <2> SUFFICES ASSUME NEW i \in Info PROVE usage[i] = References(i) BY DEF CountsAreReferences
  <2>1. Makers(i) = {} /\ Droppers(i) = {} BY DEF Init, NoCall, Makers, Droppers
  <2>2. Holders(i) = IF i = InitGroups THEN {InitTask} ELSE {} BY DEF Init, Holders
  <2>3. /\ Cardinality(Makers(i)) = 0 /\ Cardinality(Droppers(i)) = 0
        /\ Cardinality(Holders(i)) = IF i = InitGroups THEN 1 ELSE 0
    BY <2>1, <2>2, FS_EmptySet, FS_Singleton
  <2>4. usage[i] = IF i = InitGroups THEN 2 ELSE 0 BY DEF Init
  <2>5. QED BY <2>3, <2>4, ReferencesAre
<1>4. PagesFit
  <2>1. SumFunction(held) = 0 BY SumOfZeros DEF Init
  <2>2. QED BY <2>1 DEF Init, PagesFit
<1>5. QED BY <1>1, <1>2, <1>3, <1>4 DEF GroupInv

\* Every step of a call, a fork and an exit keeps the references counted.
LEMMA GroupNextInv == GroupInv /\ [Next]_vars => GroupInv'
<1> SUFFICES ASSUME GroupInv, [Next]_vars PROVE GroupInv' OBVIOUS
<1>a. /\ cur \in [Task -> Info \cup {NoInfo}]
      /\ usage \in [Info -> Nat] /\ held \in [Info -> Nat]
      /\ calls \in [Task -> [pc : CallPC, new : Info \cup {NoInfo}, old : Info \cup {NoInfo},
                             list : Lists \cup {<<>>}]]
      /\ PagesFit
  BY DEF GroupInv, GroupShape
<1>b. ASSUME NEW t \in Task PROVE CallFits(t) BY DEF GroupInv
<1>1. ASSUME NEW t \in Task, NEW list \in Lists, Setgroups(t, list) PROVE GroupInv'
  <2>1. PICK i \in Info :
          /\ usage[i] = 0
          /\ usage' = [usage EXCEPT ![i] = 1]
          /\ calls' = [calls EXCEPT ![t] = [pc |-> "alloc", new |-> i, old |-> NoInfo,
                                            list |-> list]]
          /\ Ready(t) /\ UNCHANGED <<cur, gids, held>>
    BY <1>1 DEF Setgroups
  <2>2. /\ i # InitGroups
        /\ \A u \in Task : cur[u] # i /\ calls[u].new # i /\ calls[u].old # i
    BY <2>1, WhoRefers
  <2>3. calls[t].new = NoInfo /\ calls[t].old = NoInfo /\ Alive(t)
    BY <2>1, <1>b DEF Ready, CallFits
  <2>4. /\ calls'[t] = [pc |-> "alloc", new |-> i, old |-> NoInfo, list |-> list]
        /\ \A u \in Task \ {t} : calls'[u] = calls[u]
    BY <2>1, <1>a
  <2>5. GroupShape' BY <2>1, <1>a DEF GroupShape, CallPC
  <2>6. PagesFit' BY <2>1, <1>a DEF PagesFit
  <2>7. CallFits(t)' BY <2>1, <2>2, <2>3, <2>4 DEF CallFits, Alive
  <2>8. \A j \in Info : usage'[j] = usage[j] + Of(t, j)' - Of(t, j)
    BY <2>1, <2>2, <2>3, <2>4, <1>a DEF Of
  <2>9. \A u \in Task \ {t} : calls[u].pc \in {"alloc", "fill"} =>
           calls[u].new \notin {cur'[t], calls'[t].new, calls'[t].old}
    BY <2>1, <2>2, <2>4, <1>b DEF CallFits
  <2>10. QED BY <2>1, <2>4, <2>5, <2>6, <2>7, <2>8, <2>9, GroupStep
<1>2. ASSUME NEW t \in Task, AllocPage(t) PROVE GroupInv'
  <2> DEFINE i == calls[t].new
  <2>1. /\ calls[t].pc = "alloc" /\ FreePages > 0
        /\ held' = [held EXCEPT ![i] = held[i] + 1]
        /\ UNCHANGED <<cur, usage, gids, calls>>
    BY <1>2 DEF AllocPage, At
  <2>2. i \in Info /\ usage[i] = 1 BY <2>1, <1>a, <1>b, WhoRefers DEF CallFits
  <2> HIDE DEF i
  <2>3. held \in [Info -> Int] /\ held[i] \in Nat /\ held[i] + 1 \in Int BY <2>2, <1>a
  <2>4. /\ SumFunction(held) \in Int
        /\ SumFunction([held EXCEPT ![i] = held[i] + 1]) = SumFunction(held) - held[i] + (held[i] + 1)
    <3>1. held[i] + 1 \in Nat BY <2>3
    <3>2. QED BY <2>2, <3>1, <1>a, PagesChange
  <2>5. SumFunction(held') <= Pages
    <3>1. SumFunction(held) < Pages BY <2>1, <2>4 DEF FreePages
    <3>2. QED BY <2>1, <2>3, <2>4, <3>1
  <2>6. PagesFit' BY <2>1, <2>2, <2>5, <1>a DEF PagesFit
  <2>7. GroupShape' BY <2>1, <2>2, <1>a DEF GroupShape
  <2>8. \A u \in Task : CallFits(u)' BY <2>1, <1>b DEF CallFits, Alive
  <2>9. CountsAreReferences' BY <2>1 DEF GroupInv, CountsAreReferences, References
  <2>10. QED BY <2>6, <2>7, <2>8, <2>9 DEF GroupInv
<1>3. ASSUME NEW t \in Task, AllocDone(t) PROVE GroupInv'
  <2>1. /\ calls[t].pc = "alloc" /\ calls' = [calls EXCEPT ![t].pc = "fill"]
        /\ UNCHANGED <<cur, usage, gids, held>>
    BY <1>3 DEF AllocDone, At
  <2>2. /\ calls'[t].pc = "fill" /\ calls'[t].new = calls[t].new /\ calls'[t].old = calls[t].old
        /\ \A u \in Task \ {t} : calls'[u] = calls[u]
    BY <2>1, <1>a
  <2>3. GroupShape' BY <2>1, <1>a, ZenonT(60) DEF GroupShape, CallPC
  <2>4. PagesFit' BY <2>1, <1>a DEF PagesFit
  <2>5. CallFits(t)' BY <2>1, <2>2, <1>b DEF CallFits, Alive
  <2>6. \A j \in Info : usage'[j] = usage[j] + Of(t, j)' - Of(t, j)
    BY <2>1, <2>2, <1>a DEF Of
  <2>7. \A u \in Task \ {t} : calls[u].pc \in {"alloc", "fill"} =>
           calls[u].new \notin {cur'[t], calls'[t].new, calls'[t].old}
    BY <2>1, <2>2, <1>b DEF CallFits
  <2>8. QED BY <2>1, <2>2, <2>3, <2>4, <2>5, <2>6, <2>7, GroupStep
<1>c. ASSUME NEW t \in Task, calls' = [calls EXCEPT ![t] = NoCall], UNCHANGED cur,
             calls[t].old = NoInfo, calls[t].new \in Info,
             usage' \in [Info -> Nat], held' \in [Info -> Nat], PagesFit',
             usage'[calls[t].new] = usage[calls[t].new] - 1,
             \A j \in Info \ {calls[t].new} : usage'[j] = usage[j]
      PROVE  GroupInv'
  <2>1. calls'[t] = NoCall /\ \A u \in Task \ {t} : calls'[u] = calls[u] BY <1>a, <1>c
  <2>2. NoCall.pc = "idle" /\ NoCall.new = NoInfo /\ NoCall.old = NoInfo BY DEF NoCall
  <2>3. NoCall \in [pc : CallPC, new : Info \cup {NoInfo}, old : Info \cup {NoInfo},
                    list : Lists \cup {<<>>}]
    BY DEF NoCall, CallPC
  <2>4. GroupShape' BY <1>a, <1>c, <2>3 DEF GroupShape
  <2>5. CallFits(t)' BY <2>1, <2>2 DEF CallFits, Alive
  <2>6. \A j \in Info : usage'[j] = usage[j] + Of(t, j)' - Of(t, j)
    BY <1>a, <1>c, <2>1, <2>2, SMTT(60) DEF Of
  <2>7. \A u \in Task \ {t} : calls[u].pc \in {"alloc", "fill"} =>
           calls[u].new \notin {cur'[t], calls'[t].new, calls'[t].old}
    <3>1. ASSUME NEW u \in Task \ {t}, calls[u].pc \in {"alloc", "fill"}
          PROVE  calls[u].new # cur[t] /\ calls[u].new # NoInfo
      BY <3>1, <1>b DEF CallFits
    <3>2. QED BY <1>c, <2>1, <2>2, <3>1
  <2>8. QED BY <1>c, <2>1, <2>4, <2>5, <2>6, <2>7, GroupStep
<1>4. ASSUME NEW t \in Task, AllocFails(t) PROVE GroupInv'
  <2> DEFINE i == calls[t].new
  <2>1. /\ calls[t].pc = "alloc" /\ held' = [held EXCEPT ![i] = 0]
        /\ usage' = [usage EXCEPT ![i] = 0] /\ calls' = [calls EXCEPT ![t] = NoCall]
        /\ UNCHANGED <<cur, gids>>
    BY <1>4 DEF AllocFails, At, Undo
  <2>2. i \in Info /\ usage[i] = 1 /\ calls[t].old = NoInfo
    BY <2>1, <1>a, <1>b, WhoRefers DEF CallFits
  <2>3. held \in [Info -> Int] /\ held[i] \in Nat BY <2>2, <1>a
  <2>4. /\ SumFunction(held) \in Int
        /\ SumFunction([held EXCEPT ![i] = 0]) = SumFunction(held) - held[i] + 0
    <3> HIDE DEF i
    <3> QED BY <2>2, <1>a, PagesChange
  <2>5. SumFunction(held') <= Pages
    <3>1. SumFunction(held) <= Pages BY <1>a DEF PagesFit
    <3>2. QED BY <2>1, <2>3, <2>4, <3>1
  <2>6. PagesFit' BY <2>1, <2>2, <2>5, <1>a DEF PagesFit
  <2>7. /\ usage' \in [Info -> Nat] /\ held' \in [Info -> Nat]
        /\ usage'[i] = usage[i] - 1 /\ \A j \in Info \ {i} : usage'[j] = usage[j]
    BY <2>1, <2>2, <1>a
  <2>8. QED BY <2>1, <2>2, <2>6, <2>7, <1>c
<1>5. ASSUME NEW t \in Task, CopyFails(t) PROVE GroupInv'
  <2>1. /\ calls[t].pc = "fill" /\ Put(calls[t].new)
        /\ calls' = [calls EXCEPT ![t] = NoCall] /\ UNCHANGED cur
    BY <1>5 DEF CopyFails, At
  <2>2. calls[t].new \in Info /\ calls[t].old = NoInfo BY <2>1, <1>a, <1>b DEF CallFits
  <2>3. usage[calls[t].new] >= 1 BY <2>2, WhoRefers
  <2>4. QED BY <2>1, <2>2, <2>3, <1>c, PutKeepsPages
<1>6. ASSUME NEW t \in Task, PutNew(t) PROVE GroupInv'
  <2>1. /\ calls[t].pc = "new" /\ Put(calls[t].new)
        /\ calls' = [calls EXCEPT ![t] = NoCall] /\ UNCHANGED cur
    BY <1>6 DEF PutNew, At
  <2>2. calls[t].new \in Info /\ calls[t].old = NoInfo BY <2>1, <1>a, <1>b DEF CallFits
  <2>3. usage[calls[t].new] >= 1 BY <2>2, WhoRefers
  <2>4. QED BY <2>1, <2>2, <2>3, <1>c, PutKeepsPages
<1>7. ASSUME NEW t \in Task, Install(t) PROVE GroupInv'
  <2> DEFINE i == calls[t].new
  <2>1. /\ calls[t].pc = "fill" /\ UNCHANGED held
        /\ usage' = [usage EXCEPT ![i] = usage[i] + 1]
        /\ cur' = [cur EXCEPT ![t] = i]
        /\ calls' = [calls EXCEPT ![t].pc = "old", ![t].old = cur[t]]
    BY <1>7 DEF Install, At
  <2>2. /\ i \in Info /\ i # InitGroups /\ cur[t] \in Info /\ cur[t] # i /\ calls[t].old = NoInfo
        /\ \A u \in Task : cur[u] # i /\ calls[u].old # i /\ (u # t => calls[u].new # i)
    BY <2>1, <1>a, <1>b DEF CallFits, Alive
  <2>3. /\ calls'[t].pc = "old" /\ calls'[t].new = i /\ calls'[t].old = cur[t]
        /\ cur'[t] = i
        /\ \A u \in Task \ {t} : calls'[u] = calls[u] /\ cur'[u] = cur[u]
    BY <2>1, <1>a
  <2>4. GroupShape'
    <3>1. usage' \in [Info -> Nat] /\ held' \in [Info -> Nat]
      <4>1. usage[i] + 1 \in Nat BY <2>2, <1>a
      <4>2. usage' \in [Info -> Nat] BY <2>1, <1>a, <4>1
      <4>3. QED BY <2>1, <1>a, <4>2
    <3>2. cur' \in [Task -> Info \cup {NoInfo}] BY <2>1, <2>2, <1>a
    <3>3. calls' \in [Task -> [pc : CallPC, new : Info \cup {NoInfo}, old : Info \cup {NoInfo},
                               list : Lists \cup {<<>>}]]
      <4> DEFINE C == [pc : CallPC, new : Info \cup {NoInfo}, old : Info \cup {NoInfo},
                       list : Lists \cup {<<>>}]
                 c == [calls[t] EXCEPT !.pc = "old", !.old = cur[t]]
      <4>1. calls \in [Task -> C] BY <1>a
      <4>2. "old" \in CallPC /\ cur[t] \in Info \cup {NoInfo} BY <2>2 DEF CallPC
      <4>3. calls[t] \in C BY <4>1
      <4>4. c \in C BY ONLY <4>2, <4>3
      <4>5. calls' = [calls EXCEPT ![t] = c] BY <2>1, <4>1
      <4>6. calls' \in [Task -> C]
        <5> HIDE DEF C, c
        <5>1. QED BY <4>1, <4>4, <4>5
      <4>7. QED BY ONLY <4>6
    <3>4. QED BY <3>1, <3>2, <3>3 DEF GroupShape
  <2>5. PagesFit' BY <2>1, <2>2, <1>a DEF PagesFit
  <2>6. CallFits(t)' BY <2>2, <2>3 DEF CallFits, Alive
  <2>7. \A j \in Info : usage'[j] = usage[j] + Of(t, j)' - Of(t, j)
    <3>1. \A j \in Info : usage'[j] = IF j = i THEN usage[j] + 1 ELSE usage[j]
      BY <2>1, <2>2, <1>a
    <3> HIDE DEF i
    <3>2. \A j \in Info : /\ Of(t, j) = (IF j = cur[t] THEN 1 ELSE 0) + (IF j = i THEN 1 ELSE 0)
                          /\ Of(t, j)' = (IF j = i THEN 2 ELSE 0) + (IF j = cur[t] THEN 1 ELSE 0)
      BY <2>2, <2>3 DEF Of, i
    <3> SUFFICES ASSUME NEW j \in Info PROVE usage'[j] = usage[j] + Of(t, j)' - Of(t, j) OBVIOUS
    <3>3. usage[j] \in Nat BY <1>a
    <3>4. CASE j = i
      <4>1. Of(t, j)' = 2 /\ Of(t, j) = 1 /\ usage'[j] = usage[j] + 1
        BY <2>2, <3>1, <3>2, <3>4
      <4>2. QED BY <3>3, <4>1
    <3>5. CASE j # i
      <4>1. Of(t, j)' = Of(t, j) /\ Of(t, j) \in Int /\ usage'[j] = usage[j]
        BY <2>2, <3>1, <3>2, <3>5
      <4>2. QED BY <3>3, <4>1
    <3>6. QED BY <3>4, <3>5
  <2>8. \A u \in Task \ {t} : calls[u].pc \in {"alloc", "fill"} =>
           calls[u].new \notin {cur'[t], calls'[t].new, calls'[t].old}
    BY <2>2, <2>3, <1>b DEF CallFits
  <2>9. QED BY <2>3, <2>4, <2>5, <2>6, <2>7, <2>8, GroupStep
<1>8. ASSUME NEW t \in Task, PutOld(t) PROVE GroupInv'
  <2> DEFINE o == calls[t].old
  <2>1. /\ calls[t].pc = "old" /\ Put(o) /\ UNCHANGED cur
        /\ calls' = [calls EXCEPT ![t].pc = "new", ![t].old = NoInfo]
    BY <1>8 DEF PutOld, At
  <2>2. o \in Info BY <2>1, <1>a, <1>b DEF CallFits
  <2>3. usage[o] >= 1 BY <2>2, WhoRefers
  <2>4. /\ calls'[t].pc = "new" /\ calls'[t].new = calls[t].new /\ calls'[t].old = NoInfo
        /\ \A u \in Task \ {t} : calls'[u] = calls[u]
    BY <2>1, <1>a
  <2>5. /\ usage' \in [Info -> Nat] /\ held' \in [Info -> Nat] /\ PagesFit'
        /\ usage'[o] = usage[o] - 1 /\ \A j \in Info \ {o} : usage'[j] = usage[j]
    <3> HIDE DEF o
    <3> QED BY <2>1, <2>2, <2>3, PutKeepsPages
  <2>6. GroupShape'
    <3> DEFINE C == [pc : CallPC, new : Info \cup {NoInfo}, old : Info \cup {NoInfo},
                     list : Lists \cup {<<>>}]
               c == [calls[t] EXCEPT !.pc = "new", !.old = NoInfo]
    <3>1. calls \in [Task -> C] BY <1>a
    <3>2. "new" \in CallPC BY DEF CallPC
    <3>3. calls[t] \in C BY <3>1
    <3>4. c \in C BY ONLY <3>2, <3>3
    <3>5. calls' = [calls EXCEPT ![t] = c] BY <2>1, <3>1
    <3>6. calls' \in [Task -> C]
      <4> HIDE DEF C, c
      <4>1. QED BY <3>1, <3>4, <3>5
    <3>7. QED BY <2>1, <2>5, <1>a, <3>6 DEF GroupShape
  <2>7. CallFits(t)' BY <2>1, <2>4, <1>b DEF CallFits, Alive
  <2>8. \A j \in Info : usage'[j] = usage[j] + Of(t, j)' - Of(t, j)
    <3> SUFFICES ASSUME NEW j \in Info PROVE usage'[j] = usage[j] + Of(t, j)' - Of(t, j) OBVIOUS
    <3> DEFINE kept == (IF cur[t] = j THEN 1 ELSE 0) + (IF calls[t].new = j THEN 1 ELSE 0)
    <3>1. kept \in Int /\ usage[j] \in Nat BY <1>a
    <3>2. Of(t, j) = kept + (IF o = j THEN 1 ELSE 0) BY DEF Of
    <3>3. Of(t, j)' = kept + 0
      <4>1. o \in Info /\ NoInfo # j BY <2>2, GroupInfoAssumption
      <4>2. QED BY <2>1, <2>4, <4>1 DEF Of
    <3> HIDE DEF kept, o
    <3>4. usage'[j] = IF o = j THEN usage[j] - 1 ELSE usage[j] BY <2>5
    <3>5. QED BY ONLY <3>1, <3>2, <3>3, <3>4
  <2>9. \A u \in Task \ {t} : calls[u].pc \in {"alloc", "fill"} =>
           calls[u].new \notin {cur'[t], calls'[t].new, calls'[t].old}
    BY <2>1, <2>4, <1>b DEF CallFits
  <2>10. QED BY <2>1, <2>4, <2>5, <2>6, <2>7, <2>8, <2>9, GroupStep
<1>9. ASSUME NEW t \in Task, Exit(t) PROVE GroupInv'
  <2> DEFINE o == cur[t]
  <2>1. /\ calls[t].pc = "idle" /\ o \in Info /\ Put(o) /\ UNCHANGED calls
        /\ cur' = [cur EXCEPT ![t] = NoInfo]
    BY <1>9, <1>a DEF Exit, Ready, Alive
  <2>2. usage[o] >= 1 BY <2>1, WhoRefers
  <2>3. calls[t].new = NoInfo /\ calls[t].old = NoInfo BY <2>1, <1>b DEF CallFits
  <2>4. cur'[t] = NoInfo /\ \A u \in Task \ {t} : cur'[u] = cur[u] BY <2>1, <1>a
  <2>5. /\ usage' \in [Info -> Nat] /\ held' \in [Info -> Nat] /\ PagesFit'
        /\ usage'[o] = usage[o] - 1 /\ \A j \in Info \ {o} : usage'[j] = usage[j]
    <3> HIDE DEF o
    <3> QED BY <2>1, <2>2, PutKeepsPages
  <2>6. GroupShape' BY <2>1, <2>5, <1>a DEF GroupShape
  <2>7. CallFits(t)' BY <2>1, <2>3 DEF CallFits, Alive
  <2>8. \A j \in Info : usage'[j] = usage[j] + Of(t, j)' - Of(t, j)
    <3> SUFFICES ASSUME NEW j \in Info PROVE usage'[j] = usage[j] + Of(t, j)' - Of(t, j) OBVIOUS
    <3>1. usage[j] \in Nat /\ NoInfo # j BY <1>a, GroupInfoAssumption
    <3>2. Of(t, j) = IF o = j THEN 1 ELSE 0 BY <2>3, <3>1 DEF Of
    <3>3. Of(t, j)' = 0 BY <2>1, <2>3, <2>4, <3>1 DEF Of
    <3> HIDE DEF o
    <3>4. usage'[j] = IF o = j THEN usage[j] - 1 ELSE usage[j] BY <2>5
    <3>5. QED BY ONLY <3>1, <3>2, <3>3, <3>4
  <2>9. \A u \in Task \ {t} : calls[u].pc \in {"alloc", "fill"} =>
           calls[u].new \notin {cur'[t], calls'[t].new, calls'[t].old}
    BY <2>1, <2>3, <2>4, <1>b DEF CallFits
  <2>10. QED BY <2>1, <2>4, <2>5, <2>6, <2>7, <2>8, <2>9, GroupStep
<1>10. ASSUME NEW t \in Task, NEW child \in Task, Fork(t, child) PROVE GroupInv'
  <2> DEFINE i == cur[t]
  <2>1. /\ i \in Info /\ cur[child] = NoInfo /\ UNCHANGED <<gids, held, calls>>
        /\ cur' = [cur EXCEPT ![child] = i]
        /\ usage' = [usage EXCEPT ![i] = usage[i] + 1]
    BY <1>10, <1>a DEF Fork, Ready, Alive
  <2>2. cur'[child] = i /\ \A u \in Task \ {child} : cur'[u] = cur[u] BY <2>1, <1>a
  <2>3. calls[child].new = NoInfo /\ calls[child].old = NoInfo /\ calls[child].pc = "idle"
    BY <2>1, <1>b DEF CallFits, Alive
  <2>4. GroupShape' BY <2>1, <1>a DEF GroupShape
  <2>5. PagesFit' BY <2>1, <1>a DEF PagesFit
  <2>6. CallFits(child)' BY <2>1, <2>3 DEF CallFits, Alive
  <2>7. \A j \in Info : usage'[j] = usage[j] + Of(child, j)' - Of(child, j)
    BY <2>1, <2>2, <2>3, <1>a DEF Of
  <2>8. \A u \in Task \ {child} : calls[u].pc \in {"alloc", "fill"} =>
           calls[u].new \notin {cur'[child], calls'[child].new, calls'[child].old}
    BY <2>1, <2>2, <2>3, <1>b DEF CallFits
  <2>9. QED BY <2>1, <2>2, <2>4, <2>5, <2>6, <2>7, <2>8, GroupStep
<1>11. CASE UNCHANGED vars
  <2>1. cur' = cur /\ usage' = usage /\ held' = held /\ calls' = calls BY <1>11 DEF vars
  <2>2. GroupShape' BY <2>1, <1>a DEF GroupShape
  <2>3. \A t \in Task : CallFits(t)' BY <2>1, <1>b DEF CallFits, Alive
  <2>4. CountsAreReferences' BY <2>1 DEF GroupInv, CountsAreReferences, References
  <2>5. PagesFit' BY <2>1, <1>a DEF PagesFit
  <2>6. QED BY <2>2, <2>3, <2>4, <2>5 DEF GroupInv
<1>12. QED
  BY <1>1, <1>2, <1>3, <1>4, <1>5, <1>6, <1>7, <1>8, <1>9, <1>10, <1>11 DEF Next, Call

\* The invariant holds in every behaviour.
LEMMA GroupInvHolds == Spec => []GroupInv
BY GroupInitInv, GroupNextInv, PTL DEF Spec

\* Through every order of setgroups, fork and exit, and every failure half way, an
\* object's count is the number of its references: none is freed in use or kept for ever.
THEOREM CountsAlwaysReferences == Spec => []CountsAreReferences
BY GroupInvHolds, PTL DEF GroupInv

\* Every page an object took is given back with it, or when the allocation is undone.
THEOREM NoPageEverLost == Spec => []NoPageLost
<1>1. GroupInv => NoPageLost
  <2> SUFFICES ASSUME GroupInv PROVE NoPageLost OBVIOUS
  <2>1. held \in [Info -> Int] /\ InitGroups \in Info BY DEF GroupInv, GroupShape
  <2>2. SumFunction(held) \in Int
    <3>1. held[InitGroups] \in Int BY <2>1
    <3>2. QED BY <2>1, <3>1, SumChanges
  <2>3. QED BY <2>2 DEF GroupInv, PagesFit, NoPageLost, FreePages
<1>2. QED BY <1>1, GroupInvHolds, PTL

-----------------------------------------------------------------------------
(* GroupInfo: what processes are given.                                    *)

\* What an object may hold: gids of the arrays, in order.
Given == {s \in Seq(0..Width - 1) : InOrder(s) /\ Range(s) \subseteq Gids}

GidsInv == gids \in [Info -> Given]

\* The arrays are lists of numbers, and so is what is made of one: in order, and each gid
\* as often.
LEMMA SortedIsGiven ==
  ASSUME NEW list \in Lists \cup {<<>>}
  PROVE  /\ GroupsSort(CopyBlocks(list)) \in Given
         /\ \A gid : Occurs(gid, GroupsSort(CopyBlocks(list))) = Occurs(gid, list)
<1> DEFINE t == GroupsSort(CopyBlocks(list))
<1>1. list \in Seq(0..Width - 1) /\ list \in Seq(Int)
  <2>1. list \in Seq(0..Width - 1) BY ListsAssumption, EmptySeq DEF Arrays
  <2>2. 0..Width - 1 \subseteq Int OBVIOUS
  <2>3. QED BY <2>1, <2>2, SeqMonotonic
<1>2. t = GroupsSort(list) BY <1>1, CopyIsWhole
<1>3. t \in Arrangements(list) /\ InOrder(t) BY <1>1, <1>2, SortOrders
<1> HIDE DEF t
<1>4. t \in Seq(0..Width - 1) /\ Len(t) = Len(list) BY <1>1, <1>3, ArrangementsAreLists
<1>5. Len(list) \in Nat /\ DOMAIN list = 1..Len(list) /\ DOMAIN t = 1..Len(list)
  BY <1>1, <1>4, LenProperties
<1>6. Range(t) \subseteq Range(list)
  <2>1. PICK p \in Orders(Len(list)) : t = Arranged(list, p) BY <1>3 DEF Arrangements
  <2>2. \A i \in 1..Len(list) : p[i] \in 1..Len(list) /\ t[i] = list[p[i]]
    BY <2>1 DEF Orders, Surjection, Arranged
  <2>3. QED BY <1>5, <2>2 DEF Range
<1>7. Range(list) \subseteq Gids
  <2>1. CASE list \in Lists BY <2>1 DEF Gids
  <2>2. CASE list = <<>>
    <3>1. Len(list) = 0 BY <2>2
    <3>2. QED BY <1>5, <3>1 DEF Range
  <2>3. QED BY <2>1, <2>2
<1>8. \A gid : Occurs(gid, t) = Occurs(gid, list) BY <1>1, <1>3, ArrangementsCount
<1>9. QED BY <1>3, <1>4, <1>6, <1>7, <1>8 DEF Given, t

\* An empty list is one an object may hold.
LEMMA EmptyIsGiven == <<>> \in Given
<1>1. <<>> \in Seq(0..Width - 1) /\ Len(<<>>) = 0 BY EmptySeq
<1>2. DOMAIN <<>> = 1..0 BY <1>1, LenProperties
<1>3. QED BY <1>1, <1>2 DEF Given, InOrder, Range

\* Objects are emptied, filled by the call that allocated them, or left alone.
LEMMA GidsChange ==
  ASSUME GroupInv, Next
  PROVE  \/ \E i \in Info : usage'[i] = 0 /\ gids' = [gids EXCEPT ![i] = <<>>]
         \/ \E t \in Task : /\ calls[t].new \in Info /\ usage[calls[t].new] = 1
                            /\ calls[t].list \in Lists \cup {<<>>}
                            /\ gids' = [gids EXCEPT ![calls[t].new] =
                                          GroupsSort(CopyBlocks(calls[t].list))]
         \/ gids' = gids
<1>a. /\ usage \in [Info -> Nat] /\ cur \in [Task -> Info \cup {NoInfo}]
      /\ calls \in [Task -> [pc : CallPC, new : Info \cup {NoInfo},
                             old : Info \cup {NoInfo}, list : Lists \cup {<<>>}]]
      /\ \A t \in Task : CallFits(t)
  BY DEF GroupInv, GroupShape
<1>1. ASSUME NEW j \in Info, Put(j)
      PROVE  \/ usage'[j] = 0 /\ gids' = [gids EXCEPT ![j] = <<>>]
             \/ gids' = gids
  BY <1>1, <1>a DEF Put
<1>2. PICK t \in Task : Call(t) \/ Exit(t) \/ \E child \in Task : Fork(t, child)
  BY DEF Next
<1>3. CASE Install(t)
  <2>1. /\ calls[t].pc = "fill" /\ calls[t].new \in Info
        /\ gids' = [gids EXCEPT ![calls[t].new] = GroupsSort(CopyBlocks(calls[t].list))]
    BY <1>3, <1>a DEF Install, At, CallFits
  <2>2. usage[calls[t].new] = 1 BY <2>1, WhoRefers
  <2>3. QED BY <1>a, <2>1, <2>2
<1>4. CASE CopyFails(t) \/ PutNew(t)
  <2>1. calls[t].new \in Info BY <1>4, <1>a DEF CopyFails, PutNew, At, CallFits
  <2>2. QED BY <1>1, <1>4, <2>1 DEF CopyFails, PutNew
<1>5. CASE PutOld(t)
  <2>1. calls[t].old \in Info BY <1>5, <1>a DEF PutOld, At, CallFits
  <2>2. QED BY <1>1, <1>5, <2>1 DEF PutOld
<1>6. CASE Exit(t)
  <2>1. cur[t] \in Info BY <1>6, <1>a DEF Exit, Ready, Alive
  <2>2. QED BY <1>1, <1>6, <2>1 DEF Exit
<1>7. CASE UNCHANGED gids BY <1>7
<1>8. QED
  BY <1>2, <1>3, <1>4, <1>5, <1>6, <1>7
  DEF Call, Setgroups, AllocPage, AllocDone, AllocFails, Fork

\* Every object holds a list in order, in every behaviour.
LEMMA GidsInvHolds == Spec => []GidsInv
<1>1. Init => GidsInv BY EmptyIsGiven DEF Init, GidsInv
<1>2. ASSUME GroupInv, GidsInv, Next PROVE GidsInv'
  <2>1. CASE \E i \in Info : usage'[i] = 0 /\ gids' = [gids EXCEPT ![i] = <<>>]
    BY <1>2, <2>1, EmptyIsGiven DEF GidsInv
  <2>2. CASE \E t \in Task : /\ calls[t].new \in Info
                             /\ calls[t].list \in Lists \cup {<<>>}
                             /\ gids' = [gids EXCEPT ![calls[t].new] =
                                           GroupsSort(CopyBlocks(calls[t].list))]
    <3>1. PICK t \in Task : /\ calls[t].new \in Info
                            /\ calls[t].list \in Lists \cup {<<>>}
                            /\ gids' = [gids EXCEPT ![calls[t].new] =
                                          GroupsSort(CopyBlocks(calls[t].list))]
      BY <2>2
    <3>2. GroupsSort(CopyBlocks(calls[t].list)) \in Given BY <3>1, SortedIsGiven
    <3>3. QED BY <1>2, <3>1, <3>2 DEF GidsInv
  <2>3. CASE gids' = gids BY <1>2, <2>3 DEF GidsInv
  <2>4. QED BY <1>2, <2>1, <2>2, <2>3, GidsChange
<1>3. GroupInv /\ GidsInv /\ [Next]_vars => GidsInv'
  <2>1. UNCHANGED vars /\ GidsInv => GidsInv' BY DEF vars, GidsInv
  <2>2. QED BY <1>2, <2>1
<1>4. QED BY <1>1, <1>3, GroupInvHolds, PTL DEF Spec

\* What a process is given is what the call that allocated the object asked for, every gid
\* as often and in order; while processes share the object nothing changes it.
THEOREM GroupsAlwaysAsAsked == Spec => GroupsAsAsked
<1>1. ASSUME GroupInv, Next, NEW i \in Info, gids \in [Info -> Given],
             gids'[i] # gids[i], usage'[i] > 0
      PROVE  \E t \in Task :
               /\ calls[t].new = i /\ usage[i] = 1
               /\ InOrder(gids'[i])
               /\ \A gid \in 0..Width - 1 : Occurs(gid, gids'[i]) = Occurs(gid, calls[t].list)
  <2>1. ~\E j \in Info : usage'[j] = 0 /\ gids' = [gids EXCEPT ![j] = <<>>]
    <3> SUFFICES ASSUME NEW j \in Info, usage'[j] = 0, gids' = [gids EXCEPT ![j] = <<>>]
                 PROVE  FALSE
      OBVIOUS
    <3>1. i = j BY <1>1
    <3>2. QED BY <1>1, <3>1
  <2>2. PICK t \in Task : /\ calls[t].new \in Info /\ usage[calls[t].new] = 1
                          /\ calls[t].list \in Lists \cup {<<>>}
                          /\ gids' = [gids EXCEPT ![calls[t].new] =
                                        GroupsSort(CopyBlocks(calls[t].list))]
    BY <1>1, <2>1, GidsChange
  <2>3. calls[t].new = i /\ gids'[i] = GroupsSort(CopyBlocks(calls[t].list)) BY <1>1, <2>2
  <2>4. QED BY <2>2, <2>3, SortedIsGiven DEF Given
<1>2. GroupInv /\ GidsInv /\ [Next]_vars =>
        [\A i \in Info : gids'[i] # gids[i] /\ usage'[i] > 0 =>
           \E t \in Task :
             /\ calls[t].new = i /\ usage[i] = 1
             /\ InOrder(gids'[i])
             /\ \A gid \in 0..Width - 1 :
                  Occurs(gid, gids'[i]) = Occurs(gid, calls[t].list)]_vars
  BY <1>1 DEF GidsInv
<1>3. QED BY <1>2, GroupInvHolds, GidsInvHolds, PTL DEF Spec, GroupsAsAsked

\* Of gids whose differences an int holds, in_group_p finds those in the list of the
\* process and no others.
THEOREM MembersAlwaysFound == Spec => [](NearGroups => MembersAreFound)
<1>1. Gids \subseteq Int
  <2>1. ASSUME NEW l \in Lists PROVE Range(l) \subseteq Int
    <3>1. l \in Seq(0..Width - 1) BY ListsAssumption DEF Arrays
    <3>2. DOMAIN l = 1..Len(l) /\ \A i \in 1..Len(l) : l[i] \in 0..Width - 1
      BY <3>1, LenProperties, ElementOfSeq
    <3>3. QED BY <3>2 DEF Range
  <2>2. QED BY <2>1 DEF Gids
<1>2. ASSUME NEW s \in Given, NEW grp \in Gids, NearGroups
      PROVE  GroupsSearch(s, grp) <=> grp \in Range(s)
  <2>1. s \in Seq(0..Width - 1) /\ InOrder(s) /\ Range(s) \subseteq Gids BY DEF Given
  <2>2. DOMAIN s = 1..Len(s) BY <2>1, LenProperties
  <2>3. s \in Seq(Int)
    <3>1. 0..Width - 1 \subseteq Int OBVIOUS
    <3>2. QED BY <2>1, <3>1, SeqMonotonic
  <2>4. ASSUME NEW i \in 1..Len(s) PROVE Signed(grp - s[i]) = grp - s[i]
    <3>1. s[i] \in Gids BY <2>1, <2>2 DEF Range
    <3>2. grp \in Int /\ s[i] \in Int BY <1>1, <3>1
    <3>3. 2 * (grp - s[i]) < Width /\ 2 * (s[i] - grp) < Width BY <1>2, <3>1 DEF NearGroups
    <3>4. grp - s[i] \in Int /\ -(2 * (grp - s[i])) < Width BY <3>2, <3>3
    <3>5. QED BY <3>3, <3>4, SignedIs
  <2>5. GroupsSearch(s, grp) <=> \E i \in 1..Len(s) : s[i] = grp
    BY <1>1, <2>1, <2>3, <2>4, SearchFinds
  <2>6. QED BY <2>2, <2>5 DEF Range
<1>3. ASSUME GroupInv, GidsInv, NearGroups PROVE MembersAreFound
  <2> SUFFICES ASSUME NEW t \in Task, Alive(t), NEW grp \in Gids, NEW gid \in Gids
               PROVE  InGroup(t, gid, grp) <=>
                        grp \in {gid} \cup Range(Getgroups(t, Len(gids[cur[t]])))
    BY DEF MembersAreFound
  <2> DEFINE s == gids[cur[t]]
  <2>1. cur[t] \in Info BY <1>3 DEF GroupInv, GroupShape, Alive
  <2>2. s \in Given BY <1>3, <2>1 DEF GidsInv
  <2>3. s \in Seq(0..Width - 1) BY <2>2 DEF Given
  <2>4. Len(s) \in Nat BY <2>3, LenProperties
  <2>5. Getgroups(t, Len(s)) = s
    <3>1. CopyBlocks(s) = s BY <2>3, CopyIsWhole
    <3>2. QED BY <2>4, <3>1 DEF Getgroups
  <2>6. GroupsSearch(s, grp) <=> grp \in Range(s) BY <1>2, <1>3, <2>2
  <2>7. QED BY <2>5, <2>6 DEF InGroup
<1>4. GroupInv /\ GidsInv => (NearGroups => MembersAreFound) BY <1>3
<1>5. QED BY <1>4, GroupInvHolds, GidsInvHolds, PTL

-----------------------------------------------------------------------------
(* Usage: sums of times.                                                   *)

\* Times added up are times.
LEMMA AddIsPair ==
  ASSUME NEW x \in Pair, NEW y \in Pair
  PROVE  Add(x, y) \in Pair /\ Add(x, y) = Add(y, x)
BY DEF Add, Pair

\* In whatever order.
LEMMA AddSwaps ==
  ASSUME NEW x \in Pair, NEW y \in Pair, NEW z \in Pair
  PROVE  Add(x, Add(y, z)) = Add(y, Add(x, z)) /\ Add(Add(x, y), z) = Add(x, Add(y, z))
BY DEF Add, Pair

\* More times are not less.
LEMMA AtMostAdds ==
  ASSUME NEW x \in Pair, NEW y \in Pair
  PROVE  /\ AtMost(x, x) /\ AtMost(x, Add(y, x)) /\ AtMost(x, Add(x, y))
         /\ \A z \in Pair : AtMost(x, y) /\ AtMost(y, z) => AtMost(x, z)
         /\ \A v, w \in Pair : AtMost(x, y) /\ AtMost(v, w) => AtMost(Add(x, v), Add(y, w))
BY DEF Add, AtMost, Pair

\* The times tm of the threads in S, and base.
Total(tm, base, S) == FoldSet(LAMBDA t, sum : Add(tm[t], sum), base, S)

TimesOf(h, tm, base, S) ==
  h = [s \in SUBSET S |-> IF s = {} THEN base ELSE Add(tm[Some(s)], h[s \ {Some(s)}])]

\* The sum over a set of threads, from the sums over its subsets.
LEMMA TimesOfExists ==
  ASSUME NEW S, IsFiniteSet(S), NEW tm \in [S -> Pair], NEW base \in Pair
  PROVE  \E h : /\ TimesOf(h, tm, base, S)
                /\ \A s \in SUBSET S : h[s] \in Pair
<1> DEFINE step == [xp \in S \X Pair |-> Add(tm[xp[1]], xp[2])]
<1>1. PICK h : Recursive(h, S, base, step)
  <2> HIDE DEF step
  <2> QED BY RecursiveExists
<1>2. \A s \in SUBSET S : s # {} => Some(s) \in S /\ s \ {Some(s)} \in SUBSET S
  BY SomeIsIn
<1> DEFINE Wrong == {s \in SUBSET S : h[s] \notin Pair}
<1>3. Wrong = {}
  <2> SUFFICES ASSUME Wrong # {} PROVE FALSE OBVIOUS
  <2>1. PICK s \in Wrong : \A r \in Wrong : r \subseteq s => r = s
    <3>1. Wrong \subseteq SUBSET S OBVIOUS
    <3> HIDE DEF Wrong
    <3>2. QED BY <3>1, LeastSubset
  <2>2. s # {} BY <1>1 DEF Recursive
  <2>3. h[s \ {Some(s)}] \in Pair BY <1>2, <2>1, <2>2, SomeIsIn
  <2>4. h[s] = Add(tm[Some(s)], h[s \ {Some(s)}]) BY <1>1, <1>2, <2>2, <2>3 DEF Recursive
  <2>5. tm[Some(s)] \in Pair BY <1>2, <2>2
  <2>6. QED BY <2>3, <2>4, <2>5, AddIsPair
<1>4. \A s \in SUBSET S : s # {} => step[<<Some(s), h[s \ {Some(s)}]>>]
                                    = Add(tm[Some(s)], h[s \ {Some(s)}])
  BY <1>2, <1>3
<1> DEFINE one(s) == IF s = {} THEN base ELSE step[<<Some(s), h[s \ {Some(s)}]>>]
           other(s) == IF s = {} THEN base ELSE Add(tm[Some(s)], h[s \ {Some(s)}])
<1> HIDE DEF step
<1>5. \A s \in SUBSET S : one(s) = other(s) BY <1>4
<1>6. h = [s \in SUBSET S |-> one(s)] BY <1>1 DEF Recursive
<1> HIDE DEF one, other
<1>7. h = [s \in SUBSET S |-> other(s)] BY <1>5, <1>6
<1>8. QED BY <1>3, <1>7 DEF TimesOf, other

\* Two such functions agree where both are defined.
LEMMA TimesOfAgree ==
  ASSUME NEW S, IsFiniteSet(S), NEW R \in SUBSET S, NEW tm, NEW um, NEW base, NEW h, NEW k,
         TimesOf(h, tm, base, S), TimesOf(k, um, base, R), \A x \in R : tm[x] = um[x]
  PROVE  h[R] = k[R]
<1> DEFINE Wrong == {s \in SUBSET R : h[s] # k[s]}
<1>1. Wrong = {}
  <2> SUFFICES ASSUME Wrong # {} PROVE FALSE OBVIOUS
  <2>1. PICK s \in Wrong : \A r \in Wrong : r \subseteq s => r = s
    <3>1. Wrong \subseteq SUBSET S OBVIOUS
    <3> HIDE DEF Wrong
    <3>2. QED BY <3>1, LeastSubset
  <2>2. s # {} BY DEF TimesOf
  <2>3. Some(s) \in s /\ s \ {Some(s)} \in SUBSET R BY <2>2, SomeIsIn
  <2>4. h[s \ {Some(s)}] = k[s \ {Some(s)}] BY <2>1, <2>3
  <2>5. h[s] = Add(tm[Some(s)], h[s \ {Some(s)}]) BY <2>2 DEF TimesOf
  <2>6. k[s] = Add(um[Some(s)], k[s \ {Some(s)}]) BY <2>2 DEF TimesOf
  <2>7. QED BY <2>3, <2>4, <2>5, <2>6
<1>2. QED BY <1>1

\* What the sum is: nothing but base for no threads, else one thread and the rest.
LEMMA TotalIs ==
  ASSUME NEW S, IsFiniteSet(S), NEW tm, \A x \in S : tm[x] \in Pair, NEW base \in Pair
  PROVE  /\ Total(tm, base, {}) = base
         /\ S # {} => Total(tm, base, S) = Add(tm[Some(S)], Total(tm, base, S \ {Some(S)}))
         /\ Total(tm, base, S) \in Pair
<1> DEFINE um == [x \in S |-> tm[x]]
<1>a. um \in [S -> Pair] /\ \A x \in S : um[x] = tm[x] OBVIOUS
<1> HIDE DEF um
<1>1. ASSUME NEW R \in SUBSET S
      PROVE  \E h : TimesOf(h, um, base, R) /\ Total(tm, base, R) = h[R] /\ h[R] \in Pair
  <2>1. IsFiniteSet(R) BY FS_Subset
  <2> DEFINE vm == [x \in R |-> tm[x]]
  <2>2. vm \in [R -> Pair] /\ \A x \in R : vm[x] = tm[x] OBVIOUS
  <2> HIDE DEF vm
  <2>3. PICK g : TimesOf(g, vm, base, R) /\ \A s \in SUBSET R : g[s] \in Pair
    BY <2>1, <2>2, TimesOfExists
  <2>4. \A s \in SUBSET R : s # {} => vm[Some(s)] = tm[Some(s)] /\ um[Some(s)] = tm[Some(s)]
    BY <1>a, <2>2, SomeIsIn
  <2>5. TimesOf(g, tm, base, R) /\ \A h : TimesOf(h, tm, base, R) => TimesOf(h, um, base, R)
    BY <2>3, <2>4 DEF TimesOf
  <2>6. Total(tm, base, R) = (CHOOSE h : TimesOf(h, tm, base, R))[R]
    BY DEF Total, FoldSet, MapThenFoldSet, TimesOf, Some
  <2>7. PICK h : TimesOf(h, tm, base, R) /\ Total(tm, base, R) = h[R] BY <2>5, <2>6
  <2>8. h[R] = g[R] BY <2>1, <2>5, <2>7, TimesOfAgree
  <2>9. QED BY <2>3, <2>5, <2>7, <2>8
<1>2. Total(tm, base, {}) = base BY <1>1 DEF TimesOf
<1>3. Total(tm, base, S) \in Pair BY <1>1
<1>4. ASSUME S # {} PROVE Total(tm, base, S) = Add(tm[Some(S)], Total(tm, base, S \ {Some(S)}))
  <2>1. Some(S) \in S BY <1>4, SomeIsIn
  <2> DEFINE R == S \ {Some(S)}
  <2>2. PICK h : TimesOf(h, um, base, S) /\ Total(tm, base, S) = h[S] BY <1>1
  <2>3. PICK k : TimesOf(k, um, base, R) /\ Total(tm, base, R) = k[R] BY <1>1
  <2>4. h[R] = k[R] BY <2>2, <2>3, TimesOfAgree
  <2>5. h[S] = Add(um[Some(S)], h[R]) BY <1>4, <2>2 DEF TimesOf
  <2>6. QED BY <1>a, <2>1, <2>2, <2>3, <2>4, <2>5
<1>5. QED BY <1>2, <1>3, <1>4

\* Any of the threads may be taken out of the sum, not only the one it begins with.
LEMMA TotalTakes ==
  ASSUME NEW S, IsFiniteSet(S), NEW tm, \A x \in S : tm[x] \in Pair, NEW base \in Pair,
         NEW t \in S
  PROVE  Total(tm, base, S) = Add(tm[t], Total(tm, base, S \ {t}))
<1> DEFINE T(s) == Total(tm, base, s)
           Wrong == {s \in SUBSET S : \E x \in s : T(s) # Add(tm[x], T(s \ {x}))}
<1>1. ASSUME NEW s \in SUBSET S
      PROVE  /\ s # {} => Some(s) \in s /\ T(s) = Add(tm[Some(s)], T(s \ {Some(s)}))
             /\ T(s) \in Pair
  <2>1. IsFiniteSet(s) /\ \A x \in s : tm[x] \in Pair BY FS_Subset
  <2>2. QED BY <2>1, TotalIs, SomeIsIn
<1> HIDE DEF T
<1>2. Wrong = {}
  <2> SUFFICES ASSUME Wrong # {} PROVE FALSE OBVIOUS
  <2>1. PICK s \in Wrong : \A r \in Wrong : r \subseteq s => r = s
    <3>1. Wrong \subseteq SUBSET S OBVIOUS
    <3> HIDE DEF Wrong
    <3>2. QED BY <3>1, LeastSubset
  <2>2. PICK x \in s : T(s) # Add(tm[x], T(s \ {x})) OBVIOUS
  <2> DEFINE c == Some(s)
             r == s \ {c, x}
  <2>3. c \in s /\ c # x /\ T(s) = Add(tm[c], T(s \ {c})) BY <1>1, <2>2
  <2> HIDE DEF c
  <2>4. s \ {c} \in SUBSET S /\ s \ {x} \in SUBSET S /\ r \in SUBSET S OBVIOUS
  <2>5. s \ {c} \notin Wrong /\ s \ {x} \notin Wrong BY <2>1, <2>3
  <2>6. T(s \ {c}) = Add(tm[x], T(r))
    <3>1. x \in s \ {c} /\ (s \ {c}) \ {x} = r BY <2>3
    <3>2. QED BY <2>4, <2>5, <3>1
  <2>7. T(s \ {x}) = Add(tm[c], T(r))
    <3>1. c \in s \ {x} /\ (s \ {x}) \ {c} = r BY <2>3
    <3>2. QED BY <2>4, <2>5, <3>1
  <2>8. tm[c] \in Pair /\ tm[x] \in Pair /\ T(r) \in Pair BY <1>1, <2>3, <2>4
  <2>9. QED BY <2>2, <2>3, <2>6, <2>7, <2>8, AddSwaps
<1>3. QED BY <1>2 DEF T

\* What is added to the start is added to the sum.
LEMMA TotalBase ==
  ASSUME NEW S, IsFiniteSet(S), NEW tm, \A x \in S : tm[x] \in Pair, NEW base \in Pair,
         NEW more \in Pair
  PROVE  Total(tm, Add(more, base), S) = Add(more, Total(tm, base, S))
<1> DEFINE T(s) == Total(tm, base, s)
           M(s) == Total(tm, Add(more, base), s)
           Wrong == {s \in SUBSET S : M(s) # Add(more, T(s))}
<1>1. ASSUME NEW s \in SUBSET S
      PROVE  /\ T({}) = base /\ M({}) = Add(more, base)
             /\ s # {} => /\ Some(s) \in s
                          /\ T(s) = Add(tm[Some(s)], T(s \ {Some(s)}))
                          /\ M(s) = Add(tm[Some(s)], M(s \ {Some(s)}))
             /\ T(s) \in Pair
  <2>1. IsFiniteSet(s) /\ \A x \in s : tm[x] \in Pair BY FS_Subset
  <2>2. Add(more, base) \in Pair BY AddIsPair
  <2>3. QED BY <2>1, <2>2, TotalIs, SomeIsIn
<1> HIDE DEF T, M
<1>2. Wrong = {}
  <2> SUFFICES ASSUME Wrong # {} PROVE FALSE OBVIOUS
  <2>1. PICK s \in Wrong : \A r \in Wrong : r \subseteq s => r = s
    <3>1. Wrong \subseteq SUBSET S OBVIOUS
    <3> HIDE DEF Wrong
    <3>2. QED BY <3>1, LeastSubset
  <2>2. s # {} BY <1>1
  <2> DEFINE c == Some(s)
             r == s \ {c}
  <2>3. c \in s /\ T(s) = Add(tm[c], T(r)) /\ M(s) = Add(tm[c], M(r)) BY <1>1, <2>2
  <2> HIDE DEF c
  <2>4. r \in SUBSET S /\ r # s /\ r \subseteq s BY <2>3
  <2>5. M(r) = Add(more, T(r)) BY <2>1, <2>4
  <2>6. tm[c] \in Pair /\ T(r) \in Pair BY <1>1, <2>3, <2>4
  <2>7. QED BY <2>3, <2>5, <2>6, AddSwaps
<1>3. QED BY <1>2 DEF T, M

\* Sums of what is no less are no less.
LEMMA TotalGrows ==
  ASSUME NEW S, IsFiniteSet(S), NEW tm, NEW um, NEW base \in Pair, NEW more \in Pair,
         \A x \in S : tm[x] \in Pair /\ um[x] \in Pair /\ AtMost(tm[x], um[x]),
         AtMost(base, more)
  PROVE  AtMost(Total(tm, base, S), Total(um, more, S))
<1> DEFINE T(s) == Total(tm, base, s)
           M(s) == Total(um, more, s)
           Wrong == {s \in SUBSET S : ~AtMost(T(s), M(s))}
<1>1. ASSUME NEW s \in SUBSET S
      PROVE  /\ T({}) = base /\ M({}) = more
             /\ s # {} => /\ Some(s) \in s
                          /\ T(s) = Add(tm[Some(s)], T(s \ {Some(s)}))
                          /\ M(s) = Add(um[Some(s)], M(s \ {Some(s)}))
             /\ T(s) \in Pair /\ M(s) \in Pair
  <2>1. IsFiniteSet(s) /\ \A x \in s : tm[x] \in Pair /\ um[x] \in Pair BY FS_Subset
  <2>2. /\ T({}) = base /\ (s # {} => T(s) = Add(tm[Some(s)], T(s \ {Some(s)}))) /\ T(s) \in Pair
    BY ONLY <2>1, base \in Pair, TotalIs
  <2>3. /\ M({}) = more /\ (s # {} => M(s) = Add(um[Some(s)], M(s \ {Some(s)}))) /\ M(s) \in Pair
    BY ONLY <2>1, more \in Pair, TotalIs
  <2>4. s # {} => Some(s) \in s BY SomeIsIn
  <2> HIDE DEF T, M
  <2>5. QED BY ONLY <2>2, <2>3, <2>4
<1> HIDE DEF T, M
<1>2. Wrong = {}
  <2> SUFFICES ASSUME Wrong # {} PROVE FALSE OBVIOUS
  <2>1. PICK s \in Wrong : \A r \in Wrong : r \subseteq s => r = s
    <3>1. Wrong \subseteq SUBSET S OBVIOUS
    <3> HIDE DEF Wrong
    <3>2. QED BY <3>1, LeastSubset
  <2>2. s # {} BY <1>1
  <2> DEFINE c == Some(s)
             r == s \ {c}
  <2>3. c \in s /\ T(s) = Add(tm[c], T(r)) /\ M(s) = Add(um[c], M(r)) BY <1>1, <2>2
  <2> HIDE DEF c
  <2>4. r \in SUBSET S /\ r # s /\ r \subseteq s BY <2>3
  <2>5. AtMost(T(r), M(r)) BY <2>1, <2>4
  <2>6. /\ tm[c] \in Pair /\ um[c] \in Pair /\ AtMost(tm[c], um[c])
        /\ T(r) \in Pair /\ M(r) \in Pair
    BY <1>1, <2>3, <2>4
  <2>7. QED BY <2>3, <2>5, <2>6, AtMostAdds
<1>3. QED BY <1>2 DEF T, M

\* Sums of the same are the same.
LEMMA TotalSame ==
  ASSUME NEW S, IsFiniteSet(S), NEW tm, NEW um, NEW base \in Pair,
         \A x \in S : tm[x] \in Pair /\ um[x] = tm[x]
  PROVE  Total(tm, base, S) = Total(um, base, S)
<1>1. \A x \in S : AtMost(tm[x], um[x]) /\ AtMost(um[x], tm[x]) /\ um[x] \in Pair
  BY AtMostAdds
<1>2. AtMost(base, base) BY AtMostAdds
<1>3. /\ AtMost(Total(tm, base, S), Total(um, base, S))
      /\ AtMost(Total(um, base, S), Total(tm, base, S))
  BY <1>1, <1>2, TotalGrows
<1>4. Total(tm, base, S) \in Pair /\ Total(um, base, S) \in Pair BY <1>1, TotalIs
<1>5. \A x, y \in Pair : AtMost(x, y) /\ AtMost(y, x) => x = y BY DEF AtMost, Pair
<1>6. QED BY <1>3, <1>4, <1>5

-----------------------------------------------------------------------------
(* Usage: siglock makes the two times of the children one pair.            *)


\* Pairs and records are what their fields are; what the sums are is not needed.
IsPair(x) == x = [u |-> x.u, s |-> x.s]

IsCall(c) ==
  /\ c = [pc |-> c.pc, kind |-> c.kind, of |-> c.of, todo |-> c.todo, sum |-> c.sum,
          children |-> c.children, begun |-> c.begun, added |-> c.added]
  /\ IsPair(c.children)

Shape ==
  /\ call = [t \in Thread |-> call[t]]
  /\ \A t \in Thread : IsCall(call[t])
  /\ signal = [p \in Process |-> signal[p]]
  /\ \A p \in Process : /\ signal[p] = [dead |-> signal[p].dead, children |-> signal[p].children]
                        /\ IsPair(signal[p].children)
  /\ siglock \in [Process -> Thread \cup {NoThread}]
  /\ past = [p \in Process |-> past[p]]

Holding == {"cutime", "cstime", "dead", "threads", "unlock"}

\* A call that reads holds the lock of the process it reads.
Locked(t) ==
  /\ call[t].pc # "idle" => call[t].of \in Process
  /\ call[t].pc \in Holding => siglock[call[t].of] = t

\* The call reads its process's pair, and has read the half or the whole of it.
Reads(t) ==
  LET c == call[t]
  IN /\ c.pc \in {"dead", "threads"} => c.kind # "children"
     /\ c.pc = "cstime" => c.children.u = signal[c.of].children.u
     /\ c.pc \in {"unlock", "return"} /\ c.kind \in {"times", "children"} =>
          c.children \in past[c.of]

UsageInv ==
  /\ Shape
  /\ \A t \in Thread : Locked(t) /\ Reads(t)
  /\ \A p \in Process : signal[p].children \in past[p]

\* The invariant holds at first.
LEMMA UsageInitInv == UsageInit => UsageInv
<1> SUFFICES ASSUME UsageInit PROVE UsageInv
  OBVIOUS
<1>1. IsPair(Zero)
  BY DEF IsPair, Zero
<1>2. IsCall(NoUse) /\ NoUse.pc = "idle"
  BY <1>1 DEF NoUse, IsCall
<1>3. /\ call = [t \in Thread |-> NoUse]
      /\ signal = [p \in Process |-> [dead |-> Zero, children |-> Zero]]
      /\ siglock = [p \in Process |-> NoThread]
      /\ past = [p \in Process |-> {Zero}]
  BY DEF UsageInit
<1> HIDE DEF UsageInit
<1>4. \A t \in Thread : call[t] = NoUse
  BY <1>3
<1>5. \A p \in Process : signal[p] = [dead |-> Zero, children |-> Zero]
  BY <1>3
<1>6. \A p \in Process : /\ signal[p] = [dead |-> signal[p].dead, children |-> signal[p].children]
                         /\ IsPair(signal[p].children) /\ signal[p].children = Zero
  BY <1>1, <1>5
<1>7. call = [t \in Thread |-> call[t]] /\ signal = [p \in Process |-> signal[p]]
  BY <1>3, <1>4, <1>5
<1>8. Shape
  BY <1>2, <1>3, <1>4, <1>6, <1>7 DEF Shape
<1>9. \A t \in Thread : Locked(t) /\ Reads(t)
  BY <1>2, <1>4 DEF Locked, Reads, Holding
<1> QED
  BY <1>3, <1>6, <1>8, <1>9 DEF UsageInv

\* Where a call stands, which nothing outside it moves.
LEMMA Unmoved ==
  ASSUME UsageInv, UNCHANGED <<signal, siglock, past, call>>
  PROVE  UsageInv'
BY DEF UsageInv, Shape, IsCall, IsPair, Locked, Reads

\* The clock and the exits leave the children's times alone.
LEMMA KernelKeeps ==
  ASSUME UsageInv, NEW t \in Thread, Tick(t) \/ LeaderExits(t) \/ ThreadExits(t)
  PROVE  UsageInv'
<1>1. CASE Tick(t) \/ LeaderExits(t)
  BY <1>1, Unmoved DEF Tick, LeaderExits
<1>2. CASE ThreadExits(t)
  <2>1. ProcessOf[t] \in Process
    BY UsageAssumption
  <2>2. UNCHANGED <<siglock, past, call>>
    BY <1>2 DEF ThreadExits
  <2>3. /\ signal' = [p \in Process |-> signal'[p]]
        /\ \A p \in Process :
             /\ signal'[p] = [dead |-> signal'[p].dead, children |-> signal'[p].children]
             /\ signal'[p].children = signal[p].children
    BY <1>2, <2>1 DEF ThreadExits, UsageInv, Shape
  <2>4. Shape'
    BY <2>2, <2>3 DEF UsageInv, Shape, IsCall, IsPair
  <2>5. \A v \in Thread : Locked(v)' /\ Reads(v)'
    <3> SUFFICES ASSUME NEW v \in Thread PROVE Locked(v)' /\ Reads(v)'
      OBVIOUS
    <3>1. Locked(v) /\ Reads(v)
      BY DEF UsageInv
    <3> QED
      BY <2>2, <2>3, <3>1 DEF Locked, Reads
  <2> QED
    BY <2>2, <2>3, <2>4, <2>5 DEF UsageInv
<1> QED
  BY <1>1, <1>2

\* What a waiter asks for.
LEMMA WaiterCall ==
  ASSUME NEW child, NEW a, NEW new,
         new = [NoUse EXCEPT !.pc = "lock", !.kind = "both", !.of = child, !.added = a]
  PROVE  IsCall(new) /\ new.pc = "lock" /\ new.of = child
<1>1. /\ new = [pc |-> new.pc, kind |-> new.kind, of |-> new.of, todo |-> new.todo,
               sum |-> new.sum, children |-> new.children, begun |-> new.begun,
               added |-> new.added]
      /\ new.pc = "lock" /\ new.of = child
  BY DEF NoUse
<1>2. new.children = [u |-> 0, s |-> 0]
  BY DEF NoUse, Zero
<1> QED
  BY <1>1, <1>2 DEF IsCall, IsPair

\* A waiter adds to the pair only while nobody holds the lock of its process.
LEMMA ReapsKeeps ==
  ASSUME UsageInv, NEW t \in Thread, NEW child \in Process, Reaps(t, child)
  PROVE  UsageInv'
<1> DEFINE p == ProcessOf[t]
           sum == Add(signal[p].children, Add(Used(child), signal[child].children))
<1>1. p \in Process
  BY UsageAssumption
<1>2. /\ siglock[p] = NoThread /\ UNCHANGED siglock
      /\ signal' = [signal EXCEPT ![p].children = sum]
      /\ past' = [past EXCEPT ![p] = @ \cup {sum}]
      /\ \E a : call' = [call EXCEPT ![t] = [NoUse EXCEPT !.pc = "lock", !.kind = "both",
                                                !.of = child, !.added = a]]
  BY DEF Reaps
<1>3. IsPair(sum)
  BY DEF IsPair, Add
<1> HIDE DEF sum, p
<1>4. /\ signal' = [q \in Process |-> signal'[q]]
      /\ \A q \in Process :
           /\ signal'[q] = [dead |-> signal'[q].dead, children |-> signal'[q].children]
           /\ signal'[q].children = IF q = p THEN sum ELSE signal[q].children
  BY <1>1, <1>2 DEF UsageInv, Shape
<1>5. /\ past' = [q \in Process |-> past'[q]]
      /\ \A q \in Process : past'[q] = IF q = p THEN past[q] \cup {sum} ELSE past[q]
  BY <1>1, <1>2 DEF UsageInv, Shape
<1>6. /\ call' = [v \in Thread |-> call'[v]]
      /\ \A v \in Thread \ {t} : call'[v] = call[v]
      /\ IsCall(call'[t]) /\ call'[t].pc = "lock" /\ call'[t].of = child
  <2>1. PICK a : call' = [call EXCEPT ![t] = [NoUse EXCEPT !.pc = "lock", !.kind = "both",
                                                          !.of = child, !.added = a]]
    BY <1>2
  <2>2. call = [v \in Thread |-> call[v]]
    BY DEF UsageInv, Shape
  <2> DEFINE new == [NoUse EXCEPT !.pc = "lock", !.kind = "both", !.of = child, !.added = a]
  <2>3. IsCall(new) /\ new.pc = "lock" /\ new.of = child
    BY WaiterCall
  <2> HIDE DEF new
  <2>4. call' = [call EXCEPT ![t] = new]
    BY <2>1 DEF new
  <2> QED
    BY <2>2, <2>3, <2>4
<1>7. Shape'
  <2>1. \A v \in Thread : IsCall(call'[v])
    BY <1>6 DEF UsageInv, Shape
  <2>2. \A q \in Process : IsPair(signal'[q].children)
    BY <1>3, <1>4 DEF UsageInv, Shape
  <2>3. siglock' \in [Process -> Thread \cup {NoThread}]
    BY <1>2 DEF UsageInv, Shape
  <2> QED
    BY ONLY <1>4, <1>5, <1>6, <2>1, <2>2, <2>3 DEF Shape, IsCall, IsPair
<1>8. ASSUME NEW v \in Thread PROVE Locked(v)' /\ Reads(v)'
  <2>1. CASE v = t
    BY <1>6, <2>1 DEF Locked, Reads, Holding
  <2>2. CASE v # t
    <3>1. Locked(v) /\ Reads(v) /\ call'[v] = call[v]
      BY <1>6, <2>2 DEF UsageInv
    <3>2. call[v].pc \in Holding => call[v].of # p
      BY <1>2, <3>1, UsageAssumption DEF Locked
    <3> QED
      BY <1>2, <1>4, <1>5, <3>1, <3>2 DEF Locked, Reads, Holding
  <2> QED
    BY <2>1, <2>2
<1>9. \A q \in Process : signal'[q].children \in past'[q]
  BY <1>4, <1>5 DEF UsageInv
<1> QED
  BY <1>7, <1>8, <1>9 DEF UsageInv

\* A step of a call that leaves the locks alone: what the step's own thread needs.
LEMMA ReadKeeps ==
  ASSUME UsageInv, NEW t \in Thread,
         UNCHANGED <<signal, siglock, past>>,
         call' = [v \in Thread |-> call'[v]],
         \A v \in Thread \ {t} : call'[v] = call[v],
         IsCall(call'[t]), Locked(t)', Reads(t)'
  PROVE  UsageInv'
<1>1. Shape'
  BY DEF UsageInv, Shape, IsCall, IsPair
<1>2. ASSUME NEW v \in Thread PROVE Locked(v)' /\ Reads(v)'
  <2>1. CASE v # t
    <3>1. Locked(v) /\ Reads(v) /\ call'[v] = call[v]
      BY <2>1 DEF UsageInv
    <3> QED
      BY <3>1 DEF Locked, Reads
  <2> QED
    BY <2>1
<1> QED
  BY <1>1, <1>2 DEF UsageInv

\* A call begins: nothing is read yet.
LEMMA CallKeeps ==
  ASSUME UsageInv, NEW t \in Thread, NEW kind \in {"times", "self", "children"},
         UsageCall(t, kind)
  PROVE  UsageInv'
<1>1. ProcessOf[t] \in Process
  BY UsageAssumption
<1>2. /\ call' = [v \in Thread |-> call'[v]]
      /\ \A v \in Thread \ {t} : call'[v] = call[v]
      /\ IsCall(call'[t]) /\ call'[t].pc = "lock" /\ call'[t].of = ProcessOf[t]
  BY DEF UsageCall, UsageInv, Shape, NoUse, IsCall, IsPair, Zero
<1>3. Locked(t)' /\ Reads(t)'
  BY <1>1, <1>2 DEF Locked, Reads, Holding
<1> QED
  BY <1>2, <1>3, ReadKeeps DEF UsageCall

\* Taking the lock: the reading begins, with the pair or with the dead threads.
LEMMA LockKeeps ==
  ASSUME UsageInv, NEW t \in Thread, UsageLock(t)
  PROVE  UsageInv'
<1> DEFINE p == call[t].of
<1>1. p \in Process /\ call[t].pc = "lock" /\ IsCall(call[t])
  BY DEF UsageLock, UsageInv, Shape, Locked
<1>2. /\ siglock[p] = NoThread /\ siglock' = [siglock EXCEPT ![p] = t]
      /\ UNCHANGED <<signal, past>>
  BY DEF UsageLock, Locks
<1>3. /\ call' = [v \in Thread |-> call'[v]]
      /\ \A v \in Thread \ {t} : call'[v] = call[v]
      /\ IsCall(call'[t]) /\ call'[t].of = p
      /\ call'[t].pc \in {"cutime", "dead"}
      /\ call'[t].pc = "dead" => call'[t].kind # "children"
  BY <1>1, Zenon DEF UsageLock, UsageInv, Shape, IsCall, IsPair, FirstRead
<1> HIDE DEF p
<1>4. Shape'
  BY <1>1, <1>2, <1>3 DEF UsageInv, Shape, IsCall, IsPair
<1>5. ASSUME NEW v \in Thread PROVE Locked(v)' /\ Reads(v)'
  <2>1. CASE v = t
    BY <1>1, <1>2, <1>3, <2>1 DEF Locked, Reads, UsageInv, Shape
  <2>2. CASE v # t
    <3>1. Locked(v) /\ Reads(v) /\ call'[v] = call[v]
      BY <1>3, <2>2 DEF UsageInv
    <3>2. call[v].pc \in Holding => call[v].of # p
      BY <1>2, <3>1, UsageAssumption DEF Locked
    <3>3. \A q \in Process : q # p => siglock'[q] = siglock[q]
      BY <1>2 DEF UsageInv, Shape
    <3>4. call[v].pc \in Holding => call[v].of \in Process
      BY ONLY <3>1, SMTT(60) DEF Locked, Holding
    <3> QED
      BY <1>2, <3>1, <3>2, <3>3, <3>4 DEF Locked, Reads
  <2> QED
    BY <2>1, <2>2
<1> QED
  BY <1>2, <1>4, <1>5 DEF UsageInv

\* The first half is read under the lock.
LEMMA CutimeKeeps ==
  ASSUME UsageInv, NEW t \in Thread, ReadCutime(t)
  PROVE  UsageInv'
<1>1. IsCall(call[t]) /\ Locked(t) /\ call[t].pc = "cutime"
  BY Zenon DEF UsageInv, Shape, ReadCutime
<1>2. /\ call' = [v \in Thread |-> call'[v]]
      /\ \A v \in Thread \ {t} : call'[v] = call[v]
      /\ IsCall(call'[t])
      /\ call'[t].pc = "cstime" /\ call'[t].of = call[t].of
      /\ call'[t].children.u = signal[call[t].of].children.u
  BY <1>1, Zenon DEF ReadCutime, UsageInv, Shape, IsCall, IsPair
<1>3. Locked(t)' /\ Reads(t)'
  BY <1>1, <1>2 DEF ReadCutime, Locked, Reads, Holding
<1> QED
  BY <1>2, <1>3, ReadKeeps DEF ReadCutime

\* With the second half the pair is the one the process has.
LEMMA CstimeKeeps ==
  ASSUME UsageInv, NEW t \in Thread, ReadCstime(t)
  PROVE  UsageInv'
<1> DEFINE p == call[t].of
<1>1. IsCall(call[t]) /\ Locked(t) /\ Reads(t) /\ call[t].pc = "cstime"
  <2>1. Shape /\ \A v \in Thread : Locked(v) /\ Reads(v)
    BY DEF UsageInv
  <2>2. IsCall(call[t])
    BY <2>1 DEF Shape
  <2>3. call[t].pc = "cstime"
    BY ONLY ReadCstime(t) DEF ReadCstime
  <2> QED
    BY <2>1, <2>2, <2>3
<1>2. /\ call' = [v \in Thread |-> call'[v]]
      /\ \A v \in Thread \ {t} : call'[v] = call[v]
      /\ IsCall(call'[t])
      /\ call'[t].pc = AfterChildren(call[t].kind) /\ call'[t].of = p
      /\ call'[t].kind = call[t].kind
      /\ call'[t].children = [u |-> call[t].children.u, s |-> signal[p].children.s]
  BY <1>1, Zenon DEF ReadCstime, UsageInv, Shape, IsCall, IsPair
<1>3. p \in Process /\ call[t].children.u = signal[p].children.u
  BY <1>1 DEF Locked, Reads
<1>4. call'[t].children = signal[p].children
  BY <1>2, <1>3 DEF UsageInv, Shape, IsPair
<1>5. call'[t].children \in past[p]
  BY <1>3, <1>4 DEF UsageInv
<1>6. call'[t].pc \in {"dead", "unlock"} /\ (call'[t].pc = "dead" => call'[t].kind = "both")
  BY <1>2 DEF AfterChildren
<1>7. UNCHANGED <<signal, siglock, past>>
  BY DEF ReadCstime
<1> HIDE DEF p
<1>8. siglock[p] = t
  BY <1>1 DEF Locked, Holding, p
<1>9. Locked(t)' /\ Reads(t)'
  BY <1>2, <1>3, <1>5, <1>6, <1>7, <1>8 DEF Locked, Reads, Holding
<1> QED
  BY <1>2, <1>7, <1>9, ReadKeeps, SMTT(60)

\* The dead threads' times are read; the children's pair, if read, stays.
LEMMA DeadKeeps ==
  ASSUME UsageInv, NEW t \in Thread, ReadDead(t)
  PROVE  UsageInv'
<1>1. IsCall(call[t]) /\ Locked(t) /\ Reads(t) /\ call[t].pc = "dead"
  BY DEF UsageInv, Shape, ReadDead
<1>2. /\ call' = [v \in Thread |-> call'[v]]
      /\ \A v \in Thread \ {t} : call'[v] = call[v]
      /\ IsCall(call'[t])
      /\ call'[t].pc = "threads" /\ call'[t].of = call[t].of /\ call'[t].kind = call[t].kind
  BY <1>1 DEF ReadDead, UsageInv, Shape, IsCall, IsPair
<1>3. Locked(t)' /\ Reads(t)'
  BY <1>1, <1>2 DEF ReadDead, Locked, Reads, Holding
<1> QED
  BY <1>2, <1>3, ReadKeeps DEF ReadDead

\* The threads are added up before the pair is read, by sys_times, or after it.
LEMMA ThreadKeeps ==
  ASSUME UsageInv, NEW t \in Thread, ReadThread(t)
  PROVE  UsageInv'
<1>1. IsCall(call[t]) /\ Locked(t) /\ Reads(t) /\ call[t].pc = "threads"
  BY DEF UsageInv, Shape, ReadThread
<1>2. /\ call' = [v \in Thread |-> call'[v]]
      /\ \A v \in Thread \ {t} : call'[v] = call[v]
      /\ IsCall(call'[t])
      /\ call'[t].of = call[t].of /\ call'[t].kind = call[t].kind
      /\ \/ call'[t].pc = "threads"
         \/ call'[t].pc = "cutime" /\ call[t].kind = "times"
         \/ call'[t].pc = "unlock" /\ call[t].kind # "times"
  BY <1>1, SMTT(60) DEF ReadThread, UsageInv, Shape, IsCall, IsPair
<1>3. Locked(t)' /\ Reads(t)'
  BY <1>1, <1>2 DEF ReadThread, Locked, Reads, Holding
<1> QED
  BY <1>2, <1>3, ReadKeeps DEF ReadThread

\* The lock is released: the pair read is one the process has had.
LEMMA UnlockKeeps ==
  ASSUME UsageInv, NEW t \in Thread, UsageUnlock(t)
  PROVE  UsageInv'
<1> DEFINE p == call[t].of
<1>1. IsCall(call[t]) /\ Locked(t) /\ Reads(t) /\ call[t].pc = "unlock"
  BY DEF UsageInv, Shape, UsageUnlock
<1>2. p \in Process /\ siglock[p] = t
  BY <1>1 DEF Locked, Holding
<1>3. siglock' = [siglock EXCEPT ![p] = NoThread] /\ UNCHANGED <<signal, past>>
  BY DEF UsageUnlock
<1>4. /\ call' = [v \in Thread |-> call'[v]]
      /\ \A v \in Thread \ {t} : call'[v] = call[v]
      /\ IsCall(call'[t]) /\ call'[t].pc = "return" /\ call'[t].of = p
      /\ call'[t].kind = call[t].kind /\ call'[t].children = call[t].children
  BY <1>1 DEF UsageUnlock, UsageInv, Shape, IsCall, IsPair
<1>5. Reads(t)' /\ Locked(t)'
  BY <1>1, <1>2, <1>3, <1>4 DEF Reads, Locked, Holding
<1> HIDE DEF p
<1>6. Shape'
  BY <1>2, <1>3, <1>4 DEF UsageInv, Shape, IsCall, IsPair
<1>7. ASSUME NEW v \in Thread PROVE Locked(v)' /\ Reads(v)'
  <2>1. CASE v # t
    <3>1. Locked(v) /\ Reads(v) /\ call'[v] = call[v]
      BY <1>4, <2>1 DEF UsageInv
    <3>2. call[v].pc \in Holding => call[v].of # p /\ call[v].of \in Process
      BY <1>2, <2>1, <3>1 DEF Locked, Holding
    <3>3. \A q \in Process : q # p => siglock'[q] = siglock[q]
      BY <1>3 DEF UsageInv, Shape
    <3> QED
      BY <1>3, <3>1, <3>2, <3>3 DEF Locked, Reads
  <2> QED
    BY <1>5, <2>1
<1> QED
  BY <1>3, <1>6, <1>7 DEF UsageInv

\* The caller goes on with its times.
LEMMA ReturnsKeeps ==
  ASSUME UsageInv, NEW t \in Thread, Returns(t)
  PROVE  UsageInv'
<1>1. /\ call' = [v \in Thread |-> call'[v]]
      /\ \A v \in Thread \ {t} : call'[v] = call[v]
      /\ IsCall(call'[t]) /\ call'[t].pc = "idle"
  BY DEF Returns, UsageInv, Shape, NoUse, IsCall, IsPair, Zero
<1>2. Locked(t)' /\ Reads(t)'
  BY <1>1 DEF Locked, Reads, Holding
<1> QED
  BY <1>1, <1>2, ReadKeeps DEF Returns

\* Every step keeps the invariant.
LEMMA UsageStepKeeps == UsageInv /\ [UsageNext]_usageVars => UsageInv'
<1> SUFFICES ASSUME UsageInv, [UsageNext]_usageVars PROVE UsageInv'
  OBVIOUS
<1>1. CASE UNCHANGED usageVars
  BY <1>1, Unmoved DEF usageVars
<1>2. ASSUME NEW t \in Thread, UsageStep(t) PROVE UsageInv'
  BY <1>2, CallKeeps, LockKeeps, CutimeKeeps, CstimeKeeps, DeadKeeps, ThreadKeeps,
     UnlockKeeps, ReturnsKeeps DEF UsageStep
<1> QED
  BY <1>1, <1>2, KernelKeeps, ReapsKeeps DEF UsageNext

\* The invariant holds throughout.
LEMMA UsageInvariance == UsageSpec => []UsageInv
BY UsageInitInv, UsageStepKeeps, PTL DEF UsageSpec

\* The two times of the children that times and getrusage return belong together,
\* however many threads, processes and waiters there are.
THEOREM ChildrenAlwaysWhole == UsageSpec => []ChildrenWhole
<1>1. UsageInv => ChildrenWhole
  BY DEF UsageInv, Reads, ChildrenWhole
<1> QED
  BY <1>1, UsageInvariance, PTL

-----------------------------------------------------------------------------
(* Usage: the sums of the threads' times.                                  *)

UsagePC == {"idle", "lock", "cutime", "cstime", "dead", "threads", "unlock", "return"}

Asked == [pc : UsagePC, kind : {"times", "self", "children", "both"},
          of : Process \cup {NoProcess}, todo : SUBSET Thread,
          sum : Pair, children : Pair, begun : Pair, added : Pair]

TimesShape ==
  /\ task \in [Thread -> {"runs", "dead", "gone"}]
  /\ time \in [Thread -> Pair]
  /\ signal \in [Process -> [dead : Pair, children : Pair]]
  /\ waited \subseteq Process
  /\ call \in [Thread -> Asked]

\* A call asks about the process of its own thread, or about the zombie that its thread
\* alone has claimed.
Whose(t) ==
  LET c == call[t]
  IN c.pc # "idle" =>
       /\ task[t] = "runs" /\ c.of \in Process
       /\ c.kind # "both" => c.of = ProcessOf[t]
       /\ c.kind = "both" =>
            /\ c.of \in waited /\ Zombie(c.of)
            /\ \A u \in Thread \ {t} :
                 call[u].pc # "idle" /\ call[u].kind = "both" => call[u].of # c.of

\* What a thread asks about its own process: with the times of the threads still to be
\* added the sum is no less than at the call, and without them no more than now.
Told(t) ==
  LET c == call[t]
  IN c.kind \in {"times", "self"} =>
       /\ c.pc \in {"lock", "dead"} => AtMost(c.begun, Used(c.of))
       /\ c.pc = "threads" =>
            /\ c.todo \subseteq Listed(c.of)
            /\ AtMost(c.begun, Total(time, c.sum, c.todo))
            /\ AtMost(c.sum, Total(time, signal[c.of].dead, Listed(c.of) \ c.todo))
       /\ c.pc \in {"cutime", "cstime", "unlock", "return"} =>
            AtMost(c.begun, c.sum) /\ AtMost(c.sum, Used(c.of))

\* What a waiter asks about its zombie, which nothing changes any more.
Claimed(t) ==
  LET c == call[t]
  IN c.kind = "both" =>
       /\ c.pc \in {"lock", "cutime", "cstime", "dead", "threads"} =>
            c.added = Add(Used(c.of), signal[c.of].children)
       /\ c.pc \in {"dead", "threads"} => c.children = signal[c.of].children
       /\ c.pc = "threads" => /\ c.todo \subseteq Listed(c.of)
                              /\ Total(time, c.sum, c.todo) = Used(c.of)
       /\ c.pc \in {"unlock", "return"} => Add(c.children, c.sum) = c.added

TimesInv == TimesShape /\ \A t \in Thread : Whose(t) /\ Told(t) /\ Claimed(t)

\* The sums of a process are times, and Used is one of them.
LEMMA UsedIs ==
  ASSUME TimesShape, NEW p \in Process
  PROVE  /\ Used(p) = Total(time, signal[p].dead, Listed(p))
         /\ Listed(p) \subseteq Thread
         /\ signal[p].dead \in Pair /\ signal[p].children \in Pair
         /\ \A S \in SUBSET Thread, base \in Pair :
              IsFiniteSet(S) /\ Total(time, base, S) \in Pair /\ Total(time, base, {}) = base
         /\ Used(p) \in Pair
<1>1. Used(p) = Total(time, signal[p].dead, Listed(p)) BY DEF Used, Total
<1>2. Listed(p) \subseteq Thread BY DEF Listed
<1>3. signal[p].dead \in Pair /\ signal[p].children \in Pair BY DEF TimesShape
<1>4. ASSUME NEW S \in SUBSET Thread, NEW base \in Pair
      PROVE  IsFiniteSet(S) /\ Total(time, base, S) \in Pair /\ Total(time, base, {}) = base
  <2>1. IsFiniteSet(S) BY FS_Subset, UsageAssumption
  <2>2. \A x \in S : time[x] \in Pair BY DEF TimesShape
  <2>3. QED BY <2>1, <2>2, TotalIs
<1>5. QED BY <1>1, <1>2, <1>3, <1>4

\* So are they after a step.
LEMMA UsedNext ==
  ASSUME NEW p \in Process
  PROVE  Used(p)' = Total(time', signal'[p].dead, Listed(p)')
BY DEF Used, Total, FoldSet, MapThenFoldSet

\* While threads count on, and leave their times to the process, what the other calls
\* have of the sum stays between the two.
LEMMA ToldKeeps ==
  ASSUME TimesShape, time' \in [Thread -> Pair],
         NEW v \in Thread, Told(v), call'[v] = call[v], NEW p \in Process, p = call[v].of,
         \A x \in Thread : AtMost(time[x], time'[x]),
         \/ Listed(p)' = Listed(p) /\ signal'[p].dead = signal[p].dead
         \/ call[v].pc # "threads" /\ Used(p)' = Used(p)
  PROVE  Told(v)'
<1> DEFINE c == call[v]
<1>1. c \in Asked /\ c.begun \in Pair /\ c.sum \in Pair /\ c.todo \subseteq Thread
  BY DEF TimesShape, Asked
<1>2. CASE Listed(p)' = Listed(p) /\ signal'[p].dead = signal[p].dead
  <2>1. ASSUME NEW S \in SUBSET Thread, NEW base \in Pair
        PROVE  /\ AtMost(Total(time, base, S), Total(time', base, S))
               /\ Total(time, base, S) \in Pair /\ Total(time', base, S) \in Pair
    <3>1. IsFiniteSet(S) /\ Total(time, base, S) \in Pair BY UsedIs
    <3>2. \A x \in S : time[x] \in Pair /\ time'[x] \in Pair /\ AtMost(time[x], time'[x])
      BY DEF TimesShape
    <3>3. AtMost(base, base) BY AtMostAdds
    <3>4. Total(time', base, S) \in Pair BY <3>1, <3>2, TotalIs
    <3>5. QED BY <3>1, <3>2, <3>3, <3>4, TotalGrows
  <2>2. /\ Used(p) = Total(time, signal[p].dead, Listed(p))
        /\ Used(p)' = Total(time', signal[p].dead, Listed(p))
    BY <1>2, UsedIs, UsedNext
  <2>3. signal[p].dead \in Pair /\ Listed(p) \subseteq Thread BY UsedIs
  <2>4. AtMost(Used(p), Used(p)') /\ Used(p) \in Pair /\ Used(p)' \in Pair
    BY <2>1, <2>2, <2>3
  <2>5. /\ AtMost(c.begun, Used(p)) => AtMost(c.begun, Used(p)')
        /\ AtMost(c.sum, Used(p)) => AtMost(c.sum, Used(p)')
    BY <1>1, <2>4, AtMostAdds
  <2>6. AtMost(c.begun, Total(time, c.sum, c.todo)) => AtMost(c.begun, Total(time', c.sum, c.todo))
    BY <1>1, <2>1, AtMostAdds
  <2>7. AtMost(c.sum, Total(time, signal[p].dead, Listed(p) \ c.todo))
          => AtMost(c.sum, Total(time', signal[p].dead, Listed(p) \ c.todo))
    <3>1. Listed(p) \ c.todo \in SUBSET Thread BY <2>3
    <3>2. QED BY <1>1, <2>1, <2>3, <3>1, AtMostAdds
  <2>8. QED BY <1>2, <2>5, <2>6, <2>7 DEF Told
<1>3. CASE call[v].pc # "threads" /\ Used(p)' = Used(p)
  BY <1>3 DEF Told
<1>4. QED BY <1>2, <1>3

\* What a waiter asks about stays as it is.
LEMMA ClaimedKeeps ==
  ASSUME TimesShape, NEW v \in Thread, Claimed(v), call'[v] = call[v],
         NEW p \in Process, p = call[v].of,
         Listed(p)' = Listed(p), signal'[p] = signal[p],
         \A x \in Listed(p) : time'[x] = time[x]
  PROVE  Claimed(v)'
<1> DEFINE c == call[v]
<1>1. c \in Asked /\ c.sum \in Pair /\ c.todo \subseteq Thread
  BY DEF TimesShape, Asked
<1>2. Used(p)' = Used(p)
  <2>1. \A x \in Listed(p) : time[x] \in Pair /\ time'[x] = time[x] BY UsedIs DEF TimesShape
  <2>2. Total(time, signal[p].dead, Listed(p)) = Total(time', signal[p].dead, Listed(p))
    BY <2>1, UsedIs, TotalSame
  <2>3. Used(p)' = Total(time', signal[p].dead, Listed(p)) BY UsedNext
  <2>4. QED BY <2>2, <2>3, UsedIs
<1>3. c.todo \subseteq Listed(p) => Total(time', c.sum, c.todo) = Total(time, c.sum, c.todo)
  <2> SUFFICES ASSUME c.todo \subseteq Listed(p)
               PROVE  Total(time, c.sum, c.todo) = Total(time', c.sum, c.todo)
    OBVIOUS
  <2>1. \A x \in c.todo : time[x] \in Pair /\ time'[x] = time[x] BY UsedIs DEF TimesShape
  <2>2. IsFiniteSet(c.todo) BY <1>1, UsedIs
  <2> HIDE DEF c
  <2>3. QED BY <1>1, <2>1, <2>2, TotalSame
<1>4. QED BY <1>2, <1>3 DEF Claimed

\* What a call's thread and a zombie are while the call goes on.
LEMMA Standing ==
  ASSUME TimesInv, NEW v \in Thread, call[v].pc # "idle"
  PROVE  /\ task[v] = "runs" /\ call[v].of \in Process /\ v \in Listed(ProcessOf[v])
         /\ call[v].kind # "both" => call[v].of = ProcessOf[v]
         /\ call[v].kind = "both" =>
              /\ Listed(call[v].of) = {LeaderOf[call[v].of]}
              /\ task[LeaderOf[call[v].of]] = "dead"
              /\ \A u \in Thread : task[u] = "runs" => ProcessOf[u] # call[v].of
<1>1. Whose(v) BY DEF TimesInv
<1>2. task[v] = "runs" /\ call[v].of \in Process BY <1>1 DEF Whose
<1>3. \A u \in Thread : task[u] = "runs" => u \in Listed(ProcessOf[u]) BY DEF Listed
<1>4. ASSUME call[v].kind = "both"
      PROVE  /\ Listed(call[v].of) = {LeaderOf[call[v].of]}
             /\ task[LeaderOf[call[v].of]] = "dead"
             /\ \A u \in Thread : task[u] = "runs" => ProcessOf[u] # call[v].of
  BY <1>1, <1>3, <1>4 DEF Whose, Zombie
<1>5. QED BY <1>1, <1>2, <1>3, <1>4 DEF Whose

\* A tick is counted by a thread that runs: a sum over its process may grow.
LEMMA TickTimes ==
  ASSUME TimesInv, NEW t \in Thread, Tick(t)
  PROVE  TimesInv'
<1>a. TimesShape BY DEF TimesInv
<1>1. /\ task[t] = "runs" /\ UNCHANGED <<task, signal, waited, call>>
      /\ \E c \in {"u", "s"} : time' = [time EXCEPT ![t][c] = @ + 1]
  BY DEF Tick
<1>2. /\ time' \in [Thread -> Pair] /\ \A x \in Thread : AtMost(time[x], time'[x])
      /\ \A x \in Thread \ {t} : time'[x] = time[x]
  <2>1. PICK c \in {"u", "s"} : time' = [time EXCEPT ![t][c] = @ + 1] BY <1>1
  <2>2. time[t] \in Pair BY <1>a DEF TimesShape
  <2>3. [time[t] EXCEPT ![c] = @ + 1] \in Pair /\ AtMost(time[t], [time[t] EXCEPT ![c] = @ + 1])
    <3>1. CASE c = "u" BY <2>2, <3>1 DEF Pair, AtMost
    <3>2. CASE c = "s" BY <2>2, <3>2 DEF Pair, AtMost
    <3>3. QED BY <3>1, <3>2
  <2>4. time' = [time EXCEPT ![t] = [time[t] EXCEPT ![c] = @ + 1]] BY <2>1
  <2>5. \A x \in Thread : AtMost(time[x], time[x]) BY <1>a, AtMostAdds DEF TimesShape
  <2>6. QED BY <1>a, <2>3, <2>4, <2>5 DEF TimesShape
<1>3. \A p \in Process : Listed(p)' = Listed(p) BY <1>1 DEF Listed
<1>4. TimesShape' BY <1>a, <1>1, <1>2 DEF TimesShape
<1>5. ASSUME NEW v \in Thread PROVE Whose(v)' /\ Told(v)' /\ Claimed(v)'
  <2>1. Whose(v) /\ Told(v) /\ Claimed(v) BY DEF TimesInv
  <2>2. CASE call[v].pc = "idle" BY <1>1, <2>2 DEF Whose, Told, Claimed
  <2>3. CASE call[v].pc # "idle"
    <3> DEFINE p == call[v].of
    <3>1. p \in Process BY <2>3, Standing
    <3>2. Whose(v)' BY <1>1, <1>3, <2>1, <2>3 DEF Whose, Zombie
    <3> HIDE DEF p
    <3>3. Told(v)'
      BY <1>a, <1>1, <1>2, <1>3, <2>1, <3>1, ToldKeeps DEF p
    <3>4. Claimed(v)'
      <4>1. CASE call[v].kind = "both"
        <5>1. \A x \in Listed(p) : x \in Thread /\ x # t BY <1>1, <2>3, <4>1, Standing DEF p,
            Listed
        <5>2. QED BY <1>a, <1>1, <1>2, <1>3, <2>1, <3>1, <5>1, ClaimedKeeps DEF p
      <4>2. CASE call[v].kind # "both" BY <1>1, <4>2 DEF Claimed
      <4>3. QED BY <4>1, <4>2
    <3>5. QED BY <3>2, <3>3, <3>4
  <2>4. QED BY <2>2, <2>3
<1>6. QED BY <1>4, <1>5 DEF TimesInv

\* A leader that exits stays in the list.
LEMMA LeaderTimes ==
  ASSUME TimesInv, NEW t \in Thread, LeaderExits(t)
  PROVE  TimesInv'
<1>a. TimesShape BY DEF TimesInv
<1>1. /\ task[t] = "runs" /\ call[t].pc = "idle" /\ UNCHANGED <<time, signal, waited, call>>
      /\ task' = [task EXCEPT ![t] = "dead"]
  BY DEF LeaderExits
<1>2. /\ TimesShape' /\ task'[t] = "dead" /\ \A x \in Thread \ {t} : task'[x] = task[x]
  BY <1>a, <1>1 DEF TimesShape
<1>3. \A p \in Process : Listed(p)' = Listed(p) BY <1>1, <1>2 DEF Listed
<1>4. time' \in [Thread -> Pair] /\ \A x \in Thread : AtMost(time[x], time'[x])
  BY <1>a, <1>1, AtMostAdds DEF TimesShape
<1>5. ASSUME NEW v \in Thread PROVE Whose(v)' /\ Told(v)' /\ Claimed(v)'
  <2>1. Whose(v) /\ Told(v) /\ Claimed(v) BY DEF TimesInv
  <2>2. CASE call[v].pc = "idle" BY <1>1, <2>2 DEF Whose, Told, Claimed
  <2>3. CASE call[v].pc # "idle"
    <3> DEFINE p == call[v].of
    <3>1. p \in Process /\ v # t BY <1>1, <2>3, Standing
    <3>2. Whose(v)'
      <4>1. call[v].kind = "both" => task'[LeaderOf[p]] = task[LeaderOf[p]]
        BY <1>1, <1>2, <2>3, <3>1, Standing, UsageAssumption
      <4>2. QED BY <1>1, <1>2, <1>3, <2>1, <2>3, <3>1, <4>1 DEF Whose, Zombie
    <3> HIDE DEF p
    <3>3. Told(v)'
      BY <1>a, <1>1, <1>3, <1>4, <2>1, <3>1, ToldKeeps DEF p
    <3>4. Claimed(v)'
      BY <1>a, <1>1, <1>3, <2>1, <3>1, ClaimedKeeps DEF p
    <3>5. QED BY <3>2, <3>3, <3>4
  <2>4. QED BY <2>2, <2>3
<1>6. QED BY <1>2, <1>5 DEF TimesInv

\* A thread that leaves takes nothing from its process's sum, and leaves only while no
\* call is in the middle of it.
LEMMA ThreadTimes ==
  ASSUME UsageInv, TimesInv, NEW t \in Thread, ThreadExits(t)
  PROVE  TimesInv'
<1> DEFINE q == ProcessOf[t]
<1>a. TimesShape /\ q \in Process BY UsageAssumption DEF TimesInv
<1>1. /\ task[t] = "runs" /\ call[t].pc = "idle" /\ siglock[q] = NoThread
      /\ task' = [task EXCEPT ![t] = "gone"]
      /\ signal' = [signal EXCEPT ![q].dead = Add(@, time[t])]
      /\ UNCHANGED <<time, waited, call>>
  BY DEF ThreadExits
<1>b. time[t] \in Pair /\ signal[q].dead \in Pair BY <1>a DEF TimesShape
<1> DEFINE D == Add(time[t], signal[q].dead)
<1>2. /\ D \in Pair /\ signal'[q].dead = D /\ signal'[q].children = signal[q].children
      /\ \A p \in Process \ {q} : signal'[p] = signal[p]
      /\ signal' \in [Process -> [dead : Pair, children : Pair]]
  <2>1. D \in Pair /\ D = Add(signal[q].dead, time[t]) BY <1>b, AddIsPair
  <2>2. signal' = [signal EXCEPT ![q].dead = D] BY <1>1, <2>1
  <2> HIDE DEF D, q
  <2>3. QED BY <1>a, <2>1, <2>2 DEF TimesShape
<1>3. /\ task' \in [Thread -> {"runs", "dead", "gone"}]
      /\ task'[t] = "gone" /\ \A x \in Thread \ {t} : task'[x] = task[x]
  BY <1>a, <1>1 DEF TimesShape
<1>4. TimesShape' BY <1>a, <1>1, <1>2, <1>3 DEF TimesShape
<1>5. /\ \A p \in Process \ {q} : Listed(p)' = Listed(p)
      /\ t \in Listed(q) /\ Listed(q)' = Listed(q) \ {t}
  BY <1>1, <1>3 DEF Listed
<1>6. Used(q)' = Used(q)
  <2> DEFINE S == Listed(q)
  <2>1. S \in SUBSET Thread /\ S \ {t} \in SUBSET Thread BY <1>a, UsedIs
  <2>2. IsFiniteSet(S) /\ IsFiniteSet(S \ {t}) BY <1>a, <1>b, <2>1, UsedIs
  <2>3. \A x \in S : time[x] \in Pair BY <1>a, <2>1 DEF TimesShape
  <2> HIDE DEF S, q
  <2>4. Total(time, signal[q].dead, S) = Add(time[t], Total(time, signal[q].dead, S \ {t}))
    BY <1>b, <1>5, <2>2, <2>3, TotalTakes DEF S
  <2>5. Total(time, D, S \ {t}) = Add(time[t], Total(time, signal[q].dead, S \ {t}))
    BY <1>b, <2>2, <2>3, TotalBase
  <2>6. Used(q)' = Total(time, D, S \ {t}) BY <1>a, <1>1, <1>2, <1>5, UsedNext DEF S
  <2>7. QED BY <1>a, <2>4, <2>5, <2>6, UsedIs DEF S
<1>7. time' \in [Thread -> Pair] /\ \A x \in Thread : AtMost(time[x], time'[x])
  BY <1>a, <1>1, AtMostAdds DEF TimesShape
<1> HIDE DEF q, D
<1>8. ASSUME NEW v \in Thread PROVE Whose(v)' /\ Told(v)' /\ Claimed(v)'
  <2>1. Whose(v) /\ Told(v) /\ Claimed(v) /\ Locked(v) BY DEF TimesInv, UsageInv
  <2>2. CASE call[v].pc = "idle" BY <1>1, <2>2 DEF Whose, Told, Claimed
  <2>3. CASE call[v].pc # "idle"
    <3> DEFINE p == call[v].of
    <3>1. p \in Process /\ v # t BY <1>1, <2>3, Standing
    <3>2. call[v].kind = "both" => p # q BY <1>1, <2>3, Standing DEF q
    <3>3. Whose(v)'
      <4>1. call[v].kind = "both" => LeaderOf[p] # t
        BY <1>1, <2>3, Standing
      <4>2. LeaderOf[p] \in Thread BY <3>1, UsageAssumption
      <4>3. call[v].kind = "both" => Zombie(p)'
        BY <1>1, <1>3, <1>5, <2>1, <2>3, <3>1, <3>2, <4>1, <4>2 DEF Whose, Zombie
      <4>4. QED BY <1>1, <1>3, <2>1, <2>3, <3>1, <4>3 DEF Whose
    <3>4. call[v].pc = "threads" => p # q
      BY <1>1, <2>1, <3>1, UsageAssumption DEF Locked, Holding
    <3> HIDE DEF p
    <3>5. Told(v)'
      <4>1. \/ Listed(p)' = Listed(p) /\ signal'[p].dead = signal[p].dead
            \/ call[v].pc # "threads" /\ Used(p)' = Used(p)
        BY <1>1, <1>2, <1>5, <1>6, <3>1, <3>4 DEF p
      <4>2. QED BY <1>a, <1>1, <1>7, <2>1, <3>1, <4>1, ToldKeeps DEF p
    <3>6. Claimed(v)'
      <4>1. CASE call[v].kind = "both"
        BY <1>a, <1>1, <1>2, <1>5, <2>1, <3>1, <3>2, <4>1, ClaimedKeeps DEF p
      <4>2. CASE call[v].kind # "both" BY <1>1, <4>2 DEF Claimed
      <4>3. QED BY <4>1, <4>2
    <3>7. QED BY <3>3, <3>5, <3>6
  <2>4. QED BY <2>2, <2>3
<1>9. QED BY <1>4, <1>8 DEF TimesInv

\* A waiter claims a zombie that nobody else has, and adds to its own process only what
\* its children left.
LEMMA ReapsTimes ==
  ASSUME TimesInv, NEW t \in Thread, NEW child \in Process, Reaps(t, child)
  PROVE  TimesInv'
<1> DEFINE q == ProcessOf[t]
           all == Add(Used(child), signal[child].children)
           sum == Add(signal[q].children, all)
           new == [NoUse EXCEPT !.pc = "lock", !.kind = "both", !.of = child, !.added = all]
<1>a. TimesShape /\ q \in Process BY UsageAssumption DEF TimesInv
<1>1. /\ task[t] = "runs" /\ call[t].pc = "idle"
      /\ Zombie(child) /\ child \notin waited /\ waited' = waited \cup {child}
      /\ signal' = [signal EXCEPT ![q].children = sum]
      /\ call' = [call EXCEPT ![t] = new]
      /\ UNCHANGED <<task, time>>
  BY DEF Reaps
<1>2. all \in Pair /\ sum \in Pair
  <2>1. Used(child) \in Pair /\ signal[child].children \in Pair /\ signal[q].children \in Pair
    BY <1>a, UsedIs
  <2>2. all \in Pair BY <2>1, AddIsPair
  <2> HIDE DEF all
  <2>3. QED BY <2>1, <2>2, AddIsPair
<1>3. new \in Asked /\ new.pc = "lock" /\ new.kind = "both" /\ new.of = child /\ new.added = all
  <2> HIDE DEF all
  <2>1. Zero \in Pair BY DEF Zero, Pair
  <2>2. NoUse \in Asked BY <2>1 DEF NoUse, Asked, UsagePC
  <2>3. QED BY <1>2, <2>2 DEF Asked, UsagePC
<1> HIDE DEF sum, new
<1>4. /\ \A p \in Process \ {q} : signal'[p] = signal[p]
      /\ \A p \in Process : signal'[p].dead = signal[p].dead
      /\ signal' \in [Process -> [dead : Pair, children : Pair]]
  BY <1>a, <1>1, <1>2 DEF TimesShape
<1>5. call'[t] = new /\ \A v \in Thread \ {t} : call'[v] = call[v] BY <1>a, <1>1 DEF TimesShape
<1>6. TimesShape' BY <1>a, <1>1, <1>3, <1>4 DEF TimesShape
<1>7. \A p \in Process : Listed(p)' = Listed(p) /\ Used(p)' = Used(p)
  <2>1. \A p \in Process : Listed(p)' = Listed(p) BY <1>1 DEF Listed
  <2>2. QED BY <1>a, <1>1, <1>4, <2>1, UsedIs, UsedNext
<1>8. child # q
  BY <1>1 DEF Zombie, Listed
<1>9. time' \in [Thread -> Pair] /\ \A x \in Thread : AtMost(time[x], time'[x])
  BY <1>a, <1>1, AtMostAdds DEF TimesShape
<1> HIDE DEF q, all
<1>10. ASSUME NEW v \in Thread PROVE Whose(v)' /\ Told(v)' /\ Claimed(v)'
  <2>0. \A u \in Thread : call[u].pc # "idle" /\ call[u].kind = "both" => call[u].of # child
    BY <1>1 DEF TimesInv, Whose
  <2>1. CASE v = t
    <3>1. Whose(v)' BY <1>1, <1>3, <1>5, <1>7, <2>0, <2>1 DEF Whose, Zombie
    <3>2. Told(v)' BY <1>3, <1>5, <2>1 DEF Told
    <3>3. Used(child)' = Used(child) /\ signal'[child] = signal[child] BY <1>4, <1>7, <1>8
    <3>4. Claimed(v)' BY <1>3, <1>5, <2>1, <3>3 DEF Claimed, all
    <3>5. QED BY <3>1, <3>2, <3>4
  <2>2. CASE v # t
    <3>1. Whose(v) /\ Told(v) /\ Claimed(v) /\ call'[v] = call[v] BY <1>5, <2>2 DEF TimesInv
    <3>2. CASE call[v].pc = "idle" BY <3>1, <3>2 DEF Whose, Told, Claimed
    <3>3. CASE call[v].pc # "idle"
      <4> DEFINE p == call[v].of
      <4>1. p \in Process /\ (call[v].kind = "both" => p # q) BY <1>1, <3>3, Standing DEF q
      <4>2. Whose(v)' BY <1>1, <1>3, <1>5, <1>7, <2>0, <3>1, <3>3, <4>1 DEF Whose, Zombie
      <4> HIDE DEF p
      <4>3. Told(v)'
        BY <1>a, <1>4, <1>7, <1>9, <3>1, <4>1, ToldKeeps DEF p
      <4>4. Claimed(v)'
        <5>1. CASE call[v].kind = "both"
          BY <1>a, <1>1, <1>4, <1>7, <3>1, <4>1, <5>1, ClaimedKeeps DEF p
        <5>2. CASE call[v].kind # "both" BY <3>1, <5>2 DEF Claimed
        <5>3. QED BY <5>1, <5>2
      <4>5. QED BY <4>2, <4>3, <4>4
    <3>4. QED BY <3>2, <3>3
  <2>3. QED BY <2>1, <2>2
<1>11. QED BY <1>6, <1>10 DEF TimesInv

\* A step of a call that changes nothing of the processes: what its own call needs.
LEMMA OwnTimes ==
  ASSUME TimesInv, NEW t \in Thread, NEW c \in Asked,
         UNCHANGED <<task, time, signal, waited>>, call' = [call EXCEPT ![t] = c],
         \/ call[t].pc # "idle" /\ c.of = call[t].of /\ c.kind = call[t].kind
         \/ task[t] = "runs" /\ c.of = ProcessOf[t] /\ c.kind # "both",
         Told(t)', Claimed(t)'
  PROVE  TimesInv'
<1>a. TimesShape BY DEF TimesInv
<1>1. call'[t] = c /\ \A v \in Thread \ {t} : call'[v] = call[v] BY <1>a DEF TimesShape
<1>2. TimesShape' BY <1>a DEF TimesShape
<1>3. \A p \in Process : Listed(p)' = Listed(p) BY DEF Listed
<1>4. \A v \in Thread : Whose(v) BY DEF TimesInv
<1>5. ASSUME NEW v \in Thread PROVE Whose(v)' /\ Told(v)' /\ Claimed(v)'
  <2>1. CASE v = t
    <3>1. Whose(t)'
      <4>1. CASE call[t].pc # "idle" /\ c.of = call[t].of /\ c.kind = call[t].kind
        BY <1>1, <1>3, <1>4, <4>1 DEF Whose, Zombie
      <4>2. CASE task[t] = "runs" /\ c.of = ProcessOf[t] /\ c.kind # "both"
        BY <1>1, <4>2, UsageAssumption DEF Whose
      <4>3. QED BY <4>1, <4>2
    <3>2. QED BY <2>1, <3>1
  <2>2. CASE v # t
    <3>1. Whose(v) /\ Told(v) /\ Claimed(v) /\ call'[v] = call[v] BY <1>1, <2>2 DEF TimesInv
    <3>2. CASE call[v].pc = "idle" BY <3>1, <3>2 DEF Whose, Told, Claimed
    <3>3. CASE call[v].pc # "idle"
      <4> DEFINE p == call[v].of
      <4>1. p \in Process BY <3>3, Standing
      <4>2. Whose(v)' BY <1>1, <1>3, <1>4, <2>2, <3>1, <3>3 DEF Whose, Zombie
      <4> HIDE DEF p
      <4>3. time' \in [Thread -> Pair] /\ \A x \in Thread : AtMost(time[x], time'[x])
        BY <1>a, AtMostAdds DEF TimesShape
      <4>4. Told(v)' BY <1>a, <1>3, <3>1, <4>1, <4>3, ToldKeeps DEF p
      <4>5. Claimed(v)' BY <1>a, <1>3, <3>1, <4>1, ClaimedKeeps DEF p
      <4>6. QED BY <4>2, <4>4, <4>5
    <3>4. QED BY <3>2, <3>3
  <2>3. QED BY <2>1, <2>2
<1>6. QED BY <1>2, <1>5 DEF TimesInv

\* Such a step leaves the sums of the processes.
LEMMA UsedStays ==
  ASSUME TimesInv, UNCHANGED <<task, time, signal>>, NEW p \in Process
  PROVE  Used(p)' = Used(p) /\ Listed(p)' = Listed(p)
<1>1. Listed(p)' = Listed(p) BY DEF Listed
<1>2. QED BY <1>1, UsedIs, UsedNext DEF TimesInv

\* The call begins with what the process has used.
LEMMA CallTimes ==
  ASSUME TimesInv, NEW t \in Thread, NEW kind \in {"times", "self", "children"},
         UsageCall(t, kind)
  PROVE  TimesInv'
<1> DEFINE p == ProcessOf[t]
           new == [NoUse EXCEPT !.pc = "lock", !.kind = kind, !.of = p, !.begun = Used(p)]
<1>1. /\ p \in Process /\ TimesShape /\ task[t] = "runs" /\ call' = [call EXCEPT ![t] = new]
      /\ UNCHANGED <<task, time, signal, waited>>
  BY UsageAssumption DEF UsageCall, TimesInv
<1>2. Used(p) \in Pair BY <1>1, UsedIs
<1>3. new \in Asked /\ new.pc = "lock" /\ new.kind = kind /\ new.of = p /\ new.begun = Used(p)
  <2>1. Zero \in Pair BY DEF Zero, Pair
  <2>2. NoUse \in Asked BY <2>1 DEF NoUse, Asked, UsagePC
  <2>3. QED BY <1>1, <1>2, <2>2 DEF Asked, UsagePC
<1> HIDE DEF new, p
<1>4. call'[t] = new BY <1>1 DEF TimesShape
<1>5. Used(p)' = Used(p)
  <2>1. UNCHANGED p BY DEF p
  <2>2. QED BY <1>1, <2>1, UsedStays
<1>6. Told(t)' /\ Claimed(t)' BY <1>2, <1>3, <1>4, <1>5, AtMostAdds DEF Told, Claimed
<1>7. QED BY <1>1, <1>3, <1>6, OwnTimes DEF p

\* What a call has when it goes on.
LEMMA OwnIs ==
  ASSUME TimesInv, NEW t \in Thread, call[t].pc # "idle", UNCHANGED <<task, time, signal>>
  PROVE  /\ TimesShape /\ call[t] \in Asked /\ call[t].of \in Process
         /\ Told(t) /\ Claimed(t)
         /\ \A p \in Process : Used(p)' = Used(p) /\ Listed(p)' = Listed(p)
         /\ call[t].sum \in Pair /\ call[t].begun \in Pair /\ call[t].children \in Pair
         /\ call[t].todo \in SUBSET Thread
<1>1. TimesShape /\ Told(t) /\ Claimed(t) BY DEF TimesInv
<1>2. call[t] \in Asked BY <1>1 DEF TimesShape
<1>3. QED BY <1>1, <1>2, Standing, UsedStays DEF Asked

\* Nothing is added by taking the lock, by reading one of the children's times, or by
\* releasing the lock.
LEMMA LockTimes ==
  ASSUME TimesInv, NEW t \in Thread, UsageLock(t)
  PROVE  TimesInv'
<1> DEFINE k == call[t]
           new == [k EXCEPT !.pc = FirstRead(k.kind)]
<1>1. /\ k.pc = "lock" /\ UNCHANGED <<task, time, signal, waited>>
      /\ call' = [call EXCEPT ![t] = new]
  BY DEF UsageLock
<1>2. new \in Asked /\ new.of = k.of /\ new.kind = k.kind /\ new.begun = k.begun
      /\ new.added = k.added
      /\ IF k.kind \in {"both", "children"} THEN new.pc = "cutime" ELSE new.pc = "dead"
  BY <1>1, OwnIs DEF Asked, UsagePC, FirstRead
<1>3. call'[t] = new BY <1>1 DEF TimesInv, TimesShape
<1> HIDE DEF new
<1>4. Told(t)' BY <1>1, <1>2, <1>3, OwnIs DEF Told
<1>5. Claimed(t)'
  <2> DEFINE p == k.of
  <2>1. Claimed(t) /\ p \in Process /\ \A q \in Process : Used(q)' = Used(q)
    BY <1>1, OwnIs
  <2>2. call'[t].of = p /\ Used(p)' = Used(p) BY <1>2, <1>3, <2>1
  <2> HIDE DEF p
  <2>3. QED BY <1>1, <1>2, <1>3, <2>1, <2>2 DEF Claimed, p
<1>6. QED BY <1>1, <1>2, <1>4, <1>5, OwnTimes

\* The user times of the reaped children are read on their own, before the system times.
LEMMA CutimeTimes ==
  ASSUME TimesInv, NEW t \in Thread, ReadCutime(t)
  PROVE  TimesInv'
<1> DEFINE k == call[t]
           new == [k EXCEPT !.pc = "cstime", !.children.u = signal[k.of].children.u]
<1>1. /\ k.pc = "cutime" /\ UNCHANGED <<task, time, signal, waited>>
      /\ call' = [call EXCEPT ![t] = new]
  BY DEF ReadCutime
<1>2. k \in Asked /\ k.children \in Pair /\ signal[k.of].children \in Pair
  BY <1>1, OwnIs, UsedIs
<1>3. new \in Asked /\ new.of = k.of /\ new.kind = k.kind /\ new.begun = k.begun
      /\ new.sum = k.sum /\ new.added = k.added /\ new.pc = "cstime"
  BY <1>2 DEF Asked, UsagePC, Pair
<1>4. call'[t] = new BY <1>1 DEF TimesInv, TimesShape
<1> HIDE DEF new
<1>5. Told(t)' BY <1>1, <1>3, <1>4, OwnIs DEF Told
<1>6. Claimed(t)'
  <2> DEFINE p == k.of
  <2>1. Claimed(t) /\ p \in Process /\ \A q \in Process : Used(q)' = Used(q)
    BY <1>1, OwnIs
  <2>2. call'[t].of = p /\ Used(p)' = Used(p) BY <1>3, <1>4, <2>1
  <2> HIDE DEF p
  <2>3. QED BY <1>1, <1>3, <1>4, <2>1, <2>2 DEF Claimed, p
<1>7. QED BY <1>1, <1>3, <1>5, <1>6, OwnTimes

\* The system times of the reaped children are read next, when a child may have been added.
LEMMA CstimeTimes ==
  ASSUME UsageInv, TimesInv, NEW t \in Thread, ReadCstime(t)
  PROVE  TimesInv'
<1> DEFINE k == call[t]
           new == [k EXCEPT !.pc = AfterChildren(k.kind),
                            !.children.s = signal[k.of].children.s]
<1>1. /\ k.pc = "cstime" /\ UNCHANGED <<task, time, signal, waited>>
      /\ call' = [call EXCEPT ![t] = new]
  BY DEF ReadCstime
<1>2. k \in Asked /\ k.children \in Pair /\ signal[k.of].children \in Pair
  BY <1>1, OwnIs, UsedIs
<1>3. k.children.u = signal[k.of].children.u BY <1>1 DEF UsageInv, Reads
<1>4. new \in Asked /\ new.of = k.of /\ new.kind = k.kind /\ new.begun = k.begun
      /\ new.sum = k.sum /\ new.added = k.added
      /\ new.pc = (IF k.kind = "both" THEN "dead" ELSE "unlock")
      /\ new.children = signal[k.of].children
  <2> DEFINE pair == [k.children EXCEPT !.s = signal[k.of].children.s]
  <2>1. pair = signal[k.of].children BY <1>2, <1>3 DEF Pair
  <2> DEFINE pc == AfterChildren(k.kind)
  <2>2. new = [k EXCEPT !.pc = pc, !.children = pair] OBVIOUS
  <2>3. pc \in UsagePC /\ pc = IF k.kind = "both" THEN "dead" ELSE "unlock"
    BY DEF UsagePC, AfterChildren
  <2> HIDE DEF pair, new, pc, k
  <2>4. pair \in Pair BY <1>2, <2>1
  <2>5. QED BY <1>2, <2>1, <2>2, <2>3, <2>4 DEF Asked
<1>5. call'[t] = new BY <1>1 DEF TimesInv, TimesShape
<1> HIDE DEF new
<1>6. Told(t)'
  <2>1. call'[t].pc \in {"dead", "unlock"} /\ (call'[t].pc = "dead" => call'[t].kind = "both")
    BY <1>4, <1>5
  <2> DEFINE p == k.of
  <2>2. Told(t) /\ p \in Process /\ \A q \in Process : Used(q)' = Used(q)
    BY <1>1, OwnIs
  <2>3. call'[t].of = p /\ Used(p)' = Used(p) BY <1>4, <1>5, <2>2
  <2> HIDE DEF p
  <2>4. QED BY <1>1, <1>4, <1>5, <2>1, <2>2, <2>3 DEF Told, p
<1>7. Claimed(t)'
  <2> DEFINE p == k.of
  <2>1. Claimed(t) /\ p \in Process /\ \A q \in Process : Used(q)' = Used(q)
    BY <1>1, OwnIs
  <2>2. call'[t].of = p /\ Used(p)' = Used(p) BY <1>4, <1>5, <2>1
  <2>3. call'[t].pc \in {"dead", "unlock"} /\ (call'[t].pc = "unlock" => call'[t].kind # "both")
    BY <1>4, <1>5
  <2> HIDE DEF p
  <2>4. QED BY <1>1, <1>4, <1>5, <2>1, <2>2, <2>3 DEF Claimed, p
<1>8. QED BY <1>1, <1>4, <1>6, <1>7, OwnTimes

\* Leaving the lock changes nothing a caller is told.
LEMMA UnlockTimes ==
  ASSUME TimesInv, NEW t \in Thread, UsageUnlock(t)
  PROVE  TimesInv'
<1> DEFINE k == call[t]
           new == [k EXCEPT !.pc = "return"]
<1>1. /\ k.pc = "unlock" /\ UNCHANGED <<task, time, signal, waited>>
      /\ call' = [call EXCEPT ![t] = new]
  BY DEF UsageUnlock
<1>2. new \in Asked /\ new.of = k.of /\ new.kind = k.kind /\ new.begun = k.begun
      /\ new.sum = k.sum /\ new.children = k.children /\ new.added = k.added
      /\ new.pc = "return"
  BY <1>1, OwnIs DEF Asked, UsagePC
<1>3. call'[t] = new BY <1>1 DEF TimesInv, TimesShape
<1> HIDE DEF new
<1>4. Told(t)' BY <1>1, <1>2, <1>3, OwnIs DEF Told
<1>5. Claimed(t)'
  <2> DEFINE p == k.of
  <2>1. Claimed(t) /\ p \in Process /\ \A q \in Process : Used(q)' = Used(q)
    BY <1>1, OwnIs
  <2>2. call'[t].of = p /\ Used(p)' = Used(p) BY <1>2, <1>3, <2>1
  <2> HIDE DEF p
  <2>3. QED BY <1>1, <1>2, <1>3, <2>1, <2>2 DEF Claimed, p
<1>6. QED BY <1>1, <1>2, <1>4, <1>5, OwnTimes

\* The sum begins with what the dead threads left, and with every listed thread to add.
LEMMA DeadTimes ==
  ASSUME TimesInv, NEW t \in Thread, ReadDead(t)
  PROVE  TimesInv'
<1> DEFINE k == call[t]
           p == k.of
           new == [k EXCEPT !.pc = "threads", !.sum = Dead(p), !.todo = Listed(p)]
<1>1. /\ k.pc = "dead" /\ UNCHANGED <<task, time, signal, waited>>
      /\ call' = [call EXCEPT ![t] = new]
  BY DEF ReadDead
<1>2. /\ k \in Asked /\ p \in Process /\ Dead(p) = signal[p].dead /\ Dead(p) \in Pair
      /\ Listed(p) \in SUBSET Thread /\ TimesShape
  BY <1>1, OwnIs, UsedIs DEF Dead
<1>3. new \in Asked /\ new.of = k.of /\ new.kind = k.kind /\ new.begun = k.begun
      /\ new.sum = signal[p].dead /\ new.todo = Listed(p) /\ new.children = k.children
      /\ new.added = k.added /\ new.pc = "threads"
  BY <1>2 DEF Asked, UsagePC
<1>4. call'[t] = new BY <1>1, <1>2 DEF TimesShape
<1> HIDE DEF new, p
<1>5. /\ Used(p) = Total(time, signal[p].dead, Listed(p))
      /\ Listed(p) \ Listed(p) = {} /\ Total(time, signal[p].dead, {}) = signal[p].dead
      /\ AtMost(signal[p].dead, signal[p].dead)
  BY <1>2, UsedIs, AtMostAdds
<1>6. Listed(p)' = Listed(p) /\ Used(p)' = Used(p) /\ new.of = p
  <2>1. \A q \in Process : Listed(q)' = Listed(q) /\ Used(q)' = Used(q) BY <1>1, OwnIs
  <2>2. p' = p BY <1>1, <1>3, <1>4 DEF p
  <2>3. QED BY <1>2, <1>3, <2>1, <2>2 DEF p
<1>7. Told(t) /\ Claimed(t) BY DEF TimesInv
<1>8. p' = p BY <1>3, <1>4 DEF p
<1>9. Told(t)' BY <1>1, <1>3, <1>4, <1>5, <1>6, <1>7, <1>8, ZenonT(60) DEF Told, p
<1>10. Claimed(t)' BY <1>1, <1>3, <1>4, <1>5, <1>6, <1>7, <1>8 DEF Claimed, p
<1>11. QED BY <1>1, <1>3, <1>9, <1>10, OwnTimes

\* Each thread goes from those to add into the sum; with none left the sum is done.
LEMMA ThreadsTimes ==
  ASSUME TimesInv, NEW t \in Thread, ReadThread(t)
  PROVE  TimesInv'
<1> DEFINE k == call[t]
           p == k.of
           left == {u \in k.todo : task[u] # "gone"}
           D == signal[p].dead
<1>1. k.pc = "threads" /\ UNCHANGED <<task, time, signal, waited>>
  BY DEF ReadThread
<1>2. /\ k \in Asked /\ p \in Process /\ D \in Pair /\ TimesShape
      /\ k.sum \in Pair /\ k.begun \in Pair /\ k.children \in Pair /\ k.todo \in SUBSET Thread
      /\ Listed(p) \in SUBSET Thread /\ signal[p].children \in Pair /\ Used(p) \in Pair
  BY <1>1, OwnIs, UsedIs
<1>3. \A S \in SUBSET Thread, base \in Pair :
         /\ IsFiniteSet(S) /\ Total(time, base, S) \in Pair /\ Total(time, base, {}) = base
         /\ \A x \in S : time[x] \in Pair
  BY <1>2, UsedIs DEF TimesShape
<1>4. Told(t) /\ Claimed(t) BY DEF TimesInv
<1>5. k.kind # "children" => k.todo \subseteq Listed(p) /\ left = k.todo
  <2>1. k.kind \in {"times", "self", "children", "both"} BY <1>2 DEF Asked
  <2>2. k.kind # "children" => k.todo \subseteq Listed(p) BY <1>1, <1>4, <2>1 DEF Told, Claimed
  <2>3. QED BY <2>2 DEF Listed
<1>6. Used(p) = Total(time, D, Listed(p)) BY <1>2, UsedIs
<1>7. \A q \in Process : Listed(q)' = Listed(q) /\ Used(q)' = Used(q) BY <1>1, OwnIs
<1>8. CASE left = {}
  <2> DEFINE pc == IF k.kind = "times" THEN "cutime" ELSE "unlock"
             new == [k EXCEPT !.todo = {}, !.pc = pc]
  <2>1. call' = [call EXCEPT ![t] = new] BY <1>8 DEF ReadThread
  <2>2. /\ new \in Asked /\ new.of = p /\ new.kind = k.kind /\ new.begun = k.begun
        /\ new.sum = k.sum /\ new.children = k.children /\ new.added = k.added
        /\ new.pc \in {"cutime", "unlock"} /\ (k.kind = "both" => new.pc = "unlock")
    BY <1>2 DEF Asked, UsagePC
  <2>3. call'[t] = new BY <1>2, <2>1 DEF TimesShape
  <2> HIDE DEF new, p, D
  <2>4. p' = p BY <2>2, <2>3 DEF p
  <2>5. Used(p)' = Used(p) BY <1>2, <1>7, <2>4
  <2>6. k.kind # "children" => k.todo = {} BY <1>5, <1>8
  <2>7. Total(time, k.sum, {}) = k.sum /\ Listed(p) \ {} = Listed(p) BY <1>2, <1>3
  <2>8. k.kind \in {"times", "self"} => AtMost(k.begun, k.sum) /\ AtMost(k.sum, Used(p))
    BY <1>1, <1>4, <1>6, <2>6, <2>7 DEF Told, p, D
  <2>9. k.kind = "both" => Add(k.children, k.sum) = k.added
    <3>1. k.kind = "both" =>
             k.sum = Used(p) /\ k.children = signal[p].children
             /\ k.added = Add(Used(p), signal[p].children)
      BY <1>1, <1>4, <2>6, <2>7 DEF Claimed, p
    <3>2. QED BY <1>2, <3>1, AddIsPair
  <2>10. Told(t)' BY <2>2, <2>3, <2>4, <2>5, <2>8 DEF Told, p
  <2>11. Claimed(t)' BY <2>2, <2>3, <2>9 DEF Claimed
  <2>12. QED BY <1>1, <2>1, <2>2, <2>10, <2>11, OwnTimes DEF p
<1>9. CASE left # {}
  <2> DEFINE u == CHOOSE x \in left : TRUE
             more == Add(k.sum, time[u])
             rest == left \ {u}
             new == [k EXCEPT !.sum = more, !.todo = rest]
  <2>1. call' = [call EXCEPT ![t] = new] BY <1>9 DEF ReadThread
  <2>2. u \in left BY <1>9
  <2> HIDE DEF u
  <2>3. u \in Thread /\ time[u] \in Pair BY <1>2, <2>2 DEF TimesShape
  <2>4. more \in Pair /\ more = Add(time[u], k.sum) BY <1>2, <2>3, AddIsPair
  <2>5. rest \in SUBSET Thread BY <1>2
  <2> HIDE DEF more, rest
  <2>6. /\ new \in Asked /\ new.of = p /\ new.kind = k.kind /\ new.begun = k.begun
        /\ new.sum = more /\ new.children = k.children /\ new.added = k.added
        /\ new.pc = "threads" /\ new.todo = rest
    BY <1>1, <1>2, <2>4, <2>5 DEF Asked
  <2>7. call'[t] = new BY <1>2, <2>1 DEF TimesShape
  <2> HIDE DEF new, p, D
  <2>8. p' = p BY <2>6, <2>7 DEF p
  <2>9. Used(p)' = Used(p) /\ Listed(p)' = Listed(p) BY <1>2, <1>7, <2>8
  <2>10. k.kind # "children" =>
           /\ u \in k.todo /\ rest = k.todo \ {u} /\ rest \subseteq Listed(p)
           /\ Total(time, more, rest) = Total(time, k.sum, k.todo)
    <3> SUFFICES ASSUME k.kind # "children"
                 PROVE  /\ u \in k.todo /\ rest = k.todo \ {u} /\ rest \subseteq Listed(p)
                        /\ Total(time, more, rest) = Total(time, k.sum, k.todo)
      OBVIOUS
    <3>1. u \in k.todo /\ rest = k.todo \ {u} /\ rest \subseteq Listed(p)
      BY <1>5, <2>2 DEF rest
    <3> HIDE DEF k
    <3>2. Total(time, k.sum, k.todo) = Add(time[u], Total(time, k.sum, rest))
      BY <1>2, <1>3, <3>1, TotalTakes, SMTT(60)
    <3>3. Total(time, Add(time[u], k.sum), rest) = Add(time[u], Total(time, k.sum, rest))
      BY <1>2, <1>3, <2>3, <2>5, TotalBase
    <3>4. QED BY <2>4, <3>1, <3>2, <3>3
  <2>11. k.kind \in {"times", "self"} => AtMost(more, Total(time, D, Listed(p) \ rest))
    <3> SUFFICES ASSUME k.kind \in {"times", "self"}
                 PROVE  AtMost(more, Total(time, D, Listed(p) \ rest))
      OBVIOUS
    <3> DEFINE seen == Listed(p) \ k.todo
    <3>1. AtMost(k.sum, Total(time, D, seen)) BY <1>1, <1>4 DEF Told, p, D
    <3>2. u \in Listed(p) \ rest /\ (Listed(p) \ rest) \ {u} = seen
      BY <1>5, <2>10
    <3> HIDE DEF k
    <3>3. seen \in SUBSET Thread /\ Listed(p) \ rest \in SUBSET Thread BY <1>2
    <3>4. Total(time, D, Listed(p) \ rest) = Add(time[u], Total(time, D, seen))
      <4> HIDE DEF seen
      <4> DEFINE S == Listed(p) \ rest
      <4>1. S \in SUBSET Thread /\ u \in S /\ S \ {u} = seen BY <3>2, <3>3
      <4> HIDE DEF S
      <4>2. IsFiniteSet(S) /\ \A x \in S : time[x] \in Pair BY <1>2, <1>3, <4>1
      <4>3. Total(time, D, S) = Add(time[u], Total(time, D, S \ {u}))
        BY <1>2, <4>1, <4>2, TotalTakes
      <4>4. QED BY <4>1, <4>3 DEF S
    <3>5. Total(time, D, seen) \in Pair BY <1>2, <1>3, <3>3
    <3>6. AtMost(time[u], time[u]) BY <2>3, AtMostAdds
    <3>7. AtMost(Add(time[u], k.sum), Add(time[u], Total(time, D, seen)))
      <4> HIDE DEF seen
      <4>1. QED BY <1>2, <2>3, <3>1, <3>5, <3>6, AtMostAdds
    <3>8. QED BY <2>4, <3>4, <3>7
  <2>12. Told(t)'
    <3>1. k.kind \in {"times", "self"} => AtMost(k.begun, Total(time, more, rest))
      BY <1>1, <1>4, <2>10 DEF Told
    <3>2. k.kind \in {"times", "self"} => rest \subseteq Listed(p) BY <2>10
    <3>3. signal'[p].dead = D BY <1>1 DEF D
    <3>4. QED BY <1>1, <2>6, <2>7, <2>8, <2>9, <2>11, <3>1, <3>2, <3>3 DEF Told, p
  <2>13. Claimed(t)'
    <3>1. k.kind = "both" =>
            /\ k.added = Add(Used(p), signal[p].children) /\ k.children = signal[p].children
            /\ rest \subseteq Listed(p) /\ Total(time, more, rest) = Used(p)
      BY <1>1, <1>4, <2>10 DEF Claimed, p
    <3>2. signal'[p].children = signal[p].children BY <1>1
    <3>3. QED BY <1>1, <2>6, <2>7, <2>8, <2>9, <3>1, <3>2 DEF Claimed, p
  <2>14. QED BY <1>1, <2>1, <2>6, <2>12, <2>13, OwnTimes DEF p
<1>10. QED BY <1>8, <1>9

\* The caller returns; a waiter's zombie is then gone, and no other call is about it.
LEMMA ReturnsTimes ==
  ASSUME TimesInv, NEW t \in Thread, Returns(t)
  PROVE  TimesInv'
<1> DEFINE z == call[t].of
           both == call[t].kind = "both"
<1>a. TimesShape BY DEF TimesInv
<1>1. /\ call[t].pc = "return" /\ UNCHANGED <<time, signal, waited>>
      /\ task' = IF call[t].kind = "both" THEN [task EXCEPT ![LeaderOf[z]] = "gone"] ELSE task
      /\ call' = [call EXCEPT ![t] = NoUse]
  BY DEF Returns
<1>b. z \in Process /\ LeaderOf[z] \in Thread /\ ProcessOf[LeaderOf[z]] = z
  BY <1>1, Standing, UsageAssumption
<1>2. /\ task' \in [Thread -> {"runs", "dead", "gone"}]
      /\ call[t].kind # "both" => task' = task
      /\ \A x \in Thread \ {LeaderOf[z]} : task'[x] = task[x]
  BY <1>a, <1>1, <1>b DEF TimesShape
<1>3. NoUse \in Asked /\ NoUse.pc = "idle" /\ NoUse.kind = "self"
  <2>1. Zero \in Pair BY DEF Zero, Pair
  <2>2. QED BY <2>1 DEF NoUse, Asked, UsagePC
<1>4. /\ call' \in [Thread -> Asked] /\ call'[t] = NoUse
      /\ \A v \in Thread \ {t} : call'[v] = call[v]
  BY <1>a, <1>1, <1>3 DEF TimesShape
<1>5. TimesShape' BY <1>a, <1>1, <1>2, <1>4 DEF TimesShape
<1>6. \A q \in Process : call[t].kind # "both" \/ q # z => Listed(q)' = Listed(q)
  BY <1>2, <1>b DEF Listed
<1>7. time' \in [Thread -> Pair] /\ \A x \in Thread : AtMost(time[x], time'[x])
  BY <1>a, <1>1, AtMostAdds DEF TimesShape
<1>8. ASSUME NEW v \in Thread PROVE Whose(v)' /\ Told(v)' /\ Claimed(v)'
  <2>1. CASE v = t BY <1>3, <1>4, <2>1 DEF Whose, Told, Claimed
  <2>2. CASE v # t
    <3>1. Whose(v) /\ Whose(t) /\ Told(v) /\ Claimed(v) /\ call'[v] = call[v]
      BY <1>4, <2>2 DEF TimesInv
    <3>2. CASE call[v].pc = "idle" BY <3>1, <3>2 DEF Whose, Told, Claimed
    <3>3. CASE call[v].pc # "idle"
      <4> DEFINE p == call[v].of
      <4>1. p \in Process /\ task[v] = "runs" BY <3>3, Standing
      <4>2. call[t].kind = "both" => p # z /\ v # LeaderOf[z]
        BY <1>1, <2>2, <3>1, <3>3, <4>1, Standing DEF Whose
      <4>3. task'[v] = task[v] BY <1>2, <4>2
      <4>4. LeaderOf[p] \in Thread /\ ProcessOf[LeaderOf[p]] = p BY <4>1, UsageAssumption
      <4>5. task'[LeaderOf[p]] = task[LeaderOf[p]]
        BY <1>2, <1>b, <4>2, <4>4
      <4>6. Listed(p)' = Listed(p) BY <1>6, <3>1, <4>1, <4>2
      <4>7. Whose(v)'
        <5>1. call[v].kind = "both" => Zombie(p)'
          BY <3>1, <3>3, <4>5, <4>6 DEF Whose, Zombie
        <5>2. \A u \in Thread : call'[u].pc # "idle" => call'[u] = call[u]
          BY <1>3, <1>4
        <5>3. QED BY <1>1, <3>1, <3>3, <4>1, <4>3, <5>1, <5>2 DEF Whose
      <4> HIDE DEF p
      <4>8. Told(v)' BY <1>a, <1>1, <1>7, <3>1, <4>1, <4>6, ToldKeeps DEF p
      <4>9. Claimed(v)' BY <1>a, <1>1, <3>1, <4>1, <4>6, ClaimedKeeps DEF p
      <4>10. QED BY <4>7, <4>8, <4>9
    <3>4. QED BY <3>2, <3>3
  <2>3. QED BY <2>1, <2>2
<1>9. QED BY <1>5, <1>8 DEF TimesInv

\* Nothing is asked at first.
LEMMA TimesInitInv == UsageInit => TimesInv
<1> SUFFICES ASSUME UsageInit PROVE TimesInv OBVIOUS
<1>1. Zero \in Pair BY DEF Zero, Pair
<1>2. NoUse \in Asked /\ NoUse.pc = "idle" /\ NoUse.kind = "self"
  BY <1>1 DEF NoUse, Asked, UsagePC
<1>3. TimesShape BY <1>1, <1>2 DEF UsageInit, TimesShape
<1>4. \A t \in Thread : call[t] = NoUse BY DEF UsageInit
<1>5. \A t \in Thread : Whose(t) /\ Told(t) /\ Claimed(t)
  BY <1>2, <1>4 DEF Whose, Told, Claimed
<1>6. QED BY <1>3, <1>5 DEF TimesInv

\* Every step keeps what the calls have of their sums.
LEMMA TimesStepKeeps == UsageInv /\ TimesInv /\ [UsageNext]_usageVars => TimesInv'
<1> SUFFICES ASSUME UsageInv, TimesInv, [UsageNext]_usageVars PROVE TimesInv' OBVIOUS
<1>1. CASE UNCHANGED usageVars
  <2>1. UNCHANGED <<task, time, signal, waited, call>> BY <1>1 DEF usageVars
  <2>2. TimesShape' BY <2>1 DEF TimesInv, TimesShape
  <2>3. \A p \in Process : Listed(p)' = Listed(p) BY <2>1 DEF Listed
  <2>4. ASSUME NEW v \in Thread PROVE Whose(v)' /\ Told(v)' /\ Claimed(v)'
    <3>1. TimesShape /\ Whose(v) /\ Told(v) /\ Claimed(v) BY DEF TimesInv
    <3>2. CASE call[v].pc = "idle" BY <2>1, <3>1, <3>2 DEF Whose, Told, Claimed
    <3>3. CASE call[v].pc # "idle"
      <4> DEFINE p == call[v].of
      <4>1. p \in Process BY <3>3, Standing
      <4>2. Whose(v)' BY <2>1, <2>3, <3>1, <4>1 DEF Whose, Zombie
      <4> HIDE DEF p
      <4>3. time' \in [Thread -> Pair] /\ \A x \in Thread : AtMost(time[x], time'[x])
        BY <2>1, <3>1, AtMostAdds DEF TimesShape
      <4>4. Told(v)' BY <2>1, <2>3, <3>1, <4>1, <4>3, ToldKeeps DEF p
      <4>5. Claimed(v)' BY <2>1, <2>3, <3>1, <4>1, ClaimedKeeps DEF p
      <4>6. QED BY <4>2, <4>4, <4>5
    <3>4. QED BY <3>2, <3>3
  <2>5. QED BY <2>2, <2>4 DEF TimesInv
<1>2. ASSUME NEW t \in Thread, UsageStep(t) PROVE TimesInv'
  BY <1>2, CallTimes, LockTimes, CutimeTimes, CstimeTimes, DeadTimes, ThreadsTimes,
     UnlockTimes, ReturnsTimes DEF UsageStep
<1>3. QED
  BY <1>1, <1>2, TickTimes, LeaderTimes, ThreadTimes, ReapsTimes DEF UsageNext

\* They hold throughout.
LEMMA TimesInvariance == UsageSpec => []TimesInv
BY TimesInitInv, TimesStepKeeps, UsageInvariance, PTL DEF UsageSpec

\* What times and getrusage tell a process it has used is what it had used at some
\* instant of the call, or between two such: no less than when it called and no more than
\* when it is told, whichever threads count, leave or die meanwhile.
THEOREM ToldAsIfLater == UsageSpec => []AsIfLater
<1>1. TimesInv => AsIfLater
  BY DEF TimesInv, Told, AsIfLater
<1>2. QED BY <1>1, TimesInvariance, PTL

\* A waiter is told of a child what was added to its process for it: its dead threads,
\* its leader and its own children, none of which changes between the two.
THEOREM WaiterToldTheSum == UsageSpec => []ReapedAsTold
<1>1. TimesInv => ReapedAsTold
  BY DEF TimesInv, Claimed, ReapedAsTold
<1>2. QED BY <1>1, TimesInvariance, PTL

-----------------------------------------------------------------------------
(* SysCalls: both parts.                                                   *)

\* What SysCalls composes takes a step of one part or of the other, and neither can
\* break what the other keeps.
THEOREM SysCallsRunsBoth == SysCallsSpec => Spec /\ UsageSpec
<1>1. SysCallsInit => Init /\ UsageInit BY DEF SysCallsInit
<1>2. [SysCallsNext]_<<part, vars, usageVars>> => [Next]_vars /\ [UsageNext]_usageVars
  BY DEF SysCallsNext
<1>3. QED BY <1>1, <1>2, PTL DEF SysCallsSpec, Spec, UsageSpec

\* So every property of the two parts holds of what is checked together.
THEOREM SysCallsAreSafe ==
  SysCallsSpec => [](CountsAreReferences /\ NoPageLost /\ (NearGroups => MembersAreFound)
                      /\ AsIfLater /\ ChildrenWhole /\ ReapedAsTold)
BY SysCallsRunsBoth, CountsAlwaysReferences, NoPageEverLost, MembersAlwaysFound,
   ToldAsIfLater, ChildrenAlwaysWhole, WaiterToldTheSum, PTL


-----------------------------------------------------------------------------
(* Credentials: the ids a process has, has dropped, and may set.           *)

\* What a call between its check and its stores has made sure of.
UserStores ==
  storing.kind = "user" =>
    /\ Dropped => Root \notin Held(storing.ids)
    /\ storing.ids.e # user.e => dumpable = 0
    /\ storing.ids.f = storing.ids.e

FsuserStores ==
  storing.kind = "fsuser" =>
    /\ Held(storing.ids) = Held(user)
    /\ storing.ids.e = user.e /\ storing.ids.r = user.r

GroupStores ==
  storing.kind = "group" =>
    /\ storing.ids.e # group.e => dumpable = 0
    /\ storing.ids.f # storing.ids.e => Held(storing.ids) = Held(group) /\ storing.ids.e = group.e

IdInv ==
  /\ IdTypeOK
  /\ UserStores /\ FsuserStores /\ GroupStores
  /\ counted = user.r

\* What setreuid and setregid ask for is ids, only held ones without the capability.
LEMMA SetreAsks ==
  ASSUME NEW S, Same \notin S, NEW i \in Ids(S), NEW r \in S \cup {Same}, NEW e \in S \cup {Same}
  PROVE  /\ SetreIds(i, r, e) \in Ids(S)
         /\ SetreIds(i, r, e).f = SetreIds(i, r, e).e
         /\ SetreMay(i, r, e) /\ ~Capable => Held(SetreIds(i, r, e)) \subseteq Held(i)
BY DEF Ids, Held, SetreMay, SetreIds, Or

\* The same of setresuid and setresgid.
LEMMA SetresAsks ==
  ASSUME NEW S, Same \notin S, NEW i \in Ids(S), NEW r \in S \cup {Same}, NEW e \in S \cup {Same},
         NEW s \in S \cup {Same}
  PROVE  /\ SetresIds(i, r, e, s) \in Ids(S)
         /\ SetresIds(i, r, e, s).f = SetresIds(i, r, e, s).e
         /\ SetresMay(i, r, e, s) /\ ~Capable
              => Held(SetresIds(i, r, e, s)) \subseteq Held(i)
BY DEF Ids, Held, SetresMay, SetresIds, Or

\* The same of setuid and setgid.
LEMMA SetAsks ==
  ASSUME NEW S, NEW i \in Ids(S), NEW id \in S
  PROVE  /\ SetIds(i, id) \in Ids(S)
         /\ SetIds(i, id).f = SetIds(i, id).e
         /\ SetMay(i, id) /\ ~Capable => Held(SetIds(i, id)) \subseteq Held(i)
BY DEF Ids, Held, SetMay, SetIds

\* A process starts with nothing being stored.
LEMMA IdInitInv == IdInit => IdInv
<1> SUFFICES ASSUME IdInit PROVE IdInv
  OBVIOUS
<1>1. IdTypeOK
  <2>1. user \in Ids(User) /\ group \in Ids(Group) /\ counted \in User
    BY DEF IdInit, Ids
  <2>2. caps \in {"none", "permitted", "effective"} /\ keepcaps \in BOOLEAN
    BY DEF IdInit
  <2>3. dumpable \in {0, 1} /\ storing \in Calls
    BY DEF IdInit, Calls
  <2> QED
    BY <2>1, <2>2, <2>3 DEF IdTypeOK
<1>2. UserStores /\ FsuserStores /\ GroupStores
  BY DEF IdInit, UserStores, FsuserStores, GroupStores, Idle
<1>3. counted = user.r
  BY DEF IdInit
<1> QED
  BY <1>1, <1>2, <1>3 DEF IdInv

\* A call that goes ahead with a user's ids, or a group's.
LEMMA BeginUserKeeps ==
  ASSUME IdInv, NEW ids \in Ids(User), Begin("user", user, ids), ids.f = ids.e,
         ~Capable => Held(ids) \subseteq Held(user)
  PROVE  IdInv'
<1>1. storing' = [kind |-> "user", ids |-> ids]
  BY DEF Begin
<1>2. IdTypeOK'
  BY <1>1 DEF Begin, IdInv, IdTypeOK, Calls, capVars, ClearDumpable
<1>3. UserStores'
  BY <1>1 DEF Begin, IdInv, UserStores, Dropped, Capable, Held, capVars, ClearDumpable
<1>4. FsuserStores' /\ GroupStores'
  BY <1>1 DEF FsuserStores, GroupStores
<1> QED
  BY <1>2, <1>3, <1>4 DEF Begin, IdInv, capVars

\* A call on groups that passes its checks has new ids to store, and a memory to hide.
LEMMA BeginGroupKeeps ==
  ASSUME IdInv, NEW ids \in Ids(Group), Begin("group", group, ids), ids.f = ids.e
  PROVE  IdInv'
<1>1. storing' = [kind |-> "group", ids |-> ids]
  BY DEF Begin
<1>2. IdTypeOK'
  BY <1>1 DEF Begin, IdInv, IdTypeOK, Calls, capVars, ClearDumpable
<1>3. GroupStores'
  BY <1>1 DEF Begin, IdInv, GroupStores, ClearDumpable
<1>4. FsuserStores' /\ UserStores'
  BY <1>1 DEF FsuserStores, UserStores
<1> QED
  BY <1>2, <1>3, <1>4 DEF Begin, IdInv, capVars

\* The calls that change user ids.
LEMMA UserCallKeeps == IdInv /\ UserCall => IdInv'
<1> SUFFICES ASSUME IdInv, UserCall PROVE IdInv'
  OBVIOUS
<1>0. user \in Ids(User) /\ Same \notin User
  BY IdAssumption DEF IdInv, IdTypeOK
<1>1. ASSUME NEW id \in User, Setuid(id) PROVE IdInv'
  BY <1>0, <1>1, SetAsks, BeginUserKeeps DEF Setuid
<1>2. ASSUME NEW r \in User \cup {Same}, NEW e \in User \cup {Same}, Setreuid(r, e)
      PROVE  IdInv'
  BY <1>0, <1>2, SetreAsks, BeginUserKeeps DEF Setreuid
<1>3. ASSUME NEW r \in User \cup {Same}, NEW e \in User \cup {Same},
             NEW s \in User \cup {Same}, Setresuid(r, e, s)
      PROVE  IdInv'
  BY <1>0, <1>3, SetresAsks, BeginUserKeeps DEF Setresuid
<1>4. ASSUME NEW id \in User, Setfsuid(id) PROVE IdInv'
  <2>1. storing' = [kind |-> "fsuser", ids |-> [user EXCEPT !.f = id]]
    BY <1>4 DEF Setfsuid
  <2>2. [user EXCEPT !.f = id] \in Ids(User)
    BY <1>0 DEF Ids
  <2>3. IdTypeOK'
    BY <1>4, <2>1, <2>2 DEF Setfsuid, IdInv, IdTypeOK, Calls, capVars, ClearDumpable
  <2>4. FsuserStores'
    BY <1>0, <1>4, <2>1 DEF Setfsuid, FsuserStores, Held, Ids
  <2>5. UserStores' /\ GroupStores'
    BY <2>1 DEF UserStores, GroupStores
  <2> QED
    BY <1>4, <2>3, <2>4, <2>5 DEF Setfsuid, IdInv, capVars
<1> QED
  BY <1>1, <1>2, <1>3, <1>4 DEF UserCall

\* The calls that change group ids.
LEMMA GroupCallKeeps == IdInv /\ GroupCall => IdInv'
<1> SUFFICES ASSUME IdInv, GroupCall PROVE IdInv'
  OBVIOUS
<1>0. group \in Ids(Group) /\ Same \notin Group
  BY IdAssumption DEF IdInv, IdTypeOK
<1>1. ASSUME NEW id \in Group, Setgid(id) PROVE IdInv'
  BY <1>0, <1>1, SetAsks, BeginGroupKeeps DEF Setgid
<1>2. ASSUME NEW r \in Group \cup {Same}, NEW e \in Group \cup {Same}, Setregid(r, e)
      PROVE  IdInv'
  BY <1>0, <1>2, SetreAsks, BeginGroupKeeps DEF Setregid
<1>3. ASSUME NEW r \in Group \cup {Same}, NEW e \in Group \cup {Same},
             NEW s \in Group \cup {Same}, Setresgid(r, e, s)
      PROVE  IdInv'
  BY <1>0, <1>3, SetresAsks, BeginGroupKeeps DEF Setresgid
<1>4. ASSUME NEW id \in Group, Setfsgid(id) PROVE IdInv'
  <2>1. storing' = [kind |-> "group", ids |-> [group EXCEPT !.f = id]]
    BY <1>4 DEF Setfsgid
  <2>2. [group EXCEPT !.f = id] \in Ids(Group)
    BY <1>0 DEF Ids
  <2>3. IdTypeOK'
    BY <1>4, <2>1, <2>2 DEF Setfsgid, IdInv, IdTypeOK, Calls, capVars, ClearDumpable
  <2>4. GroupStores'
    BY <1>0, <1>4, <2>1 DEF Setfsgid, GroupStores, Held, Ids
  <2>5. UserStores' /\ FsuserStores'
    BY <2>1 DEF UserStores, FsuserStores
  <2> QED
    BY <1>4, <2>3, <2>4, <2>5 DEF Setfsgid, IdInv, capVars
<1> QED
  BY <1>1, <1>2, <1>3, <1>4 DEF GroupCall

\* The second half of a call, after the write barrier.
LEMMA StoreKeeps == IdInv /\ Store => IdInv'
<1> SUFFICES ASSUME IdInv, Store PROVE IdInv'
  OBVIOUS
<1>1. storing' = Idle /\ dumpable' = dumpable
  BY DEF Store
<1>2. UserStores' /\ FsuserStores' /\ GroupStores'
  BY <1>1 DEF UserStores, FsuserStores, GroupStores, Idle
<1>3. CASE StoreUids
  <2>1. storing.ids \in Ids(User) /\ storing.ids.r \in User
    BY <1>3 DEF StoreUids, IdInv, IdTypeOK, Calls, Idle, Ids
  <2>2. caps' \in {"none", "permitted", "effective"}
    BY <1>3 DEF StoreUids, PostSetuid, IdInv, IdTypeOK
  <2> QED
    BY <1>1, <1>2, <1>3, <2>1, <2>2 DEF StoreUids, SwitchUid, PostSetuid, IdInv, IdTypeOK, Calls
<1>4. CASE StoreFsuid
  <2>1. storing.ids \in Ids(User) /\ storing.ids.r = user.r
    BY <1>4 DEF StoreFsuid, IdInv, IdTypeOK, Calls, Idle, FsuserStores
  <2> QED
    BY <1>1, <1>2, <1>4, <2>1 DEF StoreFsuid, capVars, IdInv, IdTypeOK, Calls
<1>5. CASE StoreGids
  <2>1. storing.ids \in Ids(Group)
    BY <1>5 DEF StoreGids, IdInv, IdTypeOK, Calls, Idle
  <2> QED
    BY <1>1, <1>2, <1>5, <2>1 DEF StoreGids, capVars, IdInv, IdTypeOK, Calls
<1> QED
  BY <1>3, <1>4, <1>5 DEF Store

\* Every step keeps the invariant.
LEMMA IdStepKeeps == IdInv /\ [IdNext]_idVars => IdInv'
<1> SUFFICES ASSUME IdInv, [IdNext]_idVars PROVE IdInv'
  OBVIOUS
<1> USE DEF IdInv, IdTypeOK, Calls, capVars
<1>1. CASE UNCHANGED idVars
  BY <1>1 DEF idVars, UserStores, FsuserStores, GroupStores, Dropped
<1>2. CASE Prctl
  <2>1. UserStores' /\ FsuserStores' /\ GroupStores'
    BY <1>2 DEF Prctl, UserStores, FsuserStores, GroupStores, Idle
  <2> QED
    BY <1>2, <2>1 DEF Prctl
<1>3. CASE Capset
  <2>1. UserStores' /\ FsuserStores' /\ GroupStores'
    BY <1>3 DEF Capset, UserStores, FsuserStores, GroupStores, Idle
  <2> QED
    BY <1>3, <2>1 DEF Capset
<1> QED
  BY <1>1, <1>2, <1>3, UserCallKeeps, GroupCallKeeps, StoreKeeps DEF IdNext

\* Every step of a call, a prctl or a capset keeps the invariant.
LEMMA IdInvariance == IdSpec => []IdInv
BY IdInitInv, IdStepKeeps, PTL DEF IdSpec

\* The state keeps its types: the argument -1 is never stored as an id.
THEOREM IdTypeCorrect == IdSpec => []IdTypeOK
<1>1. IdInv => IdTypeOK
  BY DEF IdInv
<1> QED
  BY <1>1, IdInvariance, PTL

\* A process is always counted for its real user.
THEOREM AlwaysCountedForRealUser == IdSpec => []CountedForRealUser
<1>1. IdInv => CountedForRealUser
  BY DEF IdInv, CountedForRealUser
<1> QED
  BY <1>1, IdInvariance, PTL

\* What changes the ids is the second step of a call.
LEMMA OnlyStoreChangesIds == IdNext => Store \/ UNCHANGED <<user, group>>
BY DEF IdNext, UserCall, GroupCall, Setuid, Setreuid, Setresuid, Setfsuid, Setgid, Setregid,
       Setresgid, Setfsgid, Begin, Prctl, Capset

\* A process without root's ids and capabilities never has them again.
THEOREM PrivilegesStayDropped == IdSpec => DroppedForGood
<1>1. IdInv /\ [IdNext]_idVars => [Dropped => Dropped']_idVars
  <2> SUFFICES ASSUME IdInv, IdNext, Dropped PROVE Dropped'
    OBVIOUS
  <2>1. caps' = "none"
    <3>1. caps = "none"
      BY DEF Dropped
    <3>2. CASE Store
      BY <3>1, <3>2 DEF Store, StoreUids, StoreFsuid, StoreGids, PostSetuid, capVars
    <3>3. CASE UserCall
      BY <3>1, <3>3 DEF UserCall, Setuid, Setreuid, Setresuid, Setfsuid, Begin, capVars
    <3>4. CASE GroupCall
      BY <3>1, <3>4 DEF GroupCall, Setgid, Setregid, Setresgid, Setfsgid, Begin, capVars
    <3>5. CASE Prctl \/ Capset
      BY <3>1, <3>5 DEF Prctl, Capset
    <3> QED
      BY <3>2, <3>3, <3>4, <3>5 DEF IdNext
  <2>2. CASE UNCHANGED <<user, group>>
    BY <2>1, <2>2 DEF Dropped, Held
  <2>3. CASE StoreUids
    BY <2>1, <2>3 DEF StoreUids, IdInv, UserStores, Dropped, Held
  <2>4. CASE StoreFsuid
    BY <2>1, <2>4 DEF StoreFsuid, IdInv, FsuserStores, Dropped, Held
  <2>5. CASE StoreGids
    BY <2>1, <2>5 DEF StoreGids, Dropped, Held
  <2> QED
    BY <2>2, <2>3, <2>4, <2>5, OnlyStoreChangesIds DEF Store
<1> QED
  BY <1>1, IdInvariance, PTL DEF IdSpec, DroppedForGood

\* Memory is made not dumpable before the effective id changes, never after.
THEOREM DumpableIsClearedFirst == IdSpec => DumpableClearedFirst
<1> DEFINE First == user'.e # user.e \/ group'.e # group.e => dumpable = 0 /\ dumpable' = 0
<1>1. IdInv /\ [IdNext]_idVars => [First]_idVars
  <2> SUFFICES ASSUME IdInv, IdNext PROVE First
    OBVIOUS
  <2>1. CASE UNCHANGED <<user, group>>
    BY <2>1
  <2>2. CASE Store
    BY <2>2 DEF Store, StoreUids, StoreFsuid, StoreGids, IdInv, UserStores, FsuserStores,
                GroupStores
  <2> QED
    BY <2>1, <2>2, OnlyStoreChangesIds
<1> QED
  BY <1>1, IdInvariance, PTL DEF IdSpec, DumpableClearedFirst

\* The file system ids go with the effective ones.
THEOREM FsIdsAlwaysShadow == IdSpec => FsIdsShadow
<1> DEFINE Shadow ==
      /\ user' # user /\ user'.f # user'.e => Held(user') = Held(user) /\ user'.e = user.e
      /\ group' # group /\ group'.f # group'.e => Held(group') = Held(group) /\ group'.e = group.e
<1>1. IdInv /\ [IdNext]_idVars => [Shadow]_idVars
  <2> SUFFICES ASSUME IdInv, IdNext PROVE Shadow
    OBVIOUS
  <2>1. CASE UNCHANGED <<user, group>>
    BY <2>1
  <2>2. CASE StoreUids
    BY <2>2 DEF StoreUids, IdInv, UserStores
  <2>3. CASE StoreFsuid
    BY <2>3 DEF StoreFsuid, IdInv, FsuserStores
  <2>4. CASE StoreGids
    BY <2>4 DEF StoreGids, IdInv, GroupStores
  <2> QED
    BY <2>1, <2>2, <2>3, <2>4, OnlyStoreChangesIds DEF Store
<1> QED
  BY <1>1, IdInvariance, PTL DEF IdSpec, FsIdsShadow

=============================================================================
