----------------------------- MODULE SpellerProofs -----------------------------
(***************************************************************************)
(* Proofs about Speller, for all layouts and all letter functions.         *)
(***************************************************************************)
EXTENDS Speller, FiniteSetTheorems, WellFoundedInduction, TLAPS

\* A set of naturals that is not empty has a least element.
LEMMA LeastIsLeast ==
  ASSUME NEW S, S \subseteq Nat, S # {}
  PROVE  Least(S) \in S /\ \A j \in S : Least(S) <= j
<1> DEFINE R == OpToRel(<, Nat)
<1>1. IsWellFoundedOn(R, Nat) BY NatLessThanWellFounded
<1> HIDE DEF R
<1>2. PICK x \in S : \A y \in S : <<y, x>> \notin R BY <1>1, WFMin
<1>3. \A y \in S : x <= y
  <2>1. \A y \in S : ~(y < x)
    <3> SUFFICES ASSUME NEW y \in S, y < x PROVE FALSE OBVIOUS
    <3>1. <<y, x>> \in R BY DEF R, OpToRel
    <3>2. QED BY <3>1, <1>2
  <2>2. QED BY <2>1
<1>4. QED BY <1>3 DEF Least

\* A finite set in a strict order, and the number of elements before one.
Ordered(S, R) ==
  /\ IsFiniteSet(S)
  /\ \A x, y \in S : <<x, y>> \in R => <<y, x>> \notin R
  /\ \A x, y, z \in S : <<x, y>> \in R /\ <<y, z>> \in R => <<x, z>> \in R
  /\ \A x, y \in S : x = y \/ <<x, y>> \in R \/ <<y, x>> \in R

Preceding(S, R, x) == {y \in S : <<y, x>> \in R}
Rank(S, R, x) == Cardinality(Preceding(S, R, x))

\* A rank is a number, and greater for what is later.
LEMMA RanksGrow ==
  ASSUME NEW S, NEW R, Ordered(S, R), NEW x \in S
  PROVE  /\ IsFiniteSet(Preceding(S, R, x)) /\ Rank(S, R, x) \in Nat
         /\ \A y \in S : <<x, y>> \in R => Rank(S, R, x) < Rank(S, R, y)
<1>1. \A y \in S : IsFiniteSet(Preceding(S, R, y)) /\ Rank(S, R, y) \in Nat
  <2> SUFFICES ASSUME NEW y \in S
               PROVE  IsFiniteSet(Preceding(S, R, y)) /\ Rank(S, R, y) \in Nat
    OBVIOUS
  <2>1. IsFiniteSet(Preceding(S, R, y)) BY FS_Subset DEF Ordered, Preceding
  <2>2. QED BY <2>1, FS_CardinalityType DEF Rank
<1>2. ASSUME NEW y \in S, <<x, y>> \in R PROVE Rank(S, R, x) < Rank(S, R, y)
  <2>1. Preceding(S, R, x) \subseteq Preceding(S, R, y) BY <1>2 DEF Ordered, Preceding
  <2>2. x \in Preceding(S, R, y) \ Preceding(S, R, x) BY <1>2 DEF Ordered, Preceding
  <2>3. Rank(S, R, x) <= Rank(S, R, y) /\ Rank(S, R, x) # Rank(S, R, y)
    BY <1>1, <2>1, <2>2, FS_Subset DEF Rank
  <2>4. QED BY <1>1, <2>3
<1>3. QED BY <1>1, <1>2

\* No two elements have the same rank.
LEMMA RanksDiffer ==
  ASSUME NEW S, NEW R, Ordered(S, R), NEW x \in S, NEW y \in S,
         Rank(S, R, x) = Rank(S, R, y)
  PROVE  x = y
<1>1. ASSUME NEW a \in S, NEW b \in S, <<a, b>> \in R PROVE Rank(S, R, a) # Rank(S, R, b)
  <2>1. Rank(S, R, a) \in Nat /\ Rank(S, R, b) \in Nat BY RanksGrow
  <2>2. Rank(S, R, a) < Rank(S, R, b) BY <1>1, RanksGrow
  <2>3. QED BY <2>1, <2>2
<1>2. QED BY <1>1 DEF Ordered

\* Of a finite set that is not empty one element is the last.
LEMMA OneIsLast ==
  ASSUME NEW S, NEW R, Ordered(S, R), NEW B, B \subseteq S, B # {}
  PROVE  \E m \in B : \A y \in B : y = m \/ <<y, m>> \in R
<1> DEFINE n == Cardinality(S)
           K == {n - Rank(S, R, y) : y \in B}
<1>1. \A y \in S : Rank(S, R, y) \in Nat BY RanksGrow
<1>2. n \in Nat /\ \A y \in S : Rank(S, R, y) <= n
  <2>1. IsFiniteSet(S) BY DEF Ordered
  <2>2. \A y \in S : Preceding(S, R, y) \subseteq S BY DEF Preceding
  <2>3. QED BY <2>1, <2>2, FS_Subset, FS_CardinalityType DEF Rank
<1> HIDE DEF n
<1>3. K \subseteq Nat
  <2> SUFFICES ASSUME NEW y \in B PROVE n - Rank(S, R, y) \in Nat OBVIOUS
  <2>1. Rank(S, R, y) \in Nat /\ Rank(S, R, y) <= n BY <1>1, <1>2
  <2>2. QED BY <1>2, <2>1
<1>4. K # {} OBVIOUS
<1>5. Least(K) \in K /\ \A j \in K : Least(K) <= j
  <2> HIDE DEF K
  <2>1. QED BY <1>3, <1>4, LeastIsLeast
<1>6. PICK m \in B : Least(K) = n - Rank(S, R, m) BY <1>5
<1>7. ASSUME NEW y \in B PROVE ~(<<m, y>> \in R)
  <2> SUFFICES ASSUME <<m, y>> \in R PROVE FALSE OBVIOUS
  <2>1. Rank(S, R, m) < Rank(S, R, y) BY RanksGrow
  <2>2. n - Rank(S, R, m) <= n - Rank(S, R, y) BY <1>5, <1>6
  <2>3. Rank(S, R, m) \in Nat /\ Rank(S, R, y) \in Nat BY <1>1
  <2>4. QED BY <1>2, <2>1, <2>2, <2>3
<1>8. QED BY <1>7 DEF Ordered

\* Below a rank that some element has every number is the rank of one.
LEMMA RanksAreFull ==
  ASSUME NEW S, NEW R, Ordered(S, R), NEW x \in S, NEW r \in Nat, r < Rank(S, R, x)
  PROVE  \E y \in S : Rank(S, R, y) = r
<1> DEFINE K == {k \in Nat : r <= k /\ \E y \in S : Rank(S, R, y) = k}
           k == Least(K)
<1>1. \A y \in S : Rank(S, R, y) \in Nat /\ IsFiniteSet(Preceding(S, R, y)) BY RanksGrow
<1>2. Rank(S, R, x) \in K BY <1>1
<1>3. k \in K /\ \A j \in K : k <= j
  <2> HIDE DEF K
  <2>1. K \subseteq Nat BY DEF K
  <2>2. QED BY <1>2, <2>1, LeastIsLeast
<1> HIDE DEF k
<1>4. k \in Nat /\ r <= k BY <1>3
<1>5. PICK y \in S : Rank(S, R, y) = k BY <1>3
<1>6. CASE k = r BY <1>5, <1>6
<1>7. CASE k > r
  <2> DEFINE B == Preceding(S, R, y)
  <2>1. IsFiniteSet(B) /\ Cardinality(B) = k BY <1>1, <1>5 DEF Rank
  <2>2. B # {} BY <1>4, <1>7, <2>1, FS_EmptySet
  <2>3. B \subseteq S BY DEF Preceding
  <2>4. PICK m \in B : \A z \in B : z = m \/ <<z, m>> \in R BY <2>2, <2>3, OneIsLast
  <2>5. m \in S /\ <<m, y>> \in R BY DEF Preceding
  <2>6. Preceding(S, R, m) = B \ {m}
    <3>1. Preceding(S, R, m) \subseteq B BY <2>5 DEF Preceding, Ordered
    <3>2. m \notin Preceding(S, R, m) BY <2>5 DEF Preceding, Ordered
    <3>3. B \ {m} \subseteq Preceding(S, R, m) BY <2>4, <2>3 DEF Preceding
    <3>4. QED BY <3>1, <3>2, <3>3
  <2>7. Rank(S, R, m) = k - 1
    <3> HIDE DEF B
    <3>1. Cardinality(B \ {m}) = Cardinality(B) - 1 BY <2>1, FS_RemoveElement
    <3>2. QED BY <2>1, <2>6, <3>1 DEF Rank
  <2>8. k - 1 \in K BY <1>1, <1>4, <1>7, <2>5, <2>7
  <2>9. QED BY <1>3, <1>4, <2>8
<1>8. QED BY <1>4, <1>6, <1>7

\* Once around the layouts at most, the remainder is a subtraction at most.
LEMMA WrapOnce ==
  ASSUME NEW n \in Nat \ {0}, NEW x \in 0..(2 * n - 1)
  PROVE  x % n = IF x < n THEN x ELSE x - n
OBVIOUS

USE LayoutsAssumption, PropsAssumption, ToggleAssumption

-----------------------------------------------------------------------------
(* What the pure parts of the widget return.                               *)

\* A table has the shape of the layouts.
LEMMA TableShape ==
  ASSUME NEW pr, NEW space, NEW l \in DOMAIN Layouts
  PROVE  /\ DOMAIN Table(pr, space)[l] = DOMAIN Layouts[l]
         /\ DOMAIN Layouts[l] = 1..Len(Layouts[l])
         /\ \E V : Table(pr, space)[l] \in Seq(V)
<1>1. Layouts[l] \in Seq(Int) OBVIOUS
<1> DEFINE layout == Table(pr, space)[l]
           V == {layout[b] : b \in DOMAIN layout}
<1>2. layout = [b \in DOMAIN Layouts[l] |-> ButtonDef(<<l, b>>, pr, space)]
  BY DEF Table
<1>3. DOMAIN Layouts[l] = 1..Len(Layouts[l]) /\ Len(Layouts[l]) \in Nat BY <1>1
<1>4. layout \in [1..Len(Layouts[l]) -> V] BY <1>2, <1>3
<1> HIDE DEF layout, V
<1>5. layout \in Seq(V)
  <2> DEFINE k == Len(Layouts[l])
  <2>1. k \in Nat /\ layout \in [1..k -> V] BY <1>3, <1>4
  <2> HIDE DEF k
  <2>2. QED BY <2>1
<1>6. QED BY <1>2, <1>3, <1>5 DEF layout

\* repositionCursor finds an enabled button, if any will do a button, or none.
LEMMA RepositionFinds ==
  ASSUME NEW V, NEW layout \in Seq(V), NEW pos \in Int, NEW on
  PROVE  \/ Reposition(pos, layout, on) = 0
         \/ /\ Reposition(pos, layout, on) \in DOMAIN layout
            /\ layout[Reposition(pos, layout, on)].enabled \/ ~on
<1> DEFINE S == Found(pos, layout, on)
<1>1. S \subseteq Nat BY DEF Found
<1>2. CASE S = {} BY <1>2 DEF Reposition
<1>3. CASE S # {}
  <2>1. Least(S) \in S BY <1>1, <1>3, LeastIsLeast
  <2>2. Suits(Least(S), pos, layout, on) BY <2>1 DEF Found
  <2>3. Reposition(pos, layout, on) = Near(pos, Least(S)) BY <1>3 DEF Reposition
  <2> HIDE DEF S
  <2>4. QED BY <2>2, <2>3 DEF Suits
<1>4. QED BY <1>2, <1>3

\* A longer way is no shorter when squared.
LEMMA SquaresGrow ==
  ASSUME NEW x \in Nat, NEW y \in Nat, x <= y
  PROVE  x * x <= y * y
<1>1. PICK d \in Nat : y = x + d
  <2>1. y - x \in Nat /\ y = x + (y - x) OBVIOUS
  <2>2. QED BY <2>1
<1>2. x * x \in Nat /\ x * d \in Nat /\ d * d \in Nat OBVIOUS
<1>3. y * y = x * x + 2 * (x * d) + d * d BY <1>1
<1> DEFINE xx == x * x
           xd == x * d
           dd == d * d
           yy == y * y
<1>4. xx \in Nat /\ xd \in Nat /\ dd \in Nat /\ yy = xx + 2 * xd + dd BY <1>2, <1>3
<1> HIDE DEF xx, xd, dd, yy
<1>5. xx <= yy BY <1>4
<1>6. QED BY <1>5 DEF xx, yy

\* The k-th place repositionCursor tries is half k away.
LEMMA NearDistance ==
  ASSUME NEW pos \in Int, NEW k \in Nat
  PROVE  (Near(pos, k) - pos) * (Near(pos, k) - pos) = (k \div 2) * (k \div 2)
<1> DEFINE h == k \div 2
<1>1. h \in Nat OBVIOUS
<1>2. Near(pos, k) = pos - h \/ Near(pos, k) = pos + h BY DEF Near
<1> HIDE DEF h
<1>3. Near(pos, k) - pos = h \/ Near(pos, k) - pos = -h BY <1>1, <1>2
<1>4. (-h) * (-h) = h * h BY <1>1
<1>5. (Near(pos, k) - pos) * (Near(pos, k) - pos) = h * h BY <1>3, <1>4
<1>6. QED BY <1>5 DEF h

\* Even tries go to the right, odd ones to the left.
LEMMA NearSides ==
  ASSUME NEW pos \in Int, NEW d \in Nat
  PROVE  Near(pos, 2 * d) = pos + d /\ Near(pos, 2 * d + 1) = pos - d
<1>1. (2 * d) % 2 = 0 /\ (2 * d) \div 2 = d OBVIOUS
<1>2. (2 * d + 1) % 2 = 1 /\ (2 * d + 1) \div 2 = d OBVIOUS
<1>3. QED BY <1>1, <1>2 DEF Near

\* repositionCursor tries every button, and the closer ones first.
LEMMA RepositionNearest ==
  ASSUME NEW V, NEW layout \in Seq(V), NEW pos \in DOMAIN layout, NEW on,
         Reposition(pos, layout, on) # 0
  PROVE  LET found == Reposition(pos, layout, on)
         IN /\ ~on => found = pos
            /\ \A b \in DOMAIN layout : layout[b].enabled =>
                 (b - pos) * (b - pos) >= (found - pos) * (found - pos)
<1> DEFINE S == Found(pos, layout, on)
           n == Len(layout)
           least == Least(S)
           found == Reposition(pos, layout, on)
<1>1. n \in Nat /\ DOMAIN layout = 1..n OBVIOUS
<1>2. pos \in 1..n BY <1>1
<1>3. S \subseteq 1..(2 * n) BY DEF Found
<1>4. S # {} BY DEF Reposition
<1>5. least \in S /\ \A j \in S : least <= j
  <2>1. S \subseteq Nat BY <1>1, <1>3
  <2> HIDE DEF S
  <2>2. QED BY <1>4, <2>1, LeastIsLeast
<1>6. found = Near(pos, least) BY <1>4 DEF Reposition
<1>7. \A k \in 1..(2 * n) : Suits(k, pos, layout, on) => k \in S BY DEF Found
<1> HIDE DEF S, n, least, found
<1>8. least \in Nat /\ least >= 1 BY <1>1, <1>3, <1>5
<1>9. ASSUME ~on PROVE found = pos
  <2>1. Near(pos, 1) = pos BY <1>2 DEF Near
  <2>2. Suits(1, pos, layout, on) BY <1>9, <2>1 DEF Suits
  <2>3. 1 \in S BY <1>1, <1>2, <1>7, <2>2
  <2>4. least = 1 BY <1>5, <1>8, <2>3
  <2>5. QED BY <1>6, <2>1, <2>4
<1>10. ASSUME NEW b \in DOMAIN layout, layout[b].enabled
       PROVE  (b - pos) * (b - pos) >= (found - pos) * (found - pos)
  <2> DEFINE k == IF b > pos THEN 2 * (b - pos) ELSE 2 * (pos - b) + 1
  <2>1. b \in 1..n BY <1>1
  <2>2. k \in 1..(2 * n) /\ k \in Nat BY <1>1, <1>2, <2>1
  <2>3. Near(pos, k) = b
    <3>1. CASE b > pos
      <4>1. k = 2 * (b - pos) /\ b - pos \in Nat BY <1>2, <2>1, <3>1
      <4>2. Near(pos, k) = pos + (b - pos)
        <5> DEFINE d == b - pos
        <5>1. k = 2 * d /\ d \in Nat /\ pos \in Int BY <1>2, <4>1
        <5> HIDE DEF d, k
        <5>2. Near(pos, k) = pos + d BY <5>1, NearSides
        <5>3. QED BY <5>2 DEF d
      <4>3. QED BY <1>2, <2>1, <4>2
    <3>2. CASE b <= pos
      <4>1. k = 2 * (pos - b) + 1 /\ pos - b \in Nat BY <1>2, <2>1, <3>2
      <4>2. Near(pos, k) = pos - (pos - b)
        <5> DEFINE d == pos - b
        <5>1. k = 2 * d + 1 /\ d \in Nat /\ pos \in Int BY <1>2, <4>1
        <5> HIDE DEF d, k
        <5>2. Near(pos, k) = pos - d BY <5>1, NearSides
        <5>3. QED BY <5>2 DEF d
      <4>3. QED BY <1>2, <2>1, <4>2
    <3>3. QED BY <1>2, <2>1, <3>1, <3>2
  <2> HIDE DEF k
  <2>4. Suits(k, pos, layout, on) BY <1>10, <2>3 DEF Suits
  <2>5. least <= k BY <1>5, <1>7, <2>2, <2>4
  <2>6. least \div 2 \in Nat /\ k \div 2 \in Nat /\ least \div 2 <= k \div 2
    BY <1>8, <2>2, <2>5
  <2>7. (least \div 2) * (least \div 2) <= (k \div 2) * (k \div 2) BY <2>6, SquaresGrow
  <2>8. (b - pos) * (b - pos) = (k \div 2) * (k \div 2)
    <3>1. pos \in Int BY <1>2
    <3>2. (Near(pos, k) - pos) * (Near(pos, k) - pos) = (k \div 2) * (k \div 2)
      BY <2>2, <3>1, NearDistance
    <3>3. QED BY <2>3, <3>2
  <2>9. (found - pos) * (found - pos) = (least \div 2) * (least \div 2)
    <3>1. pos \in Int BY <1>2
    <3>2. (Near(pos, least) - pos) * (Near(pos, least) - pos)
            = (least \div 2) * (least \div 2)
      BY <1>8, <3>1, NearDistance
    <3>3. QED BY <1>6, <3>2
  <2>10. (k \div 2) * (k \div 2) \in Nat /\ (least \div 2) * (least \div 2) \in Nat BY <2>6
  <2>11. QED BY <2>7, <2>8, <2>9, <2>10
<1>11. QED BY <1>9, <1>10 DEF found

\* The k-th layout in turn.
LEMMA TurnGoesRound ==
  ASSUME nLayout \in DOMAIN Layouts, NEW k \in 1..Len(Layouts)
  PROVE  LET n == Len(Layouts)
         IN Turn(k) = IF nLayout + k <= n THEN nLayout + k ELSE nLayout + k - n
<1> DEFINE n == Len(Layouts)
           x == nLayout - 1 + k
<1>1. n \in Nat \ {0} /\ DOMAIN Layouts = 1..n OBVIOUS
<1> HIDE LayoutsAssumption, PropsAssumption, ToggleAssumption DEF n
<1>2. nLayout \in 1..n /\ k \in 1..n BY <1>1 DEF n
<1>3. x \in 0..(2 * n - 1) /\ x \in Int BY <1>1, <1>2
<1>4. x = nLayout - 1 + k OBVIOUS
<1> HIDE DEF x
<1>5. x % n = IF x < n THEN x ELSE x - n BY <1>1, <1>3, WrapOnce
<1>6. Turn(k) = (x % n) + 1 BY DEF Turn, n, x
<1>7. Turn(k) = IF nLayout + k <= n THEN nLayout + k ELSE nLayout + k - n
  <2>1. x < n <=> nLayout + k <= n BY <1>1, <1>2, <1>4
  <2>2. CASE x < n
    <3>1. Turn(k) = x + 1 BY <1>5, <1>6, <2>2
    <3>2. QED BY <1>1, <1>2, <1>4, <2>1, <2>2, <3>1
  <2>3. CASE ~(x < n)
    <3>1. Turn(k) = x - n + 1 BY <1>5, <1>6, <2>3
    <3>2. QED BY <1>1, <1>2, <1>4, <2>1, <2>3, <3>1
  <2>4. QED BY <2>2, <2>3
<1>8. QED BY <1>7 DEF n

\* switchLayout goes to a layout, and to a visible one if there is one.
LEMMA NextLayoutShows ==
  ASSUME nLayout \in DOMAIN Layouts, NEW vis
  PROVE  /\ NextLayout(vis) \in DOMAIN Layouts
         /\ (\E l \in DOMAIN Layouts : vis[l]) => vis[NextLayout(vis)]
<1> DEFINE n == Len(Layouts)
           S == {k \in 1..n : vis[Turn(k)]}
<1>1. n \in Nat \ {0} /\ DOMAIN Layouts = 1..n OBVIOUS
<1> HIDE LayoutsAssumption, PropsAssumption, ToggleAssumption DEF n
<1>2. nLayout \in 1..n BY <1>1
<1>3. \A k \in 1..n :
        Turn(k) = IF nLayout + k <= n THEN nLayout + k ELSE nLayout + k - n
  BY TurnGoesRound DEF n
<1>4. \A k \in 1..n : Turn(k) \in 1..n
  <2> SUFFICES ASSUME NEW k \in 1..n PROVE Turn(k) \in 1..n OBVIOUS
  <2>1. QED BY <1>1, <1>2, <1>3
<1>5. ASSUME NEW l \in 1..n, vis[l] PROVE S # {}
  <2>1. CASE l > nLayout
    <3>1. l - nLayout \in 1..n /\ Turn(l - nLayout) = l BY <1>1, <1>3, <2>1
    <3>2. QED BY <1>5, <3>1
  <2>2. CASE l <= nLayout
    <3> DEFINE k == l - nLayout + n
    <3>1. k \in 1..n /\ ~(nLayout + k <= n) /\ nLayout + k - n = l
      BY ONLY <1>1, <1>2, <2>2, l \in 1..n
    <3> HIDE DEF k
    <3>2. Turn(k) = l BY ONLY <1>3, <3>1
    <3>3. QED BY <1>5, <3>1, <3>2
  <2>3. QED BY <1>1, <2>1, <2>2
<1>6. NextLayout(vis) = IF S = {} THEN nLayout ELSE Turn(Least(S))
  BY DEF NextLayout, n
<1>7. S # {} => Least(S) \in S
  <2>1. S \subseteq Nat BY <1>1
  <2> HIDE DEF S
  <2>2. QED BY <2>1, LeastIsLeast
<1>8. QED BY <1>1, <1>4, <1>5, <1>6, <1>7

-----------------------------------------------------------------------------
(* The focus, whatever the buttons are.                                    *)

FocusInv == /\ OneFocus
            /\ bGotFocus \in BOOLEAN /\ containerFocus \in BOOLEAN

\* The five facts that say where the focus is.
LEMMA FocusGone ==
  ASSUME FocusInv, alive, bGotFocus, NEW param, param # 0, HandOver(param),
         UNCHANGED <<containerFocus, toSpeller>>
  PROVE  FocusInv'
<1>1. ~containerFocus /\ toSpeller = 0 BY DEF FocusInv, OneFocus
<1>2. bGotFocus' = FALSE /\ "HK_MAIN" \notin registered' /\ toContainer' # 0
  BY DEF HandOver
<1>3. containerFocus' = FALSE /\ toSpeller' = 0 BY <1>1 DEF FocusInv
<1>4. QED BY <1>2, <1>3 DEF FocusInv, OneFocus

\* The container has the focus at first.
LEMMA InitFocus == Init => FocusInv
BY DEF Init, FocusInv, OneFocus

\* A layout switch hands over the focus the widget has.
LEMMA UpdateFocus ==
  ASSUME NEW vis, NEW table, NEW on, FocusInv, alive, alive',
         SwitchLayout(vis) \/ KeepLayout(table, on),
         UNCHANGED <<containerFocus, toSpeller>>
  PROVE  FocusInv'
<1>1. CASE UNCHANGED <<bGotFocus, registered, toContainer>>
  BY <1>1 DEF FocusInv, OneFocus
<1>2. CASE bGotFocus /\ \E param \in {1, 3} : HandOver(param)
  BY <1>2, FocusGone
<1>3. QED BY <1>1, <1>2 DEF SwitchLayout, KeepLayout, focusVars

\* The focus is not lost and not doubled by any callback.
LEMMA NextFocus == FocusInv /\ [Next]_vars => FocusInv'
<1> SUFFICES ASSUME FocusInv, [Next]_vars PROVE FocusInv' OBVIOUS
<1> USE DEF appVars, tableVars, focusVars, handVars
<1>1. CASE UNCHANGED <<focusVars, containerFocus, toSpeller, alive>>
  BY <1>1 DEF FocusInv, OneFocus
<1>2. CASE OnDataUpdate BY <1>2, UpdateFocus DEF OnDataUpdate, UpdateEnabled
<1>3. CASE EntryfieldEmpty BY <1>3, UpdateFocus DEF EntryfieldEmpty, UpdateEnabled
<1>4. CASE ToggleLayout BY <1>4, UpdateFocus DEF ToggleLayout
<1>5. CASE SetFocus
  <2>1. alive /\ alive' /\ UNCHANGED containerFocus /\ toSpeller # 0 /\ toSpeller' = 0
    BY <1>5 DEF SetFocus
  <2>2. ~bGotFocus /\ ~containerFocus /\ toContainer = 0 BY <2>1 DEF FocusInv, OneFocus
  <2>3. \/ bGotFocus' = TRUE /\ registered' = registered \cup {"HK_MAIN"} /\ UNCHANGED toContainer
        \/ toContainer' = 2 /\ UNCHANGED <<bGotFocus, registered>>
    BY <1>5, <2>2 DEF SetFocus
  <2>4. containerFocus' = FALSE /\ "HK_MAIN" \notin registered
    BY <2>1, <2>2 DEF FocusInv, OneFocus
  <2>5. CASE bGotFocus' = TRUE /\ registered' = registered \cup {"HK_MAIN"} /\ UNCHANGED toContainer
    <3>1. "HK_MAIN" \in registered' /\ toContainer' = 0 BY <2>2, <2>5
    <3>2. QED BY <2>1, <2>4, <2>5, <3>1 DEF FocusInv, OneFocus
  <2>6. CASE toContainer' = 2 /\ UNCHANGED <<bGotFocus, registered>>
    <3>1. bGotFocus' = FALSE /\ "HK_MAIN" \notin registered' /\ toContainer' # 0
      BY <2>2, <2>4, <2>6 DEF FocusInv
    <3>2. QED BY <2>1, <2>4, <3>1 DEF FocusInv, OneFocus
  <2>7. QED BY <2>3, <2>5, <2>6
<1>6. ASSUME NEW move \in {-1, 1}, MoveCursor(move) PROVE FocusInv'
  <2>1. alive /\ alive' /\ bGotFocus /\ UNCHANGED <<containerFocus, toSpeller>>
    BY <1>6 DEF MoveCursor, FocusInv, OneFocus
  <2>2. UNCHANGED <<bGotFocus, registered, toContainer>> \/ HandOver(1)
    BY <1>6 DEF MoveCursor
  <2>3. CASE UNCHANGED <<bGotFocus, registered, toContainer>>
    BY <2>1, <2>3 DEF FocusInv, OneFocus
  <2>4. CASE HandOver(1) BY <2>1, <2>4, FocusGone
  <2>5. QED BY <2>2, <2>3, <2>4
<1>7. CASE Destructor BY <1>7 DEF Destructor, FocusInv, OneFocus
<1>8. CASE ContainerGivesFocus
  <2>1. ~bGotFocus /\ toContainer = 0 /\ alive
    BY <1>8 DEF ContainerGivesFocus, FocusInv, OneFocus
  <2>2. /\ containerFocus' = FALSE /\ toSpeller' # 0
        /\ UNCHANGED <<bGotFocus, registered, toContainer, alive>>
    BY <1>8 DEF ContainerGivesFocus
  <2>3. bGotFocus' = FALSE /\ "HK_MAIN" \notin registered' /\ toContainer' = 0
    BY <2>1, <2>2 DEF FocusInv, OneFocus
  <2>4. QED BY <2>2, <2>3 DEF FocusInv, OneFocus
<1>9. CASE ContainerTakesFocus BY <1>9 DEF ContainerTakesFocus, FocusInv, OneFocus
<1>10. QED
  BY <1>1, <1>2, <1>3, <1>4, <1>5, <1>6, <1>7, <1>8, <1>9
  DEF Next, vars, ChangeProps, PressKey, ReleaseKey, TouchPress, TouchRelease,
      ViewChange

\* The focus is in exactly one place, and the widget listens to the knob
\* exactly while it has it.
THEOREM FocusInOnePlace == Spec => []OneFocus
<1>1. FocusInv => OneFocus BY DEF FocusInv
<1>2. QED BY <1>1, InitFocus, NextFocus, PTL DEF Spec
-----------------------------------------------------------------------------
(* Layouts, cursor and pressed button.                                     *)

\* The table is the one updateEnabled last built.
Built == \E pr \in Props, space \in BOOLEAN :
           /\ buttons = Table(pr, space)
           /\ visible = Visible(buttons)
           /\ bEnabled = pr.enabled

Core == /\ props \in Props
        /\ bSpaceBtnEnabled \in BOOLEAN
        /\ nLayout \in DOMAIN Layouts
        /\ Built

CursorInv == /\ bGotFocus <=> nCursor # 0
             /\ bGotFocus => nCursor \in DOMAIN Layouts[nLayout]
             /\ bGotFocus /\ bEnabled => buttons[nLayout][nCursor].enabled

PressedInv == bPressed => nPressed \in DOMAIN Layouts[nLayout]

WidgetInv == Core /\ CursorInv /\ PressedInv /\ ShownLayoutHasLetters

\* The buttons are those of the layouts.
LEMMA ButtonsShape ==
  ASSUME Core
  PROVE  /\ DOMAIN buttons[nLayout] = DOMAIN Layouts[nLayout]
         /\ DOMAIN Layouts[nLayout] = 1..Len(Layouts[nLayout])
         /\ Len(Layouts[nLayout]) \in Nat
         /\ \E V : buttons[nLayout] \in Seq(V)
<1>1. Layouts[nLayout] \in Seq(Int) BY DEF Core
<1>2. QED BY <1>1, TableShape DEF Core, Built

\* The constructor leaves a widget without cursor on a layout with letters.
LEMMA InitWidget == Init => WidgetInv
<1> SUFFICES ASSUME Init PROVE WidgetInv OBVIOUS
<1> USE DEF Init
<1>1. 1 \in DOMAIN Layouts BY DEF Init
<1> DEFINE seen == {l \in DOMAIN Layouts : visible[l]}
<1>2. seen # {} => Least(seen) \in seen
  <2>1. DOMAIN Layouts = 1..Len(Layouts) /\ Len(Layouts) \in Nat OBVIOUS
  <2>2. seen \subseteq DOMAIN Layouts OBVIOUS
  <2> HIDE DEF seen
  <2>3. seen \subseteq Nat
    <3> HIDE DEF Init
    <3> HIDE LayoutsAssumption, PropsAssumption, ToggleAssumption
    <3>1. QED BY <2>1, <2>2
  <2>4. QED BY <2>3, LeastIsLeast
<1>3. nLayout = IF props.enabled /\ seen # {} THEN Least(seen) ELSE 1 OBVIOUS
<1>4. nLayout \in DOMAIN Layouts BY <1>1, <1>2, <1>3
<1>5. Core BY <1>4 DEF Core, Built
<1>6. CursorInv /\ PressedInv BY DEF CursorInv, PressedInv
<1>7. ShownLayoutHasLetters BY <1>2, <1>3 DEF ShownLayoutHasLetters
<1>8. QED BY <1>5, <1>6, <1>7 DEF WidgetInv

\* updateEnabled puts the cursor on an enabled button, or gives up the focus.
LEMMA UpdateWidget ==
  ASSUME WidgetInv, NEW space \in BOOLEAN, UpdateEnabled(space),
         bSpaceBtnEnabled' \in BOOLEAN, UNCHANGED <<props, nPressed>>
  PROVE  WidgetInv'
<1> DEFINE table == Table(props, space)
           vis == Visible(table)
<1>1. /\ buttons' = table /\ visible' = vis /\ bEnabled' = props.enabled
      /\ IF ~vis[nLayout] /\ props.enabled THEN SwitchLayout(vis)
         ELSE KeepLayout(table, props.enabled)
  BY DEF UpdateEnabled
<1>2. Core BY DEF WidgetInv
<1>3. Built'
  <2>1. props \in Props BY <1>2 DEF Core
  <2>2. QED BY <1>1, <2>1 DEF Built
<1> HIDE DEF table, vis
<1>4. CASE SwitchLayout(vis)
  <2>1. nLayout' = NextLayout(vis) /\ bPressed' = FALSE BY <1>4 DEF SwitchLayout
  <2>2. /\ nLayout' \in DOMAIN Layouts
        /\ (\E l \in DOMAIN Layouts : vis[l]) => vis[nLayout']
    BY <1>2, <2>1, NextLayoutShows DEF Core
  <2>3. Core' BY <1>2, <1>3, <2>2 DEF Core
  <2>4. bGotFocus' = FALSE /\ nCursor' = 0
    BY <1>4 DEF SwitchLayout, HandOver, focusVars, WidgetInv, CursorInv
  <2>5. CursorInv' /\ PressedInv' BY <2>1, <2>4 DEF CursorInv, PressedInv
  <2>6. ShownLayoutHasLetters' BY <1>1, <2>2 DEF ShownLayoutHasLetters
  <2>7. QED BY <2>3, <2>5, <2>6 DEF WidgetInv
<1>5. CASE /\ ~(~vis[nLayout] /\ props.enabled)
           /\ KeepLayout(table, props.enabled)
  <2>1. UNCHANGED <<nLayout, bPressed>> BY <1>5 DEF KeepLayout
  <2>2. Core' BY <1>2, <1>3, <2>1 DEF Core
  <2>3. PressedInv' BY <2>1 DEF WidgetInv, PressedInv
  <2>4. ShownLayoutHasLetters' BY <1>1, <1>5, <2>1 DEF ShownLayoutHasLetters
  <2>5. CursorInv'
    <3>1. CASE ~bGotFocus
      <4>1. UNCHANGED <<nCursor, bGotFocus>> BY <1>5, <3>1 DEF KeepLayout, focusVars
      <4>2. QED BY <4>1, <3>1 DEF WidgetInv, CursorInv
    <3>2. CASE bGotFocus
      <4> DEFINE cursor == Reposition(nCursor, table[nLayout], props.enabled)
      <4>1. nCursor \in Int
        BY <1>2, <3>2, ButtonsShape DEF WidgetInv, CursorInv
      <4>2. \/ cursor = 0
            \/ /\ cursor \in DOMAIN Layouts[nLayout]
               /\ table[nLayout][cursor].enabled \/ ~props.enabled
        <5>1. /\ DOMAIN table[nLayout] = DOMAIN Layouts[nLayout]
              /\ \E V : table[nLayout] \in Seq(V)
          BY <1>2, TableShape DEF Core, table
        <5>2. QED BY <4>1, <5>1, RepositionFinds
      <4>3. IF cursor = 0 THEN HandOver(1)
            ELSE nCursor' = cursor /\ UNCHANGED bGotFocus
        BY <1>5, <3>2 DEF KeepLayout
      <4> HIDE DEF cursor
      <4>4. CASE cursor = 0
        <5>1. bGotFocus' = FALSE /\ nCursor' = 0 BY <4>3, <4>4 DEF HandOver
        <5>2. QED BY <5>1 DEF CursorInv
      <4>5. CASE cursor # 0
        <5>1. nCursor' = cursor /\ bGotFocus' /\ nLayout' = nLayout
          BY <4>3, <4>5, <3>2, <2>1
        <5>2. QED BY <1>1, <4>2, <4>5, <5>1 DEF CursorInv
      <4>6. QED BY <4>4, <4>5
    <3>3. QED BY <3>1, <3>2
  <2>6. QED BY <2>2, <2>3, <2>4, <2>5 DEF WidgetInv
<1>6. QED BY <1>1, <1>4, <1>5

\* MoveCursor goes to an enabled button of the layout, or gives up the focus.
LEMMA MoveWidget ==
  ASSUME WidgetInv, FocusInv, NEW move \in {-1, 1}, MoveCursor(move)
  PROVE  CursorInv'
<1> DEFINE enabled == {b \in DOMAIN buttons[nLayout] :
                         buttons[nLayout][b].enabled /\ (b - nCursor) * move > 0}
           steps == {(b - nCursor) * move : b \in enabled}
<1>1. /\ bGotFocus
      /\ UNCHANGED <<nLayout, buttons, bEnabled>>
  BY DEF MoveCursor, FocusInv, OneFocus, tableVars
<1>2. /\ DOMAIN buttons[nLayout] = DOMAIN Layouts[nLayout]
      /\ DOMAIN Layouts[nLayout] \subseteq Nat
      /\ nCursor \in Nat \ {0}
  <2>1. DOMAIN Layouts[nLayout] = 1..Len(Layouts[nLayout])
    BY ButtonsShape DEF WidgetInv
  <2>2. QED BY <1>1, <2>1, ButtonsShape DEF WidgetInv, CursorInv
<1>3. CASE HandOver(1)
  <2>1. bGotFocus' = FALSE /\ nCursor' = 0 BY <1>3 DEF HandOver
  <2>2. QED BY <2>1 DEF CursorInv
<1>4. CASE /\ enabled # {} /\ nCursor' = nCursor + move * Least(steps)
           /\ UNCHANGED bGotFocus
  <2>1. steps \subseteq Nat /\ steps # {}
    <3> SUFFICES ASSUME NEW b \in enabled PROVE (b - nCursor) * move \in Nat
      BY <1>4
    <3>1. b \in Nat /\ (b - nCursor) * move > 0 BY <1>2
    <3>2. CASE move = 1 BY <1>2, <3>1, <3>2
    <3>3. CASE move = -1 BY <1>2, <3>1, <3>3
    <3>4. QED BY <3>2, <3>3
  <2>2. Least(steps) \in steps
    <3> HIDE DEF steps
    <3>1. QED BY <2>1, LeastIsLeast
  <2>3. PICK b \in enabled : Least(steps) = (b - nCursor) * move BY <2>2
  <2>4. b \in Nat /\ b \in DOMAIN Layouts[nLayout] /\ buttons[nLayout][b].enabled
    BY <1>2
  <2>5. nCursor' = nCursor + move * ((b - nCursor) * move) BY <1>4, <2>3
  <2>6. nCursor' = b
    <3>1. CASE move = 1 BY <1>2, <2>4, <2>5, <3>1
    <3>2. CASE move = -1 BY <1>2, <2>4, <2>5, <3>2
    <3>3. QED BY <3>1, <3>2
  <2>7. b # 0
    <3>1. DOMAIN Layouts[nLayout] = 1..Len(Layouts[nLayout])
      BY ButtonsShape DEF WidgetInv
    <3>2. QED BY <2>4, <3>1
  <2>8. QED BY <1>1, <1>4, <2>4, <2>6, <2>7 DEF CursorInv
<1>5. QED BY <1>3, <1>4 DEF MoveCursor

\* SETFOCUS finds an enabled button to start at, or sends the focus back.
LEMMA SetFocusWidget ==
  ASSUME WidgetInv, SetFocus, toSpeller \in Nat
  PROVE  CursorInv'
<1> DEFINE pos == (toSpeller - 1) * Len(Layouts[nLayout])
           cursor == Reposition(pos, buttons[nLayout], bEnabled)
<1>1. UNCHANGED <<nLayout, buttons, bEnabled>> BY DEF SetFocus, tableVars
<1>2. CASE bGotFocus
  <2>1. UNCHANGED <<nCursor, bGotFocus>> BY <1>2 DEF SetFocus, focusVars
  <2>2. QED BY <1>1, <2>1 DEF WidgetInv, CursorInv
<1>3. CASE ~bGotFocus
  <2>1. pos \in Int BY ButtonsShape DEF WidgetInv
  <2> HIDE DEF pos
  <2>2. \/ cursor = 0
        \/ /\ cursor \in DOMAIN Layouts[nLayout]
           /\ buttons[nLayout][cursor].enabled \/ ~bEnabled
    BY <2>1, ButtonsShape, RepositionFinds DEF WidgetInv
  <2>3. nCursor' = cursor /\ IF cursor # 0 THEN bGotFocus' = TRUE ELSE UNCHANGED bGotFocus
    BY <1>3 DEF SetFocus, pos
  <2> HIDE DEF cursor
  <2>4. CASE cursor = 0 BY <1>3, <2>3, <2>4 DEF CursorInv
  <2>5. CASE cursor # 0 BY <1>1, <2>2, <2>3, <2>5 DEF CursorInv
  <2>6. QED BY <2>4, <2>5
<1>4. QED BY <1>2, <1>3

\* Every callback keeps layout, cursor and pressed button consistent.
LEMMA NextWidget ==
  ASSUME WidgetInv, FocusInv, toSpeller \in Nat, [Next]_vars
  PROVE  WidgetInv'
<1> USE DEF appVars, tableVars, focusVars, handVars
<1>1. ASSUME Core, UNCHANGED <<bSpaceBtnEnabled, tableVars, nLayout>>, props' \in Props
      PROVE  Core'
  BY <1>1 DEF Core, Built
<1>2. ASSUME UNCHANGED <<tableVars, nLayout>> PROVE ShownLayoutHasLetters'
  BY <1>2 DEF WidgetInv, ShownLayoutHasLetters
<1>3. ASSUME UNCHANGED <<tableVars, nLayout, focusVars>> PROVE CursorInv'
  BY <1>3 DEF WidgetInv, CursorInv
<1>4. ASSUME bPressed' => bPressed, UNCHANGED <<nLayout, nPressed>> PROVE PressedInv'
  BY <1>4 DEF WidgetInv, PressedInv
<1>5. Core /\ props \in Props /\ bSpaceBtnEnabled \in BOOLEAN BY DEF WidgetInv, Core
<1>6. CASE OnDataUpdate BY <1>5, <1>6, UpdateWidget DEF OnDataUpdate
<1>7. CASE EntryfieldEmpty BY <1>5, <1>7, UpdateWidget DEF EntryfieldEmpty
<1>8. CASE ToggleLayout
  <2>1. SwitchLayout(visible) /\ UNCHANGED <<tableVars, props, bSpaceBtnEnabled>>
    BY <1>8 DEF ToggleLayout
  <2>2. nLayout' = NextLayout(visible) /\ bPressed' = FALSE BY <2>1 DEF SwitchLayout
  <2>3. /\ nLayout' \in DOMAIN Layouts
        /\ (\E l \in DOMAIN Layouts : visible[l]) => visible[nLayout']
    BY <1>5, <2>2, NextLayoutShows DEF Core
  <2>4. Core' BY <1>5, <2>1, <2>3 DEF Core, Built
  <2>5. bGotFocus' = FALSE /\ nCursor' = 0
    BY <2>1 DEF SwitchLayout, HandOver, WidgetInv, CursorInv, FocusInv
  <2>6. CursorInv' /\ PressedInv' BY <2>2, <2>5 DEF CursorInv, PressedInv
  <2>7. ShownLayoutHasLetters' BY <2>1, <2>3 DEF ShownLayoutHasLetters
  <2>8. QED BY <2>4, <2>6, <2>7 DEF WidgetInv
<1>9. CASE SetFocus
  BY <1>1, <1>2, <1>4, <1>5, <1>9, SetFocusWidget DEF SetFocus, WidgetInv
<1>10. ASSUME NEW move \in {-1, 1}, MoveCursor(move) PROVE WidgetInv'
  BY <1>1, <1>2, <1>4, <1>5, <1>10, MoveWidget DEF MoveCursor, WidgetInv
<1>11. CASE PressKey
  <2>1. PressedInv'
    <3>1. CASE "HK_MAIN" \in registered
      BY <1>11, <3>1 DEF PressKey, Press, PressedInv, WidgetInv, CursorInv, FocusInv, OneFocus
    <3>2. CASE "HK_MAIN" \notin registered BY <1>4, <1>11, <3>2 DEF PressKey
    <3>3. QED BY <3>1, <3>2
  <2>2. QED BY <1>1, <1>2, <1>3, <1>5, <1>11, <2>1 DEF PressKey, WidgetInv
<1>12. ASSUME NEW b \in DOMAIN buttons[nLayout], TouchPress(b) PROVE WidgetInv'
  <2>1. PressedInv' BY <1>5, <1>12, ButtonsShape DEF TouchPress, Press, PressedInv
  <2>2. QED BY <1>1, <1>2, <1>3, <1>5, <1>12, <2>1 DEF TouchPress, WidgetInv
<1>13. ASSUME UNCHANGED <<tableVars, nLayout, nPressed, bSpaceBtnEnabled, focusVars>>,
               props' \in Props, bPressed' => bPressed
       PROVE  WidgetInv'
  BY <1>1, <1>2, <1>3, <1>4, <1>5, <1>13 DEF WidgetInv
<1>14. CASE ChangeProps BY <1>13, <1>14 DEF ChangeProps
<1>15. CASE ReleaseKey
  <2>1. bPressed' => bPressed BY <1>15, Zenon DEF ReleaseKey
  <2>2. QED BY <1>5, <1>13, <1>15, <2>1 DEF ReleaseKey
<1>16. CASE TouchRelease \/ ViewChange
  BY <1>5, <1>13, <1>16 DEF TouchRelease, ViewChange
<1>17. CASE ContainerGivesFocus \/ UNCHANGED vars
  BY <1>5, <1>13, <1>17 DEF ContainerGivesFocus, vars
<1>18. CASE Destructor \/ ContainerTakesFocus
  <2>1. UNCHANGED <<tableVars, nLayout, nPressed, bPressed, bSpaceBtnEnabled, props,
                    nCursor, bGotFocus>>
    BY <1>18 DEF Destructor, ContainerTakesFocus
  <2>2. CursorInv' BY <2>1 DEF WidgetInv, CursorInv
  <2>3. QED BY <1>1, <1>2, <1>4, <1>5, <2>1, <2>2 DEF WidgetInv
<1>19. QED
  BY <1>6, <1>7, <1>8, <1>9, <1>10, <1>11, <1>12, <1>14, <1>15, <1>16, <1>17, <1>18
  DEF Next

\* SETFOCUS carries 1 or 2.
MessageInv == toSpeller \in Nat

\* Every message keeps it.
LEMMA Messages == Spec => []MessageInv
<1> USE DEF MessageInv
<1>1. Init => MessageInv BY DEF Init
<1>2. ASSUME MessageInv, [Next]_vars PROVE MessageInv'
  <2>1. CASE SetFocus BY <2>1 DEF SetFocus
  <2>2. CASE ContainerGivesFocus BY <2>2 DEF ContainerGivesFocus
  <2>3. CASE UNCHANGED toSpeller BY <1>2, <2>3
  <2>4. QED
    BY <1>2, <2>1, <2>2, <2>3
    DEF Next, vars, ChangeProps, OnDataUpdate, EntryfieldEmpty, ToggleLayout, MoveCursor,
        PressKey, ReleaseKey, TouchPress, TouchRelease, ViewChange, Destructor,
        ContainerTakesFocus
<1> HIDE DEF MessageInv
<1>3. QED BY <1>1, <1>2, PTL DEF Spec

\* The widget is consistent in every behaviour of the application, the
\* container and the user.
LEMMA WidgetHolds == Spec => []WidgetInv
<1>1. Spec => []FocusInv BY InitFocus, NextFocus, PTL DEF Spec
<1>2. WidgetInv /\ FocusInv /\ MessageInv /\ [Next]_vars => WidgetInv'
  BY NextWidget DEF MessageInv
<1>3. QED BY <1>1, <1>2, InitWidget, Messages, PTL DEF Spec

\* A layout switch never leaves a pressed button of another layout.
THEOREM PressStaysInLayout == Spec => []PressedInLayout
<1>1. WidgetInv => PressedInLayout
  BY ButtonsShape DEF WidgetInv, PressedInv, PressedInLayout
<1>2. QED BY <1>1, WidgetHolds, PTL

\* The widget shows letters whenever a layout has some.
THEOREM LettersShown == Spec => []ShownLayoutHasLetters
<1>1. WidgetInv => ShownLayoutHasLetters BY DEF WidgetInv
<1>2. QED BY <1>1, WidgetHolds, PTL

\* The widget has a cursor exactly while it has the focus, on an enabled
\* button that is drawn as such.
THEOREM CursorAlwaysShown == Spec => []CursorShown
<1>1. WidgetInv => CursorShown
  <2> SUFFICES ASSUME WidgetInv PROVE CursorShown OBVIOUS
  <2>1. CursorInv /\ DOMAIN buttons[nLayout] = DOMAIN Layouts[nLayout]
    BY ButtonsShape DEF WidgetInv
  <2>2. ASSUME bGotFocus, bEnabled PROVE State(nCursor) \in {"focused", "pressed"}
    <3>1. buttons[nLayout][nCursor].enabled BY <2>1, <2>2 DEF CursorInv
    <3>2. CASE bPressed /\ nCursor = nPressed
      <4>1. State(nCursor) = "pressed" BY <3>1, <3>2 DEF State
      <4>2. QED BY <4>1
    <3>3. CASE ~(bPressed /\ nCursor = nPressed)
      <4>1. State(nCursor) = "focused" BY <3>1, <3>3 DEF State
      <4>2. QED BY <4>1
    <3>4. QED BY <3>2, <3>3
  <2>3. QED BY <2>1, <2>2 DEF CursorShown, CursorInv
<1>2. QED BY <1>1, WidgetHolds, PTL

\* With another visible layout, switchLayout leaves the one that is shown.
LEMMA NextLayoutMoves ==
  ASSUME nLayout \in DOMAIN Layouts, NEW vis, NEW l \in DOMAIN Layouts, vis[l], l # nLayout
  PROVE  NextLayout(vis) # nLayout
<1> DEFINE n == Len(Layouts)
           S == {k \in 1..n : vis[Turn(k)]}
           least == Least(S)
<1>1. n \in Nat \ {0} /\ DOMAIN Layouts = 1..n OBVIOUS
<1> HIDE LayoutsAssumption, PropsAssumption, ToggleAssumption DEF n
<1>2. nLayout \in 1..n /\ l \in 1..n BY <1>1
<1>3. \A k \in 1..n :
        Turn(k) = IF nLayout + k <= n THEN nLayout + k ELSE nLayout + k - n
  BY TurnGoesRound DEF n
<1>4. PICK k \in 1..(n - 1) : Turn(k) = l
  <2>1. CASE l > nLayout
    <3>1. l - nLayout \in 1..(n - 1) /\ l - nLayout \in 1..n BY <1>1, <1>2, <2>1
    <3>2. Turn(l - nLayout) = l BY <1>1, <1>2, <1>3, <3>1
    <3>3. QED BY <3>1, <3>2
  <2>2. CASE l < nLayout
    <3> DEFINE h == l - nLayout + n
    <3>1. /\ h \in 1..(n - 1) /\ h \in 1..n
          /\ ~(nLayout + h <= n) /\ nLayout + h - n = l
      BY ONLY <1>1, <1>2, <2>2
    <3> HIDE DEF h
    <3>2. Turn(h) = l BY ONLY <1>3, <3>1
    <3>3. QED BY <3>1, <3>2
  <2>3. QED BY <1>2, <2>1, <2>2
<1>5. k \in S BY <1>1, <1>4
<1>6. least \in S /\ least <= k
  <2>1. S \subseteq Nat BY <1>1
  <2> HIDE DEF S
  <2>2. QED BY <1>5, <2>1, LeastIsLeast
<1>7. NextLayout(vis) = Turn(least) BY <1>5 DEF NextLayout, n
<1>8. least \in 1..(n - 1) BY <1>1, <1>4, <1>6
<1> HIDE DEF S, least
<1>9. Turn(least) # nLayout BY <1>1, <1>2, <1>3, <1>8
<1>10. QED BY <1>7, <1>9

\* The toggle button is enabled while more than one layout is visible: updateEnabled sets
\* both, and nothing else either.
ToggleInv ==
  /\ nLayout \in DOMAIN Layouts
  /\ toggleEnabled => Cardinality({l \in DOMAIN Layouts : visible[l]}) > 1

\* updateEnabled and the constructor set them together.
LEMMA ToggleCounts == Spec => []ToggleInv
<1>1. Init /\ WidgetInv => ToggleInv BY DEF Init, ToggleInv, WidgetInv, Core
<1>2. ToggleInv /\ WidgetInv' /\ [Next]_vars => ToggleInv'
  <2> SUFFICES ASSUME ToggleInv, WidgetInv', [Next]_vars PROVE ToggleInv' OBVIOUS
  <2>1. nLayout' \in DOMAIN Layouts BY DEF WidgetInv, Core
  <2>2. CASE UNCHANGED <<visible, toggleEnabled>> BY <2>1, <2>2 DEF ToggleInv
  <2>3. CASE \E space : UpdateEnabled(space)
    BY <2>1, <2>3 DEF UpdateEnabled, ToggleInv
  <2>4. UNCHANGED <<visible, toggleEnabled>> \/ \E space : UpdateEnabled(space)
    BY DEF Next, vars, tableVars, ChangeProps, OnDataUpdate, EntryfieldEmpty, ToggleLayout,
           SetFocus, MoveCursor, PressKey, ReleaseKey, TouchPress, TouchRelease,
           ViewChange, Destructor, ContainerGivesFocus, ContainerTakesFocus
  <2>5. QED BY <2>2, <2>3, <2>4
<1>3. QED BY <1>1, <1>2, InitWidget, WidgetHolds, PTL DEF Spec

\* With the toggle button enabled, a press of it shows another layout.
THEOREM ToggleAlwaysChanges == Spec => ToggleChangesLayout
<1>1. ToggleInv /\ [Next]_vars => [ToggleLayout /\ toggleEnabled => nLayout' # nLayout]_vars
  <2> SUFFICES ASSUME ToggleInv, ToggleLayout, toggleEnabled PROVE nLayout' # nLayout
    OBVIOUS
  <2> DEFINE seen == {l \in DOMAIN Layouts : visible[l]}
  <2>1. Cardinality(seen) > 1 BY DEF ToggleInv
  <2>2. \E l \in seen : l # nLayout
    <3> SUFFICES ASSUME \A l \in seen : l = nLayout PROVE FALSE OBVIOUS
    <3>1. seen \subseteq {nLayout} OBVIOUS
    <3> HIDE DEF seen
    <3>2. IsFiniteSet({nLayout}) /\ Cardinality({nLayout}) = 1 BY FS_Singleton
    <3>3. Cardinality(seen) \in Nat /\ Cardinality(seen) <= 1
      BY <3>1, <3>2, FS_Subset, FS_CardinalityType
    <3>4. QED BY <2>1, <3>3
  <2>3. nLayout' = NextLayout(visible) BY DEF ToggleLayout, SwitchLayout
  <2>4. QED BY <2>2, <2>3, NextLayoutMoves DEF ToggleInv
<1>2. QED BY <1>1, ToggleCounts, PTL DEF Spec, ToggleChangesLayout

\* An update that leaves the widget the focus moves the cursor no further than it must.
THEOREM CursorAlwaysMovesLeast == Spec => CursorMovesLeast
<1> DEFINE Least1 ==
      OnDataUpdate /\ bGotFocus /\ bGotFocus' =>
        /\ ~bEnabled' => nCursor' = nCursor
        /\ bEnabled' => \A b \in DOMAIN buttons'[nLayout] :
             buttons'[nLayout][b].enabled =>
               (b - nCursor) * (b - nCursor) >= (nCursor' - nCursor) * (nCursor' - nCursor)
<1>1. WidgetInv /\ [Next]_vars => Least1
  <2> SUFFICES ASSUME WidgetInv, OnDataUpdate, bGotFocus, bGotFocus' PROVE Least1 OBVIOUS
  <2> DEFINE table == Table(props, bSpaceBtnEnabled)
             layout == table[nLayout]
             cursor == Reposition(nCursor, layout, props.enabled)
  <2>1. /\ buttons' = table /\ bEnabled' = props.enabled
        /\ \/ SwitchLayout(Visible(table))
           \/ KeepLayout(table, props.enabled)
    BY DEF OnDataUpdate, UpdateEnabled
  <2> HIDE DEF table
  <2>2. KeepLayout(table, props.enabled) BY <2>1 DEF SwitchLayout, HandOver
  <2>3. nCursor' = cursor /\ cursor # 0
    <3>1. IF cursor = 0 THEN HandOver(1) ELSE nCursor' = cursor BY <2>2 DEF KeepLayout
    <3> HIDE DEF cursor
    <3>2. QED BY <3>1 DEF HandOver
  <2>4. nLayout \in DOMAIN Layouts /\ nCursor \in DOMAIN Layouts[nLayout]
    BY DEF WidgetInv, CursorInv, Core
  <2>5. nCursor \in DOMAIN layout /\ \E V : layout \in Seq(V) BY <2>4, TableShape DEF table
  <2>6. buttons'[nLayout] = layout BY <2>1
  <2> HIDE DEF layout
  <2>7. /\ ~props.enabled => cursor = nCursor
        /\ \A b \in DOMAIN layout : layout[b].enabled =>
             (b - nCursor) * (b - nCursor) >= (cursor - nCursor) * (cursor - nCursor)
    BY <2>3, <2>5, RepositionNearest
  <2> HIDE DEF cursor
  <2>8. QED BY <2>1, <2>3, <2>6, <2>7
<1>2. QED
  <2>1. WidgetInv /\ [Next]_vars => [Least1]_vars BY <1>1
  <2>2. Spec => [][Least1]_vars BY <2>1, WidgetHolds, PTL DEF Spec
  <2>3. QED BY <2>2 DEF CursorMovesLeast

-----------------------------------------------------------------------------
(* Which letters are on the buttons.                                       *)

\* The fill buttons from the first layout on, and the letters without a button.
FillOrder == {pq \in FillPlaces \X FillPlaces : Before(pq[1], pq[2])}
LetterOrder(letters) ==
  {ij \in Unplaced(letters) \X Unplaced(letters) : ij[1] < ij[2]}

FillRank(p) == Rank(FillPlaces, FillOrder, p)
LetterRank(letters, i) == Rank(Unplaced(letters), LetterOrder(letters), i)

\* There are finitely many buttons.
LEMMA PlacesFinite ==
  /\ IsFiniteSet(FillPlaces)
  /\ \A p \in Places : /\ p[1] \in DOMAIN Layouts /\ p[2] \in DOMAIN Layouts[p[1]]
                       /\ p = <<p[1], p[2]>> /\ p[1] \in Nat /\ p[2] \in Nat
<1> DEFINE L == DOMAIN Layouts
           rows == {{l} \X DOMAIN Layouts[l] : l \in L}
           row == [l \in L |-> {l} \X DOMAIN Layouts[l]]
<1>1. Len(Layouts) \in Nat /\ L = 1..Len(Layouts) OBVIOUS
<1>2. \A l \in L : Len(Layouts[l]) \in Nat /\ DOMAIN Layouts[l] = 1..Len(Layouts[l])
  OBVIOUS
<1> HIDE LayoutsAssumption, PropsAssumption, ToggleAssumption
<1>3. IsFiniteSet(L) BY <1>1, FS_Interval
<1>4. row \in Surjection(L, rows) BY DEF Surjection
<1>5. IsFiniteSet(rows)
  <2> HIDE DEF rows, row, L
  <2>1. QED BY <1>3, <1>4, FS_Surjection
<1>6. \A l \in L : IsFiniteSet({l} \X DOMAIN Layouts[l])
  <2> SUFFICES ASSUME NEW l \in L PROVE IsFiniteSet({l} \X DOMAIN Layouts[l]) OBVIOUS
  <2>1. IsFiniteSet({l}) BY FS_Singleton
  <2>2. IsFiniteSet(DOMAIN Layouts[l]) BY <1>2, FS_Interval
  <2>3. QED BY <2>1, <2>2, FS_Product
<1>7. IsFiniteSet(Places)
  <2>1. \A T \in rows : IsFiniteSet(T) BY <1>6
  <2>2. Places = UNION rows BY DEF Places
  <2> HIDE DEF rows
  <2>3. QED BY <1>5, <2>1, <2>2, FS_UNION
<1>8. IsFiniteSet(FillPlaces) BY <1>7, FS_Subset DEF FillPlaces
<1>9. ASSUME NEW p \in Places
      PROVE  /\ p[1] \in DOMAIN Layouts /\ p[2] \in DOMAIN Layouts[p[1]]
             /\ p = <<p[1], p[2]>> /\ p[1] \in Nat /\ p[2] \in Nat
  <2>1. PICK l \in L : p \in {l} \X DOMAIN Layouts[l] BY DEF Places
  <2>2. p[1] = l /\ p[2] \in DOMAIN Layouts[l] /\ p = <<p[1], p[2]>> BY <2>1
  <2>3. l \in Nat /\ p[2] \in Nat BY <1>1, <1>2, <2>2
  <2>4. QED BY <2>2, <2>3
<1>10. QED BY <1>8, <1>9

\* The fill buttons are in an order.
LEMMA FillsOrdered == Ordered(FillPlaces, FillOrder)
<1> HIDE LayoutsAssumption, PropsAssumption, ToggleAssumption
<1>1. \A p \in FillPlaces : p = <<p[1], p[2]>> /\ p[1] \in Nat /\ p[2] \in Nat
  BY PlacesFinite DEF FillPlaces
<1>2. \A p, q \in FillPlaces : <<p, q>> \in FillOrder <=> Before(p, q) BY DEF FillOrder
<1>3. \A p, q \in FillPlaces : Before(p, q) => ~Before(q, p) BY <1>1 DEF Before
<1>4. \A p, q, r \in FillPlaces : Before(p, q) /\ Before(q, r) => Before(p, r)
  BY <1>1 DEF Before
<1>5. ASSUME NEW p \in FillPlaces, NEW q \in FillPlaces
      PROVE  p = q \/ Before(p, q) \/ Before(q, p)
  <2>1. CASE p[1] = q[1] /\ p[2] = q[2] BY <1>1, <2>1
  <2>2. CASE ~(p[1] = q[1] /\ p[2] = q[2]) BY <1>1, <2>2 DEF Before
  <2>3. QED BY <2>1, <2>2
<1>6. QED BY <1>2, <1>3, <1>4, <1>5, PlacesFinite DEF Ordered

\* The letters without a button are in an order.
LEMMA LettersOrdered ==
  ASSUME NEW letters \in Seq(Int \ {Empty, Fill})
  PROVE  /\ Ordered(Unplaced(letters), LetterOrder(letters))
         /\ Unplaced(letters) \subseteq 1..Len(letters)
<1> HIDE LayoutsAssumption, PropsAssumption, ToggleAssumption
<1> DEFINE U == Unplaced(letters)
<1>1. Len(letters) \in Nat /\ DOMAIN letters = 1..Len(letters) OBVIOUS
<1>2. U \subseteq 1..Len(letters) BY <1>1 DEF Unplaced
<1>3. IsFiniteSet(U)
  <2>1. IsFiniteSet(1..Len(letters)) BY <1>1, FS_Interval
  <2>2. QED BY <1>2, <2>1, FS_Subset
<1>4. \A i, j \in U : <<i, j>> \in LetterOrder(letters) <=> i < j BY DEF LetterOrder
<1> HIDE DEF U
<1>5. \A i \in U : i \in Int BY <1>1, <1>2
<1>6. Ordered(U, LetterOrder(letters)) BY <1>3, <1>4, <1>5 DEF Ordered
<1>7. QED BY <1>2, <1>6 DEF U

\* A fill button has the letter of its rank, if there is one.
LEMMA FillCharacterIs ==
  ASSUME NEW letters \in Seq(Int \ {Empty, Fill}), NEW p \in FillPlaces
  PROVE  \/ /\ FillCharacter(p, letters) = Empty
            /\ \A i \in Unplaced(letters) : LetterRank(letters, i) # FillRank(p)
         \/ \E i \in Unplaced(letters) :
              /\ LetterRank(letters, i) = FillRank(p)
              /\ FillCharacter(p, letters) = letters[i] /\ letters[i] # Empty
<1> HIDE LayoutsAssumption, PropsAssumption, ToggleAssumption
<1> DEFINE U == Unplaced(letters)
           mine == {i \in U : Cardinality({j \in U : j < i})
                                = Cardinality({q \in FillPlaces : Before(q, p)})}
<1>1. Cardinality({q \in FillPlaces : Before(q, p)}) = FillRank(p)
  <2>1. {q \in FillPlaces : Before(q, p)} = Preceding(FillPlaces, FillOrder, p)
    BY DEF Preceding, FillOrder
  <2>2. QED BY <2>1 DEF FillRank, Rank
<1>2. ASSUME NEW i \in U
      PROVE  Cardinality({j \in U : j < i}) = LetterRank(letters, i)
  <2>1. {j \in U : j < i} = Preceding(U, LetterOrder(letters), i)
    BY DEF Preceding, LetterOrder
  <2>2. QED BY <2>1 DEF LetterRank, Rank
<1>3. mine = {i \in U : LetterRank(letters, i) = FillRank(p)} BY <1>1, <1>2
<1>4. FillCharacter(p, letters)
        = IF mine = {} THEN Empty ELSE letters[CHOOSE i \in mine : TRUE]
  BY DEF FillCharacter
<1> HIDE DEF mine
<1>5. CASE mine = {} BY <1>3, <1>4, <1>5
<1>6. CASE mine # {}
  <2>1. PICK i \in mine : FillCharacter(p, letters) = letters[i] BY <1>4, <1>6
  <2>2. i \in U /\ LetterRank(letters, i) = FillRank(p) BY <1>3
  <2>3. i \in 1..Len(letters) BY <2>2, LettersOrdered
  <2>4. letters[i] # Empty BY <2>3
  <2>5. QED BY <2>1, <2>2, <2>4
<1>7. QED BY <1>5, <1>6

\* No letter is dealt out twice.
LEMMA FillsDiffer ==
  ASSUME NEW letters \in Seq(Int \ {Empty, Fill}), NEW p \in FillPlaces, NEW q \in FillPlaces,
         FillCharacter(p, letters) # Empty,
         FillCharacter(p, letters) = FillCharacter(q, letters)
  PROVE  p = q
<1> HIDE LayoutsAssumption, PropsAssumption, ToggleAssumption
<1>1. PICK i \in Unplaced(letters) :
        LetterRank(letters, i) = FillRank(p) /\ FillCharacter(p, letters) = letters[i]
  BY FillCharacterIs
<1>2. PICK j \in Unplaced(letters) :
        LetterRank(letters, j) = FillRank(q) /\ FillCharacter(q, letters) = letters[j]
  BY FillCharacterIs
<1>3. i = j
  <2>1. letters[i] = letters[j] BY <1>1, <1>2
  <2>2. i \in Int /\ j \in Int /\ i >= 1 /\ j >= 1 BY LettersOrdered
  <2>3. ~(i < j)
    <3>1. i \in 1..(j - 1) => letters[i] # letters[j] BY DEF Unplaced
    <3>2. QED BY <2>1, <2>2, <3>1
  <2>4. ~(j < i)
    <3>1. j \in 1..(i - 1) => letters[j] # letters[i] BY DEF Unplaced
    <3>2. QED BY <2>1, <2>2, <3>1
  <2>5. QED BY <2>2, <2>3, <2>4
<1>4. FillRank(p) = FillRank(q) BY <1>1, <1>2, <1>3
<1>5. QED BY <1>4, FillsOrdered, RanksDiffer DEF FillRank

\* While a letter waits for a fill button, none of them is free.
LEMMA NoneIsFree ==
  ASSUME NEW letters \in Seq(Int \ {Empty, Fill}), NEW i0 \in DOMAIN letters,
         letters[i0] \notin FixedCharacters,
         \A q \in FillPlaces : FillCharacter(q, letters) # letters[i0]
  PROVE  \A p \in FillPlaces : FillCharacter(p, letters) # Empty
<1> HIDE LayoutsAssumption, PropsAssumption, ToggleAssumption
<1> DEFINE U == Unplaced(letters)
           same == {j \in DOMAIN letters : letters[j] = letters[i0]}
           i == Least(same)
<1>1. Len(letters) \in Nat /\ DOMAIN letters = 1..Len(letters) OBVIOUS
<1>2. i \in same /\ \A j \in same : i <= j
  <2>1. same \subseteq Nat /\ i0 \in same BY <1>1
  <2> HIDE DEF same
  <2>2. QED BY <2>1, LeastIsLeast
<1> HIDE DEF i
<1>3. i \in U /\ letters[i] = letters[i0]
  <2>1. i \in 1..Len(letters) /\ letters[i] = letters[i0] BY <1>1, <1>2
  <2>2. \A j \in 1..(i - 1) : letters[j] # letters[i]
    <3> SUFFICES ASSUME NEW j \in 1..(i - 1), letters[j] = letters[i] PROVE FALSE OBVIOUS
    <3>1. j \in DOMAIN letters BY <1>1, <2>1
    <3>2. i <= j BY <1>2, <2>1, <3>1
    <3>3. QED BY <1>1, <2>1, <3>2
  <2>3. QED BY <1>1, <2>1, <2>2 DEF Unplaced
<1> SUFFICES ASSUME NEW p \in FillPlaces, FillCharacter(p, letters) = Empty PROVE FALSE
  OBVIOUS
<1>4. \A j \in U : LetterRank(letters, j) # FillRank(p) BY FillCharacterIs
<1>5. LetterRank(letters, i) \in Nat /\ FillRank(p) \in Nat
  BY <1>3, FillsOrdered, LettersOrdered, RanksGrow DEF LetterRank, FillRank
<1>6. CASE FillRank(p) < LetterRank(letters, i)
  <2>1. \E j \in U : LetterRank(letters, j) = FillRank(p)
    BY <1>3, <1>5, <1>6, LettersOrdered, RanksAreFull DEF LetterRank
  <2>2. QED BY <1>4, <2>1
<1>7. CASE LetterRank(letters, i) < FillRank(p)
  <2>1. PICK q \in FillPlaces : FillRank(q) = LetterRank(letters, i)
    BY <1>5, <1>7, FillsOrdered, RanksAreFull DEF FillRank
  <2>2. PICK j \in U : LetterRank(letters, j) = FillRank(q)
                       /\ FillCharacter(q, letters) = letters[j]
    BY <1>3, <2>1, FillCharacterIs
  <2>3. j = i BY <1>3, <2>1, <2>2, LettersOrdered, RanksDiffer DEF LetterRank
  <2>4. QED BY <1>3, <2>2, <2>3
<1>8. QED BY <1>3, <1>4, <1>5, <1>6, <1>7

\* What updateEnabled makes of a button: a letter of its own, or the next one.
LEMMA ButtonAt ==
  ASSUME NEW pr, NEW space, NEW p \in Places
  PROVE  LET button == Table(pr, space)[p[1]][p[2]]
         IN /\ p \in FillPlaces =>
                 /\ button.character = IF pr.enabled /\ ~pr.invert
                                       THEN FillCharacter(p, pr.letters) ELSE Empty
                 /\ button.enabled <=> button.character # Empty
            /\ p \notin FillPlaces =>
                 /\ button.character = CodeAt(p)
                 /\ button.enabled <=> /\ CodeAt(p) # Empty
                                       /\ Allowed(CodeAt(p), pr)
                                       /\ CodeAt(p) = Space => space
<1>1. p[1] \in DOMAIN Layouts /\ p[2] \in DOMAIN Layouts[p[1]] /\ p = <<p[1], p[2]>>
  BY PlacesFinite
<1> HIDE LayoutsAssumption, PropsAssumption, ToggleAssumption
<1>2. Table(pr, space)[p[1]][p[2]] = ButtonDef(p, pr, space) BY <1>1 DEF Table
<1>3. p \in FillPlaces <=> CodeAt(p) = Fill BY DEF FillPlaces
<1> DEFINE button == Table(pr, space)[p[1]][p[2]]
           c == IF pr.enabled /\ ~pr.invert THEN FillCharacter(p, pr.letters) ELSE Empty
           on == CodeAt(p) # Empty /\ Allowed(CodeAt(p), pr) /\ (CodeAt(p) = Space => space)
<1>4. CASE p \in FillPlaces
  <2>1. button = [character |-> c, enabled |-> c # Empty] BY <1>2, <1>3, <1>4 DEF ButtonDef
  <2> HIDE DEF button, c
  <2>2. button.character = c /\ (button.enabled <=> c # Empty) BY <2>1
  <2>3. QED BY <1>4, <2>2 DEF button, c
<1>5. CASE p \notin FillPlaces
  <2>1. button = [character |-> CodeAt(p), enabled |-> on]
    BY <1>2, <1>3, <1>5 DEF ButtonDef
  <2> HIDE DEF button, on
  <2>2. button.character = CodeAt(p) /\ (button.enabled <=> on) BY <2>1
  <2>3. QED BY <1>5, <2>2 DEF button, on
<1>6. QED BY <1>4, <1>5

\* Of an up-to-date table all that LettersOffered says is true.
LEMMA TableOffers ==
  ASSUME props \in Props, NEW space, buttons = Table(props, space)
  PROVE  LettersOffered
<1> DEFINE letters == props.letters
           named == {letters[i] : i \in DOMAIN letters}
           shown == {p \in Places : buttons[p[1]][p[2]].enabled}
           offered == {buttons[p[1]][p[2]].character : p \in shown}
           char(p) == buttons[p[1]][p[2]].character
<1>1. /\ letters \in Seq(Int \ {Empty, Fill})
      /\ props.invert \in BOOLEAN /\ props.enabled \in BOOLEAN
  OBVIOUS
<1> HIDE LayoutsAssumption, PropsAssumption, ToggleAssumption
<1>2. ASSUME NEW p \in FillPlaces
      PROVE  /\ p \in Places
             /\ char(p) = IF props.enabled /\ ~props.invert
                          THEN FillCharacter(p, letters) ELSE Empty
             /\ p \in shown <=> char(p) # Empty
  <2>1. p \in Places BY DEF FillPlaces
  <2>2. QED BY <2>1, ButtonAt
<1>3. ASSUME NEW p \in Places, p \notin FillPlaces
      PROVE  /\ char(p) = CodeAt(p)
             /\ p \in shown <=> /\ CodeAt(p) # Empty
                                /\ Allowed(CodeAt(p), props)
                                /\ CodeAt(p) = Space => space
  BY <1>3, ButtonAt
<1>4. \A c : c \in named <=> \E i \in DOMAIN letters : letters[i] = c OBVIOUS
<1>5. \A c : c \in offered <=> \E p \in shown : char(p) = c OBVIOUS
<1>6. shown \subseteq Places /\ FillPlaces \subseteq Places BY DEF FillPlaces
<1>7. \A c : Allowed(c, props) <=> /\ props.enabled
                                   /\ props.invert => c \notin named
                                   /\ ~props.invert => c \in named
  BY <1>1 DEF Allowed
<1>8. \A p \in Places \ FillPlaces : CodeAt(p) # Empty => CodeAt(p) \in FixedCharacters
  BY DEF FixedCharacters, FillPlaces
<1>9. \A c \in FixedCharacters :
        /\ c # Empty
        /\ \E p \in Places \ FillPlaces : CodeAt(p) = c
  BY DEF FixedCharacters, FillPlaces
<1> HIDE DEF letters, named, shown, offered, char
<1>10. ASSUME ~props.enabled PROVE offered = {}
  <2> SUFFICES ASSUME NEW p \in shown PROVE FALSE BY <1>5
  <2>1. CASE p \in FillPlaces BY <1>2, <1>10, <2>1
  <2>2. CASE p \notin FillPlaces BY <1>3, <1>6, <1>7, <1>10, <2>2
  <2>3. QED BY <2>1, <2>2
<1>11. ASSUME props.enabled, ~props.invert
       PROVE  /\ offered \subseteq named
              /\ \A c \in (named \ offered) \ {Space} :
                   c \notin FixedCharacters /\ FillPlaces \subseteq shown
              /\ \A p \in shown \cap FillPlaces, q \in shown : char(p) = char(q) => p = q
  <2>1. \A p \in FillPlaces : char(p) = FillCharacter(p, letters) BY <1>2, <1>11
  <2>2. \A p \in FillPlaces \cap shown : \E i \in Unplaced(letters) : char(p) = letters[i]
    BY <1>1, <1>2, <2>1, FillCharacterIs
  <2>3. \A i \in Unplaced(letters) : letters[i] \in named /\ letters[i] \notin FixedCharacters
    BY <1>4 DEF Unplaced
  <2>4. \A p \in shown \ FillPlaces : char(p) = CodeAt(p) /\ CodeAt(p) # Empty
                                      /\ CodeAt(p) \in named
    BY <1>3, <1>6, <1>7, <1>11
  <2>5. offered \subseteq named BY <1>5, <2>2, <2>3, <2>4
  <2>6. ASSUME NEW c \in (named \ offered) \ {Space}
        PROVE  c \notin FixedCharacters /\ FillPlaces \subseteq shown
    <3>1. c \notin FixedCharacters
      <4> SUFFICES ASSUME c \in FixedCharacters PROVE FALSE OBVIOUS
      <4>1. PICK p \in Places \ FillPlaces : CodeAt(p) = c BY <1>9
      <4>2. p \in shown BY <1>3, <1>7, <1>9, <1>11, <4>1
      <4>3. QED BY <1>3, <1>5, <4>1, <4>2
    <3>2. PICK i \in DOMAIN letters : letters[i] = c BY <1>4
    <3>3. c # Empty BY <1>1, <3>2
    <3>4. \A q \in FillPlaces : FillCharacter(q, letters) # c
      <4> SUFFICES ASSUME NEW q \in FillPlaces, FillCharacter(q, letters) = c PROVE FALSE
        OBVIOUS
      <4>1. char(q) = c BY <2>1
      <4>2. QED BY <1>2, <1>5, <3>3, <4>1
    <3>5. \A q \in FillPlaces : FillCharacter(q, letters) # Empty
      BY <1>1, <3>1, <3>2, <3>4, NoneIsFree
    <3>6. FillPlaces \subseteq shown BY <1>2, <2>1, <3>5
    <3>7. QED BY <3>1, <3>6
  <2>7. ASSUME NEW p \in shown \cap FillPlaces, NEW q \in shown, char(p) = char(q)
        PROVE  p = q
    <3>1. CASE q \in FillPlaces
      <4>1. FillCharacter(p, letters) # Empty BY <1>2, <2>1
      <4>2. FillCharacter(p, letters) = FillCharacter(q, letters) BY <2>1, <2>7, <3>1
      <4>3. QED BY <1>1, <3>1, <4>1, <4>2, FillsDiffer
    <3>2. CASE q \notin FillPlaces
      <4>1. char(q) \in FixedCharacters BY <1>6, <1>8, <2>4, <3>2
      <4>2. QED BY <2>2, <2>3, <2>7, <4>1
    <3>3. QED BY <3>1, <3>2
  <2>8. QED BY <2>5, <2>6, <2>7
<1>12. ASSUME props.enabled, props.invert
       PROVE  offered \ {Space} = FixedCharacters \ (named \cup {Space})
  <2>1. shown \cap FillPlaces = {} BY <1>2, <1>12
  <2>2. ASSUME NEW c \in offered, c # Space PROVE c \in FixedCharacters \ named
    <3>1. PICK p \in shown : char(p) = c BY <1>5
    <3>2. p \in Places /\ p \notin FillPlaces BY <1>6, <2>1
    <3>3. CodeAt(p) = c /\ c # Empty /\ Allowed(c, props) BY <1>3, <3>1, <3>2
    <3>4. QED BY <1>7, <1>8, <1>12, <3>2, <3>3
  <2>3. ASSUME NEW c \in FixedCharacters, c \notin named, c # Space PROVE c \in offered
    <3>1. PICK p \in Places \ FillPlaces : CodeAt(p) = c BY <1>9
    <3>2. p \in shown BY <1>3, <1>7, <1>9, <1>12, <2>3, <3>1
    <3>3. QED BY <1>3, <1>5, <3>1, <3>2
  <2>4. QED BY <2>2, <2>3
<1>13. QED BY <1>10, <1>11, <1>12 DEF LettersOffered, letters, named, shown, offered, char

\* Until the next change of the properties the table is the one they ask for.
UpToDate == ~updatePending => buttons = Table(props, bSpaceBtnEnabled)

\* Whatever the application and the user do, once an update is delivered the buttons
\* offer the letters that are allowed and no others, as far as there are buttons.
THEOREM LettersAlwaysOffered == Spec => []LettersOffered
<1>1. Init => UpToDate BY DEF Init, UpToDate
<1>2. UpToDate /\ [Next]_vars => UpToDate'
  <2> SUFFICES ASSUME UpToDate, [Next]_vars PROVE UpToDate' OBVIOUS
  <2>1. CASE ChangeProps BY <2>1 DEF ChangeProps, UpToDate
  <2>2. CASE OnDataUpdate BY <2>2 DEF OnDataUpdate, UpdateEnabled, UpToDate
  <2>3. CASE EntryfieldEmpty BY <2>3 DEF EntryfieldEmpty, UpdateEnabled, UpToDate, appVars
  <2>4. CASE UNCHANGED <<props, updatePending, buttons, bSpaceBtnEnabled>>
    BY <2>4 DEF UpToDate
  <2>5. ChangeProps \/ OnDataUpdate \/ EntryfieldEmpty
        \/ UNCHANGED <<props, updatePending, buttons, bSpaceBtnEnabled>>
    BY DEF Next, vars, appVars, tableVars, ToggleLayout, SetFocus, MoveCursor, PressKey,
           ReleaseKey, TouchPress, TouchRelease, ViewChange, Destructor,
           ContainerGivesFocus, ContainerTakesFocus
  <2>6. QED BY <2>1, <2>2, <2>3, <2>4, <2>5
<1>3. UpToDate /\ WidgetInv => LettersOffered
  <2>1. CASE updatePending BY <2>1 DEF LettersOffered
  <2>2. CASE ~updatePending BY <2>2, TableOffers DEF UpToDate, WidgetInv, Core
  <2>3. QED BY <2>1, <2>2
<1>4. QED BY <1>1, <1>2, <1>3, WidgetHolds, PTL DEF Spec
=============================================================================
