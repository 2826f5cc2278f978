----------------------------- MODULE ShmRingProofs -----------------------------
(***************************************************************************)
(* Proofs about ShmRing, for an array of any size.                         *)
(***************************************************************************)
EXTENDS ShmRing, TLAPS

\* Where the producer has set the size, and where the consumer relies on it.
SizeIsSet == {"scanf"} \cup {"P"} \cup PCritical
Tested == {"in", "in+1", "count", "count-1"}

\* A count other than 0 shows that a producer has set the size.
SizeKnown == /\ ppc \in SizeIsSet => size = Size
             /\ cpc \in Tested => size = Size
             /\ count # 0 => size = Size

\* The index the consumer has loaded may be old, but not outside the array.
IndexLoaded == cpc = "in+1" => creg \in 0..(Size - 1)

IInv == TypeOK /\ IndicesInArray /\ SizeKnown /\ IndexLoaded

\* Until its only start has set the size the ring is empty and the consumer
\* has not got past its test; from then on count is 1 or more wherever the
\* consumer is about to take one away.
ResetAhead == pruns = 0 \/ ppc \in {"in=0", "out=0", "count=0", "size=50"}
CountKnown == /\ count >= 0
              /\ pruns = 0 => ppc = "off"
              /\ ResetAhead => count = 0 /\ cpc \notin Tested
              /\ ppc = "count+1" => preg >= 0
              /\ cpc \in {"in", "in+1", "count"} => count >= 1
              /\ cpc = "count-1" => creg >= 1 /\ count >= 1
CountInv == pruns <= 1 => CountKnown

USE SizeAssumption

\* The successor of an index of the array is one.
LEMMA AdvanceInArray ==
  ASSUME NEW i \in 0..(Size - 1), size = Size PROVE Advance(i) \in 0..(Size - 1)
BY DEF Advance

\* The semop that fails leaves the semaphore as it is.
LEMMA SemOpFails == ASSUME NEW d, SemOp(d) PROVE semval' = semval
BY DEF SemOp, NSems, SemNum

\* The segment is all zero before its first use.
THEOREM InitIInv == Init => IInv
BY DEF Init, IInv, TypeOK, IndicesInArray, SizeKnown, IndexLoaded, SizeIsSet, Tested,
       PPCs, CPCs, PCritical, CCritical

\* Every step of either process keeps the invariant.
THEOREM NextIInv == IInv /\ [Next]_vars => IInv'
<1> SUFFICES ASSUME IInv, [Next]_vars PROVE IInv' OBVIOUS
<1> USE DEF IInv, TypeOK, IndicesInArray, SizeKnown, IndexLoaded, SizeIsSet,
            Tested, PPCs, CPCs, PCritical, CCritical, segment, producer, consumer
<1>1. CASE ProducerStart BY <1>1 DEF ProducerStart
<1>2. CASE ProducerResetIn BY <1>2 DEF ProducerResetIn
<1>3. CASE ProducerResetOut BY <1>3 DEF ProducerResetOut
<1>4. CASE ProducerResetCount BY <1>4 DEF ProducerResetCount
<1>5. CASE ProducerSetSize BY <1>5 DEF ProducerSetSize
<1>6. CASE ProducerScanf BY <1>6 DEF ProducerScanf
<1>7. CASE ProducerP BY <1>7, SemOpFails DEF ProducerP
<1>8. CASE ProducerTest BY <1>8 DEF ProducerTest
<1>9. CASE ProducerStore
  <2>1. out \in 0..(Size - 1) /\ size = Size BY <1>9 DEF ProducerStore
  <2>2. out' \in 0..(Size - 1) BY <1>9, <2>1, AdvanceInArray DEF ProducerStore
  <2>3. QED BY <1>9, <2>1, <2>2 DEF ProducerStore
<1>10. CASE ProducerLoadCount BY <1>10 DEF ProducerLoadCount
<1>11. CASE ProducerStoreCount BY <1>11 DEF ProducerStoreCount
<1>12. CASE ProducerV BY <1>12, SemOpFails DEF ProducerV
<1>13. CASE ProducerKilled BY <1>13 DEF ProducerKilled
<1>14. CASE ConsumerStart BY <1>14 DEF ConsumerStart
<1>15. CASE ConsumerP BY <1>15, SemOpFails DEF ConsumerP
<1>16. CASE ConsumerTest BY <1>16 DEF ConsumerTest
<1>17. CASE ConsumerLoadIn BY <1>17 DEF ConsumerLoadIn
<1>18. CASE ConsumerStoreIn
  <2>1. creg \in 0..(Size - 1) /\ size = Size BY <1>18 DEF ConsumerStoreIn
  <2>2. in' \in 0..(Size - 1) BY <1>18, <2>1, AdvanceInArray DEF ConsumerStoreIn
  <2>3. QED BY <1>18, <2>1, <2>2 DEF ConsumerStoreIn
<1>19. CASE ConsumerLoadCount BY <1>19 DEF ConsumerLoadCount
<1>20. CASE ConsumerStoreCount BY <1>20 DEF ConsumerStoreCount
<1>21. CASE ConsumerV BY <1>21, SemOpFails DEF ConsumerV
<1>22. CASE ConsumerKilled BY <1>22 DEF ConsumerKilled
<1>23. CASE UNCHANGED vars BY <1>23 DEF vars
<1>24. QED
  BY <1>1, <1>2, <1>3, <1>4, <1>5, <1>6, <1>7, <1>8, <1>9, <1>10, <1>11, <1>12, <1>13, <1>14,
      <1>15, <1>16, <1>17, <1>18, <1>19, <1>20, <1>21, <1>22, <1>23
     DEF Next, Producer, Consumer

\* The invariant holds whatever is killed and started again, and when.
THEOREM IInvHolds == Spec => []IInv
BY InitIInv, NextIInv, PTL DEF Spec

\* Every variable keeps to its values.
THEOREM TypeCorrect == Spec => []TypeOK
BY IInvHolds, PTL DEF IInv

\* Neither process leaves the array.
THEOREM ArrayRespected == Spec => []IndicesInArray
BY IInvHolds, PTL DEF IInv

\* Neither process divides by zero, whichever is started first.
THEOREM NeverDividesByZero == Spec => []NoDivisionByZero
<1>1. IInv => NoDivisionByZero
  BY DEF IInv, SizeKnown, SizeIsSet, Tested, PCritical, NoDivisionByZero
<1>2. QED BY <1>1, IInvHolds, PTL

-----------------------------------------------------------------------------
(* A producer that is started once.                                        *)

\* Nothing has been counted when the processes start.
LEMMA InitCount == Init => CountInv
BY DEF Init, CountInv, CountKnown, ResetAhead, Tested

\* Every step keeps the count where the consumer needs it.
LEMMA NextCount ==
  ASSUME IInv, CountInv, [Next]_vars PROVE CountInv'
<1> USE DEF IInv, TypeOK, segment, producer, consumer
<1> SUFFICES ASSUME pruns' <= 1 PROVE CountKnown' BY DEF CountInv
<1>0. pruns <= pruns' /\ pruns \in Nat /\ pruns' \in Nat
  BY DEF Next, vars, Producer, ProducerStart, ProducerResetIn, ProducerResetOut,
         ProducerResetCount, ProducerSetSize, ProducerScanf, ProducerP, ProducerTest,
         ProducerStore, ProducerLoadCount, ProducerStoreCount, ProducerV, ProducerKilled,
         Consumer, ConsumerStart, ConsumerP, ConsumerTest, ConsumerLoadIn,
         ConsumerStoreIn, ConsumerLoadCount, ConsumerStoreCount, ConsumerV,
         ConsumerKilled
<1> CountKnown BY <1>0 DEF CountInv
<1> USE DEF CountKnown, ResetAhead, Tested
<1>1. CASE ProducerStart BY <1>1 DEF ProducerStart
<1>2. CASE ProducerResetIn BY <1>2 DEF ProducerResetIn
<1>3. CASE ProducerResetOut BY <1>3 DEF ProducerResetOut
<1>4. CASE ProducerResetCount BY <1>4 DEF ProducerResetCount
<1>5. CASE ProducerSetSize BY <1>5 DEF ProducerSetSize
<1>6. CASE ProducerScanf BY <1>6 DEF ProducerScanf
<1>7. CASE ProducerP BY <1>7 DEF ProducerP
<1>8. CASE ProducerTest BY <1>8 DEF ProducerTest
<1>9. CASE ProducerStore BY <1>9 DEF ProducerStore
<1>10. CASE ProducerLoadCount BY <1>10 DEF ProducerLoadCount
<1>11. CASE ProducerStoreCount BY <1>11 DEF ProducerStoreCount
<1>12. CASE ProducerV BY <1>12 DEF ProducerV
<1>13. CASE ProducerKilled BY <1>13 DEF ProducerKilled
<1>14. CASE ConsumerStart BY <1>14 DEF ConsumerStart
<1>15. CASE ConsumerP BY <1>15 DEF ConsumerP
<1>16. CASE ConsumerTest BY <1>16 DEF ConsumerTest
<1>17. CASE ConsumerLoadIn BY <1>17 DEF ConsumerLoadIn
<1>18. CASE ConsumerStoreIn BY <1>18 DEF ConsumerStoreIn
<1>19. CASE ConsumerLoadCount BY <1>19 DEF ConsumerLoadCount
<1>20. CASE ConsumerStoreCount BY <1>20 DEF ConsumerStoreCount
<1>21. CASE ConsumerV BY <1>21 DEF ConsumerV
<1>22. CASE ConsumerKilled BY <1>22 DEF ConsumerKilled
<1>23. CASE UNCHANGED vars BY <1>23 DEF vars
<1>24. QED
  BY <1>1, <1>2, <1>3, <1>4, <1>5, <1>6, <1>7, <1>8, <1>9, <1>10, <1>11, <1>12, <1>13, <1>14,
      <1>15, <1>16, <1>17, <1>18, <1>19, <1>20, <1>21, <1>22, <1>23
     DEF Next, Producer, Consumer

\* The count never falls below 0 until the producer is started again.
THEOREM CountStaysNatural == Spec => []CountNeverNegative
<1>1. IInv /\ CountInv /\ [Next]_vars => CountInv' BY NextCount
<1>2. CountInv => CountNeverNegative BY DEF CountInv, CountKnown, CountNeverNegative
<1>3. QED BY <1>1, <1>2, InitCount, IInvHolds, PTL DEF Spec
=============================================================================
