---------------------------- MODULE CondQueueProofs ----------------------------
(***************************************************************************)
(* Proofs about CondQueue, for every batch size and every number of jobs,  *)
(* with spurious wake-ups: no wake-up is lost, jobs are served in order    *)
(* and in full batches, and the code implements BatchQueue.                *)
(***************************************************************************)
EXTENDS CondQueue, SequenceTheorems, TLAPS

\* m1 protects what lies between a lock and the unlock or wait that ends it,
\* and what a thread found out in its test is still true where it uses it.
Discipline ==
  /\ \A t \in Threads : pc[t] \in {"test", "drain", "read", "signal"} => m1 = t
  /\ pc["thread_func1"] \notin {"read", "eq_cv1"}
  /\ pc["thread_func2"] \notin {"drain", "dq_cv2"}
  /\ pc["thread_func1"] = "drain" => queue_count >= Batch
  /\ pc["thread_func2"] = "read" => queue_count < Batch

IInv == /\ TypeOK /\ Discipline /\ NoLostWakeup /\ RoomWhenSignalled
        /\ ServedInBatches

USE BatchAssumption, MaxJobsAssumption

\* The program starts in a state of the invariant.
THEOREM InitIInv == Init => IInv
<1> SUFFICES ASSUME Init PROVE IInv OBVIOUS
<1> USE DEF Init
<1>1. TypeOK BY DEF TypeOK, PCs
<1>2. Discipline BY DEF Discipline, Threads
<1>3. NoLostWakeup /\ RoomWhenSignalled
  BY DEF NoLostWakeup, RoomWhenSignalled, Threads
<1>4. ServedInBatches BY DEF ServedInBatches
<1>5. QED BY <1>1, <1>2, <1>3, <1>4 DEF IInv

-----------------------------------------------------------------------------
(* The control part: who holds m1, and what the tests established.         *)

Control == TypeOK /\ Discipline /\ NoLostWakeup /\ RoomWhenSignalled

\* Every step of either thread keeps it, waits that return for nothing included.
LEMMA NextControl ==
  ASSUME IInv, [Next]_vars
  PROVE  Control'
<1> USE DEF IInv, Control, TypeOK, Discipline, NoLostWakeup, RoomWhenSignalled,
            Goto, queueVars, Threads, CondVars, PCs
<1>1. CASE MainCreate BY <1>1 DEF MainCreate
<1>2. CASE Lock("thread_func1") BY <1>2 DEF Lock, None
<1>3. CASE Lock("thread_func2") BY <1>3 DEF Lock, None
<1>4. CASE ConsumerTest BY <1>4 DEF ConsumerTest, CondWait
<1>5. CASE ProducerTest BY <1>5 DEF ProducerTest, CondWait
<1>6. CASE ConsumerDrain BY <1>6 DEF ConsumerDrain, ServedInBatches
<1>7. CASE ProducerRead BY <1>7 DEF ProducerRead
<1>8. CASE ConsumerSignal BY <1>8 DEF ConsumerSignal, CondSignal, Waiters
<1>9. CASE ProducerSignal BY <1>9 DEF ProducerSignal, CondSignal, Waiters
<1>10. ASSUME NEW t \in Threads, SpuriousWake(t) PROVE Control'
  BY <1>10 DEF SpuriousWake
<1>11. CASE UNCHANGED vars BY <1>11 DEF vars
<1>12. QED
  BY <1>1, <1>2, <1>3, <1>4, <1>5, <1>6, <1>7, <1>8, <1>9, <1>10, <1>11
  DEF Next, Consumer, Producer

-----------------------------------------------------------------------------
(* The data part: what the list, the counter and the drained lists hold.   *)

\* thread_func2 appends the next job and thread_func1 drains a full batch:
\* every step keeps what was served in order.
LEMMA NextServed ==
  ASSUME IInv, [Next]_vars
  PROVE  ServedInBatches'
<1> USE DEF ServedInBatches
<1>1. TypeOK /\ Discipline /\ ServedInBatches BY DEF IInv
<1>2. CASE UNCHANGED <<queue_count, jobs, read_jobs, served>>
  BY <1>1, <1>2
<1>3. CASE ProducerRead
  <2>1. /\ read_jobs' = read_jobs + 1
        /\ jobs' = Append(jobs, read_jobs + 1)
        /\ queue_count' = queue_count + 1
        /\ served' = served
    BY <1>3 DEF ProducerRead
  <2>2. jobs \in Seq(1..MaxJobs) /\ Len(served) * Batch \in Nat
    BY <1>1 DEF TypeOK
  <2>3. /\ Len(jobs') = Len(jobs) + 1
        /\ jobs'[Len(jobs) + 1] = read_jobs + 1
        /\ \A i \in 1..Len(jobs) : jobs'[i] = jobs[i]
    BY <2>1, <2>2
  <2>4. queue_count' = Len(jobs') /\ read_jobs' = Len(served') * Batch + Len(jobs')
    <3> DEFINE done == Len(served) * Batch
    <3>1. read_jobs = done + Len(jobs) /\ queue_count = Len(jobs) BY <1>1
    <3>2. done \in Nat /\ Len(jobs) \in Nat BY <2>2
    <3>3. Len(served') * Batch = done BY <2>1
    <3> HIDE DEF done
    <3>4. QED BY <2>1, <2>3, <3>1, <3>2, <3>3
  <2>5. ASSUME NEW i \in 1..Len(jobs')
        PROVE  jobs'[i] = Len(served') * Batch + i
    <3> DEFINE done == Len(served) * Batch
    <3>1. read_jobs = done + Len(jobs) /\ \A j \in 1..Len(jobs) : jobs[j] = done + j
      BY <1>1
    <3>2. done \in Nat /\ Len(jobs) \in Nat BY <2>2
    <3>3. Len(served') * Batch = done BY <2>1
    <3> HIDE DEF done
    <3>4. CASE i = Len(jobs) + 1 BY <3>4, <2>3, <3>1, <3>2, <3>3
    <3>5. CASE i \in 1..Len(jobs) BY <3>5, <2>3, <3>1, <3>2, <3>3
    <3>6. QED BY <3>4, <3>5, <2>3, <3>2
  <2>6. QED BY <1>1, <2>1, <2>4, <2>5
<1>4. CASE ConsumerDrain
  <2>1. /\ served' = Append(served, jobs)
        /\ queue_count' = queue_count - Len(jobs)
        /\ jobs' = <<>>
        /\ read_jobs' = read_jobs
    BY <1>4 DEF ConsumerDrain
  <2>2. /\ jobs \in Seq(1..MaxJobs) /\ served \in Seq(Seq(1..MaxJobs))
        /\ Len(jobs) = Batch
    BY <1>1, <1>4 DEF TypeOK, Discipline, ConsumerDrain
  <2>3. /\ Len(served') = Len(served) + 1
        /\ served'[Len(served) + 1] = jobs
        /\ \A b \in 1..Len(served) : served'[b] = served[b]
    BY <2>1, <2>2
  <2>4. (Len(served) + 1) * Batch = Len(served) * Batch + Batch BY <2>2
  <2>5. read_jobs' = Len(served') * Batch + Len(jobs')
    BY <1>1, <2>1, <2>2, <2>3, <2>4
  <2>6. jobs = [i \in 1..Batch |-> Len(served) * Batch + i]
    <3>1. jobs = [i \in 1..Len(jobs) |-> jobs[i]] BY <2>2
    <3>2. \A i \in 1..Batch : jobs[i] = Len(served) * Batch + i
      BY <1>1, <2>2
    <3>3. QED BY <3>1, <3>2, <2>2
  <2>7. ASSUME NEW b \in 1..Len(served')
        PROVE  served'[b] = [i \in 1..Batch |-> (b - 1) * Batch + i]
    <3>1. CASE b = Len(served) + 1
      <4>1. b - 1 = Len(served) BY <3>1, <2>2
      <4>2. QED BY <3>1, <4>1, <2>3, <2>6
    <3>2. CASE b \in 1..Len(served) BY <3>2, <1>1, <2>3
    <3>3. b \in 1..Len(served) + 1 /\ Len(served) \in Nat BY <2>2, <2>3
    <3>4. b = Len(served) + 1 \/ b \in 1..Len(served) BY ONLY <3>3
    <3>5. QED BY <3>1, <3>2, <3>4
  <2>8. queue_count' = Len(jobs') BY <1>1, <2>1, <2>2
  <2>9. QED BY <2>1, <2>5, <2>7, <2>8
<1>5. QED
  BY <1>2, <1>3, <1>4
  DEF Next, vars, queueVars, Consumer, Producer, MainCreate, Lock,
      ConsumerTest, ProducerTest, CondWait, ConsumerSignal, ProducerSignal,
      CondSignal, SpuriousWake

\* Every step of the two threads keeps the invariant.
THEOREM NextIInv == IInv /\ [Next]_vars => IInv'
BY NextControl, NextServed DEF IInv, Control

\* The invariant holds in every behaviour of the two threads.
THEOREM IInvHolds == Spec => []IInv
BY InitIInv, NextIInv, PTL DEF Spec

-----------------------------------------------------------------------------
(* What follows.                                                           *)

\* Every variable keeps to its values; in particular the unsigned counter
\* never runs below zero nor above the batch.
THEOREM TypeCorrect == Spec => []TypeOK
BY IInvHolds, PTL DEF IInv

\* Neither thread sleeps through the signal that was meant for it.
THEOREM NoWakeupLost == Spec => []NoLostWakeup
BY IInvHolds, PTL DEF IInv

\* Jobs are served in the order they were read, Batch of them at a time.
THEOREM AlwaysInBatches == Spec => []ServedInBatches
BY IInvHolds, PTL DEF IInv

\* The code's steps are steps of the abstract queue, or change nothing of it.
THEOREM Implements == Spec => BatchSafe
<1>1. Init => Abstract!Init BY DEF Init, Abstract!Init
<1>2. ASSUME IInv, [Next]_vars PROVE [Abstract!Next]_(Abstract!vars)
  <2> USE DEF Abstract!Next, Abstract!vars
  <2>1. CASE UNCHANGED <<jobs, read_jobs>> BY <2>1
  <2>2. CASE ProducerRead
    <3>1. Len(jobs) < Batch
      BY <1>2, <2>2 DEF IInv, Discipline, ServedInBatches, ProducerRead
    <3>2. QED BY <2>2, <3>1 DEF ProducerRead, Abstract!Accept
  <2>3. CASE ConsumerDrain
    <3>1. Len(jobs) = Batch
      BY <1>2, <2>3
      DEF IInv, TypeOK, Discipline, ServedInBatches, ConsumerDrain
    <3>2. QED BY <2>3, <3>1 DEF ConsumerDrain, Abstract!ServeAll
  <2>4. QED
    BY <1>2, <2>1, <2>2, <2>3
    DEF Next, vars, queueVars, Consumer, Producer, MainCreate, Lock,
        ConsumerTest, ProducerTest, CondWait, ConsumerSignal, ProducerSignal,
        CondSignal, SpuriousWake
<1>3. QED BY <1>1, <1>2, IInvHolds, PTL DEF Spec, BatchSafe, Abstract!SafeSpec
=============================================================================
