---------------------------- MODULE ProdConsProofs ----------------------------
(***************************************************************************)
(* Proofs about ProdCons, for every number of slots and every bound on the *)
(* typed lines, whatever sem_init calls fail.                              *)
(***************************************************************************)
EXTENDS ProdCons, SequenceTheorems, TLAPS

-----------------------------------------------------------------------------
(* The inductive invariant.                                                *)

\* The shape of the state, without the claim that filledslots fits the ring.
Shape ==
  /\ pc \in [Threads -> PCs]
  /\ mode \in [Threads -> {"run", "slow", "asleep"}]
  /\ mutex \in [Mutexes -> Threads \cup {None}]
  /\ sem \in [Semaphores -> Nat]
  /\ nwaiters \in [Semaphores -> 0..(WaiterLimit - 1)]
  /\ initonce \in {"never", "running", "done"}
  /\ initdone \in BOOLEAN /\ initerror \in BOOLEAN
  /\ buffer \in [0..(Slots - 1) -> Lines \cup {NoLine}]
  /\ bufin \in 0..(Slots - 1) /\ bufout \in 0..(Slots - 1)
  /\ filledslots \in Int /\ freeslots \in Int
  /\ user_input_buffer \in Lines \cup {NoLine}
  /\ typed \in 0..MaxLines
  /\ stored \in Seq(Lines \cup {NoLine}) /\ fetched \in Seq(Lines \cup {NoLine})
  /\ alive \in BOOLEAN

Copying == pc["user"] \in {"input_buffer_lock", "copy"} => typed \in Lines

\* Where the two threads are before they touch semitems and semslots.
Early(t) == pc[t] \in {"unborn", "seminput", "input_buffer_lock", "initdone",
                       "pthread_once", "bufferinit", "finish"}
Initialising(t) == pc[t] \in {"bufferinit", "finish"}

\* One thread at a time initialises, and until it has finished nobody is past
\* the first wait of getitem or putitem.
OnceOnly ==
  /\ Initialising("consumer") => ~Initialising("producer")
  /\ initonce # "running" =>
       ~Initialising("consumer") /\ ~Initialising("producer")
  /\ initonce # "done" => Early("consumer") /\ Early("producer") /\ ~initdone

\* Until bufferinit has run, the ring's semaphores are what static storage
\* makes them.
NotYet == initonce = "never" \/ \E t \in {"consumer", "producer"} : pc[t] = "bufferinit"
Untouched == NotYet =>
               sem["semitems"] = 0 /\ sem["semslots"] = 0 /\ filledslots = 0

Granted == /\ ItemsInHand = filledslots
           /\ SlotsInHand \in {0, Slots}
           /\ ~NotYet /\ SemInitFails = {} => SlotsInHand = Slots

IInv == Shape /\ Copying /\ OnceOnly /\ Untouched /\ Granted

USE SlotsAssumption, MaxLinesAssumption, WaiterLimitAssumption,
    SemInitFailsAssumption

-----------------------------------------------------------------------------
\* main creates a thread that does not exist yet.
LEMMA NextBornIsUnborn ==
  ASSUME Unborn # {}
  PROVE  NextBorn \in Threads /\ pc[NextBorn] = "unborn"
<1>1. \E i \in Unborn : \A j \in Unborn : i <= j
  <2>1. CASE 1 \in Unborn BY <2>1 DEF Unborn
  <2>2. CASE 1 \notin Unborn /\ 2 \in Unborn BY <2>2 DEF Unborn
  <2>3. CASE 1 \notin Unborn /\ 2 \notin Unborn /\ 3 \in Unborn
    BY <2>3 DEF Unborn
  <2>4. CASE 1 \notin Unborn /\ 2 \notin Unborn /\ 3 \notin Unborn
    BY <2>4 DEF Unborn
  <2>5. QED BY <2>1, <2>2, <2>3, <2>4
<1>2. PICK k : k = (CHOOSE i \in Unborn : \A j \in Unborn : i <= j) OBVIOUS
<1>3. k \in Unborn BY <1>1, <1>2
<1>4. k \in 1..4 /\ pc[CreationOrder[k]] = "unborn" BY <1>3 DEF Unborn
<1>5. NextBorn = CreationOrder[k] BY <1>2 DEF NextBorn
<1>6. CreationOrder[k] \in Threads BY <1>4 DEF CreationOrder, Threads
<1>7. QED BY <1>4, <1>5, <1>6

\* bufin and bufout stay in the ring.
LEMMA NextSlotInRing ==
  ASSUME NEW i \in 0..(Slots - 1)
  PROVE  NextSlot(i) \in 0..(Slots - 1)
BY DEF NextSlot

\* The process starts in a state of the invariant.
THEOREM InitIInv == Init => IInv
<1> SUFFICES ASSUME Init PROVE IInv OBVIOUS
<1> USE DEF Init
<1>1. Shape
  <2>1. pc \in [Threads -> PCs] BY DEF PCs
  <2>2. mode \in [Threads -> {"run", "slow", "asleep"}] OBVIOUS
  <2>3. mutex \in [Mutexes -> Threads \cup {None}] OBVIOUS
  <2>4. sem \in [Semaphores -> Nat] OBVIOUS
  <2>5. nwaiters \in [Semaphores -> 0..(WaiterLimit - 1)] OBVIOUS
  <2>6. buffer \in [0..(Slots - 1) -> Lines \cup {NoLine}] OBVIOUS
  <2>7. /\ bufin \in 0..(Slots - 1) /\ bufout \in 0..(Slots - 1)
        /\ filledslots \in Int /\ freeslots \in Int
        /\ typed \in 0..MaxLines
    OBVIOUS
  <2>8. stored \in Seq(Lines \cup {NoLine}) /\ fetched \in Seq(Lines \cup {NoLine})
    OBVIOUS
  <2>9. QED BY <2>1, <2>2, <2>3, <2>4, <2>5, <2>6, <2>7, <2>8 DEF Shape
<1>2. Copying BY DEF Copying, Threads
<1>3. OnceOnly BY DEF OnceOnly, Early, Initialising, Threads
<1>4. Untouched BY DEF Untouched, Semaphores
<1>5. Granted
  BY DEF Granted, ItemsInHand, SlotsInHand, NotYet, One, Semaphores, Threads
<1>6. QED BY <1>1, <1>2, <1>3, <1>4, <1>5 DEF IInv
\* A remainder by the width of the waiter count fits the waiter count.
LEMMA WaiterCountFits ==
  ASSUME NEW n \in Int
  PROVE  n % WaiterLimit \in 0..(WaiterLimit - 1)
OBVIOUS

\* sem_wait, whether it takes or sleeps, changes the thread's own entries and
\* the semaphore's.
LEMMA SemWaitShape ==
  ASSUME Shape, NEW t \in Threads, NEW s \in Semaphores, NEW l \in PCs,
         SemTake(t, s, l) \/ SemSleep(t, s)
  PROVE  /\ pc' \in [Threads -> PCs]
         /\ mode' \in [Threads -> {"run", "slow", "asleep"}]
         /\ mutex' = mutex
         /\ sem' \in [Semaphores -> Nat]
         /\ nwaiters' \in [Semaphores -> 0..(WaiterLimit - 1)]
         /\ alive' \in BOOLEAN
<1> USE DEF Shape, SemTake, SemSleep, Goto, semVars
<1>1. s \in PCs BY DEF PCs
<1>2. pc' \in [Threads -> PCs] BY <1>1
<1>3. mode' \in [Threads -> {"run", "slow", "asleep"}] OBVIOUS
<1>4. sem' \in [Semaphores -> Nat]
  <2>1. CASE SemSleep(t, s) BY <2>1
  <2>2. CASE SemTake(t, s, l)
    <3>1. sem[s] - 1 \in Nat BY <2>2
    <3>2. QED BY <2>2, <3>1
  <2>3. QED BY <2>1, <2>2
<1>5. /\ (nwaiters[s] - 1) % WaiterLimit \in 0..(WaiterLimit - 1)
      /\ (nwaiters[s] + 1) % WaiterLimit \in 0..(WaiterLimit - 1)
  <2>1. nwaiters[s] \in Int OBVIOUS
  <2>2. nwaiters[s] - 1 \in Int /\ nwaiters[s] + 1 \in Int BY <2>1
  <2>3. QED BY <2>2, WaiterCountFits
<1>6. nwaiters' \in [Semaphores -> 0..(WaiterLimit - 1)] BY <1>5
<1>7. mutex' = mutex /\ alive' \in BOOLEAN OBVIOUS
<1>8. QED BY ONLY <1>2, <1>3, <1>4, <1>6, <1>7

\* What sem_post leaves.
LEMMA SemPostShape ==
  ASSUME Shape, NEW t \in Threads, NEW s \in Semaphores, NEW l \in PCs,
         SemPost(t, s, l)
  PROVE  /\ pc' = [pc EXCEPT ![t] = l] /\ pc' \in [Threads -> PCs]
         /\ mode' \in [Threads -> {"run", "slow", "asleep"}]
         /\ mutex' = mutex
         /\ sem' = [sem EXCEPT ![s] = @ + 1] /\ sem' \in [Semaphores -> Nat]
         /\ nwaiters' = nwaiters
         /\ alive' \in BOOLEAN
<1> USE DEF Shape, SemPost, Goto
<1>1. mode' \in [Threads -> {"run", "slow", "asleep"}]
  BY DEF SemWake, SleepersOf
<1>2. sem[s] + 1 \in Nat OBVIOUS
<1>3. sem' \in [Semaphores -> Nat] BY <1>2
<1>4. pc' = [pc EXCEPT ![t] = l] /\ pc' \in [Threads -> PCs] OBVIOUS
<1>5. /\ mutex' = mutex /\ nwaiters' = nwaiters /\ alive' \in BOOLEAN
      /\ sem' = [sem EXCEPT ![s] = @ + 1]
  OBVIOUS
<1>6. QED BY ONLY <1>1, <1>3, <1>4, <1>5

\* Every step keeps the invariant, part by part.

\* The shape: the values every variable may have.
LEMMA NextShape ==
  ASSUME IInv, [Next]_vars
  PROVE  Shape'
<1> USE DEF IInv, Shape, Goto, Lock, Unlock, FirstWait, Threads, Semaphores, Mutexes, vars,
    threadVars, semVars, initVars, ringVars, inputVars
<1>1. CASE UserRead
  BY <1>1 DEF UserRead, PCs
<1>2. CASE UserLock
  BY <1>2 DEF UserLock, PCs
<1>3. CASE UserCopy
  <2>1. typed \in Lines BY <1>3 DEF UserCopy, Copying
  <2>2. QED BY <1>3, <2>1 DEF UserCopy, PCs
<1>4. CASE UserPost
  <2>1. SemPost("user", "seminput", "fgets") /\ UNCHANGED <<initVars, ringVars, inputVars>>
    BY <1>4 DEF UserPost
  <2>2. "user" \in Threads /\ "seminput" \in Semaphores /\ "fgets" \in PCs
    BY DEF PCs
  <2>3. QED BY <2>1, <2>2, SemPostShape
<1>5. CASE ProducerWaitInput
  <2>1. SemTake("producer", "seminput", "input_buffer_lock") \/ SemSleep("producer", "seminput")
    BY <1>5 DEF ProducerWaitInput
  <2>2. "producer" \in Threads /\ "seminput" \in Semaphores /\ "input_buffer_lock" \in PCs
    BY DEF PCs
  <2>3. UNCHANGED <<initVars, ringVars, inputVars>> BY <1>5 DEF ProducerWaitInput
  <2>4. QED BY <2>1, <2>2, <2>3, SemWaitShape
<1>6. CASE ProducerLockInput
  BY <1>6 DEF ProducerLockInput, PCs
<1>7. CASE ProducerWaitSlot
  <2>1. SemTake("producer", "semslots", "data_buffer_lock") \/ SemSleep("producer", "semslots")
    BY <1>7 DEF ProducerWaitSlot
  <2>2. "producer" \in Threads /\ "semslots" \in Semaphores /\ "data_buffer_lock" \in PCs
    BY DEF PCs
  <2>3. UNCHANGED <<initVars, ringVars, inputVars>> BY <1>7 DEF ProducerWaitSlot
  <2>4. QED BY <2>1, <2>2, <2>3, SemWaitShape
<1>8. CASE ProducerLockData
  BY <1>8 DEF ProducerLockData, PCs
<1>9. CASE PutItem
  <2>1. NextSlot(bufin) \in 0..(Slots - 1) BY NextSlotInRing
  <2>2. stored' \in Seq(Lines \cup {NoLine}) BY <1>9 DEF PutItem
  <2>3. buffer' \in [0..(Slots - 1) -> Lines \cup {NoLine}] BY <1>9 DEF PutItem
  <2>4. QED BY <1>9, <2>1, <2>2, <2>3 DEF PutItem, PCs
<1>10. CASE ProducerPostItem
  <2>1. SemPost("producer", "semitems", "unlock_input") /\ UNCHANGED <<initVars, ringVars, inputVars>>
    BY <1>10 DEF ProducerPostItem
  <2>2. "producer" \in Threads /\ "semitems" \in Semaphores /\ "unlock_input" \in PCs
    BY DEF PCs
  <2>3. QED BY <2>1, <2>2, SemPostShape
<1>11. CASE ProducerUnlockInput
  BY <1>11 DEF ProducerUnlockInput, PCs
<1>12. CASE ConsumerWaitItem
  <2>1. SemTake("consumer", "semitems", "data_buffer_lock") \/ SemSleep("consumer", "semitems")
    BY <1>12 DEF ConsumerWaitItem
  <2>2. "consumer" \in Threads /\ "semitems" \in Semaphores /\ "data_buffer_lock" \in PCs
    BY DEF PCs
  <2>3. UNCHANGED <<initVars, ringVars, inputVars>> BY <1>12 DEF ConsumerWaitItem
  <2>4. QED BY <2>1, <2>2, <2>3, SemWaitShape
<1>13. CASE ConsumerLockData
  BY <1>13 DEF ConsumerLockData, PCs
<1>14. CASE GetItem
  <2>1. NextSlot(bufout) \in 0..(Slots - 1) BY NextSlotInRing
  <2>2. fetched' \in Seq(Lines \cup {NoLine}) BY <1>14 DEF GetItem
  <2>3. QED BY <1>14, <2>1, <2>2 DEF GetItem, PCs
<1>15. CASE ConsumerPostSlot
  <2>1. SemPost("consumer", "semslots", "initdone") /\ UNCHANGED <<initVars, ringVars, inputVars>>
    BY <1>15 DEF ConsumerPostSlot
  <2>2. "consumer" \in Threads /\ "semslots" \in Semaphores /\ "initdone" \in PCs
    BY DEF PCs
  <2>3. QED BY <2>1, <2>2, SemPostShape
<1>16. CASE DisplayUnblock
  BY <1>16 DEF DisplayUnblock, PCs
<1>17. CASE DisplayLock
  BY <1>17 DEF DisplayLock, PCs
<1>18. CASE DisplayUnlock
  BY <1>18 DEF DisplayUnlock, PCs
<1>19. CASE MainCreate
  <2>1. NextBorn \in Threads BY <1>19, NextBornIsUnborn DEF MainCreate
  <2>2. Entry[NextBorn] \in PCs BY <2>1 DEF Entry, PCs
  <2>3. QED BY <1>19, <2>1, <2>2 DEF MainCreate
<1>20. CASE ProcessEnds
  BY <1>20 DEF ProcessEnds
<1>21. ASSUME NEW t \in {"consumer", "producer"}, CheckInitdone(t)
      PROVE  Shape'
  BY <1>21 DEF CheckInitdone, PCs
<1>22. ASSUME NEW t \in {"consumer", "producer"}, OnceFirst(t)
      PROVE  Shape'
  BY <1>22 DEF OnceFirst, PCs
<1>23. ASSUME NEW t \in {"consumer", "producer"}, OnceLater(t)
      PROVE  Shape'
  BY <1>23 DEF OnceLater, PCs
<1>24. ASSUME NEW t \in {"consumer", "producer"}, BufferInit(t)
      PROVE  Shape'
  <2>1. sem' \in [Semaphores -> Nat]
    BY <1>24 DEF BufferInit, InitialValue, Reached
  <2>2. nwaiters' \in [Semaphores -> 0..(WaiterLimit - 1)]
    BY <1>24 DEF BufferInit
  <2>3. initerror' \in BOOLEAN BY <1>24 DEF BufferInit
  <2>4. QED BY <1>24, <2>1, <2>2, <2>3 DEF BufferInit, PCs
<1>25. ASSUME NEW t \in {"consumer", "producer"}, Initialization(t)
      PROVE  Shape'
  BY <1>25 DEF Initialization, PCs
<1>26. CASE UNCHANGED vars
  BY <1>26
<1>27. QED BY <1>1, <1>2, <1>3, <1>4, <1>5, <1>6, <1>7, <1>8, <1>9, <1>10,
      <1>11, <1>12, <1>13, <1>14, <1>15, <1>16, <1>17, <1>18, <1>19, <1>20,
      <1>21, <1>22, <1>23, <1>24, <1>25, <1>26 DEF Next, UserStep,
      ProducerStep, ConsumerStep, DisplayStep, InitStep

\* While user_input_thread copies a line it has read one.
LEMMA NextCopying ==
  ASSUME IInv, [Next]_vars
  PROVE  Copying'
<1> USE DEF IInv, Shape, Copying, Lines, SemTake, SemSleep, SemPost, Goto, Lock, Unlock,
    FirstWait, Threads, Semaphores, Mutexes, vars, threadVars, semVars, initVars, ringVars,
    inputVars
<1>1. CASE UserRead
  BY <1>1 DEF UserRead
<1>2. CASE UserLock
  BY <1>2 DEF UserLock
<1>3. CASE UserCopy
  BY <1>3 DEF UserCopy
<1>4. CASE UserPost
  BY <1>4 DEF UserPost
<1>5. CASE ProducerWaitInput
  BY <1>5 DEF ProducerWaitInput
<1>6. CASE ProducerLockInput
  BY <1>6 DEF ProducerLockInput
<1>7. CASE ProducerWaitSlot
  BY <1>7 DEF ProducerWaitSlot
<1>8. CASE ProducerLockData
  BY <1>8 DEF ProducerLockData
<1>9. CASE PutItem
  BY <1>9 DEF PutItem
<1>10. CASE ProducerPostItem
  BY <1>10 DEF ProducerPostItem
<1>11. CASE ProducerUnlockInput
  BY <1>11 DEF ProducerUnlockInput
<1>12. CASE ConsumerWaitItem
  BY <1>12 DEF ConsumerWaitItem
<1>13. CASE ConsumerLockData
  BY <1>13 DEF ConsumerLockData
<1>14. CASE GetItem
  BY <1>14 DEF GetItem
<1>15. CASE ConsumerPostSlot
  BY <1>15 DEF ConsumerPostSlot
<1>16. CASE DisplayUnblock
  BY <1>16 DEF DisplayUnblock
<1>17. CASE DisplayLock
  BY <1>17 DEF DisplayLock
<1>18. CASE DisplayUnlock
  BY <1>18 DEF DisplayUnlock
<1>19. CASE MainCreate
  <2>1. NextBorn \in Threads /\ pc[NextBorn] = "unborn"
    BY <1>19, NextBornIsUnborn DEF MainCreate
  <2>2. QED BY <1>19, <2>1 DEF MainCreate, Entry
<1>20. CASE ProcessEnds
  BY <1>20 DEF ProcessEnds
<1>21. ASSUME NEW t \in {"consumer", "producer"}, CheckInitdone(t)
      PROVE  Copying'
  BY <1>21 DEF CheckInitdone
<1>22. ASSUME NEW t \in {"consumer", "producer"}, OnceFirst(t)
      PROVE  Copying'
  BY <1>22 DEF OnceFirst
<1>23. ASSUME NEW t \in {"consumer", "producer"}, OnceLater(t)
      PROVE  Copying'
  BY <1>23 DEF OnceLater
<1>24. ASSUME NEW t \in {"consumer", "producer"}, BufferInit(t)
      PROVE  Copying'
  BY <1>24 DEF BufferInit
<1>25. ASSUME NEW t \in {"consumer", "producer"}, Initialization(t)
      PROVE  Copying'
  BY <1>25 DEF Initialization
<1>26. CASE UNCHANGED vars
  BY <1>26
<1>27. QED BY <1>1, <1>2, <1>3, <1>4, <1>5, <1>6, <1>7, <1>8, <1>9, <1>10,
      <1>11, <1>12, <1>13, <1>14, <1>15, <1>16, <1>17, <1>18, <1>19, <1>20,
      <1>21, <1>22, <1>23, <1>24, <1>25, <1>26 DEF Next, UserStep,
      ProducerStep, ConsumerStep, DisplayStep, InitStep

\* pthread_once lets one thread initialise, once, and the other one wait.
LEMMA NextOnceOnly ==
  ASSUME IInv, [Next]_vars
  PROVE  OnceOnly'
<1> USE DEF IInv, Shape, OnceOnly, Early, Initialising, SemTake, SemSleep, SemPost, Goto,
    Lock, Unlock, FirstWait, Threads, Semaphores, Mutexes, vars, threadVars, semVars,
    initVars, ringVars, inputVars
<1>1. CASE UserRead
  BY <1>1 DEF UserRead
<1>2. CASE UserLock
  BY <1>2 DEF UserLock
<1>3. CASE UserCopy
  BY <1>3 DEF UserCopy
<1>4. CASE UserPost
  BY <1>4 DEF UserPost
<1>5. CASE ProducerWaitInput
  BY <1>5 DEF ProducerWaitInput
<1>6. CASE ProducerLockInput
  BY <1>6 DEF ProducerLockInput
<1>7. CASE ProducerWaitSlot
  BY <1>7 DEF ProducerWaitSlot
<1>8. CASE ProducerLockData
  BY <1>8 DEF ProducerLockData
<1>9. CASE PutItem
  BY <1>9 DEF PutItem
<1>10. CASE ProducerPostItem
  BY <1>10 DEF ProducerPostItem
<1>11. CASE ProducerUnlockInput
  BY <1>11 DEF ProducerUnlockInput
<1>12. CASE ConsumerWaitItem
  BY <1>12 DEF ConsumerWaitItem
<1>13. CASE ConsumerLockData
  BY <1>13 DEF ConsumerLockData
<1>14. CASE GetItem
  BY <1>14 DEF GetItem
<1>15. CASE ConsumerPostSlot
  BY <1>15 DEF ConsumerPostSlot
<1>16. CASE DisplayUnblock
  BY <1>16 DEF DisplayUnblock
<1>17. CASE DisplayLock
  BY <1>17 DEF DisplayLock
<1>18. CASE DisplayUnlock
  BY <1>18 DEF DisplayUnlock
<1>19. CASE MainCreate
  <2>1. NextBorn \in Threads /\ pc[NextBorn] = "unborn"
    BY <1>19, NextBornIsUnborn DEF MainCreate
  <2>2. QED BY <1>19, <2>1 DEF MainCreate, Entry
<1>20. CASE ProcessEnds
  BY <1>20 DEF ProcessEnds
<1>21. ASSUME NEW t \in {"consumer", "producer"}, CheckInitdone(t)
      PROVE  OnceOnly'
  BY <1>21 DEF CheckInitdone
<1>22. ASSUME NEW t \in {"consumer", "producer"}, OnceFirst(t)
      PROVE  OnceOnly'
  BY <1>22 DEF OnceFirst
<1>23. ASSUME NEW t \in {"consumer", "producer"}, OnceLater(t)
      PROVE  OnceOnly'
  BY <1>23 DEF OnceLater
<1>24. ASSUME NEW t \in {"consumer", "producer"}, BufferInit(t)
      PROVE  OnceOnly'
  BY <1>24 DEF BufferInit
<1>25. ASSUME NEW t \in {"consumer", "producer"}, Initialization(t)
      PROVE  OnceOnly'
  BY <1>25 DEF Initialization
<1>26. CASE UNCHANGED vars
  BY <1>26
<1>27. QED BY <1>1, <1>2, <1>3, <1>4, <1>5, <1>6, <1>7, <1>8, <1>9, <1>10,
      <1>11, <1>12, <1>13, <1>14, <1>15, <1>16, <1>17, <1>18, <1>19, <1>20,
      <1>21, <1>22, <1>23, <1>24, <1>25, <1>26 DEF Next, UserStep,
      ProducerStep, ConsumerStep, DisplayStep, InitStep

\* Nothing touches semitems and semslots before bufferinit.
LEMMA NextUntouched ==
  ASSUME IInv, [Next]_vars
  PROVE  Untouched'
<1> USE DEF IInv, Shape, OnceOnly, Early, Initialising, NotYet, Untouched, SemTake, SemSleep,
    SemPost, Goto, Lock, Unlock, FirstWait, Threads, Semaphores, Mutexes, vars, threadVars,
    semVars, initVars, ringVars, inputVars
<1>1. CASE UserRead
  BY <1>1 DEF UserRead
<1>2. CASE UserLock
  BY <1>2 DEF UserLock
<1>3. CASE UserCopy
  BY <1>3 DEF UserCopy
<1>4. CASE UserPost
  BY <1>4 DEF UserPost
<1>5. CASE ProducerWaitInput
  BY <1>5 DEF ProducerWaitInput
<1>6. CASE ProducerLockInput
  BY <1>6 DEF ProducerLockInput
<1>7. CASE ProducerWaitSlot
  BY <1>7, SMTT(60) DEF ProducerWaitSlot
<1>8. CASE ProducerLockData
  BY <1>8 DEF ProducerLockData
<1>9. CASE PutItem
  BY <1>9 DEF PutItem
<1>10. CASE ProducerPostItem
  BY <1>10 DEF ProducerPostItem
<1>11. CASE ProducerUnlockInput
  BY <1>11 DEF ProducerUnlockInput
<1>12. CASE ConsumerWaitItem
  BY <1>12, SMTT(60) DEF ConsumerWaitItem
<1>13. CASE ConsumerLockData
  BY <1>13 DEF ConsumerLockData
<1>14. CASE GetItem
  BY <1>14 DEF GetItem
<1>15. CASE ConsumerPostSlot
  BY <1>15 DEF ConsumerPostSlot
<1>16. CASE DisplayUnblock
  BY <1>16 DEF DisplayUnblock
<1>17. CASE DisplayLock
  BY <1>17 DEF DisplayLock
<1>18. CASE DisplayUnlock
  BY <1>18 DEF DisplayUnlock
<1>19. CASE MainCreate
  <2>1. NextBorn \in Threads /\ pc[NextBorn] = "unborn"
    BY <1>19, NextBornIsUnborn DEF MainCreate
  <2>2. QED BY <1>19, <2>1 DEF MainCreate, Entry
<1>20. CASE ProcessEnds
  BY <1>20 DEF ProcessEnds
<1>21. ASSUME NEW t \in {"consumer", "producer"}, CheckInitdone(t)
      PROVE  Untouched'
  BY <1>21 DEF CheckInitdone
<1>22. ASSUME NEW t \in {"consumer", "producer"}, OnceFirst(t)
      PROVE  Untouched'
  BY <1>22 DEF OnceFirst
<1>23. ASSUME NEW t \in {"consumer", "producer"}, OnceLater(t)
      PROVE  Untouched'
  BY <1>23 DEF OnceLater
<1>24. ASSUME NEW t \in {"consumer", "producer"}, BufferInit(t)
      PROVE  Untouched'
  BY <1>24 DEF BufferInit
<1>25. ASSUME NEW t \in {"consumer", "producer"}, Initialization(t)
      PROVE  Untouched'
  BY <1>25 DEF Initialization
<1>26. CASE UNCHANGED vars
  BY <1>26
<1>27. QED BY <1>1, <1>2, <1>3, <1>4, <1>5, <1>6, <1>7, <1>8, <1>9, <1>10,
      <1>11, <1>12, <1>13, <1>14, <1>15, <1>16, <1>17, <1>18, <1>19, <1>20,
      <1>21, <1>22, <1>23, <1>24, <1>25, <1>26 DEF Next, UserStep,
      ProducerStep, ConsumerStep, DisplayStep, InitStep

\* A step after bufferinit that moves slots and items from one place to another.
LEMMA GrantedMoves ==
  ASSUME Granted, ~NotYet, SlotsInHand' = SlotsInHand, ItemsInHand' = filledslots'
  PROVE  Granted'
BY DEF Granted

\* The slots and the items are where SlotAccounting says.
LEMMA NextGranted ==
  ASSUME IInv, [Next]_vars
  PROVE  Granted'
<1>a. ItemsInHand = filledslots
  BY DEF IInv, Granted
<1>b. filledslots \in Int /\ sem["semitems"] \in Int /\ sem["semslots"] \in Int
  BY DEF IInv, Shape, Semaphores
<1> USE DEF IInv, Shape, OnceOnly, Early, Initialising, NotYet, Untouched, Granted,
            ItemsInHand, SlotsInHand, One, Goto, Lock, Unlock, FirstWait, Threads, Semaphores,
            Mutexes, vars, threadVars, semVars, initVars, ringVars, inputVars
<1>1. CASE UserRead
  BY <1>1 DEF UserRead
<1>2. CASE UserLock
  BY <1>2 DEF UserLock
<1>3. CASE UserCopy
  BY <1>3 DEF UserCopy
<1>4. CASE UserPost
  <2>1. SemPost("user", "seminput", "fgets") /\ UNCHANGED <<initVars, ringVars, inputVars>>
    BY <1>4 DEF UserPost
  <2>2. "user" \in Threads /\ "seminput" \in Semaphores /\ "fgets" \in PCs
    BY DEF PCs
  <2>3. pc' = [pc EXCEPT !["user"] = "fgets"] /\ sem' = [sem EXCEPT !["seminput"] = @ + 1]
    BY <2>1, <2>2, SemPostShape
  <2>4. QED BY <1>4, <2>1, <2>3 DEF UserPost
<1>5. CASE ProducerWaitInput
  <2>1. CASE SemSleep("producer", "seminput")
    BY <1>5, <2>1 DEF ProducerWaitInput, SemSleep
  <2>2. CASE SemTake("producer", "seminput", "input_buffer_lock")
    BY <1>5, <2>2 DEF ProducerWaitInput, SemTake
  <2>3. QED BY <1>5, <2>1, <2>2 DEF ProducerWaitInput
<1>6. CASE ProducerLockInput
  BY <1>6 DEF ProducerLockInput
<1>7. CASE ProducerWaitSlot
  <2>1. CASE SemSleep("producer", "semslots")
    BY <1>7, <2>1 DEF ProducerWaitSlot, SemSleep
  <2>2. CASE SemTake("producer", "semslots", "data_buffer_lock")
    <3>1. /\ pc["producer"] = "semslots" /\ sem["semslots"] > 0
          /\ pc' = [pc EXCEPT !["producer"] = "data_buffer_lock"]
          /\ sem' = [sem EXCEPT !["semslots"] = @ - 1]
          /\ UNCHANGED <<filledslots, initonce>>
      BY <1>7, <2>2 DEF ProducerWaitSlot, SemTake
    <3>2. /\ pc'["producer"] = "data_buffer_lock" /\ pc'["consumer"] = pc["consumer"]
          /\ sem'["semslots"] = sem["semslots"] - 1 /\ sem'["semitems"] = sem["semitems"]
          /\ sem["semslots"] \in Nat /\ sem["semitems"] \in Nat
      BY <3>1
    <3>3. initonce = "done" BY <3>1
    <3>4. ~NotYet BY <3>1, <3>3
    <3>5. SlotsInHand' = SlotsInHand BY ONLY <1>b, <3>1, <3>2 DEF SlotsInHand, One
    <3>6. ItemsInHand' = filledslots' BY ONLY <1>a, <1>b, <3>1, <3>2 DEF ItemsInHand, One
    <3> HIDE DEF Granted, ItemsInHand, SlotsInHand, NotYet
    <3>7. QED BY <3>4, <3>5, <3>6, GrantedMoves
  <2>3. QED BY <1>7, <2>1, <2>2 DEF ProducerWaitSlot
<1>8. CASE ProducerLockData
  BY <1>8 DEF ProducerLockData
<1>9. CASE PutItem
  <2>1. /\ pc["producer"] = "store" /\ pc'["producer"] = "post_items"
        /\ pc'["consumer"] = pc["consumer"]
        /\ filledslots' = filledslots + 1
        /\ UNCHANGED <<sem, initonce>>
    BY <1>9 DEF PutItem
  <2>2. initonce = "done" BY <2>1
  <2>3. ~NotYet BY <2>1, <2>2
  <2>4. SlotsInHand' = SlotsInHand BY ONLY <1>b, <2>1 DEF SlotsInHand, One
  <2>5. ItemsInHand' = filledslots' BY ONLY <1>a, <1>b, <2>1 DEF ItemsInHand, One
  <2> HIDE DEF Granted, ItemsInHand, SlotsInHand, NotYet
  <2>6. QED BY <2>3, <2>4, <2>5, GrantedMoves
<1>10. CASE ProducerPostItem
  <2>1. SemPost("producer", "semitems", "unlock_input") /\ UNCHANGED <<initVars, ringVars, inputVars>>
    BY <1>10 DEF ProducerPostItem
  <2>2. "producer" \in Threads /\ "semitems" \in Semaphores /\ "unlock_input" \in PCs
    BY DEF PCs
  <2>3. pc' = [pc EXCEPT !["producer"] = "unlock_input"] /\ sem' = [sem EXCEPT !["semitems"] = @ + 1]
    BY <2>1, <2>2, SemPostShape
  <2>4. pc["producer"] = "post_items" /\ UNCHANGED <<filledslots, initonce>>
    BY <1>10, <2>1 DEF ProducerPostItem
  <2>5. /\ pc'["producer"] = "unlock_input" /\ pc'["consumer"] = pc["consumer"]
        /\ sem'["semitems"] = sem["semitems"] + 1 /\ sem'["semslots"] = sem["semslots"]
        /\ sem["semitems"] \in Nat /\ sem["semslots"] \in Nat
    BY <2>3
  <2>6. initonce = "done" BY <2>4
  <2>7. ~NotYet BY <2>4, <2>6
  <2>8. SlotsInHand' = SlotsInHand BY ONLY <1>b, <2>4, <2>5 DEF SlotsInHand, One
  <2>9. ItemsInHand' = filledslots' BY ONLY <1>a, <1>b, <2>4, <2>5 DEF ItemsInHand, One
  <2> HIDE DEF Granted, ItemsInHand, SlotsInHand, NotYet
  <2>10. QED BY <2>7, <2>8, <2>9, GrantedMoves
<1>11. CASE ProducerUnlockInput
  BY <1>11 DEF ProducerUnlockInput
<1>12. CASE ConsumerWaitItem
  <2>1. CASE SemSleep("consumer", "semitems")
    BY <1>12, <2>1 DEF ConsumerWaitItem, SemSleep
  <2>2. CASE SemTake("consumer", "semitems", "data_buffer_lock")
    <3>1. /\ pc["consumer"] = "semitems" /\ sem["semitems"] > 0
          /\ pc' = [pc EXCEPT !["consumer"] = "data_buffer_lock"]
          /\ sem' = [sem EXCEPT !["semitems"] = @ - 1]
          /\ UNCHANGED <<filledslots, initonce>>
      BY <1>12, <2>2 DEF ConsumerWaitItem, SemTake
    <3>2. /\ pc'["consumer"] = "data_buffer_lock" /\ pc'["producer"] = pc["producer"]
          /\ sem'["semitems"] = sem["semitems"] - 1 /\ sem'["semslots"] = sem["semslots"]
          /\ sem["semitems"] \in Nat /\ sem["semslots"] \in Nat
      BY <3>1
    <3>3. initonce = "done" BY <3>1
    <3>4. ~NotYet BY <3>1, <3>3
    <3>5. SlotsInHand' = SlotsInHand BY ONLY <1>b, <3>1, <3>2 DEF SlotsInHand, One
    <3>6. ItemsInHand' = filledslots' BY ONLY <1>a, <1>b, <3>1, <3>2 DEF ItemsInHand, One
    <3> HIDE DEF Granted, ItemsInHand, SlotsInHand, NotYet
    <3>7. QED BY <3>4, <3>5, <3>6, GrantedMoves
  <2>3. QED BY <1>12, <2>1, <2>2 DEF ConsumerWaitItem
<1>13. CASE ConsumerLockData
  BY <1>13 DEF ConsumerLockData
<1>14. CASE GetItem
  <2>1. /\ pc["consumer"] = "fetch" /\ pc'["consumer"] = "post_slots"
        /\ pc'["producer"] = pc["producer"]
        /\ filledslots' = filledslots - 1
        /\ UNCHANGED <<sem, initonce>>
    BY <1>14 DEF GetItem
  <2>2. initonce = "done" BY <2>1
  <2>3. ~NotYet BY <2>1, <2>2
  <2>4. SlotsInHand' = SlotsInHand BY ONLY <1>b, <2>1 DEF SlotsInHand, One
  <2>5. ItemsInHand' = filledslots' BY ONLY <1>a, <1>b, <2>1 DEF ItemsInHand, One
  <2> HIDE DEF Granted, ItemsInHand, SlotsInHand, NotYet
  <2>6. QED BY <2>3, <2>4, <2>5, GrantedMoves
<1>15. CASE ConsumerPostSlot
  <2>1. SemPost("consumer", "semslots", "initdone") /\ UNCHANGED <<initVars, ringVars, inputVars>>
    BY <1>15 DEF ConsumerPostSlot
  <2>2. "consumer" \in Threads /\ "semslots" \in Semaphores /\ "initdone" \in PCs
    BY DEF PCs
  <2>3. pc' = [pc EXCEPT !["consumer"] = "initdone"] /\ sem' = [sem EXCEPT !["semslots"] = @ + 1]
    BY <2>1, <2>2, SemPostShape
  <2>4. pc["consumer"] = "post_slots" /\ UNCHANGED <<filledslots, initonce>>
    BY <1>15, <2>1 DEF ConsumerPostSlot
  <2>5. /\ pc'["consumer"] = "initdone" /\ pc'["producer"] = pc["producer"]
        /\ sem'["semslots"] = sem["semslots"] + 1 /\ sem'["semitems"] = sem["semitems"]
        /\ sem["semslots"] \in Nat /\ sem["semitems"] \in Nat
    BY <2>3
  <2>6. initonce = "done" BY <2>4
  <2>7. ~NotYet BY <2>4, <2>6
  <2>8. SlotsInHand' = SlotsInHand BY ONLY <1>b, <2>4, <2>5 DEF SlotsInHand, One
  <2>9. ItemsInHand' = filledslots' BY ONLY <1>a, <1>b, <2>4, <2>5 DEF ItemsInHand, One
  <2> HIDE DEF Granted, ItemsInHand, SlotsInHand, NotYet
  <2>10. QED BY <2>7, <2>8, <2>9, GrantedMoves
<1>16. CASE DisplayUnblock
  BY <1>16 DEF DisplayUnblock
<1>17. CASE DisplayLock
  BY <1>17 DEF DisplayLock
<1>18. CASE DisplayUnlock
  BY <1>18 DEF DisplayUnlock
<1>19. CASE MainCreate
  <2>1. NextBorn \in Threads /\ pc[NextBorn] = "unborn"
    BY <1>19, NextBornIsUnborn DEF MainCreate
  <2>2. pc' = [pc EXCEPT ![NextBorn] = Entry[NextBorn]]
    BY <1>19 DEF MainCreate
  <2>3. /\ pc["consumer"] = "unborn" /\ pc'["consumer"] = "initdone"
        \/ pc'["consumer"] = pc["consumer"]
    BY <2>1, <2>2 DEF Entry
  <2>4. /\ pc["producer"] = "unborn" /\ pc'["producer"] = "seminput"
        \/ pc'["producer"] = pc["producer"]
    BY <2>1, <2>2 DEF Entry
  <2>5. UNCHANGED <<sem, filledslots, initonce>> BY <1>19 DEF MainCreate
  <2>6. ItemsInHand' = ItemsInHand /\ SlotsInHand' = SlotsInHand
    BY <2>3, <2>4, <2>5
  <2>7. NotYet' <=> NotYet BY <2>3, <2>4, <2>5
  <2>8. QED BY <2>5, <2>6, <2>7, SMTT(60)
<1>20. CASE ProcessEnds
  BY <1>20 DEF ProcessEnds
<1>21. ASSUME NEW t \in {"consumer", "producer"}, CheckInitdone(t)
      PROVE  Granted'
  BY <1>21 DEF CheckInitdone
<1>22. ASSUME NEW t \in {"consumer", "producer"}, OnceFirst(t)
      PROVE  Granted'
  BY <1>22 DEF OnceFirst
<1>23. ASSUME NEW t \in {"consumer", "producer"}, OnceLater(t)
      PROVE  Granted'
  BY <1>23 DEF OnceLater
<1>24. ASSUME NEW t \in {"consumer", "producer"}, BufferInit(t)
      PROVE  Granted'
  <2>1. PICK failed \in SUBSET SemInitFails :
          sem' = [s \in Semaphores |-> IF s \in Reached(failed)
                                      THEN InitialValue[s] ELSE sem[s]]
    BY <1>24 DEF BufferInit
  <2>2. /\ NotYet /\ initonce = "running" /\ Early("consumer") /\ Early("producer")
        /\ ~NotYet'
    BY <1>24 DEF BufferInit
  <2>3. sem["semitems"] = 0 /\ sem["semslots"] = 0 /\ filledslots = 0
    BY <2>2
  <2>4. sem'["semitems"] = 0 BY <2>1, <2>3 DEF InitialValue
  <2>5. /\ sem'["semslots"] \in {0, Slots}
        /\ SemInitFails = {} => sem'["semslots"] = Slots
    BY <2>1, <2>3 DEF InitialValue, Reached
  <2>6. QED BY <1>24, <2>2, <2>3, <2>4, <2>5 DEF BufferInit
<1>25. ASSUME NEW t \in {"consumer", "producer"}, Initialization(t)
      PROVE  Granted'
  BY <1>25 DEF Initialization
<1>26. CASE UNCHANGED vars
  BY <1>26
<1>27. QED BY <1>1, <1>2, <1>3, <1>4, <1>5, <1>6, <1>7, <1>8, <1>9, <1>10,
      <1>11, <1>12, <1>13, <1>14, <1>15, <1>16, <1>17, <1>18, <1>19, <1>20,
      <1>21, <1>22, <1>23, <1>24, <1>25, <1>26 DEF Next, UserStep,
      ProducerStep, ConsumerStep, DisplayStep, InitStep

-----------------------------------------------------------------------------
(* The invariant and what follows from it at once.                         *)

\* Every step keeps the invariant.
THEOREM NextIInv == IInv /\ [Next]_vars => IInv'
BY NextShape, NextCopying, NextOnceOnly, NextUntouched, NextGranted DEF IInv

\* The control invariant holds in every behaviour of the five threads.
THEOREM IInvHolds == Spec => []IInv
BY InitIInv, NextIInv, PTL DEF Spec

\* The filled slots, and what putitem and getitem have in hand, fit the ring.
LEMMA FilledFits ==
  ASSUME IInv
  PROVE  /\ filledslots \in 0..Slots
         /\ pc["producer"] = "store" => filledslots < Slots
         /\ pc["consumer"] = "fetch" => filledslots > 0
<1> USE DEF IInv, Shape, Granted, ItemsInHand, SlotsInHand, One, Threads,
            Semaphores
<1>1. sem["semitems"] \in Nat /\ sem["semslots"] \in Nat OBVIOUS
<1>2. ItemsInHand = filledslots /\ SlotsInHand <= Slots BY SMTT(60)
<1>3. filledslots >= 0
  <2>1. ItemsInHand >= 0 BY <1>1
  <2>2. QED BY <1>2, <2>1
<1>4. filledslots <= Slots BY <1>1, <1>2, SMTT(60)
<1>5. pc["producer"] = "store" => filledslots < Slots BY <1>1, <1>2, SMTT(60)
<1>6. pc["consumer"] = "fetch" => filledslots > 0
  <2>1. pc["consumer"] = "fetch" => ItemsInHand > 0 BY <1>1
  <2>2. QED BY <1>2, <2>1
<1>7. QED BY <1>3, <1>4, <1>5, <1>6

\* Every variable keeps to its values in every reachable state.
THEOREM TypeCorrect == Spec => []TypeOK
<1>1. IInv => TypeOK BY FilledFits DEF IInv, Shape, TypeOK
<1>2. QED BY <1>1, IInvHolds, PTL

\* Every slot is in one place: putitem and getitem never run over or under
\* the ring, although neither compares bufin with bufout.
THEOREM SlotsAccounted == Spec => []SlotAccounting
<1>1. IInv => SlotAccounting
  BY DEF IInv, Granted, SlotAccounting, OnceOnly, NotYet, Early, Initialising
<1>2. QED BY <1>1, IInvHolds, PTL

\* The producer, which waits for a slot with input_buffer_lock held, and the
\* consumer never both wait on a semaphore that is zero.
THEOREM NeverStuck == Spec => []NeverBothBlocked
<1>1. IInv => NeverBothBlocked
  <2> SUFFICES ASSUME IInv, SemInitFails = {},
                      pc["producer"] = "semslots", sem["semslots"] = 0,
                      pc["consumer"] = "semitems", sem["semitems"] = 0
               PROVE  FALSE
    BY DEF NeverBothBlocked
  <2>1. ~NotYet BY DEF IInv, OnceOnly, NotYet, Early
  <2>2. SlotsInHand = Slots /\ ItemsInHand = filledslots
    BY <2>1 DEF IInv, Granted
  <2>3. filledslots = 0 BY <2>2 DEF ItemsInHand, One
  <2>4. SlotsInHand = 0 BY <2>3 DEF SlotsInHand, One
  <2>5. QED BY <2>2, <2>4
<1>2. QED BY <1>1, IInvHolds, PTL

-----------------------------------------------------------------------------
(* The ring holds the queue.                                               *)

Ring ==
  /\ Len(stored) = Len(fetched) + filledslots
  /\ bufin = (bufout + filledslots) % Slots
  /\ \A k \in 1..Len(fetched) : stored[k] = fetched[k]
  /\ \A i \in 1..filledslots :
        stored[Len(fetched) + i] = buffer[(bufout + i - 1) % Slots]

\* Once around the ring at most, the remainder is a subtraction at most.
LEMMA Wrap ==
  ASSUME NEW x \in 0..(2 * Slots - 1)
  PROVE  x % Slots = IF x < Slots THEN x ELSE x - Slots
OBVIOUS

\* Going on from a slot, and counting on, agree.
LEMMA StepAround ==
  ASSUME NEW a \in 0..(Slots - 1), NEW n \in 0..(Slots - 1)
  PROVE  /\ NextSlot((a + n) % Slots) = (a + n + 1) % Slots
         /\ (NextSlot(a) + n) % Slots = (a + n + 1) % Slots
<1> DEFINE Round(x) == IF x < Slots THEN x ELSE x - Slots
<1>1. \A x \in 0..(2 * Slots - 1) : x % Slots = Round(x) BY Wrap
<1>2. (a + n) % Slots = Round(a + n) BY <1>1
<1>3. (a + n + 1) % Slots = Round(a + n + 1) BY <1>1
<1>4. (a + 1) % Slots = Round(a + 1) BY <1>1
<1>5. (Round(a + n) + 1) % Slots = Round(Round(a + n) + 1)
  <2>1. Round(a + n) + 1 \in 0..(2 * Slots - 1) OBVIOUS
  <2> HIDE DEF Round
  <2>2. QED BY <1>1, <2>1
<1>6. (Round(a + 1) + n) % Slots = Round(Round(a + 1) + n)
  <2>1. Round(a + 1) + n \in 0..(2 * Slots - 1) OBVIOUS
  <2> HIDE DEF Round
  <2>2. QED BY <1>1, <2>1
<1>7. /\ Round(Round(a + n) + 1) = Round(a + n + 1)
      /\ Round(Round(a + 1) + n) = Round(a + n + 1)
  OBVIOUS
<1> HIDE DEF Round
<1>8. QED BY <1>2, <1>3, <1>4, <1>5, <1>6, <1>7 DEF NextSlot

\* Slots less than a ring apart are different slots.
LEMMA DifferentSlots ==
  ASSUME NEW a \in 0..(Slots - 1), NEW n \in 0..(Slots - 1), NEW i \in 0..(n - 1)
  PROVE  /\ (a + i) % Slots # (a + n) % Slots
         /\ (a + i) % Slots \in 0..(Slots - 1)
<1> DEFINE Round(x) == IF x < Slots THEN x ELSE x - Slots
<1>1. \A x \in 0..(2 * Slots - 1) : x % Slots = Round(x) BY Wrap
<1>2. (a + n) % Slots = Round(a + n) /\ (a + i) % Slots = Round(a + i) BY <1>1
<1>3. Round(a + i) # Round(a + n) /\ Round(a + i) \in 0..(Slots - 1) OBVIOUS
<1> HIDE DEF Round
<1>4. QED BY <1>2, <1>3

\* Every step keeps what the ring holds in step with what went in and out:
\* only putitem and getitem touch it.
LEMMA NextRing == IInv /\ Ring /\ [Next]_vars => Ring'
<1> SUFFICES ASSUME IInv, Ring, [Next]_vars PROVE Ring' OBVIOUS
<1> USE DEF Ring
<1>1. CASE UNCHANGED ringVars BY <1>1 DEF ringVars
<1>2. CASE PutItem
  <2>1. /\ filledslots \in 0..(Slots - 1)
        /\ bufin \in 0..(Slots - 1) /\ bufout \in 0..(Slots - 1)
    <3>1. pc["producer"] = "store" BY <1>2 DEF PutItem
    <3>2. filledslots \in 0..(Slots - 1)
      <4> HIDE DEF Ring
      <4> QED BY <3>1, FilledFits
    <3>3. QED BY <3>2 DEF IInv, Shape
  <2>2. /\ bufin' = (bufin + 1) % Slots
        /\ filledslots' = filledslots + 1
        /\ buffer' = [buffer EXCEPT ![bufin] = user_input_buffer]
        /\ stored' = Append(stored, user_input_buffer)
        /\ UNCHANGED <<bufout, fetched>>
    BY <1>2 DEF PutItem, NextSlot
  <2>3. /\ Len(stored') = Len(stored) + 1
        /\ stored'[Len(stored) + 1] = user_input_buffer
        /\ \A k \in 1..Len(stored) : stored'[k] = stored[k]
        /\ Len(fetched) \in Nat
    BY <2>2 DEF IInv, Shape
  <2>4. bufin' = (bufout' + filledslots') % Slots
    <3>1. NextSlot((bufout + filledslots) % Slots)
            = (bufout + filledslots + 1) % Slots
      BY <2>1, StepAround
    <3>2. bufout + filledslots + 1 = bufout' + filledslots' BY <2>1, <2>2
    <3>3. QED BY <3>1, <3>2, <2>2 DEF NextSlot
  <2>5. ASSUME NEW k \in 1..Len(fetched') PROVE stored'[k] = fetched'[k]
    BY <2>1, <2>2, <2>3
  <2>6. ASSUME NEW i \in 1..filledslots'
        PROVE  stored'[Len(fetched') + i] = buffer'[(bufout' + i - 1) % Slots]
    <3>1. CASE i = filledslots + 1
      <4>1. (bufout' + i - 1) % Slots = bufin BY <3>1, <2>1, <2>2, SMTT(60)
      <4>2. stored'[Len(fetched') + i] = user_input_buffer
        BY <3>1, <2>1, <2>2, <2>3
      <4>3. buffer'[bufin] = user_input_buffer
        BY <2>1, <2>2 DEF IInv, Shape
      <4>4. QED BY <4>1, <4>2, <4>3
    <3>2. CASE i \in 1..filledslots
      <4>1. stored'[Len(fetched') + i] = stored[Len(fetched) + i]
        BY <3>2, <2>1, <2>2, <2>3
      <4>2. /\ (bufout + i - 1) % Slots # bufin
            /\ (bufout + i - 1) % Slots \in 0..(Slots - 1)
        <5>1. i - 1 \in 0..(filledslots - 1) BY <3>2, <2>1
        <5>2. bufout + i - 1 = bufout + (i - 1) BY <3>2, <2>1
        <5>3. QED BY <5>1, <5>2, <2>1, DifferentSlots
      <4>3. buffer'[(bufout + i - 1) % Slots] = buffer[(bufout + i - 1) % Slots]
        BY <4>2, <2>2 DEF IInv, Shape
      <4>4. QED BY <4>1, <4>3, <3>2, <2>2
    <3>3. QED BY <3>1, <3>2, <2>1, <2>2
  <2>7. Len(stored') = Len(fetched') + filledslots' BY <2>1, <2>2, <2>3
  <2>8. QED BY <2>4, <2>5, <2>6, <2>7
<1>3. CASE GetItem
  <2>1. /\ filledslots \in 1..Slots
        /\ bufin \in 0..(Slots - 1) /\ bufout \in 0..(Slots - 1)
    BY <1>3, FilledFits DEF IInv, Shape, GetItem
  <2>2. /\ bufout' = (bufout + 1) % Slots
        /\ filledslots' = filledslots - 1
        /\ fetched' = Append(fetched, buffer[bufout])
        /\ UNCHANGED <<buffer, bufin, stored>>
    BY <1>3 DEF GetItem, NextSlot
  <2>3. /\ Len(fetched') = Len(fetched) + 1
        /\ fetched'[Len(fetched) + 1] = buffer[bufout]
        /\ \A k \in 1..Len(fetched) : fetched'[k] = fetched[k]
        /\ Len(fetched) \in Nat
    BY <2>2 DEF IInv, Shape
  <2>4. bufin' = (bufout' + filledslots') % Slots
    <3>1. filledslots' \in 0..(Slots - 1) /\ filledslots = filledslots' + 1
      BY <2>1, <2>2
    <3>2. (NextSlot(bufout) + filledslots') % Slots
            = (bufout + filledslots' + 1) % Slots
      BY <3>1, <2>1, StepAround
    <3>3. bufout + filledslots' + 1 = bufout + filledslots BY <3>1, <2>1
    <3>4. QED BY <3>2, <3>3, <2>2 DEF NextSlot
  <2>5. stored[Len(fetched) + 1] = buffer[bufout]
    BY <2>1, Wrap, SMTT(60)
  <2>6. ASSUME NEW k \in 1..Len(fetched') PROVE stored'[k] = fetched'[k]
    BY <2>2, <2>3, <2>5
  <2>7. ASSUME NEW i \in 1..filledslots'
        PROVE  stored'[Len(fetched') + i] = buffer'[(bufout' + i - 1) % Slots]
    <3>1. i + 1 \in 1..filledslots BY <2>1, <2>2
    <3>2. stored[Len(fetched) + (i + 1)] = buffer[(bufout + (i + 1) - 1) % Slots]
      BY <3>1
    <3>3. (bufout' + i - 1) % Slots = (bufout + (i + 1) - 1) % Slots
      <4>1. i - 1 \in 0..(Slots - 1) BY <3>1, <2>1
      <4>2. (NextSlot(bufout) + (i - 1)) % Slots = (bufout + (i - 1) + 1) % Slots
        BY <4>1, <2>1, StepAround
      <4>3. /\ bufout + (i - 1) + 1 = bufout + (i + 1) - 1
            /\ NextSlot(bufout) + (i - 1) = bufout' + i - 1
        BY <3>1, <2>1, <2>2 DEF NextSlot, IInv, Shape
      <4>4. QED BY <4>2, <4>3
    <3>4. Len(fetched') + i = Len(fetched) + (i + 1) BY <2>1, <2>2, <2>3
    <3>5. QED BY <3>2, <3>3, <3>4, <2>2
  <2>8. Len(stored') = Len(fetched') + filledslots' BY <2>1, <2>2, <2>3, SMTT(60)
  <2>9. QED BY <2>4, <2>6, <2>7, <2>8
<1>4. QED
  BY <1>1, <1>2, <1>3
  DEF Next, vars, UserStep, ProducerStep, ConsumerStep, DisplayStep, InitStep,
      MainCreate, UserRead, UserLock, UserCopy, UserPost, ProducerWaitInput,
      ProducerLockInput, ProducerWaitSlot, ProducerLockData, ProducerPostItem,
      ProducerUnlockInput, CheckInitdone, OnceFirst, OnceLater, BufferInit,
      Initialization, ConsumerWaitItem, ConsumerLockData, ConsumerPostSlot,
      DisplayUnblock, DisplayLock, DisplayUnlock, ProcessEnds

\* What was stored is what was fetched followed by what the ring holds: no
\* line is overwritten, skipped, repeated or reordered between putitem and
\* getitem.
THEOREM RingCorrect == Spec => []RingHoldsQueue
<1>1. Init => Ring
  <2> SUFFICES ASSUME Init PROVE Ring OBVIOUS
  <2>1. bufin = (bufout + filledslots) % Slots BY DEF Init
  <2>2. QED BY <2>1 DEF Init, Ring
<1>2. IInv /\ Ring => RingHoldsQueue
  <2> SUFFICES ASSUME IInv, Ring PROVE RingHoldsQueue OBVIOUS
  <2> DEFINE V == Lines \cup {NoLine}
  <2>1. /\ stored \in Seq(V) /\ fetched \in Seq(V)
        /\ filledslots \in 0..Slots /\ bufout \in 0..(Slots - 1)
        /\ buffer \in [0..(Slots - 1) -> V]
    BY FilledFits DEF IInv, Shape
  <2>2. RingQueue \in Seq(V) /\ Len(RingQueue) = filledslots
    <3>1. \A i \in 1..filledslots : (bufout + i - 1) % Slots \in 0..(Slots - 1)
      BY <2>1
    <3>2. RingQueue \in [1..filledslots -> V] BY <3>1, <2>1 DEF RingQueue
    <3>3. QED BY <3>2, <2>1
  <2>3. Len(fetched \o RingQueue) = Len(stored)
    <3>1. Len(fetched \o RingQueue) = Len(fetched) + Len(RingQueue)
      <4> HIDE DEF V
      <4> QED BY <2>1, <2>2, ConcatProperties
    <3>2. QED BY <3>1, <2>2 DEF Ring
  <2>4. ASSUME NEW k \in 1..Len(stored) PROVE (fetched \o RingQueue)[k] = stored[k]
    <3>1. CASE k \in 1..Len(fetched) BY <3>1, <2>1, <2>2 DEF Ring
    <3>2. CASE k \in (Len(fetched) + 1)..Len(stored)
      <4>1. k - Len(fetched) \in 1..filledslots BY <3>2, <2>1 DEF Ring
      <4>2. (fetched \o RingQueue)[k] = RingQueue[k - Len(fetched)]
        BY <4>1, <3>2, <2>1, <2>2
      <4>3. RingQueue[k - Len(fetched)]
              = stored[Len(fetched) + (k - Len(fetched))]
        BY <4>1 DEF Ring, RingQueue
      <4>4. Len(fetched) + (k - Len(fetched)) = k BY <3>2, <2>1
      <4>5. QED BY <4>2, <4>3, <4>4
    <3>3. Len(fetched) \in Nat /\ Len(stored) \in Nat BY <2>1
    <3>4. k \in 1..Len(fetched) \/ k \in (Len(fetched) + 1)..Len(stored)
      BY <3>3
    <3>5. QED BY <3>1, <3>2, <3>4
  <2>5. fetched \o RingQueue \in Seq(V) BY <2>1, <2>2
  <2>6. stored = fetched \o RingQueue
    <3> DEFINE whole == fetched \o RingQueue
    <3>1. whole \in Seq(V) /\ stored \in Seq(V) /\ Len(whole) = Len(stored)
      BY <2>1, <2>3, <2>5
    <3>2. \A k \in 1..Len(whole) : whole[k] = stored[k] BY <2>3, <2>4
    <3> HIDE DEF whole, V
    <3>3. whole = stored BY <3>1, <3>2, SeqEqual
    <3>4. QED BY <3>3 DEF whole
  <2>7. QED BY <2>6 DEF RingHoldsQueue
<1>3. QED BY <1>1, <1>2, NextRing, IInvHolds, PTL DEF Spec

-----------------------------------------------------------------------------
(* The mailbox: what putitem stores is a line typed, in order.             *)

\* user_input_thread has read a line it has not copied, or not announced, yet.
Unread == {"input_buffer_lock", "copy"}
Unposted == Unread \cup {"post_input"}

\* producer_thread has taken an announcement and has not stored a line for it.
Taken == {"input_buffer_lock", "initdone", "pthread_once", "bufferinit", "finish",
          "semslots", "data_buffer_lock", "store"}

\* Announcements less lines typed: those producer_thread has taken but not stored, those
\* it has not taken, and the one user_input_thread is about to make.
Owed == One(pc["producer"] \in Taken) + sem["seminput"] + One(pc["user"] \in Unposted) - typed

\* The mailbox holds the last line copied, and putitem stores at most as many lines
\* as were announced.
Mailbox ==
  /\ user_input_buffer = typed - One(pc["user"] \in Unread)
  /\ Len(stored) + Owed <= 0
  /\ \A k \in 1..Len(stored) : stored[k] \in k..user_input_buffer
  /\ \A j, k \in 1..Len(stored) : j <= k => stored[j] <= stored[k]

\* The lines stored are what they were and the mailbox is no older.
LEMMA StoredStays ==
  ASSUME IInv, Mailbox, UNCHANGED stored,
         user_input_buffer' \in Int, user_input_buffer' >= user_input_buffer
  PROVE  /\ \A k \in 1..Len(stored') : stored'[k] \in k..user_input_buffer'
         /\ \A j, k \in 1..Len(stored') : j <= k => stored'[j] <= stored'[k]
BY DEF Mailbox, IInv, Shape, Lines, NoLine

\* A step of the user thread or of the producer changes the numbers of the
\* mailbox, and no other thread's step does.
LEMMA MailboxCounts ==
  ASSUME IInv, Mailbox, UNCHANGED stored,
         typed' \in Nat, sem'["seminput"] \in Nat,
         user_input_buffer' = typed' - One(pc'["user"] \in Unread),
         user_input_buffer' >= user_input_buffer,
         Owed' <= Owed
  PROVE  Mailbox'
<1>1. Owed \in Int /\ Owed' \in Int
  <2>1. /\ One(pc["producer"] \in Taken) \in Int /\ One(pc'["producer"] \in Taken) \in Int
        /\ One(pc["user"] \in Unposted) \in Int /\ One(pc'["user"] \in Unposted) \in Int
    BY DEF One
  <2>2. sem["seminput"] \in Int /\ typed \in Int BY DEF IInv, Shape, Semaphores
  <2>3. sem'["seminput"] \in Int /\ typed' \in Int OBVIOUS
  <2>4. QED BY <2>1, <2>2, <2>3 DEF Owed
<1>2. Len(stored') + Owed' <= 0 BY <1>1 DEF Mailbox, IInv, Shape
<1>3. user_input_buffer' \in Int BY DEF One
<1>4. QED BY <1>2, <1>3, StoredStays DEF Mailbox

\* putitem stores the line the mailbox holds, which no line before it is newer than.
LEMMA PutItemMailbox ==
  ASSUME IInv, Mailbox, PutItem
  PROVE  Mailbox'
<1> USE DEF IInv, Shape, Semaphores
<1>1. /\ stored' = Append(stored, user_input_buffer)
      /\ pc["producer"] = "store" /\ pc'["producer"] = "post_items"
      /\ pc'["user"] = pc["user"]
      /\ UNCHANGED <<typed, user_input_buffer, sem>>
  BY DEF PutItem, Unlock, Goto, semVars, inputVars, Threads
<1>2. /\ Len(stored') = Len(stored) + 1
      /\ stored'[Len(stored) + 1] = user_input_buffer
      /\ \A k \in 1..Len(stored) : stored'[k] = stored[k]
      /\ Len(stored) \in Nat
  BY <1>1
<1>3. Len(stored) + 1 + sem["seminput"] <= typed - One(pc["user"] \in Unposted)
  <2>1. Len(stored) + Owed <= 0 BY DEF Mailbox
  <2>2. One(pc["producer"] \in Taken) = 1 BY <1>1 DEF One, Taken
  <2>3. /\ sem["seminput"] \in Int /\ typed \in Int /\ Len(stored) \in Int
        /\ One(pc["user"] \in Unposted) \in Int
    BY DEF One
  <2>4. QED BY ONLY <2>1, <2>2, <2>3 DEF Owed
<1>4. user_input_buffer \in Int /\ user_input_buffer >= Len(stored) + 1
  <2>1. sem["seminput"] \in Nat /\ typed \in Nat OBVIOUS
  <2>2. One(pc["user"] \in Unread) <= One(pc["user"] \in Unposted)
        /\ One(pc["user"] \in Unread) \in Int /\ One(pc["user"] \in Unposted) \in Int
    BY DEF One, Unposted
  <2>3. user_input_buffer = typed - One(pc["user"] \in Unread) BY DEF Mailbox
  <2>4. QED BY ONLY <1>2, <1>3, <2>1, <2>2, <2>3
<1>5. \A k \in 1..Len(stored') : stored'[k] \in k..user_input_buffer'
  <2>1. ASSUME NEW k \in 1..Len(stored') PROVE stored'[k] \in k..user_input_buffer'
    <3>1. CASE k \in 1..Len(stored) BY <3>1, <1>1, <1>2 DEF Mailbox
    <3>2. CASE k = Len(stored) + 1 BY <3>2, <1>1, <1>2, <1>4
    <3>3. k \in 1..Len(stored) \/ k = Len(stored) + 1
      BY ONLY <1>2, k \in 1..Len(stored')
    <3>4. QED BY <3>1, <3>2, <3>3
  <2>2. QED BY <2>1
<1>6. \A j, k \in 1..Len(stored') : j <= k => stored'[j] <= stored'[k]
  <2>1. ASSUME NEW j \in 1..Len(stored'), NEW k \in 1..Len(stored'), j <= k
        PROVE  stored'[j] <= stored'[k]
    <3>1. CASE k \in 1..Len(stored)
      <4>1. j \in 1..Len(stored) BY <3>1, <2>1, <1>2
      <4>2. QED BY <4>1, <3>1, <2>1, <1>2 DEF Mailbox
    <3>2. CASE k = Len(stored) + 1
      <4>1. stored'[j] \in j..user_input_buffer BY <1>1, <1>5
      <4>2. QED BY <4>1, <3>2, <1>2, <1>4
    <3>3. QED BY <3>1, <3>2, <1>2
  <2>2. QED BY <2>1
<1>7. Len(stored') + Owed' <= 0
  <2>1. One(pc'["producer"] \in Taken) = 0 BY <1>1 DEF One, Taken
  <2>2. sem["seminput"] \in Int /\ typed \in Int /\ One(pc["user"] \in Unposted) \in Int
    BY DEF One
  <2>3. QED BY ONLY <1>1, <1>2, <1>3, <2>1, <2>2 DEF Owed
<1>8. user_input_buffer' = typed' - One(pc'["user"] \in Unread)
  BY <1>1 DEF Mailbox
<1>9. QED BY <1>5, <1>6, <1>7, <1>8 DEF Mailbox

\* Every step of the five threads keeps the mailbox and the stored lines in order.
LEMMA NextMailbox == IInv /\ IInv' /\ Mailbox /\ [Next]_vars => Mailbox'
<1> SUFFICES ASSUME IInv, IInv', Mailbox, [Next]_vars PROVE Mailbox' OBVIOUS
<1>a. /\ typed \in Nat /\ typed' \in Nat
      /\ sem["seminput"] \in Nat /\ sem'["seminput"] \in Nat
      /\ user_input_buffer = typed - One(pc["user"] \in Unread)
      /\ pc \in [Threads -> PCs] /\ sem \in [Semaphores -> Nat]
  BY DEF IInv, Shape, Mailbox, Semaphores
<1>b. ASSUME UNCHANGED <<stored, user_input_buffer, typed>>,
             sem'["seminput"] <= sem["seminput"],
             pc'["user"] = pc["user"],
             pc'["producer"] \in Taken => pc["producer"] \in Taken
      PROVE  Mailbox'
  BY <1>a, <1>b, MailboxCounts DEF Owed, One
<1>c. ASSUME UNCHANGED <<ringVars, inputVars, semVars>>,
             NEW t \in Threads \ {"user"}, NEW l, Goto(t, l),
             t = "producer" => (l \in Taken => pc["producer"] \in Taken)
      PROVE  Mailbox'
  BY <1>a, <1>b, <1>c DEF Goto, ringVars, inputVars, semVars, Threads
<1> USE DEF Threads, Semaphores, Lock, Unlock
<1>1. CASE UserRead
  BY <1>1, <1>a, MailboxCounts DEF Owed, UserRead, Goto, One, Unread, Unposted, ringVars, semVars
<1>2. CASE UserLock
  BY <1>2, <1>a, MailboxCounts
  DEF Owed, UserLock, Goto, One, Unread, Unposted, ringVars, semVars, inputVars
<1>3. CASE UserCopy
  BY <1>3, <1>a, MailboxCounts DEF Owed, UserCopy, Goto, One, Unread, Unposted, ringVars, semVars
<1>4. CASE UserPost
  BY <1>4, <1>a, MailboxCounts
  DEF Owed, UserPost, SemPost, Goto, One, Unread, Unposted, ringVars, inputVars
<1>5. CASE ProducerWaitInput
  <2>1. CASE SemSleep("producer", "seminput")
    BY <1>5, <2>1, <1>a, <1>b DEF ProducerWaitInput, SemSleep, Goto, ringVars, inputVars
  <2>2. CASE SemTake("producer", "seminput", "input_buffer_lock")
    BY <1>5, <2>2, <1>a, MailboxCounts
    DEF Owed, ProducerWaitInput, SemTake, Goto, One, Taken, ringVars, inputVars
  <2>3. QED BY <1>5, <2>1, <2>2 DEF ProducerWaitInput
<1>6. CASE ProducerLockInput
  BY <1>6, <1>c DEF ProducerLockInput, Taken
<1>7. CASE ProducerWaitSlot
  BY <1>7, <1>a, <1>b
  DEF ProducerWaitSlot, SemTake, SemSleep, Goto, Taken, ringVars, inputVars
<1>8. CASE ProducerLockData
  BY <1>8, <1>c DEF ProducerLockData, Taken
<1>9. CASE PutItem BY <1>9, PutItemMailbox
<1>10. CASE ProducerPostItem
  BY <1>10, <1>a, <1>b DEF ProducerPostItem, SemPost, Goto, Taken, ringVars, inputVars
<1>11. CASE ProducerUnlockInput
  BY <1>11, <1>c DEF ProducerUnlockInput, Taken
<1>12. CASE ConsumerWaitItem
  BY <1>12, <1>a, <1>b DEF ConsumerWaitItem, SemTake, SemSleep, Goto, ringVars, inputVars
<1>13. CASE ConsumerLockData BY <1>13, <1>c DEF ConsumerLockData
<1>14. CASE GetItem
  BY <1>14, <1>a, <1>b DEF GetItem, Goto, inputVars, semVars
<1>15. CASE ConsumerPostSlot
  BY <1>15, <1>a, <1>b DEF ConsumerPostSlot, SemPost, Goto, ringVars, inputVars
<1>16. CASE DisplayStep
  BY <1>16, <1>c DEF DisplayStep, DisplayUnblock, DisplayLock, DisplayUnlock
<1>17. CASE MainCreate
  <2>1. NextBorn \in Threads /\ pc[NextBorn] = "unborn"
    BY <1>17, NextBornIsUnborn DEF MainCreate
  <2>2. /\ pc' = [pc EXCEPT ![NextBorn] = Entry[NextBorn]]
        /\ UNCHANGED <<semVars, ringVars, inputVars>>
    BY <1>17 DEF MainCreate, Goto
  <2>3. CASE NextBorn = "user"
    <3>1. pc["user"] = "unborn" /\ pc'["user"] = "fgets" /\ pc'["producer"] = pc["producer"]
      BY <2>1, <2>2, <2>3, <1>a DEF Entry
    <3>2. QED
      BY <2>2, <3>1, <1>a, MailboxCounts
      DEF Owed, One, Unread, Unposted, ringVars, inputVars, semVars
  <2>4. CASE NextBorn # "user"
    <3>1. pc'["user"] = pc["user"] /\ (pc'["producer"] \in Taken => pc["producer"] \in Taken)
      BY <2>1, <2>2, <2>4, <1>a DEF Entry, Taken
    <3>2. QED BY <2>2, <3>1, <1>a, <1>b DEF ringVars, inputVars, semVars
  <2>5. QED BY <2>3, <2>4
<1>18. CASE ProcessEnds
  BY <1>18, <1>a, <1>b DEF ProcessEnds, threadVars, ringVars, inputVars, semVars
<1>19. ASSUME NEW t \in {"consumer", "producer"},
              CheckInitdone(t) \/ OnceFirst(t) \/ OnceLater(t) \/ Initialization(t)
       PROVE  Mailbox'
  BY <1>19, <1>c DEF CheckInitdone, OnceFirst, OnceLater, Initialization, FirstWait, Taken
<1>20. ASSUME NEW t \in {"consumer", "producer"}, BufferInit(t)
       PROVE  Mailbox'
  <2>1. sem'["seminput"] <= sem["seminput"]
    BY <1>20, <1>a DEF BufferInit, InitialValue
  <2>2. QED BY <1>20, <2>1, <1>a, <1>b DEF BufferInit, Goto, Taken, ringVars, inputVars
<1>21. CASE UNCHANGED vars
  BY <1>21, <1>a, <1>b DEF vars, threadVars, ringVars, inputVars, semVars
<1>22. QED
  BY <1>1, <1>2, <1>3, <1>4, <1>5, <1>6, <1>7, <1>8, <1>9, <1>10, <1>11, <1>12, <1>13,
     <1>14, <1>15, <1>16, <1>17, <1>18, <1>19, <1>20, <1>21
  DEF Next, UserStep, ProducerStep, ConsumerStep, InitStep

\* What the mailbox between the producer and the consumer holds is an
\* invariant of the specification.
LEMMA MailboxHolds == Spec => []Mailbox
<1>1. ASSUME Init PROVE Mailbox
  <2>1. /\ pc["user"] = "unborn" /\ pc["producer"] = "unborn" /\ sem["seminput"] = 0
        /\ typed = 0 /\ stored = <<>> /\ user_input_buffer = NoLine
    BY <1>1 DEF Init, Threads, Semaphores
  <2>2. /\ One(pc["user"] \in Unread) = 0 /\ One(pc["user"] \in Unposted) = 0
        /\ One(pc["producer"] \in Taken) = 0
    BY <2>1 DEF One, Unread, Unposted, Taken
  <2>3. QED BY <2>1, <2>2 DEF Mailbox, Owed, NoLine
<1>2. QED BY <1>1, NextMailbox, IInvHolds, PTL DEF Spec

\* user_input_thread does not wait for producer_thread, so the mailbox may lose a line
\* or hand one out twice; still lines come out of it in the order typed, and never an
\* empty one or one older than its announcement.
THEOREM LinesStayInOrder == Spec => []LinesInOrder
<1>1. IInv /\ Mailbox => LinesInOrder
  <2> SUFFICES ASSUME IInv, Mailbox PROVE LinesInOrder OBVIOUS
  <2>1. user_input_buffer <= typed /\ typed \in Nat /\ user_input_buffer \in Int
    BY DEF IInv, Shape, Mailbox, One
  <2>2. \A k \in 1..Len(stored) : stored[k] \in k..typed
    BY <2>1 DEF Mailbox, IInv, Shape
  <2>3. QED BY <2>2 DEF LinesInOrder, Mailbox
<1>2. QED BY <1>1, IInvHolds, MailboxHolds, PTL

-----------------------------------------------------------------------------
(* The ring implements BoundedFifo.                                        *)

\* The lines in the ring are a sequence as long as filledslots says.
IsRing(queue) ==
  /\ queue \in Seq(Lines \cup {NoLine})
  /\ Len(queue) = filledslots
  /\ \A i \in 1..filledslots : queue[i] = buffer[(bufout + i - 1) % Slots]

\* What the ring holds, from bufout on, is a sequence of lines.
LEMMA RingQueueIsSeq == IInv => IsRing(RingQueue)
<1> SUFFICES ASSUME IInv PROVE IsRing(RingQueue) OBVIOUS
<1> DEFINE V == Lines \cup {NoLine}
<1>1. /\ filledslots \in 0..Slots /\ bufout \in 0..(Slots - 1)
      /\ buffer \in [0..(Slots - 1) -> V]
  BY FilledFits DEF IInv, Shape
<1>2. \A i \in 1..filledslots : (bufout + i - 1) % Slots \in 0..(Slots - 1)
  BY <1>1
<1>3. RingQueue \in [1..filledslots -> V] BY <1>1, <1>2 DEF RingQueue
<1>4. QED BY <1>1, <1>3 DEF RingQueue, IsRing

\* putitem puts one line at the end.
LEMMA PutItemPuts ==
  ASSUME IInv, IInv', Ring, PutItem
  PROVE  RingQueue' = Append(RingQueue, user_input_buffer)
<1> DEFINE V == Lines \cup {NoLine}
           longer == Append(RingQueue, user_input_buffer)
<1>1. /\ filledslots \in 0..(Slots - 1)
      /\ bufin \in 0..(Slots - 1) /\ bufout \in 0..(Slots - 1)
      /\ buffer \in [0..(Slots - 1) -> V] /\ user_input_buffer \in V
  BY FilledFits DEF IInv, Shape, PutItem
<1>2. /\ filledslots' = filledslots + 1 /\ bufout' = bufout
      /\ buffer' = [buffer EXCEPT ![bufin] = user_input_buffer]
  BY DEF PutItem
<1>3. /\ RingQueue' \in Seq(V) /\ Len(RingQueue') = filledslots + 1
      /\ \A i \in 1..(filledslots + 1) : RingQueue'[i] = buffer'[(bufout + i - 1) % Slots]
  <2>1. IsRing(RingQueue)' BY RingQueueIsSeq, PTL
  <2>2. QED BY <2>1, <1>2 DEF IsRing
<1>4. /\ longer \in Seq(V) /\ Len(longer) = filledslots + 1
      /\ \A i \in 1..filledslots : longer[i] = RingQueue[i]
      /\ longer[filledslots + 1] = user_input_buffer
  BY <1>1, RingQueueIsSeq DEF IsRing
<1> HIDE DEF longer, V
<1>5. ASSUME NEW i \in 1..(filledslots + 1) PROVE RingQueue'[i] = longer[i]
  <2>1. CASE i = filledslots + 1
    <3>1. (bufout + i - 1) % Slots = bufin BY <2>1, <1>1 DEF Ring
    <3>2. QED BY <3>1, <2>1, <1>1, <1>2, <1>3, <1>4
  <2>2. CASE i \in 1..filledslots
    <3>1. /\ (bufout + (i - 1)) % Slots # bufin
          /\ (bufout + (i - 1)) % Slots \in 0..(Slots - 1)
      <4>1. i - 1 \in 0..(filledslots - 1) BY <2>2, <1>1
      <4>2. QED BY <4>1, <1>1, DifferentSlots DEF Ring
    <3>2. bufout + (i - 1) = bufout + i - 1 BY <2>2, <1>1
    <3>3. buffer'[(bufout + i - 1) % Slots] = buffer[(bufout + i - 1) % Slots]
      BY <3>1, <3>2, <1>1, <1>2
    <3>4. QED BY <3>3, <2>2, <1>3, <1>4, RingQueueIsSeq DEF IsRing
  <2>3. filledslots \in Int BY <1>1
  <2>4. QED BY <2>1, <2>2, <2>3
<1>6. RingQueue' = longer BY <1>3, <1>4, <1>5, SeqEqual
<1>7. QED BY <1>6 DEF longer

\* getitem takes the line at the front.
LEMMA GetItemGets ==
  ASSUME IInv, IInv', Ring, GetItem
  PROVE  RingQueue # <<>> /\ RingQueue' = Tail(RingQueue)
<1> DEFINE V == Lines \cup {NoLine}
           rest == Tail(RingQueue)
<1>1. /\ filledslots \in 1..Slots /\ bufout \in 0..(Slots - 1)
  BY FilledFits DEF IInv, Shape, GetItem
<1>2. /\ filledslots' = filledslots - 1 /\ bufout' = NextSlot(bufout)
      /\ buffer' = buffer
  BY DEF GetItem
<1>3. /\ RingQueue' \in Seq(V) /\ Len(RingQueue') = filledslots - 1
      /\ \A i \in 1..(filledslots - 1) : RingQueue'[i] = buffer[(NextSlot(bufout) + i - 1) % Slots]
  <2>1. IsRing(RingQueue)' BY RingQueueIsSeq, PTL
  <2>2. QED BY <2>1, <1>2 DEF IsRing
<1>4. RingQueue # <<>> BY <1>1, RingQueueIsSeq DEF IsRing
<1>5. /\ rest \in Seq(V) /\ Len(rest) = filledslots - 1
      /\ \A i \in 1..(filledslots - 1) : rest[i] = RingQueue[i + 1]
  BY <1>1, <1>4, RingQueueIsSeq DEF IsRing
<1>6. ASSUME NEW i \in 1..(filledslots - 1) PROVE RingQueue'[i] = rest[i]
  <2>1. i - 1 \in 0..(Slots - 1) /\ i + 1 \in 1..filledslots BY <1>1
  <2>2. (NextSlot(bufout) + (i - 1)) % Slots = (bufout + (i - 1) + 1) % Slots
    BY <2>1, <1>1, StepAround
  <2>3. /\ bufout + (i - 1) + 1 = bufout + (i + 1) - 1
        /\ NextSlot(bufout) + (i - 1) = NextSlot(bufout) + i - 1
    BY <2>1, <1>1, NextSlotInRing
  <2>4. rest[i] = buffer[(bufout + (i + 1) - 1) % Slots]
    BY <2>1, <1>5, RingQueueIsSeq DEF IsRing
  <2>5. QED BY <2>2, <2>3, <2>4, <1>3
<1> HIDE DEF rest, V
<1>7. RingQueue' = rest BY <1>3, <1>5, <1>6, SeqEqual
<1>8. QED BY <1>4, <1>7 DEF rest

\* Only putitem and getitem touch the ring, and only ProcessEnds ends the process.
LEMMA OtherStepsLeaveTheRing ==
  ASSUME [Next]_vars, ~PutItem, ~GetItem, ~ProcessEnds
  PROVE  UNCHANGED <<ringVars, alive>>
BY DEF Next, vars, Goto, Lock, Unlock, SemTake, SemSleep, SemPost,
      UserStep, ProducerStep, ConsumerStep, DisplayStep, InitStep,
      MainCreate, UserRead, UserLock, UserCopy, UserPost, ProducerWaitInput,
      ProducerLockInput, ProducerWaitSlot, ProducerLockData, ProducerPostItem,
      ProducerUnlockInput, CheckInitdone, OnceFirst, OnceLater, BufferInit,
      Initialization, ConsumerWaitItem, ConsumerLockData, ConsumerPostSlot,
      DisplayUnblock, DisplayLock, DisplayUnlock

\* Every step of the five threads is a put, a get or the end of a bounded FIFO, or a
\* stutter of it.
LEMMA FifoStep ==
  ASSUME IInv, IInv', Ring, Mailbox, [Next]_vars
  PROVE  [Fifo!Next]_(Fifo!vars)
<1>1. CASE PutItem
  <2>1. RingQueue' = Append(RingQueue, user_input_buffer) /\ alive /\ UNCHANGED alive
    BY <1>1, PutItemPuts DEF PutItem, Unlock, Goto
  <2>2. Len(RingQueue) < Slots BY <1>1, RingQueueIsSeq, FilledFits DEF PutItem, IsRing
  <2>3. user_input_buffer \in Lines
    <3>1. /\ pc["producer"] = "store" /\ Len(stored) \in Nat /\ sem["seminput"] \in Nat
          /\ typed \in Nat /\ user_input_buffer \in Lines \cup {NoLine}
      BY <1>1 DEF PutItem, IInv, Shape, Semaphores
    <3>2. typed - One(pc["user"] \in Unposted) >= 1
      BY <3>1 DEF Mailbox, Owed, One, Taken
    <3>3. user_input_buffer >= 1
      BY <3>1, <3>2 DEF Mailbox, Owed, One, Unposted
    <3>4. QED BY <3>1, <3>3 DEF NoLine
  <2>4. QED BY <2>1, <2>2, <2>3 DEF Fifo!Next, Fifo!Put
<1>2. CASE GetItem
  <2>1. RingQueue # <<>> /\ RingQueue' = Tail(RingQueue) /\ alive /\ UNCHANGED alive
    BY <1>2, GetItemGets DEF GetItem, Unlock, Goto
  <2>2. QED BY <2>1 DEF Fifo!Next, Fifo!Get
<1>3. CASE ProcessEnds
  <2>1. UNCHANGED RingQueue BY <1>3 DEF ProcessEnds, ringVars, RingQueue
  <2>2. QED BY <1>3, <2>1 DEF ProcessEnds, Fifo!Next, Fifo!End
<1>4. CASE ~PutItem /\ ~GetItem /\ ~ProcessEnds
  <2>1. UNCHANGED <<ringVars, alive>> BY <1>4, OtherStepsLeaveTheRing
  <2>2. UNCHANGED <<RingQueue, alive>> BY <2>1 DEF ringVars, RingQueue
  <2>3. QED BY <2>2 DEF Fifo!vars
<1>5. QED BY <1>1, <1>2, <1>3, <1>4

\* The ring, its two indices, its semaphores and its lock are a bounded FIFO: whatever
\* the five threads do, and whichever sem_init fails, lines come out in the order they
\* went in and never more than Slots of them wait.
THEOREM RingIsFifo == Spec => FifoSafe
<1>1. Init => Fifo!Init /\ Ring
  <2> SUFFICES ASSUME Init PROVE Fifo!Init /\ Ring OBVIOUS
  <2>1. filledslots = 0 /\ alive = TRUE BY DEF Init
  <2>2. RingQueue = <<>> BY <2>1 DEF RingQueue
  <2>3. bufin = (bufout + filledslots) % Slots BY DEF Init
  <2>4. QED BY <2>1, <2>2, <2>3 DEF Fifo!Init, Init, Ring
<1>2. IInv /\ IInv' /\ Ring /\ Mailbox /\ [Next]_vars => [Fifo!Next]_(Fifo!vars)
  BY FifoStep
<1>3. QED BY <1>1, <1>2, NextRing, IInvHolds, MailboxHolds, PTL DEF Spec, FifoSafe, Fifo!SafeSpec
=============================================================================
