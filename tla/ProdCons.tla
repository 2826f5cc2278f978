------------------------------- MODULE ProdCons -------------------------------
(***************************************************************************)
(* Examples/Threads/prodcons_threads.c and its variants: a ring of line    *)
(* buffers between a producer and a consumer thread, a one-line mailbox    *)
(* between the thread that reads the terminal and the producer, a thread   *)
(* that keeps locking the ring to show its counters, and semaphores that   *)
(* are initialised lazily, under pthread_once, by whoever comes first.     *)
(*                                                                         *)
(* pc[t] names the call thread t is about to make: the semaphore it will   *)
(* wait for, the mutex it will lock, or the code it will run.  What runs   *)
(* between a lock and its unlock is one step, because every other access   *)
(* to that data takes the same lock.  A line is its number in the order    *)
(* fgets returned it.                                                      *)
(***************************************************************************)
EXTENDS Integers, Sequences, FiniteSets

CONSTANTS Slots,          \* entries of buffer[], 5 in the source
          MaxLines,       \* bound: lines typed before end of file
          WaiterLimit,    \* the width of a semaphore's waiter count, 2^32
          SemInitFails    \* the semaphores whose sem_init may fail

Threads == {"display", "user", "consumer", "producer"}
Semaphores == {"semitems", "semslots", "seminput"}
Mutexes == {"input_buffer_lock", "data_buffer_lock"}
None == "none"
NoLine == 0
Lines == 1..MaxLines

ASSUME SlotsAssumption == Slots \in Nat \ {0}
ASSUME MaxLinesAssumption == MaxLines \in Nat
ASSUME WaiterLimitAssumption == WaiterLimit \in Nat /\ WaiterLimit > 2
ASSUME SemInitFailsAssumption == SemInitFails \subseteq Semaphores

VARIABLES
  pc,                 \* the next call of every thread
  mode,               \* how a thread fares in sem_wait: run, slow, asleep
  mutex,              \* the owner of every mutex
  sem,                \* the value of every semaphore
  nwaiters,           \* the waiters every semaphore has counted
  initonce,           \* pthread_once: never, running, done
  initdone, initerror,
  buffer, bufin, bufout, filledslots, freeslots,
  user_input_buffer,  \* the mailbox
  typed,              \* the number of the last line fgets returned
  stored, fetched,    \* history: the lines putitem stored, getitem fetched
  alive               \* FALSE once the process has exited or was killed

threadVars == <<pc, mode, mutex>>
semVars == <<sem, nwaiters>>
initVars == <<initonce, initdone, initerror>>
ringVars == <<buffer, bufin, bufout, filledslots, freeslots, stored, fetched>>
inputVars == <<user_input_buffer, typed>>
vars == <<threadVars, semVars, initVars, ringVars, inputVars, alive>>

PCs == Semaphores \cup Mutexes \cup
       {"unborn", "unblock", "show", "fgets", "copy", "post_input", "initdone",
        "pthread_once", "bufferinit", "finish", "store", "post_items",
        "unlock_input", "fetch", "post_slots"}

-----------------------------------------------------------------------------
(* POSIX semaphores and mutexes, as the code uses them.  sem_wait counts   *)
(* itself in the semaphore before it sleeps, sem_post wakes a sleeper only *)
(* if the semaphore has one counted, and sem_init clears that count too.   *)

\* Thread t goes on to l; no thread takes a step once the process has ended.
Goto(t, l) == /\ alive
              /\ pc' = [pc EXCEPT ![t] = l]
              /\ UNCHANGED alive

\* sem_wait returns: the value was positive.
SemTake(t, s, l) ==
  /\ pc[t] = s
  /\ mode[t] # "asleep"
  /\ sem[s] > 0
  /\ sem' = [sem EXCEPT ![s] = @ - 1]
  /\ nwaiters' = IF mode[t] = "slow"
                 THEN [nwaiters EXCEPT ![s] = (@ - 1) % WaiterLimit]
                 ELSE nwaiters
  /\ mode' = [mode EXCEPT ![t] = "run"]
  /\ Goto(t, l)
  /\ UNCHANGED mutex

\* sem_wait finds zero and goes to sleep, counting itself the first time.
SemSleep(t, s) ==
  /\ pc[t] = s
  /\ mode[t] # "asleep"
  /\ sem[s] = 0
  /\ nwaiters' = IF mode[t] = "run"
                 THEN [nwaiters EXCEPT ![s] = (@ + 1) % WaiterLimit]
                 ELSE nwaiters
  /\ mode' = [mode EXCEPT ![t] = "asleep"]
  /\ Goto(t, s)
  /\ UNCHANGED <<mutex, sem>>

SleepersOf(s) == {u \in Threads : pc[u] = s /\ mode[u] = "asleep"}

\* A slip: sem_post without the wake-up.
SemWakesNobody(s) == mode' = mode

SemWake(s) ==
  IF nwaiters[s] > 0 /\ SleepersOf(s) # {}
  THEN \E u \in SleepersOf(s) : mode' = [mode EXCEPT ![u] = "slow"]
  ELSE mode' = mode

SemPost(t, s, l) ==
  /\ sem' = [sem EXCEPT ![s] = @ + 1]
  /\ SemWake(s)
  /\ Goto(t, l)
  /\ UNCHANGED <<nwaiters, mutex>>

Lock(t, m, l) ==
  /\ pc[t] = m
  /\ mutex[m] = None
  /\ mutex' = [mutex EXCEPT ![m] = t]
  /\ Goto(t, l)
  /\ UNCHANGED <<mode, semVars>>

Unlock(t, m, l) ==
  /\ mutex' = [mutex EXCEPT ![m] = None]
  /\ Goto(t, l)
  /\ UNCHANGED <<mode, semVars>>

-----------------------------------------------------------------------------
(* Lazy initialisation: bufferinitonce, initialization, bufferinit.        *)

\* Where getitem and putitem go on once they have called bufferinitonce,
\* whose result they ignore.
FirstWait(t) == IF t = "consumer" THEN "semitems" ELSE "semslots"

CheckInitdone(t) ==
  /\ pc[t] = "initdone"
  /\ Goto(t, IF initdone THEN FirstWait(t) ELSE "pthread_once")
  /\ UNCHANGED <<mode, mutex, semVars, initVars, ringVars, inputVars>>

\* A slip: a plain call instead of pthread_once.
OnceUnguarded(t) ==
  /\ pc[t] = "pthread_once"
  /\ initonce' = "running"
  /\ Goto(t, "bufferinit")
  /\ UNCHANGED <<mode, mutex, semVars, initdone, initerror, ringVars, inputVars>>

OnceFirst(t) ==
  /\ pc[t] = "pthread_once"
  /\ initonce = "never"
  /\ initonce' = "running"
  /\ Goto(t, "bufferinit")
  /\ UNCHANGED <<mode, mutex, semVars, initdone, initerror, ringVars, inputVars>>

OnceLater(t) ==
  /\ pc[t] = "pthread_once"
  /\ initonce = "done"
  /\ Goto(t, FirstWait(t))
  /\ UNCHANGED <<mode, mutex, semVars, initVars, ringVars, inputVars>>

\* Slips: one slot too many, none, and a line announced before it is typed.
OneSlotTooMany == [semitems |-> 0, semslots |-> Slots + 1, seminput |-> 0]
NoSlots == [semitems |-> 0, semslots |-> 0, seminput |-> 0]
OneLineTooMany == [semitems |-> 0, semslots |-> Slots, seminput |-> 1]

\* The values bufferinit leaves in the semaphores when the calls for the
\* semaphores of failed fail: a failure of semitems returns at once, one of
\* semslots only destroys semitems (which leaves its memory as it was).
InitialValue == [semitems |-> 0, semslots |-> Slots, seminput |-> 0]
Reached(failed) == IF "semitems" \in failed THEN {} ELSE Semaphores \ failed

BufferInit(t) ==
  /\ pc[t] = "bufferinit"
  /\ \E failed \in SUBSET SemInitFails :
       /\ sem' = [s \in Semaphores |-> IF s \in Reached(failed)
                                       THEN InitialValue[s] ELSE sem[s]]
       /\ nwaiters' = [s \in Semaphores |-> IF s \in Reached(failed)
                                            THEN 0 ELSE nwaiters[s]]
       /\ initerror' = (failed \cap {"semitems", "seminput"} # {})
  /\ Goto(t, "finish")
  /\ UNCHANGED <<mode, mutex, initonce, initdone, ringVars, inputVars>>

Initialization(t) ==
  /\ pc[t] = "finish"
  /\ initdone' = ~initerror
  /\ initonce' = "done"
  /\ Goto(t, FirstWait(t))
  /\ UNCHANGED <<mode, mutex, semVars, initerror, ringVars, inputVars>>

InitStep(t) == \/ CheckInitdone(t) \/ OnceFirst(t) \/ OnceLater(t)
               \/ BufferInit(t) \/ Initialization(t)

-----------------------------------------------------------------------------
(* getitem and putitem after their first wait.                             *)

NextSlot(i) == (i + 1) % Slots

GetItem ==
  /\ pc["consumer"] = "fetch"
  /\ fetched' = Append(fetched, buffer[bufout])
  /\ bufout' = NextSlot(bufout)
  /\ filledslots' = filledslots - 1
  /\ freeslots' = freeslots + 1
  /\ Unlock("consumer", "data_buffer_lock", "post_slots")
  /\ UNCHANGED <<buffer, bufin, stored, initVars, inputVars>>

PutItem ==
  /\ pc["producer"] = "store"
  /\ buffer' = [buffer EXCEPT ![bufin] = user_input_buffer]
  /\ stored' = Append(stored, user_input_buffer)
  /\ bufin' = NextSlot(bufin)
  /\ filledslots' = filledslots + 1
  /\ freeslots' = freeslots - 1
  /\ Unlock("producer", "data_buffer_lock", "post_items")
  /\ UNCHANGED <<bufout, fetched, initVars, inputVars>>

-----------------------------------------------------------------------------
(* The threads.                                                            *)

UserRead ==
  /\ pc["user"] = "fgets"
  /\ typed < MaxLines
  /\ typed' = typed + 1
  /\ Goto("user", "input_buffer_lock")
  /\ UNCHANGED <<mode, mutex, semVars, initVars, ringVars, user_input_buffer>>

UserLock == /\ Lock("user", "input_buffer_lock", "copy")
            /\ UNCHANGED <<initVars, ringVars, inputVars>>

UserCopy ==
  /\ pc["user"] = "copy"
  /\ user_input_buffer' = typed
  /\ Unlock("user", "input_buffer_lock", "post_input")
  /\ UNCHANGED <<initVars, ringVars, typed>>

UserPost == /\ pc["user"] = "post_input"
            /\ SemPost("user", "seminput", "fgets")
            /\ UNCHANGED <<initVars, ringVars, inputVars>>

ProducerWaitInput ==
  /\ \/ SemTake("producer", "seminput", "input_buffer_lock")
     \/ SemSleep("producer", "seminput")
  /\ UNCHANGED <<initVars, ringVars, inputVars>>

ProducerLockInput == /\ Lock("producer", "input_buffer_lock", "initdone")
                     /\ UNCHANGED <<initVars, ringVars, inputVars>>

\* putitem waits for a slot with input_buffer_lock held.
ProducerWaitSlot ==
  /\ \/ SemTake("producer", "semslots", "data_buffer_lock")
     \/ SemSleep("producer", "semslots")
  /\ UNCHANGED <<initVars, ringVars, inputVars>>

ProducerLockData == /\ Lock("producer", "data_buffer_lock", "store")
                    /\ UNCHANGED <<initVars, ringVars, inputVars>>

ProducerPostItem == /\ pc["producer"] = "post_items"
                    /\ SemPost("producer", "semitems", "unlock_input")
                    /\ UNCHANGED <<initVars, ringVars, inputVars>>

ProducerUnlockInput ==
  /\ pc["producer"] = "unlock_input"
  /\ Unlock("producer", "input_buffer_lock", "seminput")
  /\ UNCHANGED <<initVars, ringVars, inputVars>>

ConsumerWaitItem ==
  /\ \/ SemTake("consumer", "semitems", "data_buffer_lock")
     \/ SemSleep("consumer", "semitems")
  /\ UNCHANGED <<initVars, ringVars, inputVars>>

ConsumerLockData == /\ Lock("consumer", "data_buffer_lock", "fetch")
                    /\ UNCHANGED <<initVars, ringVars, inputVars>>

ConsumerPostSlot == /\ pc["consumer"] = "post_slots"
                    /\ SemPost("consumer", "semslots", "initdone")
                    /\ UNCHANGED <<initVars, ringVars, inputVars>>

DisplayUnblock ==
  /\ pc["display"] = "unblock"
  /\ Goto("display", "data_buffer_lock")
  /\ UNCHANGED <<mode, mutex, semVars, initVars, ringVars, inputVars>>

DisplayLock == /\ Lock("display", "data_buffer_lock", "show")
               /\ UNCHANGED <<initVars, ringVars, inputVars>>

DisplayUnlock ==
  /\ pc["display"] = "show"
  /\ Unlock("display", "data_buffer_lock", "data_buffer_lock")
  /\ UNCHANGED <<initVars, ringVars, inputVars>>

-----------------------------------------------------------------------------
(* main creates the threads in this order and then only joins them.        *)

CreationOrder == <<"display", "user", "consumer", "producer">>
Entry == [display |-> "unblock", user |-> "fgets",
          consumer |-> "initdone", producer |-> "seminput"]
Unborn == {i \in 1..4 : pc[CreationOrder[i]] = "unborn"}
NextBorn == CreationOrder[CHOOSE i \in Unborn : \A j \in Unborn : i <= j]

MainCreate ==
  /\ Unborn # {}
  /\ Goto(NextBorn, Entry[NextBorn])
  /\ UNCHANGED <<mode, mutex, semVars, initVars, ringVars, inputVars>>

\* The process ends: pthread_create fails, fgets sees end of file, or SIGINT
\* reaches the display thread, which is the only one that does not block it.
ProcessEnds ==
  /\ alive
  /\ \/ Unborn # {}
     \/ pc["user"] = "fgets"
     \/ pc["display"] \notin {"unborn", "unblock"}
  /\ alive' = FALSE
  /\ UNCHANGED <<threadVars, semVars, initVars, ringVars, inputVars>>

-----------------------------------------------------------------------------
Init ==
  /\ pc = [t \in Threads |-> "unborn"]
  /\ mode = [t \in Threads |-> "run"]
  /\ mutex = [m \in Mutexes |-> None]
  /\ sem = [s \in Semaphores |-> 0]         \* static storage, not sem_init
  /\ nwaiters = [s \in Semaphores |-> 0]
  /\ initonce = "never" /\ initdone = FALSE /\ initerror = FALSE
  /\ buffer = [i \in 0..(Slots - 1) |-> NoLine]
  /\ bufin = 0 /\ bufout = 0 /\ filledslots = 0 /\ freeslots = 0
  /\ user_input_buffer = NoLine
  /\ typed = 0
  /\ stored = <<>> /\ fetched = <<>>
  /\ alive = TRUE

UserStep == UserLock \/ UserCopy \/ UserPost
ProducerStep == \/ ProducerWaitInput \/ ProducerLockInput
                \/ InitStep("producer") \/ ProducerWaitSlot \/ ProducerLockData
                \/ PutItem \/ ProducerPostItem \/ ProducerUnlockInput
ConsumerStep == \/ InitStep("consumer") \/ ConsumerWaitItem
                \/ ConsumerLockData \/ GetItem \/ ConsumerPostSlot
DisplayStep == DisplayUnblock \/ DisplayLock \/ DisplayUnlock

Next == \/ MainCreate \/ UserRead \/ UserStep \/ ProducerStep
        \/ ConsumerStep \/ DisplayStep \/ ProcessEnds

Spec == Init /\ [][Next]_vars

\* The scheduler runs every thread that can run.  A thread that wants a mutex
\* gets it if the mutex is free again and again: the display thread never
\* stops taking data_buffer_lock, so weak fairness says nothing there.
\* Nothing obliges the user to type.
Fairness == /\ WF_vars(MainCreate)
            /\ SF_vars(UserStep)
            /\ SF_vars(ProducerStep)
            /\ SF_vars(ConsumerStep)
            /\ WF_vars(DisplayStep)

FairSpec == Spec /\ Fairness

-----------------------------------------------------------------------------
(* Properties.                                                             *)

TypeOK ==
  /\ pc \in [Threads -> PCs]
  /\ mode \in [Threads -> {"run", "slow", "asleep"}]
  /\ mutex \in [Mutexes -> Threads \cup {None}]
  /\ sem \in [Semaphores -> Nat]
  /\ nwaiters \in [Semaphores -> 0..(WaiterLimit - 1)]
  /\ initonce \in {"never", "running", "done"}
  /\ initdone \in BOOLEAN /\ initerror \in BOOLEAN
  /\ buffer \in [0..(Slots - 1) -> Lines \cup {NoLine}]
  /\ bufin \in 0..(Slots - 1) /\ bufout \in 0..(Slots - 1)
  /\ filledslots \in 0..Slots /\ freeslots \in Int
  /\ user_input_buffer \in Lines \cup {NoLine}
  /\ typed \in 0..MaxLines
  /\ stored \in Seq(Lines \cup {NoLine}) /\ fetched \in Seq(Lines \cup {NoLine})
  /\ alive \in BOOLEAN

One(b) == IF b THEN 1 ELSE 0

ItemsInHand == sem["semitems"] + One(pc["producer"] = "post_items")
               + One(pc["consumer"] \in {"data_buffer_lock", "fetch"})

SlotsInHand == sem["semslots"] + filledslots
               + One(pc["producer"] \in {"data_buffer_lock", "store"})
               + One(pc["consumer"] = "post_slots")

\* Every slot of the ring is in exactly one place: counted by semslots, held
\* by putitem on its way to store, filled, or held by getitem on its way to
\* sem_post(&semslots); and semitems counts the filled ones nobody has in
\* hand.  This is what makes filledslots (which no code tests) stay within
\* the ring although no code compares bufin with bufout.
SlotAccounting ==
  /\ ItemsInHand = filledslots
  /\ SlotsInHand \in {0, Slots}
  /\ initdone /\ SemInitFails = {} => SlotsInHand = Slots

\* The lines in the ring, oldest first.
RingQueue == [i \in 1..filledslots |-> buffer[(bufout + i - 1) % Slots]]

\* putitem never overwrites a line getitem has not copied, and getitem never
\* copies a line twice or before it is stored: what was stored is what was
\* fetched followed by what the ring holds.
RingHoldsQueue == stored = fetched \o RingQueue

\* The mailbox may lose a line or hand one out twice (user_input_thread does
\* not wait for the producer), but lines are never reordered and the k-th
\* line stored is the k-th line typed or a later one: never an empty mailbox,
\* never a line older than the sem_post that announced it.
LinesInOrder ==
  /\ \A k \in 1..Len(stored) : stored[k] \in k..typed
  /\ \A j, k \in 1..Len(stored) : j <= k => stored[j] <= stored[k]

\* putitem waits for a slot with input_buffer_lock held, so this would stop
\* every thread but the display: producer and consumer never both wait on
\* semaphores that are zero.
NeverBothBlocked ==
  SemInitFails = {} =>
    ~ /\ pc["producer"] = "semslots" /\ sem["semslots"] = 0
      /\ pc["consumer"] = "semitems" /\ sem["semitems"] = 0

\* The ring is a bounded FIFO (see BoundedFifo).
Fifo == INSTANCE BoundedFifo WITH Items <- Lines, Capacity <- Slots,
                                  queue <- RingQueue
FifoSafe == Fifo!SafeSpec

\* And a line stored is fetched by getitem unless the process ends first,
\* whatever the display thread does with data_buffer_lock.
FifoLive == Fifo!Spec

\* seminput forgets a producer that sleeps in it when bufferinit initialises
\* it under the sleeper.
ProducerForgotten == /\ pc["producer"] = "seminput"
                     /\ mode["producer"] = "asleep"
                     /\ nwaiters["seminput"] = 0

\* A line that user_input_thread posted is taken up by the producer, unless
\* the process ends or the late sem_init made seminput forget the producer.
InputServed == sem["seminput"] > 0 ~>
                 (sem["seminput"] = 0 \/ ProducerForgotten \/ ~alive)

\* InterProcessCommunication:247-250: an increment of a semaphore somebody
\* waits for wakes a waiter.  So nobody sleeps on a positive semaphore.
PostWakesWaiter ==
  \A t \in Threads, s \in Semaphores :
    pc[t] = s /\ mode[t] = "asleep" => sem[s] = 0

\* prodcons_threads2.c:251 prints freeslots, under data_buffer_lock, as "the
\* free slots".
FreeSlotsAreFree ==
  initdone /\ mutex["data_buffer_lock"] = "display" => freeslots = Slots - filledslots
=============================================================================
