------------------------------ MODULE CondQueue ------------------------------
(***************************************************************************)
(* Examples/Threads/thread_mutex_cond.c: a message queue in user space.    *)
(* thread_func2 reads jobs from the terminal and links them into a list;   *)
(* when there are five, thread_func1 takes them all.  Each waits for the   *)
(* other with a condition variable, and every access is under m1.          *)
(*                                                                         *)
(* pc[t] is the next thing thread t does; at "eq_cv1" and "dq_cv2" it is   *)
(* blocked in pthread_cond_wait, at "relock" it was woken and wants m1     *)
(* back.  A job is its number in the order read returned it.               *)
(***************************************************************************)
EXTENDS Integers, Sequences

CONSTANTS Batch,      \* the 5 of the source
          MaxJobs     \* bound: jobs the terminal delivers

Threads == {"thread_func1", "thread_func2"}
CondVars == {"eq_cv1", "dq_cv2"}
None == "none"

ASSUME BatchAssumption == Batch \in Nat \ {0}
ASSUME MaxJobsAssumption == MaxJobs \in Nat

VARIABLES
  pc,
  m1,            \* the owner of the mutex
  queue_count,   \* job_head1.queue_count
  jobs,          \* the list at job_head1.next
  read_jobs,     \* the number of the last job read
  served         \* history: the lists thread_func1 drained

queueVars == <<queue_count, jobs, read_jobs, served>>
vars == <<pc, m1, queueVars>>

PCs == CondVars \cup {"unborn", "lock", "test", "relock", "drain", "read",
                      "signal"}

Goto(t, l) == pc' = [pc EXCEPT ![t] = l]

-----------------------------------------------------------------------------
(* Mutex and condition variable.                                           *)

\* A slip: "if" for "while" around pthread_cond_wait, no second test.
LockWithoutRetest(t) ==
  /\ pc[t] \in {"lock", "relock"}
  /\ m1 = None
  /\ m1' = t
  /\ Goto(t, IF pc[t] = "lock" THEN "test"
             ELSE IF t = "thread_func1" THEN "drain" ELSE "read")
  /\ UNCHANGED queueVars

Lock(t) ==
  /\ pc[t] \in {"lock", "relock"}
  /\ m1 = None
  /\ m1' = t
  /\ Goto(t, "test")
  /\ UNCHANGED queueVars

\* pthread_cond_wait gives m1 up and blocks, in one step.
CondWait(t, cv) == /\ m1' = None
                   /\ Goto(t, cv)
                   /\ UNCHANGED queueVars

Waiters(cv) == {u \in Threads : pc[u] = cv}

\* pthread_cond_signal wakes one waiter, if there is one; t goes on to l.
CondSignal(t, cv, l) ==
  \/ /\ Waiters(cv) = {}
     /\ Goto(t, l)
  \/ \E u \in Waiters(cv) : pc' = [pc EXCEPT ![t] = l, ![u] = "relock"]

\* POSIX lets pthread_cond_wait return without a signal.
SpuriousWake(t) == /\ pc[t] \in CondVars
                   /\ Goto(t, "relock")
                   /\ UNCHANGED <<m1, queueVars>>

-----------------------------------------------------------------------------
(* thread_func1, the consumer.                                             *)

ConsumerTest ==
  /\ pc["thread_func1"] = "test"
  /\ \/ /\ queue_count < Batch
        /\ CondWait("thread_func1", "dq_cv2")
     \/ /\ queue_count >= Batch
        /\ Goto("thread_func1", "drain")
        /\ UNCHANGED <<m1, queueVars>>

\* The inner loop: until the list is empty, whatever the counter says.
ConsumerDrain ==
  /\ pc["thread_func1"] = "drain"
  /\ served' = Append(served, jobs)
  /\ queue_count' = queue_count - Len(jobs)
  /\ jobs' = <<>>
  /\ Goto("thread_func1", "signal")
  /\ UNCHANGED <<m1, read_jobs>>

\* A slip: the consumer does not signal.
ConsumerUnlocksOnly ==
  /\ pc["thread_func1"] = "signal"
  /\ Goto("thread_func1", "lock")
  /\ m1' = None
  /\ UNCHANGED queueVars

ConsumerSignal ==
  /\ pc["thread_func1"] = "signal"
  /\ CondSignal("thread_func1", "eq_cv1", "lock")
  /\ m1' = None
  /\ UNCHANGED queueVars

-----------------------------------------------------------------------------
(* thread_func2, the producer.                                             *)

ProducerTest ==
  /\ pc["thread_func2"] = "test"
  /\ \/ /\ queue_count >= Batch
        /\ CondWait("thread_func2", "eq_cv1")
     \/ /\ queue_count < Batch
        /\ Goto("thread_func2", "read")
        /\ UNCHANGED <<m1, queueVars>>

\* read() blocks for the terminal with m1 held; then the job is linked at the
\* end of the list and counted.
ProducerRead ==
  /\ pc["thread_func2"] = "read"
  /\ read_jobs < MaxJobs
  /\ read_jobs' = read_jobs + 1
  /\ jobs' = Append(jobs, read_jobs')
  /\ queue_count' = queue_count + 1
  /\ Goto("thread_func2", "signal")
  /\ UNCHANGED <<m1, served>>

\* A slip: ">" for ">=" before the producer's signal.
ProducerSignalOffByOne ==
  /\ pc["thread_func2"] = "signal"
  /\ IF queue_count > Batch
     THEN CondSignal("thread_func2", "dq_cv2", "lock")
     ELSE Goto("thread_func2", "lock")
  /\ m1' = None
  /\ UNCHANGED queueVars

ProducerSignal ==
  /\ pc["thread_func2"] = "signal"
  /\ IF queue_count >= Batch
     THEN CondSignal("thread_func2", "dq_cv2", "lock")
     ELSE Goto("thread_func2", "lock")
  /\ m1' = None
  /\ UNCHANGED queueVars

-----------------------------------------------------------------------------
\* main creates thread_func1, then thread_func2, and joins them.
MainCreate ==
  /\ \/ /\ pc["thread_func1"] = "unborn"
        /\ Goto("thread_func1", "lock")
     \/ /\ pc["thread_func1"] # "unborn"
        /\ pc["thread_func2"] = "unborn"
        /\ Goto("thread_func2", "lock")
  /\ UNCHANGED <<m1, queueVars>>

Init ==
  /\ pc = [t \in Threads |-> "unborn"]
  /\ m1 = None
  /\ queue_count = 0
  /\ jobs = <<>>
  /\ read_jobs = 0
  /\ served = <<>>

Consumer == Lock("thread_func1") \/ ConsumerTest \/ ConsumerDrain \/ ConsumerSignal
Producer == Lock("thread_func2") \/ ProducerTest \/ ProducerSignal

Next == \/ MainCreate \/ Consumer \/ Producer \/ ProducerRead
        \/ \E t \in Threads : SpuriousWake(t)

Spec == Init /\ [][Next]_vars

\* A thread that can run does.  The one that only waits for m1 gets it if m1
\* is free again and again (strong fairness): a producer that spurious
\* wake-ups bring back for ever would keep the consumer out under weak
\* fairness.  Nothing obliges the terminal to deliver a job, and nothing makes
\* a wake-up spurious.
Fairness == WF_vars(MainCreate) /\ SF_vars(Consumer) /\ SF_vars(Producer)
FairSpec == Spec /\ Fairness

-----------------------------------------------------------------------------
(* Properties.                                                             *)

TypeOK ==
  /\ pc \in [Threads -> PCs]
  /\ m1 \in Threads \cup {None}
  /\ queue_count \in 0..Batch
  /\ jobs \in Seq(1..MaxJobs)
  /\ read_jobs \in 0..MaxJobs
  /\ served \in Seq(Seq(1..MaxJobs))

\* A thread is blocked on a condition variable only while there is something
\* to wait for, or while the thread that will signal it holds m1: the signal
\* that ends a wait is never sent before the wait begins.
NoLostWakeup ==
  /\ pc["thread_func1"] = "dq_cv2" =>
       queue_count < Batch \/ pc["thread_func2"] = "signal"
  /\ pc["thread_func2"] = "eq_cv1" =>
       queue_count >= Batch \/ pc["thread_func1"] = "signal"

\* The counter, which the waits test, is the length of the list, which the
\* inner loop tests; so thread_func1 takes exactly Batch jobs each time, and
\* the jobs come out in the order they were read, none lost, none twice.
ServedInBatches ==
  /\ queue_count = Len(jobs)
  /\ read_jobs = Len(served) * Batch + Len(jobs)
  /\ \A i \in 1..Len(jobs) : jobs[i] = Len(served) * Batch + i
  /\ \A b \in 1..Len(served) :
       served[b] = [i \in 1..Batch |-> (b - 1) * Batch + i]

\* thread_mutex_cond.c:176-180: when thread_func1 signals eq_cv1, the producer
\* has room ("condition is always true, when we reach here").
RoomWhenSignalled == pc["thread_func1"] = "signal" => queue_count < Batch

\* The queue is a BatchQueue, and a full one is always drained.
Abstract == INSTANCE BatchQueue WITH backlog <- jobs, accepted <- read_jobs
BatchSafe == Abstract!SafeSpec
BatchLive == Abstract!Spec

\* The drained producer gets back to reading, however late the consumer frees
\* m1 and however often it is woken for nothing.
ProducerGoesOn ==
  pc["thread_func2"] = "eq_cv1" ~> pc["thread_func2"] = "read"
=============================================================================
