---------------------------------- MODULE Usage ---------------------------------
(***************************************************************************)
(* sys_times, k_getrusage and getrusage of KernelDrivers_March2011/sys.c:  *)
(* the processor time of a process is the sum of what its threads count    *)
(* now, what its dead threads left and what its reaped children left.  The *)
(* threads count on while they are added up; only siglock keeps a thread   *)
(* from leaving, and a child from being added, in the middle of the sum.   *)
(***************************************************************************)
EXTENDS Naturals, FiniteSetsExt

CONSTANTS
  Process, Thread,
  ProcessOf,    \* the process of each thread
  LeaderOf,     \* the first thread of each process
  ParentOf,     \* the parent of each process, NoProcess for the first
  NoProcess,
  NoThread,
  Callers,      \* bound: the threads that call times and getrusage
  Ticks         \* bound: ticks of the clock

ASSUME UsageAssumption ==
  /\ NoProcess \notin Process /\ NoThread \notin Thread /\ IsFiniteSet(Thread)
  /\ ProcessOf \in [Thread -> Process] /\ LeaderOf \in [Process -> Thread]
  /\ ParentOf \in [Process -> Process \cup {NoProcess}]
  /\ \A p \in Process : ProcessOf[LeaderOf[p]] = p
  /\ Callers \subseteq Thread /\ Ticks \in Nat

VARIABLES
  task,      \* each thread runs, is dead but listed (a leader), or is gone
  time,      \* utime and stime of each thread
  signal,    \* signal_struct: utime, stime, cutime, cstime
  siglock,   \* the holder of each process's siglock
  waited,    \* the processes a waiter has claimed
  call,      \* what each thread is doing
  ticks,
  past       \* history: the pairs cutime, cstime each process has had

usageVars == <<task, time, signal, siglock, waited, call, ticks, past>>

-----------------------------------------------------------------------------
(* Times: user and system.                                                 *)

Zero == [u |-> 0, s |-> 0]

Add(x, y) == [u |-> x.u + y.u, s |-> x.s + y.s]

AtMost(x, y) == x.u <= y.u /\ x.s <= y.s

Listed(p) == {t \in Thread : ProcessOf[t] = p /\ task[t] # "gone"}

\* What a process has used by now, without its children.
Used(p) == FoldSet(LAMBDA t, sum : Add(time[t], sum), signal[p].dead, Listed(p))

NoUse == [pc |-> "idle", kind |-> "self", of |-> NoProcess, todo |-> {},
           sum |-> Zero, children |-> Zero, begun |-> Zero, added |-> Zero]

UsageInit ==
  /\ task = [t \in Thread |-> "runs"]
  /\ time = [t \in Thread |-> Zero]
  /\ signal = [p \in Process |-> [dead |-> Zero, children |-> Zero]]
  /\ siglock = [p \in Process |-> NoThread]
  /\ waited = {}
  /\ call = [t \in Thread |-> NoUse]
  /\ ticks = 0
  /\ past = [p \in Process |-> {Zero}]

-----------------------------------------------------------------------------
(* The rest of the kernel: the clock, exit, and wait up to getrusage.      *)

\* A thread that holds a siglock has its interrupts off.
Tick(t) ==
  /\ task[t] = "runs" /\ ticks < Ticks
  /\ \A p \in Process : siglock[p] # t
  /\ \E c \in {"u", "s"} : time' = [time EXCEPT ![t][c] = @ + 1]
  /\ ticks' = ticks + 1
  /\ UNCHANGED <<task, signal, siglock, waited, call, past>>

\* A leader stays in the list until it is reaped; another thread leaves its time to
\* the process, under siglock.
LeaderExits(t) ==
  /\ task[t] = "runs" /\ call[t].pc = "idle"
  /\ t = LeaderOf[ProcessOf[t]]
  /\ task' = [task EXCEPT ![t] = "dead"]
  /\ UNCHANGED <<time, signal, siglock, waited, call, ticks, past>>

ThreadExits(t) ==
  LET p == ProcessOf[t]
  IN /\ task[t] = "runs" /\ call[t].pc = "idle"
     /\ t # LeaderOf[p] /\ siglock[p] = NoThread
     /\ task' = [task EXCEPT ![t] = "gone"]
     /\ signal' = [signal EXCEPT ![p].dead = Add(@, time[t])]
     /\ UNCHANGED <<time, siglock, waited, call, ticks, past>>

Zombie(p) == Listed(p) = {LeaderOf[p]} /\ task[LeaderOf[p]] = "dead"

\* The waiter claims a zombie, adds its times to the parent's under the parent's
\* siglock, and asks for the usage of the child and its own children: RUSAGE_BOTH.
Reaps(t, child) ==
  LET p == ProcessOf[t]
      all == Add(Used(child), signal[child].children)
      sum == Add(signal[p].children, all)
  IN /\ task[t] = "runs" /\ call[t].pc = "idle"
     /\ ParentOf[child] = p /\ Zombie(child) /\ child \notin waited
     /\ siglock[p] = NoThread
     /\ waited' = waited \cup {child}
     /\ signal' = [signal EXCEPT ![p].children = sum]
     /\ past' = [past EXCEPT ![p] = @ \cup {sum}]
     /\ call' = [call EXCEPT ![t] = [NoUse EXCEPT !.pc = "lock", !.kind = "both",
                                                   !.of = child, !.added = all]]
     /\ UNCHANGED <<task, time, siglock, ticks>>

-----------------------------------------------------------------------------
(* sys_times and k_getrusage.                                              *)

\* sys_times, or sys_getrusage for RUSAGE_SELF or RUSAGE_CHILDREN.
UsageCall(t, kind) ==
  /\ t \in Callers /\ task[t] = "runs" /\ call[t].pc = "idle"
  /\ call' = [call EXCEPT ![t] = [NoUse EXCEPT !.pc = "lock", !.kind = kind,
                                    !.of = ProcessOf[t], !.begun = Used(ProcessOf[t])]]
  /\ UNCHANGED <<task, time, signal, siglock, waited, ticks, past>>

\* Slip: the sum is made without the lock.
LocksNothing(t, p) == UNCHANGED siglock

Locks(t, p) == siglock[p] = NoThread /\ siglock' = [siglock EXCEPT ![p] = t]

\* sys_times reads the children's times last, k_getrusage first.
FirstRead(kind) == IF kind \in {"both", "children"} THEN "cutime" ELSE "dead"

UsageLock(t) ==
  /\ call[t].pc = "lock"
  /\ Locks(t, call[t].of)
  /\ call' = [call EXCEPT ![t].pc = FirstRead(call[t].kind)]
  /\ UNCHANGED <<task, time, signal, waited, ticks, past>>

\* Slip: the waiter is not told of the child's own children.
AfterChildrenEnds(kind) == "unlock"

AfterChildren(kind) == IF kind = "both" THEN "dead" ELSE "unlock"

ReadCutime(t) ==
  /\ call[t].pc = "cutime"
  /\ call' = [call EXCEPT ![t].pc = "cstime",
                          ![t].children.u = signal[call[t].of].children.u]
  /\ UNCHANGED <<task, time, signal, siglock, waited, ticks, past>>

ReadCstime(t) ==
  /\ call[t].pc = "cstime"
  /\ call' = [call EXCEPT ![t].pc = AfterChildren(call[t].kind),
                          ![t].children.s = signal[call[t].of].children.s]
  /\ UNCHANGED <<task, time, signal, siglock, waited, ticks, past>>

\* Slip: what the dead threads left is forgotten.
DeadForgotten(p) == Zero

Dead(p) == signal[p].dead

ReadDead(t) ==
  LET p == call[t].of
  IN /\ call[t].pc = "dead"
     /\ call' = [call EXCEPT ![t].pc = "threads", ![t].sum = Dead(p),
                             ![t].todo = Listed(p)]
     /\ UNCHANGED <<task, time, signal, siglock, waited, ticks, past>>

\* next_thread, until the list is back at its start.  A thread that left is not met.
ReadThread(t) ==
  LET left == {u \in call[t].todo : task[u] # "gone"}
  IN /\ call[t].pc = "threads"
     /\ IF left = {}
        THEN call' = [call EXCEPT ![t].todo = {},
                                  ![t].pc = IF call[t].kind = "times" THEN "cutime" ELSE "unlock"]
        ELSE LET u == CHOOSE u \in left : TRUE
             IN call' = [call EXCEPT ![t].sum = Add(@, time[u]), ![t].todo = left \ {u}]
     /\ UNCHANGED <<task, time, signal, siglock, waited, ticks, past>>

UsageUnlock(t) ==
  /\ call[t].pc = "unlock"
  /\ siglock' = [siglock EXCEPT ![call[t].of] = NoThread]
  /\ call' = [call EXCEPT ![t].pc = "return"]
  /\ UNCHANGED <<task, time, signal, waited, ticks, past>>

\* The caller has its times; a waiter then releases the child.
Returns(t) ==
  /\ call[t].pc = "return"
  /\ task' = IF call[t].kind = "both" THEN [task EXCEPT ![LeaderOf[call[t].of]] = "gone"]
             ELSE task
  /\ call' = [call EXCEPT ![t] = NoUse]
  /\ UNCHANGED <<time, signal, siglock, waited, ticks, past>>

UsageStep(t) ==
  \/ \E kind \in {"times", "self", "children"} : UsageCall(t, kind)
  \/ UsageLock(t) \/ ReadCutime(t) \/ ReadCstime(t) \/ ReadDead(t) \/ ReadThread(t)
  \/ UsageUnlock(t) \/ Returns(t)

UsageNext ==
  \E t \in Thread :
    \/ Tick(t) \/ LeaderExits(t) \/ ThreadExits(t)
    \/ \E child \in Process : Reaps(t, child)
    \/ UsageStep(t)

UsageSpec == UsageInit /\ [][UsageNext]_usageVars

-----------------------------------------------------------------------------
Pair == [u : Nat, s : Nat]

UsageTypeOK ==
  /\ task \in [Thread -> {"runs", "dead", "gone"}]
  /\ time \in [Thread -> Pair]
  /\ signal \in [Process -> [dead : Pair, children : Pair]]
  /\ siglock \in [Process -> Thread \cup {NoThread}]
  /\ waited \subseteq Process
  /\ ticks \in 0..Ticks

\* "as if the syscall took an instant longer to occur" (sys_times): what a process is
\* told it has used is no less than when it called and no more than when it is told,
\* though threads count, leave and die meanwhile.
AsIfLater ==
  \A t \in Thread :
    call[t].pc = "return" /\ call[t].kind \in {"times", "self"} =>
      AtMost(call[t].begun, call[t].sum) /\ AtMost(call[t].sum, Used(call[t].of))

\* "a sample either gets all the additions of a given child after it's reaped, or none"
\* (k_getrusage): the two times of the children belong together.
ChildrenWhole ==
  \A t \in Thread :
    call[t].pc = "return" /\ call[t].kind \in {"times", "children"} =>
      call[t].children \in past[call[t].of]

\* What a waiter is told of a child is what was added to its process for it.
ReapedAsTold ==
  \A t \in Thread :
    call[t].pc = "return" /\ call[t].kind = "both" =>
      Add(call[t].children, call[t].sum) = call[t].added

=============================================================================
