-------------------------------- MODULE ForkWait --------------------------------
(***************************************************************************)
(* The programs of Assignment/2_1 to 2_3 that create children and collect  *)
(* them without a signal handler: a parent that forks until it cannot, or  *)
(* five times, or once, and waits; and a chain, each child forking the     *)
(* next.  Ended children keep their entry until they are waited for.  In   *)
(* 2_3/a2.c the child waits instead, on a semaphore its parent increments. *)
(***************************************************************************)
EXTENDS Naturals

CONSTANTS
  ForkPrograms,   \* which of the programs below are run
  Entry,          \* entries of the process table; entry 0 is the program's own
  Init1,          \* process 1: no entry of the table below
  Five            \* children a program wants: 5

ForkAll == {"2_1/a1", "2_2/a5"}
ForkFive == {"2_2/a1", "2_2/a4"}
ForkOnce == {"2_1/a2", "2_2/a3", "2_3/a2"}
NeverWait == {"2_1/a2", "2_3/a2"}

ASSUME ForkWaitAssumption ==
  /\ ForkPrograms \subseteq ForkAll \cup ForkFive \cup ForkOnce \cup {"2_2/a2"}
  /\ 0 \in Entry /\ Init1 \notin Entry
  /\ Five \in Nat \ {0}

VARIABLES
  program,    \* the program that is run
  doing,      \* what each entry's process is doing, "free" or "zombie"
  parent,     \* the parent of each
  nth,        \* the program's i: children forked, or the depth in the chain
  sem,        \* the semaphore of 2_3/a2, which outlives it; its SETVAL comes first
  failed,     \* fork has failed
  created,    \* history: children created
  orphaned    \* history: a process ended and left children behind

forkVars == <<program, doing, parent, nth, sem, failed, created, orphaned>>

-----------------------------------------------------------------------------
\* Where a process goes on after its n-th fork.
AfterFork(n) ==
  CASE program \in ForkAll -> "fork"
    [] program \in ForkFive -> IF n < Five THEN "fork" ELSE "wait"
    [] program \in {"2_2/a2", "2_2/a3"} -> "wait"
    [] program = "2_1/a2" -> "exit"
    [] program = "2_3/a2" -> "post"

\* What a child begins with: the one at depth n of the chain may fork the next.
ChildBegins(n) ==
  CASE program = "2_2/a2" /\ n <= Five -> "fork"
    [] program = "2_3/a2" -> "take"
    [] OTHER -> "exit"

\* Slip: after a fork that failed nobody is waited for.
NobodyWaited == "exit"

\* A fork that fails ends 2_2/a1 at once, and the loop of 2_2/a4 before its wait.
AfterFailure == IF program \in ForkFive \cup NeverWait THEN "exit" ELSE "wait"

\* Slip: one child is waited for.
OneWaited == "exit"

AfterWait == IF program \in ForkAll \cup ForkFive THEN "wait" ELSE "exit"

\* Slip: the loop is not left when no child is left.
NeverLeft == "wait"

\* waitpid has failed: no child is left.  2_2/a4 becomes the linker.
AfterLast == IF program = "2_2/a4" THEN "link" ELSE "exit"

ChildrenOf(p) == {c \in Entry : doing[c] # "free" /\ parent[c] = p}

ForkWaitInit ==
  /\ program \in ForkPrograms
  /\ doing = [p \in Entry |-> IF p = 0 THEN "fork" ELSE "free"]
  /\ parent = [p \in Entry |-> Init1]
  /\ nth = [p \in Entry |-> 0]
  /\ sem = 0 /\ failed = FALSE /\ created = 0 /\ orphaned = FALSE

ForkChild(p, c) ==
  LET n == IF program = "2_2/a2" THEN nth[p] ELSE nth[p] + 1
      depth == IF program = "2_2/a2" THEN nth[p] + 1 ELSE 0
  IN /\ doing[p] = "fork" /\ doing[c] = "free"
     /\ doing' = [doing EXCEPT ![p] = AfterFork(n), ![c] = ChildBegins(depth)]
     /\ parent' = [parent EXCEPT ![c] = p]
     /\ nth' = [nth EXCEPT ![p] = n, ![c] = depth]
     /\ created' = created + 1
     /\ UNCHANGED <<program, sem, failed, orphaned>>

\* The table is full, or memory is short.
ForkFailed(p) ==
  /\ doing[p] = "fork"
  /\ doing' = [doing EXCEPT ![p] = AfterFailure]
  /\ failed' = TRUE
  /\ UNCHANGED <<program, parent, nth, sem, created, orphaned>>

\* waitpid(-1): takes a child that has ended.
Collect(p, c) ==
  /\ doing[p] = "wait" /\ c \in ChildrenOf(p) /\ doing[c] = "zombie"
  /\ doing' = [doing EXCEPT ![p] = AfterWait, ![c] = "free"]
  /\ nth' = [nth EXCEPT ![c] = 0]
  /\ UNCHANGED <<program, parent, sem, failed, created, orphaned>>

NoneLeft(p) ==
  /\ doing[p] = "wait" /\ ChildrenOf(p) = {}
  /\ doing' = [doing EXCEPT ![p] = AfterLast]
  /\ UNCHANGED <<program, parent, nth, sem, failed, created, orphaned>>

\* The linker runs, or cannot be executed.
Links(p) ==
  /\ doing[p] = "link"
  /\ doing' = [doing EXCEPT ![p] = "exit"]
  /\ UNCHANGED <<program, parent, nth, sem, failed, created, orphaned>>

\* A process ends, whether it returns, calls exit, is a compiler that ends, or writes
\* to memory malloc did not give it.  Its children go to init, which collects those
\* that have ended; so it does with a process that was its own.
Ends(p) ==
  LET state(c) == IF c = p THEN (IF parent[p] = Init1 /\ p # 0 THEN "free" ELSE "zombie")
                  ELSE IF c \in ChildrenOf(p) /\ doing[c] = "zombie" THEN "free"
                  ELSE doing[c]
  IN /\ doing[p] = "exit"
     /\ doing' = [c \in Entry |-> state(c)]
     /\ parent' = [c \in Entry |-> IF c \in ChildrenOf(p) THEN Init1 ELSE parent[c]]
     /\ nth' = [c \in Entry |-> IF state(c) = "free" THEN 0 ELSE nth[c]]
     /\ orphaned' = (orphaned \/ ChildrenOf(p) # {})
     /\ UNCHANGED <<program, sem, failed, created>>

\* Slip: the semop names a semaphore the set does not have, as those of 2_3/a1 do.
PostsNothing == 0

\* semop +1 and -1 on semaphore 0 of the set, the one there is.
Posted == 1

Post(p) ==
  /\ doing[p] = "post"
  /\ sem' = sem + Posted
  /\ doing' = [doing EXCEPT ![p] = "exit"]
  /\ UNCHANGED <<program, parent, nth, failed, created, orphaned>>

Take(p) ==
  /\ doing[p] = "take" /\ sem > 0
  /\ sem' = sem - 1
  /\ doing' = [doing EXCEPT ![p] = "exit"]
  /\ UNCHANGED <<program, parent, nth, failed, created, orphaned>>

ForkWaitStep(p) ==
  \/ \E c \in Entry : ForkChild(p, c) \/ Collect(p, c)
  \/ ForkFailed(p) \/ NoneLeft(p) \/ Links(p) \/ Post(p) \/ Take(p) \/ Ends(p)

ForkWaitNext == \E p \in Entry : ForkWaitStep(p)

ForkWaitSpec == ForkWaitInit /\ [][ForkWaitNext]_forkVars

-----------------------------------------------------------------------------
ForkWaitTypeOK ==
  /\ program \in ForkPrograms
  /\ doing \in [Entry -> {"free", "fork", "wait", "link", "post", "take", "exit", "zombie"}]
  /\ parent \in [Entry -> Entry \cup {Init1}]
  /\ nth \in [Entry -> Nat] /\ created \in Nat /\ sem \in 0..1
  /\ failed \in BOOLEAN /\ orphaned \in BOOLEAN

\* No process ends, and the linker is not started, before every child created has been
\* collected: but for 2_1/a2 and 2_3/a2, which never wait, and for a fork that fails in a loop
\* that wants five.
NobodyOrphaned ==
  (orphaned \/ (doing[0] = "link" /\ ChildrenOf(0) # {})) =>
    program \in NeverWait \/ (failed /\ program \in ForkFive)

\* The program has ended, and every process it made has been collected.
AllEnded == doing[0] = "zombie" /\ \A p \in Entry \ {0} : doing[p] = "free"

\* "Create 5 processes" (2_2/a2.c:1).
FiveProcesses == program = "2_2/a2" => created <= Five

=============================================================================
