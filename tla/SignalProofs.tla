------------------------------ MODULE SignalProofs ------------------------------
(***************************************************************************)
(* Proofs about the programs that take signals and those that reap their   *)
(* children, for every number of children and of threads, every process    *)
(* table and every choice of programs: SigChld, which reaps in its signal  *)
(* handler, ForkWait, which waits, Reaping, which runs one of them, and    *)
(* SignalThreads, whose threads inherit a signal mask.                     *)
(***************************************************************************)
EXTENDS Reaping, SignalThreads, SequenceTheorems, TLAPS

-----------------------------------------------------------------------------
(* SigChld. *)

\* Every return of sigsuspend stands for a child reaped, and the parent calls
\* sigsuspend only when all children have been forked.
Accounts == /\ reaped >= suspends
            /\ pc \in {"between", "sigsuspend"} => forked = Children
            /\ pc = "sigsuspend" => suspends < Children

IInv == TypeOK /\ SignalHasItsZombie /\ Accounts

USE ChildrenAssumption

\* Without a signal there is nothing to reap for.
LEMMA OneValue == One(TRUE) = 1 /\ One(FALSE) = 0
BY DEF One

\* Nothing has happened when the parent starts.
THEOREM InitIInv == Init => IInv
<1> SUFFICES ASSUME Init PROVE IInv OBVIOUS
<1> USE DEF Init
<1>1. TypeOK
  <2>1. pending \in BOOLEAN /\ handling \in BOOLEAN BY Zenon
  <2>2. /\ pc \in PCs
        /\ forked \in 0..Children /\ suspends \in 0..Children
        /\ running \in Nat /\ zombies \in Nat /\ reaped \in Nat
        /\ forked = running + zombies + reaped
    <3>1. /\ pc = "fork" /\ forked = 0 /\ running = 0 /\ zombies = 0
          /\ reaped = 0 /\ suspends = 0
      BY Zenon
    <3> HIDE DEF Init
    <3>2. QED BY <3>1, SMT DEF PCs
  <2>3. QED BY <2>1, <2>2, Zenon DEF TypeOK
<1>2. SignalHasItsZombie
  <2>1. One(pending) = 0 /\ One(handling) = 0 BY OneValue
  <2>2. QED BY <2>1 DEF SignalHasItsZombie
<1>3. Accounts BY DEF Accounts
<1>4. QED BY <1>1, <1>2, <1>3 DEF IInv

\* Every step keeps the invariant.
THEOREM NextIInv == IInv /\ [Next]_vars => IInv'
<1> SUFFICES ASSUME IInv, [Next]_vars PROVE IInv' OBVIOUS
<1> USE DEF IInv, TypeOK, PCs, SignalHasItsZombie, Accounts, One, ParentRuns,
            childVars
<1>1. CASE Fork BY <1>1 DEF Fork
<1>2. CASE ForkFails BY <1>2 DEF ForkFails
<1>3. CASE LoopEnds BY <1>3 DEF LoopEnds
<1>4. CASE Suspend BY <1>4 DEF Suspend
<1>5. CASE ParentExits BY <1>5 DEF ParentExits
<1>6. CASE ChildExits BY <1>6 DEF ChildExits
<1>7. CASE Deliver
  <2>1. pending = TRUE /\ handling = FALSE /\ pending' = FALSE /\ handling' = TRUE
    BY <1>7 DEF Deliver
  <2>2. One(pending) = 1 /\ One(handling) = 0 /\ One(pending') = 0
        /\ One(handling') = 1
    BY <2>1, OneValue
  <2>3. UNCHANGED <<pc, suspends, childVars>> BY <1>7 DEF Deliver
  <2>4. SignalHasItsZombie'
    <3>1. zombies >= 1 /\ zombies' = zombies BY <2>2, <2>3
    <3>2. QED BY <2>2, <3>1
  <2>5. TypeOK' /\ Accounts' BY <2>1, <2>3
  <2>6. QED BY <2>4, <2>5
<1>8. CASE Handler
  <2>1. handling = TRUE /\ handling' = FALSE /\ pending' = pending
    BY <1>8 DEF Handler
  <2>2. One(handling) = 1 /\ One(handling') = 0 /\ One(pending') = One(pending)
        /\ One(pending) \in {0, 1}
    BY <2>1, OneValue
  <2> HIDE DEF One
  <2>3. zombies > 0 BY <2>2
  <2>4. One(zombies > 0) = 1
    <3>1. (zombies > 0) = TRUE BY <2>3
    <3>2. QED BY <3>1, OneValue
  <2>5. /\ zombies' = zombies - 1 /\ reaped' = reaped + 1
        /\ UNCHANGED <<forked, running>>
    BY <1>8, <2>4 DEF Handler
  <2>6. \/ pc = "sigsuspend" /\ pc' = "between" /\ suspends' = suspends + 1
        \/ pc # "sigsuspend" /\ UNCHANGED <<pc, suspends>>
    BY <1>8 DEF Handler
  <2>7. TypeOK'
    <3>1. pending' \in BOOLEAN /\ handling' \in BOOLEAN BY <2>1, Zenon
    <3>2. /\ pc' \in PCs
          /\ forked' \in 0..Children /\ suspends' \in 0..Children
          /\ running' \in Nat /\ zombies' \in Nat /\ reaped' \in Nat
          /\ forked' = running' + zombies' + reaped'
      BY <2>3, <2>5, <2>6
    <3>3. QED BY <3>1, <3>2, Zenon
  <2>8. SignalHasItsZombie' BY <2>2, <2>5
  <2>9. Accounts' BY <2>5, <2>6
  <2>10. QED BY <2>7, <2>8, <2>9
<1>9. CASE UNCHANGED vars BY <1>9 DEF vars
<1>10. QED
  BY <1>1, <1>2, <1>3, <1>4, <1>5, <1>6, <1>7, <1>8, <1>9 DEF Next, Parent

\* The invariant holds in every behaviour of the program.
THEOREM IInvHolds == Spec => []IInv
BY InitIInv, NextIInv, PTL DEF Spec

\* Every variable keeps to its values, and no child is lost count of.
THEOREM TypeCorrect == Spec => []TypeOK
BY IInvHolds, PTL DEF IInv

\* The handler's waitpid finds a child to reap whenever it is called.
THEOREM HandlerNeverBlocks == Spec => []SignalHasItsZombie
BY IInvHolds, PTL DEF IInv

\* A parent that gets past its last sigsuspend has reaped all its children.
THEOREM AllReapedWhenDone == Spec => []ReapedWhenDone
<1>1. IInv => ReapedWhenDone BY DEF IInv, TypeOK, Accounts, ReapedWhenDone
<1>2. QED BY <1>1, IInvHolds, PTL

-----------------------------------------------------------------------------
(* ForkWait. *)

\* The program is one that waits, and no fork has failed that it does not survive.
Waiting == ~(program \in NeverWait \/ (failed /\ program \in ForkFive))

\* The programs whose processes have one child each, of which they wait for one.
OneEach == program \notin ForkAll \cup ForkFive

\* A process that is past its waiting has no children left; nor has an entry that is
\* free, whose process may have had some.
Childless(p) ==
  /\ doing[p] \in {"free", "zombie", "exit", "link"} => ChildrenOf(p) = {}
  /\ OneEach /\ doing[p] = "fork" => ChildrenOf(p) = {}
  /\ OneEach /\ doing[p] = "wait" => \A c, d \in ChildrenOf(p) : c = d

NoSemaphore(p) == doing[p] \notin {"post", "take"}

Collected ==
  Waiting => ~orphaned /\ \A p \in Entry : NoSemaphore(p) /\ Childless(p)

\* Only the program's own process forks and increments the semaphore of 2_3/a2.
OnePoster ==
  \A p \in Entry :
    /\ doing[p] = "post" => program = "2_3/a2"
    /\ doing[p] \in {"fork", "post"} /\ program = "2_3/a2" => p = 0 /\ sem = 0

\* The chain of 2_2/a2 has one end that may grow.
OneEnd ==
  program = "2_2/a2" =>
    /\ created <= Five + 1
    /\ \A p \in Entry : doing[p] = "fork" => nth[p] = created /\ created <= Five
    /\ \A p, q \in Entry : doing[p] = "fork" /\ doing[q] = "fork" => p = q

ForkInv == ForkWaitTypeOK /\ Collected /\ OnePoster /\ OneEnd

USE ForkWaitAssumption

\* What the process does after a fork: a program that waits forks or waits, and
\* waits at once if it wants one child.
LEMMA AfterForkIs ==
  ASSUME ForkWaitTypeOK, NEW n \in Nat
  PROVE /\ AfterFork(n) \in {"fork", "wait", "exit", "post"}
        /\ program = "2_3/a2" <=> AfterFork(n) = "post"
        /\ program = "2_2/a2" => AfterFork(n) = "wait"
        /\ program \notin NeverWait => AfterFork(n) \in {"fork", "wait"}
        /\ program \notin NeverWait /\ OneEach => AfterFork(n) = "wait"
BY DEF AfterFork, ForkWaitTypeOK, ForkAll, ForkFive, ForkOnce, NeverWait, OneEach

\* What a child begins with: no child of a program that waits uses the semaphore.
LEMMA ChildBeginsIs ==
  ASSUME ForkWaitTypeOK, NEW n \in Nat
  PROVE /\ ChildBegins(n) \in {"fork", "take", "exit"}
        /\ program = "2_3/a2" => ChildBegins(n) = "take"
        /\ ChildBegins(n) = "fork" => program = "2_2/a2" /\ n <= Five
        /\ program \notin NeverWait => ChildBegins(n) \in {"fork", "exit"}
BY DEF ChildBegins, NeverWait

\* The program begins with one process, without children.
LEMMA InitForkInv == ForkWaitInit => ForkInv
<1> SUFFICES ASSUME ForkWaitInit PROVE ForkInv OBVIOUS
<1>1. ForkWaitTypeOK
  <2>1. failed \in BOOLEAN /\ orphaned \in BOOLEAN BY DEF ForkWaitInit
  <2>2. /\ program \in ForkPrograms
        /\ doing \in [Entry -> {"free", "fork", "wait", "link", "post", "take", "exit",
                               "zombie"}]
        /\ parent \in [Entry -> Entry \cup {Init1}]
        /\ nth \in [Entry -> Nat] /\ created \in Nat /\ sem \in 0..1
    BY DEF ForkWaitInit
  <2>3. QED BY <2>1, <2>2 DEF ForkWaitTypeOK
<1>2. \A p \in Entry : ChildrenOf(p) = {} BY DEF ForkWaitInit, ChildrenOf
<1>3. Collected BY <1>2 DEF ForkWaitInit, Collected, Childless, NoSemaphore
<1>4. OnePoster BY DEF ForkWaitInit, OnePoster
<1>5. OneEnd BY DEF ForkWaitInit, OneEnd
<1>6. QED BY <1>1, <1>3, <1>4, <1>5 DEF ForkInv

\* A fork keeps the invariant: the child takes an entry that was free.
LEMMA ForkChildKeeps ==
  ASSUME ForkInv, NEW p \in Entry, NEW c \in Entry, ForkChild(p, c)
  PROVE ForkInv'
<1> DEFINE n == IF program = "2_2/a2" THEN nth[p] ELSE nth[p] + 1
           depth == IF program = "2_2/a2" THEN nth[p] + 1 ELSE 0
<1>1. ForkWaitTypeOK BY DEF ForkInv
<1>2. n \in Nat /\ depth \in Nat BY <1>1 DEF ForkWaitTypeOK
<1>3. /\ doing[p] = "fork" /\ doing[c] = "free"
      /\ doing' = [doing EXCEPT ![p] = AfterFork(n), ![c] = ChildBegins(depth)]
      /\ parent' = [parent EXCEPT ![c] = p]
      /\ nth' = [nth EXCEPT ![p] = n, ![c] = depth]
      /\ created' = created + 1
      /\ UNCHANGED <<program, sem, failed, orphaned>>
  BY DEF ForkChild
<1>4. PICK after : after = AfterFork(n) OBVIOUS
<1>5. PICK begins : begins = ChildBegins(depth) OBVIOUS
<1>6. /\ after \in {"fork", "wait", "exit", "post"}
      /\ program = "2_3/a2" <=> after = "post"
      /\ program = "2_2/a2" => after = "wait"
      /\ program \notin NeverWait => after \in {"fork", "wait"}
      /\ program \notin NeverWait /\ OneEach => after = "wait"
  <2> HIDE DEF n
  <2> QED BY <1>1, <1>2, <1>4, AfterForkIs
<1>7. /\ begins \in {"fork", "take", "exit"}
      /\ program = "2_3/a2" => begins = "take"
      /\ begins = "fork" => program = "2_2/a2" /\ depth <= Five
      /\ program \notin NeverWait => begins \in {"fork", "exit"}
  <2> HIDE DEF depth
  <2> QED BY <1>1, <1>2, <1>5, ChildBeginsIs
<1>8. p # c BY <1>3
<1>9. /\ doing'[p] = after /\ doing'[c] = begins
      /\ \A q \in Entry \ {p, c} : doing'[q] = doing[q] /\ nth'[q] = nth[q]
      /\ nth'[p] = n /\ nth'[c] = depth
      /\ parent'[c] = p /\ \A q \in Entry \ {c} : parent'[q] = parent[q]
  <2> HIDE DEF n, depth
  <2> QED BY <1>1, <1>3, <1>4, <1>5, <1>8 DEF ForkWaitTypeOK
<1>10. ForkWaitTypeOK'
  <2> HIDE DEF n, depth
  <2> QED BY <1>1, <1>2, <1>3, <1>4, <1>5, <1>6, <1>7 DEF ForkWaitTypeOK
<1>11. Collected'
  <2> SUFFICES ASSUME Waiting' PROVE Collected' BY DEF Collected
  <2>1. /\ Waiting /\ ~orphaned /\ program \notin NeverWait
        /\ \A q \in Entry : NoSemaphore(q) /\ Childless(q)
    BY <1>3 DEF ForkInv, Collected, Waiting
  <2>2. OneEach' = OneEach BY <1>3 DEF OneEach
  <2>3. ChildrenOf(c) = {} BY <1>3, <2>1 DEF Childless
  <2>a. doing[c] = "free" /\ doing'[c] # "free" /\ parent'[c] = p
    BY <1>3, <1>7, <1>9
  <2>b. \A q \in Entry \ {c} : (doing'[q] # "free" <=> doing[q] # "free") /\ parent'[q] = parent[q]
    BY <1>3, <1>6, <1>9
  <2>4. ChildrenOf(p)' = ChildrenOf(p) \cup {c}
    BY ONLY c \in Entry, <2>a, <2>b DEF ChildrenOf
  <2>5. \A q \in Entry \ {p} : ChildrenOf(q)' = ChildrenOf(q)
    BY ONLY c \in Entry, <2>a, <2>b DEF ChildrenOf
  <2>6. \A q \in Entry : NoSemaphore(q)'
    BY <1>6, <1>7, <1>9, <2>1 DEF NoSemaphore
  <2>7. Childless(p)'
    <3>1. after \in {"fork", "wait"} /\ (OneEach => after = "wait") BY <1>6, <2>1
    <3>2. OneEach => ChildrenOf(p) = {} BY <1>3, <2>1 DEF Childless
    <3>3. OneEach => ChildrenOf(p)' = {c} BY <2>4, <3>2
    <3>4. QED BY <1>9, <2>2, <3>1, <3>3 DEF Childless
  <2>8. Childless(c)' BY <1>8, <2>3, <2>5 DEF Childless
  <2>9. ASSUME NEW q \in Entry \ {p, c} PROVE Childless(q)'
    BY <1>9, <2>1, <2>2, <2>5 DEF Childless
  <2>10. QED BY <1>3, <2>1, <2>6, <2>7, <2>8, <2>9 DEF Collected
<1>12. OnePoster'
  BY <1>3, <1>6, <1>7, <1>9 DEF ForkInv, OnePoster
<1>13. OneEnd'
  <2> SUFFICES ASSUME program = "2_2/a2" PROVE OneEnd' BY <1>3 DEF OneEnd
  <2>1. /\ nth[p] = created /\ created <= Five
        /\ \A q \in Entry : doing[q] = "fork" => q = p
    BY <1>3 DEF ForkInv, OneEnd
  <2>2. depth = created + 1 /\ created' = created + 1 BY <1>3, <2>1
  <2>3. \A q \in Entry : doing'[q] = "fork" => q = c BY <1>6, <1>9, <2>1
  <2>4. created \in Nat /\ Five \in Nat BY <1>1 DEF ForkWaitTypeOK
  <2> HIDE DEF n, depth
  <2>5. doing'[c] = "fork" => created' <= Five BY <1>7, <1>9, <2>2
  <2>6. created' <= Five + 1 BY <2>1, <2>2, <2>4
  <2>7. QED BY <1>9, <2>2, <2>3, <2>5, <2>6 DEF OneEnd
<1>14. QED BY <1>10, <1>11, <1>12, <1>13 DEF ForkInv

\* A process of a program that waits ends when it has no children; the end of one
\* of a program that does not wait is not seen by the rest.
LEMMA EndsKeeps ==
  ASSUME ForkInv, NEW p \in Entry, Ends(p)
  PROVE ForkInv'
<1> DEFINE ended == IF parent[p] = Init1 /\ p # 0 THEN "free" ELSE "zombie"
           left(c) == IF c = p THEN ended
                      ELSE IF c \in ChildrenOf(p) /\ doing[c] = "zombie" THEN "free"
                      ELSE doing[c]
<1>1. ForkWaitTypeOK BY DEF ForkInv
<1>2. /\ doing[p] = "exit"
      /\ doing' = [c \in Entry |-> left(c)]
      /\ parent' = [c \in Entry |-> IF c \in ChildrenOf(p) THEN Init1 ELSE parent[c]]
      /\ nth' = [c \in Entry |-> IF left(c) = "free" THEN 0 ELSE nth[c]]
      /\ orphaned' = (orphaned \/ ChildrenOf(p) # {})
      /\ UNCHANGED <<program, sem, failed, created>>
  BY DEF Ends
<1>3. \A c \in Entry : \/ left(c) \in {"free", "zombie"} /\ (doing[c] \in {"zombie", "exit"})
                       \/ left(c) = doing[c]
  BY <1>2
<1>4. \A c \in Entry : /\ doing'[c] = left(c)
                       /\ nth'[c] = IF left(c) = "free" THEN 0 ELSE nth[c]
  BY <1>2
<1>5. ForkWaitTypeOK'
  <2>1. \A c \in Entry : left(c) \in {"free", "fork", "wait", "link", "post", "take",
                                      "exit", "zombie"}
    BY <1>1, <1>3 DEF ForkWaitTypeOK
  <2>2. orphaned' \in BOOLEAN BY <1>2
  <2> HIDE DEF left
  <2>3. QED BY <1>1, <1>2, <2>1, <2>2 DEF ForkWaitTypeOK
<1>6. Collected'
  <2> SUFFICES ASSUME Waiting' PROVE Collected' BY DEF Collected
  <2>1. /\ Waiting /\ ~orphaned
        /\ \A q \in Entry : NoSemaphore(q) /\ Childless(q)
    BY <1>2 DEF ForkInv, Collected, Waiting
  <2>2. ChildrenOf(p) = {} BY <1>2, <2>1 DEF Childless
  <2>3. ~orphaned' BY <1>2, <2>1, <2>2
  <2>4. parent' = parent BY <1>1, <1>2, <2>2 DEF ForkWaitTypeOK
  <2>5. \A c \in Entry \ {p} : doing'[c] = doing[c] BY <1>4, <2>2
  <2>6. doing'[p] \in {"free", "zombie"} BY <1>4
  <2>7. \A q \in Entry : ChildrenOf(q)' \subseteq ChildrenOf(q)
    BY <1>2, <2>4, <2>5 DEF ChildrenOf
  <2>8. OneEach' = OneEach BY <1>2 DEF OneEach
  <2>9. Childless(p)' BY <2>2, <2>6, <2>7 DEF Childless
  <2>10. ASSUME NEW q \in Entry \ {p} PROVE Childless(q)'
    <3>1. doing'[q] = doing[q] /\ ChildrenOf(q)' \subseteq ChildrenOf(q) BY <2>5, <2>7
    <3>2. Childless(q) BY <2>1
    <3>3. QED BY <2>8, <3>1, <3>2 DEF Childless
  <2>11. \A q \in Entry : NoSemaphore(q)' BY <2>1, <2>5, <2>6 DEF NoSemaphore
  <2>12. QED BY <2>3, <2>9, <2>10, <2>11 DEF Collected
<1>7. \A c \in Entry : doing'[c] \in {"fork", "post"} =>
                         doing[c] = doing'[c] /\ nth'[c] = nth[c]
  BY <1>3, <1>4
<1>8. OnePoster' BY <1>2, <1>7 DEF ForkInv, OnePoster
<1>9. OneEnd' BY <1>2, <1>7 DEF ForkInv, OneEnd
<1>10. QED BY <1>5, <1>6, <1>8, <1>9 DEF ForkInv

\* The steps that move one process on, and may take one of its children that has
\* ended out of the table, keep the invariant if what the process moves to is
\* Childless and the semaphore is as it should be.
LEMMA OneMovesOn ==
  ASSUME ForkInv, ForkWaitTypeOK', NEW p \in Entry,
         UNCHANGED <<program, parent, created, orphaned>>,
         failed => failed',
         doing[p] # "free", doing'[p] \notin {"fork", "post"},
         \A q \in Entry \ {p} : doing'[q] \in {doing[q], "free"},
         \A q \in Entry \ {p} : doing'[q] = "free" => doing[q] \in {"free", "zombie"},
         \A q \in Entry : doing'[q] # "free" => nth'[q] = nth[q],
         Waiting' => NoSemaphore(p)' /\ Childless(p)',
         program = "2_3/a2" =>
           \A q \in Entry : doing'[q] \in {"fork", "post"} => q = 0 /\ sem' = 0
  PROVE ForkInv'
<1>1. Collected'
  <2> SUFFICES ASSUME Waiting' PROVE Collected' BY DEF Collected
  <2>1. /\ Waiting /\ ~orphaned /\ ~orphaned'
        /\ \A q \in Entry : NoSemaphore(q) /\ Childless(q)
    BY DEF ForkInv, Collected, Waiting
  <2>2. OneEach' = OneEach BY DEF OneEach
  <2>3. \A q \in Entry : ChildrenOf(q)' \subseteq ChildrenOf(q) BY DEF ChildrenOf
  <2>4. ASSUME NEW q \in Entry \ {p} PROVE NoSemaphore(q)' /\ Childless(q)'
    <3>1. NoSemaphore(q) /\ Childless(q) /\ ChildrenOf(q)' \subseteq ChildrenOf(q)
      BY <2>1, <2>3
    <3>2. CASE doing'[q] = doing[q] BY <2>2, <3>1, <3>2 DEF NoSemaphore, Childless
    <3>3. CASE doing'[q] = "free" /\ doing[q] \in {"free", "zombie"}
      BY <2>2, <3>1, <3>3 DEF NoSemaphore, Childless
    <3>4. QED BY <3>2, <3>3
  <2>5. QED BY <2>1, <2>4 DEF Collected
<1>2. OnePoster' BY DEF ForkInv, OnePoster
<1>3. \A q \in Entry : doing'[q] = "fork" => doing[q] = "fork" /\ nth'[q] = nth[q]
  OBVIOUS
<1>4. OneEnd' BY <1>3 DEF ForkInv, OneEnd
<1>5. QED BY <1>1, <1>2, <1>4 DEF ForkInv

\* Every step of a process that waits, or does not, keeps the invariant.
LEMMA NextForkInv == ForkInv /\ [ForkWaitNext]_forkVars => ForkInv'
<1> SUFFICES ASSUME ForkInv, [ForkWaitNext]_forkVars PROVE ForkInv' OBVIOUS
<1>1. ForkWaitTypeOK /\ Collected /\ OnePoster BY DEF ForkInv
<1>a. ASSUME NEW p \in Entry, NEW l \in {"wait", "link", "exit"},
             doing[p] \in {"fork", "wait", "link", "post", "take"},
             doing' = [doing EXCEPT ![p] = l],
             sem' \in 0..1, doing[p] # "post" => sem' <= sem,
             failed => failed', failed' \in BOOLEAN,
             UNCHANGED <<program, parent, nth, created, orphaned>>,
             Waiting' => /\ l \in {"exit", "link"} => ChildrenOf(p) = {}
                         /\ OneEach => \A c, d \in ChildrenOf(p) : c = d
      PROVE  ForkInv'
  <2>1. /\ doing'[p] = l /\ \A q \in Entry \ {p} : doing'[q] = doing[q]
    BY <1>1, <1>a DEF ForkWaitTypeOK
  <2>2. \A q \in Entry : ChildrenOf(q)' \subseteq ChildrenOf(q)
    BY <1>a, <2>1 DEF ChildrenOf
  <2>3. Waiting' => NoSemaphore(p)' /\ Childless(p)'
    <3>1. OneEach' = OneEach BY <1>a DEF OneEach
    <3>2. QED BY <1>a, <2>1, <2>2, <3>1 DEF NoSemaphore, Childless
  <2>4. program = "2_3/a2" =>
          \A q \in Entry : doing'[q] \in {"fork", "post"} => q = 0 /\ sem' = 0
    <3> SUFFICES ASSUME program = "2_3/a2", NEW q \in Entry, doing'[q] \in {"fork", "post"}
                 PROVE q = 0 /\ sem' = 0
      OBVIOUS
    <3>1. doing[q] = doing'[q] /\ q # p BY <2>1, <1>a
    <3>2. q = 0 /\ sem = 0 BY <3>1, <1>1 DEF OnePoster
    <3>3. doing[p] # "post" BY <3>1, <3>2, <1>1 DEF OnePoster
    <3>4. QED BY <3>2, <3>3, <1>a
  <2>5. ForkWaitTypeOK' BY <1>1, <1>a DEF ForkWaitTypeOK
  <2>6. QED BY <1>a, <2>1, <2>3, <2>4, <2>5, OneMovesOn
<1>b. ASSUME NEW p \in Entry
      PROVE  /\ Waiting => NoSemaphore(p) /\ Childless(p)
             /\ doing[p] = "post" => sem = 0 /\ program = "2_3/a2"
  BY <1>1 DEF Collected, OnePoster
<1>2. ASSUME NEW p \in Entry, NEW c \in Entry, ForkChild(p, c) PROVE ForkInv'
  BY <1>2, ForkChildKeeps
<1>3. ASSUME NEW p \in Entry, NEW c \in Entry, Collect(p, c) PROVE ForkInv'
  <2>1. /\ doing[p] = "wait" /\ c \in ChildrenOf(p) /\ doing[c] = "zombie" /\ p # c
        /\ doing' = [doing EXCEPT ![p] = AfterWait, ![c] = "free"]
        /\ nth' = [nth EXCEPT ![c] = 0]
        /\ UNCHANGED <<program, parent, sem, failed, created, orphaned>>
    BY <1>3 DEF Collect
  <2>2. AfterWait \in {"wait", "exit"} /\ (AfterWait = "exit" => OneEach)
    BY DEF AfterWait, OneEach
  <2>3. PICK after \in {"wait", "exit"} : after = AfterWait /\ (after = "exit" => OneEach)
    BY <2>2
  <2>4. /\ doing'[p] = after /\ doing'[c] = "free"
        /\ \A q \in Entry \ {p, c} : doing'[q] = doing[q]
        /\ \A q \in Entry \ {c} : nth'[q] = nth[q]
    BY <2>1, <2>3, <1>1 DEF ForkWaitTypeOK
  <2>5. ChildrenOf(p)' = ChildrenOf(p) \ {c} BY <2>1, <2>3, <2>4 DEF ChildrenOf
  <2>6. Waiting' => NoSemaphore(p)' /\ Childless(p)'
    <3>1. (Waiting' => Waiting) /\ OneEach' = OneEach BY <2>1 DEF Waiting, OneEach
    <3>2. OneEach /\ Waiting => ChildrenOf(p)' = {} BY <2>1, <2>5, <1>b DEF Childless
    <3>3. QED BY <2>3, <2>4, <3>1, <3>2 DEF NoSemaphore, Childless
  <2>7. program = "2_3/a2" =>
          \A q \in Entry : doing'[q] \in {"fork", "post"} => q = 0 /\ sem' = 0
    BY <2>1, <2>3, <2>4, <1>1 DEF OnePoster
  <2>8. ForkWaitTypeOK' BY <2>1, <2>3, <1>1 DEF ForkWaitTypeOK
  <2>9. /\ failed => failed'
        /\ doing[p] # "free" /\ doing'[p] \notin {"fork", "post"}
        /\ \A q \in Entry \ {p} : doing'[q] \in {doing[q], "free"}
        /\ \A q \in Entry \ {p} : doing'[q] = "free" => doing[q] \in {"free", "zombie"}
        /\ \A q \in Entry : doing'[q] # "free" => nth'[q] = nth[q]
    BY <2>1, <2>3, <2>4
  <2>10. QED BY <2>1, <2>6, <2>7, <2>8, <2>9, OneMovesOn
<1>4. ASSUME NEW p \in Entry, ForkFailed(p) PROVE ForkInv'
  <2>1. /\ doing[p] = "fork" /\ failed' = TRUE
        /\ doing' = [doing EXCEPT ![p] = AfterFailure]
        /\ UNCHANGED <<program, parent, nth, sem, created, orphaned>>
    BY <1>4 DEF ForkFailed
  <2>2. /\ AfterFailure \in {"wait", "exit"}
        /\ AfterFailure = "exit" => program \in ForkFive \cup NeverWait
    BY DEF AfterFailure
  <2>3. PICK after \in {"wait", "link", "exit"} :
          after = AfterFailure /\ after \in {"wait", "exit"}
          /\ (after = "exit" => program \in ForkFive \cup NeverWait)
    BY <2>2
  <2>4. Waiting' => Waiting /\ after = "wait" BY <2>1, <2>3 DEF Waiting
  <2>5. Waiting' /\ OneEach => ChildrenOf(p) = {} BY <2>1, <2>4, <1>b DEF Childless
  <2>6. sem' \in 0..1 /\ (doing[p] # "post" => sem' <= sem)
    BY <2>1, <1>1 DEF ForkWaitTypeOK
  <2>7. failed' \in BOOLEAN /\ (failed => failed')
    BY <2>1, <1>1, Zenon DEF ForkWaitTypeOK
  <2>8. QED BY <2>1, <2>3, <2>4, <2>5, <2>6, <2>7, <1>a, Zenon
<1>5. ASSUME NEW p \in Entry, NoneLeft(p) PROVE ForkInv'
  <2>1. /\ doing[p] = "wait" /\ ChildrenOf(p) = {}
        /\ doing' = [doing EXCEPT ![p] = AfterLast]
        /\ UNCHANGED <<program, parent, nth, sem, failed, created, orphaned>>
    BY <1>5 DEF NoneLeft
  <2>2. PICK after \in {"wait", "link", "exit"} : after = AfterLast BY DEF AfterLast
  <2>3. sem' \in 0..1 /\ (doing[p] # "post" => sem' <= sem)
    BY <2>1, <1>1 DEF ForkWaitTypeOK
  <2>4. failed' \in BOOLEAN /\ (failed => failed')
    BY <2>1, <1>1, Zenon DEF ForkWaitTypeOK
  <2>5. QED BY <2>1, <2>2, <2>3, <2>4, <1>a, Zenon
<1>6. ASSUME NEW p \in Entry, Links(p) PROVE ForkInv'
  <2>1. /\ doing[p] = "link" /\ doing' = [doing EXCEPT ![p] = "exit"]
        /\ UNCHANGED <<program, parent, nth, sem, failed, created, orphaned>>
    BY <1>6 DEF Links
  <2>2. Waiting' => ChildrenOf(p) = {} BY <2>1, <1>b DEF Childless, Waiting
  <2>3. sem' \in 0..1 /\ (doing[p] # "post" => sem' <= sem)
    BY <2>1, <1>1 DEF ForkWaitTypeOK
  <2>4. failed' \in BOOLEAN /\ (failed => failed')
    BY <2>1, <1>1, Zenon DEF ForkWaitTypeOK
  <2>5. QED BY <2>1, <2>2, <2>3, <2>4, <1>a, Zenon
<1>7. ASSUME NEW p \in Entry, Post(p) PROVE ForkInv'
  <2>1. /\ doing[p] = "post" /\ sem' = sem + 1 /\ doing' = [doing EXCEPT ![p] = "exit"]
        /\ UNCHANGED <<program, parent, nth, failed, created, orphaned>>
    BY <1>7 DEF Post, Posted
  <2>2. ~Waiting' BY <2>1, <1>b DEF NoSemaphore, Waiting
  <2>3. sem' \in 0..1 BY <2>1, <1>b
  <2>4. failed' \in BOOLEAN /\ (failed => failed') BY <2>1, <1>1, Zenon DEF ForkWaitTypeOK
  <2>5. QED BY <2>1, <2>2, <2>3, <2>4, <1>a, Zenon
<1>8. ASSUME NEW p \in Entry, Take(p) PROVE ForkInv'
  <2>1. /\ doing[p] = "take" /\ sem > 0 /\ sem' = sem - 1
        /\ doing' = [doing EXCEPT ![p] = "exit"]
        /\ UNCHANGED <<program, parent, nth, failed, created, orphaned>>
    BY <1>8 DEF Take
  <2>2. ~Waiting' BY <2>1, <1>b DEF NoSemaphore, Waiting
  <2>3. sem' \in 0..1 /\ (doing[p] # "post" => sem' <= sem)
    BY <2>1, <1>1 DEF ForkWaitTypeOK
  <2>4. failed' \in BOOLEAN /\ (failed => failed')
    BY <2>1, <1>1, Zenon DEF ForkWaitTypeOK
  <2>5. QED BY <2>1, <2>2, <2>3, <2>4, <1>a, Zenon
<1>9. ASSUME NEW p \in Entry, Ends(p) PROVE ForkInv'
  BY <1>9, EndsKeeps
<1>10. CASE UNCHANGED forkVars
  BY <1>10 DEF forkVars, ForkInv, ForkWaitTypeOK, Collected, OnePoster, OneEnd, Waiting,
     OneEach, Childless, NoSemaphore, ChildrenOf
<1>11. QED
  BY <1>2, <1>3, <1>4, <1>5, <1>6, <1>7, <1>8, <1>9, <1>10 DEF ForkWaitNext, ForkWaitStep

\* The invariant holds in every behaviour of a program that waits.
LEMMA ForkInvHolds == ForkWaitSpec => []ForkInv
BY InitForkInv, NextForkInv, PTL DEF ForkWaitSpec

\* Every variable keeps to its values; the semaphore of 2_3/a2 is never above one.
THEOREM ForkWaitTypeCorrect == ForkWaitSpec => []ForkWaitTypeOK
BY ForkInvHolds, PTL DEF ForkInv

\* Every child is collected before its parent ends or starts the linker, whatever the
\* order in which children end, if the program is one that waits and, when it wants
\* five, gets them.
THEOREM NobodyIsOrphaned == ForkWaitSpec => []NobodyOrphaned
<1>1. ForkInv => NobodyOrphaned
  BY DEF ForkInv, ForkWaitTypeOK, Collected, Waiting, Childless, NobodyOrphaned
<1>2. QED BY <1>1, ForkInvHolds, PTL

\* 2_2/a2 says it creates 5 processes: it creates one more, and never two more.
THEOREM AtMostSix == ForkWaitSpec => [](program = "2_2/a2" => created <= Five + 1)
<1>1. ForkInv => (program = "2_2/a2" => created <= Five + 1) BY DEF ForkInv, OneEnd
<1>2. QED BY <1>1, ForkInvHolds, PTL

-----------------------------------------------------------------------------
(* Reaping. *)

\* Whichever program is run, the shell does not disturb it: what is proved of each
\* holds of both.
THEOREM ReapingRunsOne == ReapingSpec => Spec /\ ForkWaitSpec
<1>1. ReapingInit => Init /\ ForkWaitInit BY DEF ReapingInit
<1>2. [ReapingNext]_reapingVars => [Next]_vars /\ [ForkWaitNext]_forkVars
  BY DEF ReapingNext, HandlerStep, WaitStep, reapingVars, ForkWaitNext
<1>3. QED BY <1>1, <1>2, PTL DEF ReapingSpec, Spec, ForkWaitSpec

\* So each program reaps as it should when the shell runs it.
THEOREM ReapingIsSafe ==
  ReapingSpec => [](SignalHasItsZombie /\ ReapedWhenDone /\ NobodyOrphaned)
BY ReapingRunsOne, HandlerNeverBlocks, AllReapedWhenDone, NobodyIsOrphaned, PTL

-----------------------------------------------------------------------------
(* SignalThreads. *)

USE SignalThreadsAssumption

\* What a program starts in a place: its first thread, and only it, in place 0, and a
\* thread with a mask of its own only in sig_handler.
Start(p, i) ==
  /\ p.place \in 0..2 + Plain
  /\ p.place = 0 <=> i = 1
  /\ i = 1 => p.does \in {"spin", "waitInt", "fifo"}
  /\ p.does = "handleInt" => prog = "sig_handler"
  /\ prog \in {"sig_handler", "fifo_server1"} => p.does \in {"spin", "handleInt", "fifo"}

\* Literal sequences are sequences of their elements.
LEMMA Literals ==
  ASSUME NEW S, NEW a \in S, NEW b \in S, NEW c \in S
  PROVE  /\ <<a>> \in Seq(S) /\ Len(<<a>>) = 1 /\ <<a>>[1] = a
         /\ <<a, b>> \in Seq(S) /\ Len(<<a, b>>) = 2
         /\ <<a, b>>[1] = a /\ <<a, b>>[2] = b
         /\ <<a, b, c>> \in Seq(S) /\ Len(<<a, b, c>>) = 3
         /\ <<a, b, c>>[1] = a /\ <<a, b, c>>[2] = b /\ <<a, b, c>>[3] = c
OBVIOUS

\* The threads of each program are such starts, and there are numbers for all of them.
LEMMA ThreadsAre ==
  ASSUME prog \in Programs
  PROVE  /\ Len(Threads) \in 1..4 + Plain
         /\ DOMAIN Threads = 1..Len(Threads)
         /\ \A i \in 1..Len(Threads) : Start(Threads[i], i)
<1> DEFINE All == [place : Nat, 
                     does : {"spin", "handleInt", "waitBoth", "waitInt", "waitTerm",
                             "waitPipe", "plain", "fifo"}]
<1> HIDE DEF All
<1>f. Fifos \in Seq(All) /\ Len(Fifos) = 2
      /\ Fifos[1] = [place |-> 1, does |-> "fifo"]
      /\ Fifos[2] = [place |-> 2, does |-> "fifo"]
  <2> DEFINE x == [place |-> 1, does |-> "fifo"]
             y == [place |-> 2, does |-> "fifo"]
  <2>1. x \in All /\ y \in All BY DEF All
  <2>2. Fifos = <<x, y>> BY DEF Fifos
  <2> HIDE DEF x, y
  <2>3. Fifos \in Seq(All) /\ Len(Fifos) = 2 /\ Fifos[1] = x /\ Fifos[2] = y
    BY <2>1, <2>2, Literals
  <2>4. QED BY <2>3 DEF x, y
<1>1. CASE prog \in {"sig_handler", "sigwait1"}
  <2> PICK d \in {"handleInt", "waitBoth"} :
         /\ Threads = <<[place |-> 0, does |-> "spin"], [place |-> 1, does |-> d]>> \o Fifos
         /\ d = "handleInt" <=> prog = "sig_handler"
    BY <1>1 DEF Threads
  <2> DEFINE two == <<[place |-> 0, does |-> "spin"], [place |-> 1, does |-> d]>>
  <2>1. two \in Seq(All) /\ Len(two) = 2
        /\ two[1] = [place |-> 0, does |-> "spin"] /\ two[2] = [place |-> 1, does |-> d]
    <3> DEFINE x == [place |-> 0, does |-> "spin"]
               y == [place |-> 1, does |-> d]
    <3>1. x \in All /\ y \in All BY DEF All
    <3>2. two = <<x, y>> OBVIOUS
    <3> HIDE DEF two, x, y
    <3>3. two \in Seq(All) /\ Len(two) = 2 /\ two[1] = x /\ two[2] = y
      BY <3>1, <3>2, Literals
    <3>4. QED BY <3>3 DEF x, y
  <2>2. Threads = two \o Fifos OBVIOUS
  <2> HIDE DEF two
  <2>d. DOMAIN Threads = 1..Len(Threads) BY <1>f, <2>1, <2>2, ConcatProperties
  <2>3. /\ Len(Threads) = 4
        /\ Threads[1] = two[1] /\ Threads[2] = two[2]
        /\ Threads[3] = Fifos[1] /\ Threads[4] = Fifos[2]
    BY <1>f, <2>1, <2>2, ConcatProperties
  <2>4. \A i \in 1..Len(Threads) : i = 1 \/ i = 2 \/ i = 3 \/ i = 4 BY <2>3
  <2>5. Start(Threads[1], 1) /\ Start(Threads[2], 2) BY <1>1, <2>1, <2>3 DEF Start
  <2>6. Start(Threads[3], 3) /\ Start(Threads[4], 4) BY <1>1, <1>f, <2>3 DEF Start
  <2>7. QED BY <2>3, <2>4, <2>5, <2>6, <2>d
<1>2. CASE prog = "fifo_server1"
  <2> DEFINE one == <<[place |-> 0, does |-> "fifo"]>>
  <2>1. one \in Seq(All) /\ Len(one) = 1 /\ one[1] = [place |-> 0, does |-> "fifo"]
    <3> DEFINE x == [place |-> 0, does |-> "fifo"]
    <3>1. x \in All BY DEF All
    <3>2. one = <<x>> OBVIOUS
    <3> HIDE DEF one, x
    <3>3. one \in Seq(All) /\ Len(one) = 1 /\ one[1] = x BY <3>1, <3>2, Literals
    <3>4. QED BY <3>3 DEF x
  <2>2. Threads = one \o Fifos BY <1>2 DEF Threads
  <2> HIDE DEF one
  <2>d. DOMAIN Threads = 1..Len(Threads) BY <1>f, <2>1, <2>2, ConcatProperties
  <2>3. /\ Len(Threads) = 3 /\ Threads[1] = one[1]
        /\ Threads[2] = Fifos[1] /\ Threads[3] = Fifos[2]
    <3>s. one \in Seq(All) /\ Fifos \in Seq(All) BY <1>f, <2>1
    <3>1. /\ Len(one \o Fifos) = Len(one) + Len(Fifos)
          /\ \A i \in 1..Len(one) + Len(Fifos) :
               (one \o Fifos)[i] = IF i <= Len(one) THEN one[i] ELSE Fifos[i - Len(one)]
      BY ONLY <3>s, ConcatProperties, SMT
    <3>2. QED BY <1>f, <2>1, <2>2, <3>1
  <2>4. \A i \in 1..Len(Threads) : i = 1 \/ i = 2 \/ i = 3 BY <2>3
  <2>5. QED BY <1>2, <1>f, <2>1, <2>3, <2>4, <2>d DEF Start
<1>3. CASE prog = "sigwait2"
  <2> DEFINE three == <<[place |-> 0, does |-> "waitInt"], [place |-> 1, does |-> "waitTerm"],
                        [place |-> 2, does |-> "waitPipe"]>>
             more == [i \in 1..Plain |-> [place |-> i + 2, does |-> "plain"]]
  <2>1. three \in Seq(All) /\ Len(three) = 3
        /\ three[1] = [place |-> 0, does |-> "waitInt"]
        /\ three[2] = [place |-> 1, does |-> "waitTerm"]
        /\ three[3] = [place |-> 2, does |-> "waitPipe"]
    <3> DEFINE x == [place |-> 0, does |-> "waitInt"]
               y == [place |-> 1, does |-> "waitTerm"]
               z == [place |-> 2, does |-> "waitPipe"]
    <3>1. x \in All /\ y \in All /\ z \in All BY DEF All
    <3>2. three = <<x, y, z>> OBVIOUS
    <3> HIDE DEF three, x, y, z
    <3>3. three \in Seq(All) /\ Len(three) = 3
          /\ three[1] = x /\ three[2] = y /\ three[3] = z
      BY <3>1, <3>2, Literals
    <3>4. QED BY <3>3 DEF x, y, z
  <2>2. more \in Seq(All) /\ Len(more) = Plain
    <3>1. \A i \in 1..Plain : [place |-> i + 2, does |-> "plain"] \in All BY DEF All
    <3>2. more \in [1..Plain -> All] BY <3>1
    <3> HIDE DEF more
    <3>3. QED BY <3>2
  <2>3. \A i \in 1..Plain : more[i] = [place |-> i + 2, does |-> "plain"] OBVIOUS
  <2>4. Threads = three \o more BY <1>3 DEF Threads
  <2> HIDE DEF three, more
  <2>d. DOMAIN Threads = 1..Len(Threads) BY <2>1, <2>2, <2>4, ConcatProperties
  <2>5. /\ Len(Threads) = 3 + Plain
        /\ \A i \in 1..3 : Threads[i] = three[i]
        /\ \A i \in 4..3 + Plain : Threads[i] = more[i - 3]
    <3>s. three \in Seq(All) /\ more \in Seq(All) BY <2>1, <2>2
    <3>1. /\ Len(three \o more) = Len(three) + Len(more)
          /\ \A i \in 1..Len(three) + Len(more) :
               (three \o more)[i] = IF i <= Len(three) THEN three[i]
                                    ELSE more[i - Len(three)]
      BY ONLY <3>s, ConcatProperties, SMT
    <3>2. QED BY <2>1, <2>2, <2>4, <3>1
  <2>6. ASSUME NEW i \in 1..Len(Threads) PROVE Start(Threads[i], i)
    <3>1. CASE i \in 1..3
      <4>1. i = 1 \/ i = 2 \/ i = 3 BY <3>1
      <4>2. QED BY <1>3, <2>1, <2>5, <4>1 DEF Start
    <3>2. CASE i \in 4..3 + Plain
      <4>1. i - 3 \in 1..Plain BY <3>2
      <4>2. Threads[i] = [place |-> i - 3 + 2, does |-> "plain"] BY <2>3, <2>5, <3>2, <4>1
      <4>3. QED BY <1>3, <3>2, <4>2 DEF Start
    <3>3. QED BY <2>5, <3>1, <3>2
  <2>7. QED BY <2>5, <2>6, <2>d
<1>4. QED BY <1>1, <1>2, <1>3

\* Threads are created in order, after main has masked its signals; main joins when all
\* are created.
Made == /\ \A t \in Thread : at[t] = "none" <=> t >= next
        /\ next <= Len(Threads) + 1
        /\ main = "mask" => next = 1
        /\ main = "join" => next > Len(Threads)

\* Main has its mask, and every other thread main's or, if it made one, its own.
Masks == /\ main # "mask" => mask[0] = MainMask
         /\ \A t \in Thread : at[t] = "new" => mask[t] = MainMask
         /\ \A t \in Thread :
              at[t] \notin {"none", "new"} => mask[t] = OwnMask(t, MainMask)

\* The first thread, which main joins first, runs for ever.
Lasts == /\ next > 1 => th_id[0] = 1
         /\ at[1] # "done"
         /\ at[1] \in {"wait", "handle"} => Does(1) \in Forever
         /\ joining = 0
         /\ main # "over"

\* The inductive invariant.
ThreadsInv == ThreadsTypeOK /\ Made /\ Masks /\ Lasts /\ SurvivesMasked

\* Nothing is created, masked or sent at first.
THEOREM ThreadsInitInv == ThreadsInit => ThreadsInv
<1> SUFFICES ASSUME ThreadsInit PROVE ThreadsInv OBVIOUS
<1> USE DEF ThreadsInit
<1>1. Len(Threads) \in 1..4 + Plain BY ThreadsAre
<1>2. ThreadsTypeOK BY DEF ThreadsTypeOK, Thread
<1>3. Made BY <1>1 DEF Made, Thread
<1>4. Masks BY DEF Masks
<1>5. Lasts BY DEF Lasts, Thread
<1>6. SurvivesMasked BY DEF SurvivesMasked, Signal
<1>7. QED BY <1>2, <1>3, <1>4, <1>5, <1>6 DEF ThreadsInv

\* prog never changes, and so neither do the threads and the masks it stands for.
LEMMA ProgramStays ==
  ASSUME prog' = prog
  PROVE  /\ Threads' = Threads /\ MainMask' = MainMask /\ LetThrough' = LetThrough
         /\ \A t : Does(t)' = Does(t)
         /\ \A t, m : OwnMask(t, m)' = OwnMask(t, m')
BY DEF Threads, MainMask, LetThrough, Does, OwnMask, Fifos

\* A live thread that has left its beginning behind blocks all but what the program lets
\* through; the main thread does once it has its mask.
LEMMA BlocksTheRest ==
  ASSUME ThreadsInv, main # "mask", NEW t \in Thread \cup {0}, Live(t)
  PROVE  Signal \ LetThrough \subseteq mask[t]
<1> USE DEF ThreadsInv, ThreadsTypeOK, MainMask, LetThrough
<1>1. CASE t = 0 BY <1>1 DEF Masks
<1>2. CASE t \in Thread
  <2>1. at[t] # "none" /\ t < next BY <1>2 DEF Live, Made, Thread
  <2>2. t \in 1..Len(Threads) BY <1>2, <2>1, ThreadsAre DEF Made, Thread
  <2>3. Does(t) = "handleInt" => prog = "sig_handler"
    BY <2>2, ThreadsAre DEF Start, Does
  <2>4. QED BY <1>2, <2>1, <2>3 DEF Masks, OwnMask
<1>3. QED BY <1>1, <1>2

\* Main takes its mask before there is any other thread.
LEMMA MasksKeeps == ThreadsInv /\ MainMasks => ThreadsInv'
<1> SUFFICES ASSUME ThreadsInv, MainMasks PROVE ThreadsInv' OBVIOUS
<1> USE DEF ThreadsInv, MainMasks, threads
<1>0. prog' = prog OBVIOUS
<1>1. ThreadsTypeOK' BY DEF ThreadsTypeOK, MainMask, Signal
<1>2. Made' BY <1>0, ProgramStays DEF Made, ThreadsTypeOK
<1>3. Masks'
  <2>1. mask[0]' = MainMask BY DEF ThreadsTypeOK
  <2>2. \A t \in Thread : at[t] = "none" BY DEF Made, ThreadsTypeOK, Thread
  <2>3. QED BY <1>0, <2>1, <2>2, ProgramStays DEF Masks
<1>4. Lasts' BY <1>0, ProgramStays DEF Lasts, Made
<1>5. SurvivesMasked' BY <1>0, ProgramStays DEF SurvivesMasked
<1>6. QED BY <1>1, <1>2, <1>3, <1>4, <1>5

\* A new thread has main's mask, and its place; only the first has place 0.
LEMMA CreateKeeps == ThreadsInv /\ Create => ThreadsInv'
<1> SUFFICES ASSUME ThreadsInv, Create PROVE ThreadsInv' OBVIOUS
<1> USE DEF ThreadsInv, Create
<1>0. prog' = prog OBVIOUS
<1>p. Len(Threads) \in 1..4 + Plain /\ Start(Threads[next], next)
  BY ThreadsAre DEF ThreadsTypeOK
<1>n. next \in Thread /\ next' = next + 1 BY <1>p DEF ThreadsTypeOK, Thread
<1>a. /\ at'[next] = "new" /\ \A t \in Thread \ {next} : at'[t] = at[t]
  BY <1>n DEF ThreadsTypeOK
<1>m. /\ mask'[next] = mask[0] /\ \A t \in Thread \cup {0} : t # next => mask'[t] = mask[t]
  BY <1>n DEF ThreadsTypeOK, Inherited
<1>1. ThreadsTypeOK'
  <2>1. th_id' \in [0..2 + Plain -> 0..4 + Plain]
    BY <1>n, <1>p DEF ThreadsTypeOK, Thread, Start
  <2>2. next' \in 1..5 + Plain BY <1>n DEF ThreadsTypeOK, Thread
  <2>3. at' \in [Thread -> {"none", "new", "spin", "wait", "handle", "open", "read", "done"}]
    BY DEF ThreadsTypeOK
  <2>4. mask' \in [Thread \cup {0} -> SUBSET Signal] BY DEF ThreadsTypeOK, Inherited
  <2>5. QED BY <2>1, <2>2, <2>3, <2>4 DEF ThreadsTypeOK
<1>2. Made'
  <2>1. \A t \in Thread : at'[t] = "none" <=> t >= next'
    BY <1>n, <1>a DEF Made, Thread
  <2>2. next' <= Len(Threads) + 1 BY <1>n, <1>p DEF Thread
  <2>3. QED BY <1>0, <2>1, <2>2, ProgramStays DEF Made
<1>3. Masks'
  <2>1. mask'[0] = MainMask BY <1>m, <1>n DEF Masks, Thread
  <2>2. mask'[next] = MainMask BY <1>m DEF Masks
  <2>3. QED BY <1>0, <1>a, <1>m, <2>1, <2>2, ProgramStays DEF Masks
<1>4. Lasts'
  <2>1. th_id'[0] = 1
    <3>1. CASE next = 1 BY <1>p, <3>1 DEF ThreadsTypeOK, Start
    <3>2. CASE next # 1
      <4>1. Threads[next].place # 0 BY <1>p, <3>2 DEF Start
      <4>2. QED BY <3>2, <4>1, <1>n DEF Lasts, ThreadsTypeOK, Thread
    <3>3. QED BY <3>1, <3>2
  <2>2. 1 \in Thread BY DEF Thread
  <2>3. at'[1] \in {"new", at[1]} BY <1>a, <2>2
  <2>4. QED BY <1>0, <2>1, <2>3, ProgramStays DEF Lasts
<1>5. SurvivesMasked' BY <1>0, ProgramStays DEF SurvivesMasked
<1>6. QED BY <1>1, <1>2, <1>3, <1>4, <1>5

\* Main waits for the first thread, which does not return.
LEMMA MainWaits == ThreadsInv => ~Join /\ ~Joined
<1> SUFFICES ASSUME ThreadsInv PROVE ~Join /\ ~Joined OBVIOUS
<1>1. Len(Threads) \in 1..4 + Plain /\ Start(Threads[1], 1)
  BY ThreadsAre DEF ThreadsInv, ThreadsTypeOK
<1>2. 0 \in Places
  <2>1. 1 \in DOMAIN Threads /\ Threads[1].place = 0
    BY <1>1, ThreadsAre DEF Start, ThreadsInv, ThreadsTypeOK
  <2>2. QED BY <2>1 DEF Places
<1>3. main = "join" => th_id[0] = 1 BY <1>1 DEF ThreadsInv, ThreadsTypeOK, Made, Lasts
<1>4. QED BY <1>2, <1>3 DEF Join, Joined, ThreadsInv, Lasts

\* The loop of main ends when every thread is created.
LEMMA MainKeeps == ThreadsInv /\ MainStep => ThreadsInv'
<1> SUFFICES ASSUME ThreadsInv, MainStep PROVE ThreadsInv' OBVIOUS
<1>1. CASE MainMasks BY <1>1, MasksKeeps
<1>2. CASE Create BY <1>2, CreateKeeps
<1>3. CASE CreateFails
  <2>1. prog' = prog BY <1>3 DEF CreateFails
  <2>2. QED BY <1>3, <2>1, ProgramStays DEF CreateFails, ThreadsInv, ThreadsTypeOK, Made,
               Masks, Lasts, SurvivesMasked, Signal, threads
<1>4. CASE Created
  <2>1. prog' = prog BY <1>4 DEF Created
  <2>2. QED BY <1>4, <2>1, ProgramStays DEF Created, ThreadsInv, ThreadsTypeOK, Made,
               Masks, Lasts, SurvivesMasked, threads
<1>5. QED BY <1>1, <1>2, <1>3, <1>4, MainWaits DEF MainStep

\* A thread takes its own mask as it begins, and no thread's deed changes another.
LEMMA ThreadKeeps ==
  ThreadsInv /\ (\E t \in Thread : ThreadStep(t) \/ FifoOpens(t) \/ FifoFails(t))
    => ThreadsInv'
<1> SUFFICES ASSUME ThreadsInv, NEW t \in Thread,
                    ThreadStep(t) \/ FifoOpens(t) \/ FifoFails(t)
             PROVE  ThreadsInv'
  OBVIOUS
<1> USE DEF ThreadsInv
<1>0. prog' = prog BY DEF ThreadStep, ThreadBegins, Handled, FifoOpens, FifoFails
<1>1. CASE FifoFails(t)
  BY <1>0, <1>1, ProgramStays DEF FifoFails, ThreadsTypeOK, Made, Masks, Lasts,
     SurvivesMasked, Signal, threads
<1>2. ASSUME ThreadStep(t) \/ FifoOpens(t)
      PROVE  /\ UNCHANGED <<prog, main, threads, raised, sent, end>>
             /\ at[t] \in {"new", "handle", "open"}
             /\ at' = [at EXCEPT ![t] = IF at[t] = "new" THEN Begins(t)
                                         ELSE IF at[t] = "handle" THEN WaitAgain(t)
                                         ELSE "read"]
             /\ mask' = IF at[t] = "new" THEN [mask EXCEPT ![t] = OwnMask(t, @)] ELSE mask
  BY <1>2 DEF ThreadStep, ThreadBegins, Handled, FifoOpens
<1>3. CASE ThreadStep(t) \/ FifoOpens(t)
  <2> HIDE DEF ThreadsInv
  <2> USE DEF ThreadsTypeOK, threads
  <2>t. ThreadsTypeOK /\ Made /\ Masks /\ Lasts /\ SurvivesMasked BY DEF ThreadsInv
  <2>1. ThreadsTypeOK'
    <3>1. Begins(t) \in {"spin", "open", "done", "wait"} BY DEF Begins
    <3>2. WaitAgain(t) \in {"wait", "done"} BY DEF WaitAgain
    <3>3. at' \in [Thread -> {"none", "new", "spin", "wait", "handle", "open", "read", "done"}]
      BY <1>2, <1>3, <2>t, <3>1, <3>2
    <3>4. OwnMask(t, mask[t]) \subseteq Signal BY <2>t DEF OwnMask
    <3>5. mask' \in [Thread \cup {0} -> SUBSET Signal] BY <1>2, <1>3, <2>t, <3>4
    <3>6. QED BY <1>2, <1>3, <2>t, <3>3, <3>5
  <2>a. at'[t] \notin {"none", "new"} /\ \A v \in Thread \ {t} : at'[v] = at[v]
    BY <1>2, <1>3, <2>t DEF Begins, WaitAgain
  <2>2. Made' BY <1>0, <1>2, <1>3, <2>t, <2>a, ProgramStays DEF Made
  <2>3. Masks'
    <3>1. \A v \in Thread \cup {0} : v # t => mask'[v] = mask[v] BY <1>2, <1>3, <2>t
    <3>2. mask'[t] = OwnMask(t, MainMask) BY <1>2, <1>3, <2>t DEF Masks
    <3>3. 0 # t BY DEF Thread
    <3>4. main' # "mask" => mask'[0] = MainMask BY <1>2, <1>3, <2>t, <3>1, <3>3 DEF Masks
    <3>5. QED BY <1>0, <1>2, <1>3, <2>t, <2>a, <3>1, <3>2, <3>4, ProgramStays DEF Masks
  <2>4. Lasts'
    <3>1. 1 \in Thread BY DEF Thread
    <3>2. CASE t # 1
      BY <1>0, <1>2, <1>3, <2>t, <2>a, <3>1, <3>2, ProgramStays DEF Lasts
    <3>3. CASE t = 1
      <4>1. 1 \in 1..Len(Threads)
        BY ThreadsAre, <2>t
      <4>2. Does(1) \in {"spin", "waitInt", "fifo"}
        BY <4>1, <2>t, ThreadsAre DEF Start, Does
      <4>3. at'[1] # "done" /\ (at'[1] \in {"wait", "handle"} => Does(1) \in Forever)
        BY <1>2, <1>3, <2>t, <3>3, <4>2 DEF Begins, WaitAgain, Forever, Lasts
      <4>4. QED BY <1>0, <1>2, <1>3, <2>t, <4>3, ProgramStays DEF Lasts
    <3>4. QED BY <3>2, <3>3
  <2>5. SurvivesMasked' BY <1>0, <1>2, <1>3, <2>t, ProgramStays DEF SurvivesMasked
  <2>6. QED BY <2>1, <2>2, <2>3, <2>4, <2>5 DEF ThreadsInv
<1>4. QED BY <1>1, <1>3

\* A signal ends the process only where a thread lets it through, and before main has its
\* mask it is too early to say.
LEMMA SignalKeeps ==
  ThreadsInv /\ (\E s \in Signal : Kill(s) \/ DeliverSignal(s)) => ThreadsInv'
<1> SUFFICES ASSUME ThreadsInv, NEW s \in Signal, Kill(s) \/ DeliverSignal(s)
             PROVE  ThreadsInv'
  OBVIOUS
<1>0. prog' = prog BY DEF Kill, DeliverSignal
<1>t. ThreadsTypeOK /\ Made /\ Masks /\ Lasts /\ SurvivesMasked BY DEF ThreadsInv
<1>1. CASE Kill(s)
  BY <1>0, <1>1, <1>t, ProgramStays DEF Kill, ThreadsInv, ThreadsTypeOK, Made, Masks, Lasts,
     SurvivesMasked, threads
<1>2. CASE DeliverSignal(s)
  <2>1. ASSUME NEW t \in Thread, SigwaitReturns(t, s) PROVE ThreadsInv'
    <3> USE <1>2, <2>1 DEF DeliverSignal, SigwaitReturns, threads
    <3>1. ThreadsTypeOK' BY <1>t DEF ThreadsTypeOK
    <3>2. at[t] = "wait" /\ at'[t] = "handle" /\ \A v \in Thread \ {t} : at'[v] = at[v]
      BY <1>t DEF ThreadsTypeOK
    <3> 1 \in Thread BY DEF Thread
    <3>3. Made' BY <1>0, <1>t, <3>2, ProgramStays DEF Made
    <3>4. Masks' BY <1>0, <1>t, <3>2, ProgramStays DEF Masks
    <3>5. Lasts' BY <1>0, <1>t, <3>2, ProgramStays DEF Lasts
    <3>6. SurvivesMasked' BY <1>0, <1>t, ProgramStays DEF SurvivesMasked
    <3>7. QED BY <3>1, <3>3, <3>4, <3>5, <3>6 DEF ThreadsInv
  <2>2. ASSUME NEW t \in Thread \cup {0}, Killed(t, s) PROVE ThreadsInv'
    <3> USE <1>2, <2>2 DEF DeliverSignal, Killed, threads
    <3>1. ThreadsTypeOK' BY <1>t DEF ThreadsTypeOK
    <3>2. Made' BY <1>0, <1>t, ProgramStays DEF Made
    <3>3. Masks' BY <1>0, <1>t, ProgramStays DEF Masks
    <3>4. Lasts' BY <1>0, <1>t, ProgramStays DEF Lasts
    <3>5. SurvivesMasked'
      <4>1. CASE main = "mask" BY <1>0, <4>1 DEF SurvivesMasked, Signal
      <4>2. CASE main # "mask"
        <5>1. s \in LetThrough BY <4>2, BlocksTheRest
        <5>2. end' = s BY <4>2
        <5>3. QED BY <1>0, <5>1, <5>2, ProgramStays DEF SurvivesMasked
      <4>3. QED BY <4>1, <4>2
    <3>6. QED BY <3>1, <3>2, <3>3, <3>4, <3>5 DEF ThreadsInv
  <2>3. QED BY <1>2, <2>1, <2>2 DEF DeliverSignal
<1>3. QED BY <1>1, <1>2

\* Every step keeps the invariant.
THEOREM ThreadsInvariance == ThreadsInv /\ [ThreadsNext]_threadVars => ThreadsInv'
<1>1. ThreadsInv /\ UNCHANGED threadVars => ThreadsInv'
  <2> SUFFICES ASSUME ThreadsInv, UNCHANGED threadVars PROVE ThreadsInv' OBVIOUS
  <2> USE DEF threadVars, threads
  <2>1. prog' = prog OBVIOUS
  <2>2. QED BY <2>1, ProgramStays DEF ThreadsInv, ThreadsTypeOK, Made, Masks, Lasts,
               SurvivesMasked
<1>2. QED BY <1>1, MainKeeps, ThreadKeeps, SignalKeeps DEF ThreadsNext

\* So it holds whenever the programs run.
LEMMA ThreadsInvHolds == ThreadsSpec => []ThreadsInv
BY ThreadsInitInv, ThreadsInvariance, PTL DEF ThreadsSpec

\* The variables of the four programs keep to their values.
THEOREM ThreadsTypeCorrect == ThreadsSpec => []ThreadsTypeOK
<1>1. ThreadsInv => ThreadsTypeOK BY DEF ThreadsInv
<1>2. QED BY <1>1, ThreadsInvHolds, PTL

\* Once main has masked its signals, only those a program lets through end it, whichever
\* thread they are delivered to and however many threads there are.
THEOREM MaskedSignalsNeverKill == ThreadsSpec => []SurvivesMasked
<1>1. ThreadsInv => SurvivesMasked BY DEF ThreadsInv
<1>2. QED BY <1>1, ThreadsInvHolds, PTL

\* Except in sigwait1, what a thread takes with sigwait every live thread blocks.
THEOREM TakenSignalsAreMasked == ThreadsSpec => []MaskedBeforeSigwait
<1>1. ThreadsInv => MaskedBeforeSigwait
  <2> SUFFICES ASSUME ThreadsInv, prog # "sigwait1", NEW t \in Thread,
                      NEW v \in Thread \cup {0}, at[t] = "wait", Live(v)
               PROVE  WaitSet(t) \subseteq mask[v]
    BY DEF MaskedBeforeSigwait, Masked
  <2>1. t \in 1..Len(Threads) /\ main # "mask"
    BY ThreadsAre DEF ThreadsInv, ThreadsTypeOK, Made, Thread
  <2>2. CASE prog = "sigwait2"
    <3>1. Signal \subseteq mask[v] BY <2>1, <2>2, BlocksTheRest DEF LetThrough
    <3>2. WaitSet(t) \subseteq Signal BY DEF WaitSet, Signal
    <3>3. QED BY <3>1, <3>2
  <2>3. CASE prog \in {"sig_handler", "fifo_server1"}
    <3>1. Does(t) \in {"spin", "handleInt", "fifo"}
      BY <2>1, <2>3, ThreadsAre DEF Start, Does, ThreadsInv, ThreadsTypeOK
    <3>2. QED BY <3>1 DEF WaitSet
  <2>4. QED BY <2>2, <2>3 DEF ThreadsInv, ThreadsTypeOK
<1>2. QED BY <1>1, ThreadsInvHolds, PTL

\* Main never gets past its joins: the first thread it joins runs for ever.
THEOREM MainNeverOver == ThreadsSpec => []NeverOver
<1>1. ThreadsInv => NeverOver BY DEF ThreadsInv, Lasts, NeverOver
<1>2. QED BY <1>1, ThreadsInvHolds, PTL

=============================================================================
