-------------------------------- MODULE SigChld --------------------------------
(***************************************************************************)
(* Assignment/2_1/a3.c: a parent forks five children and then calls        *)
(* sigsuspend five times; a SIGCHLD handler reaps one child per signal.    *)
(*                                                                         *)
(* Children are counted, not named: waitpid(-1) takes any of them.  Only   *)
(* one SIGCHLD can be pending, and the handler's mask holds back the next. *)
(***************************************************************************)
EXTENDS Integers

CONSTANT Children        \* forks, and sigsuspends: 5 in the source

ASSUME ChildrenAssumption == Children \in Nat

VARIABLES
  pc,         \* the parent: fork, between (two sigsuspends), sigsuspend, exited
  forked,     \* children forked
  running, zombies, reaped,   \* the children by their state
  suspends,   \* sigsuspend calls that have returned
  pending,    \* a SIGCHLD is pending for the parent
  handling    \* the handler is in waitpid

childVars == <<forked, running, zombies, reaped>>
vars == <<pc, suspends, pending, handling, childVars>>

One(b) == IF b THEN 1 ELSE 0

PCs == {"fork", "between", "sigsuspend", "exited"}

\* The parent's own code runs only while its handler does not.
ParentRuns(l) == pc = l /\ ~handling

-----------------------------------------------------------------------------
Fork ==
  /\ ParentRuns("fork")
  /\ forked < Children
  /\ forked' = forked + 1
  /\ running' = running + 1
  /\ UNCHANGED <<pc, zombies, reaped, suspends, pending, handling>>

\* fork returned -1: perror and exit(0), whatever the other children do.
ForkFails ==
  /\ ParentRuns("fork")
  /\ forked < Children
  /\ pc' = "exited"
  /\ UNCHANGED <<suspends, pending, handling, childVars>>

LoopEnds ==
  /\ ParentRuns("fork")
  /\ forked = Children
  /\ pc' = "between"
  /\ UNCHANGED <<suspends, pending, handling, childVars>>

Suspend ==
  /\ ParentRuns("between")
  /\ suspends < Children
  /\ pc' = "sigsuspend"
  /\ UNCHANGED <<suspends, pending, handling, childVars>>

ParentExits ==
  /\ ParentRuns("between")
  /\ suspends = Children
  /\ pc' = "exited"
  /\ UNCHANGED <<suspends, pending, handling, childVars>>

\* A child yields, prints and exits; the system sends SIGCHLD to its parent,
\* which has nothing more to wait for if one is pending already.
ChildExits ==
  /\ running > 0
  /\ running' = running - 1
  /\ zombies' = zombies + 1
  /\ pending' = TRUE
  /\ UNCHANGED <<pc, forked, reaped, suspends, handling>>

\* A slip: the signal stays pending while it is handled.
DeliverKeepsPending ==
  /\ pending /\ ~handling
  /\ pc # "exited"
  /\ handling' = TRUE
  /\ UNCHANGED <<pc, suspends, pending, childVars>>

\* SIGCHLD is blocked in the handler only.
Deliver ==
  /\ pending /\ ~handling
  /\ pc # "exited"
  /\ pending' = FALSE
  /\ handling' = TRUE
  /\ UNCHANGED <<pc, suspends, childVars>>

\* A slip: the handler reaps nothing.
HandlerReapsNothing ==
  /\ handling
  /\ handling' = FALSE
  /\ IF pc = "sigsuspend" THEN pc' = "between" /\ suspends' = suspends + 1
     ELSE UNCHANGED <<pc, suspends>>
  /\ UNCHANGED <<pending, childVars>>

\* sichld: one waitpid(-1), which blocks while no child has ended and fails
\* when there is none left; then the handler returns, and with it the
\* sigsuspend it interrupted, if it interrupted one.
Handler ==
  /\ handling
  /\ zombies > 0 \/ running = 0
  /\ zombies' = zombies - One(zombies > 0)
  /\ reaped' = reaped + One(zombies > 0)
  /\ handling' = FALSE
  /\ IF pc = "sigsuspend" THEN pc' = "between" /\ suspends' = suspends + 1
     ELSE UNCHANGED <<pc, suspends>>
  /\ UNCHANGED <<pending, forked, running>>

Init ==
  /\ pc = "fork"
  /\ forked = 0 /\ running = 0 /\ zombies = 0 /\ reaped = 0
  /\ suspends = 0
  /\ pending = FALSE /\ handling = FALSE

Parent == Fork \/ LoopEnds \/ Suspend \/ ParentExits \/ Deliver \/ Handler
Next == Parent \/ ForkFails \/ ChildExits

Spec == Init /\ [][Next]_vars

\* Processes that can run do, and a signal that can be delivered is.
FairSpec == Spec /\ WF_vars(Parent) /\ WF_vars(ChildExits)

-----------------------------------------------------------------------------
TypeOK ==
  /\ pc \in PCs
  /\ forked \in 0..Children /\ suspends \in 0..Children
  /\ running \in Nat /\ zombies \in Nat /\ reaped \in Nat
  /\ forked = running + zombies + reaped
  /\ pending \in BOOLEAN /\ handling \in BOOLEAN

\* The signal that is pending and the one being handled each have a child of
\* their own to reap: the blocking waitpid of the handler never blocks.
SignalHasItsZombie == zombies >= One(pending) + One(handling)

\* Signals are lost, but when the parent has come back from the last
\* sigsuspend every child has been reaped: one cannot stand for two.
ReapedWhenDone == pc \in {"between", "sigsuspend"} /\ suspends = Children =>
                    reaped = Children

\* Process_unix:1220-1224: the parent cleans up all its children.  A child
\* that has ended is reaped, if the parent does not end before.
TerminatedChildIsReaped ==
  \A n \in 1..Children : reaped + zombies >= n ~> (reaped >= n \/ pc = "exited")
=============================================================================
