--------------------------------- MODULE Reaping --------------------------------
(***************************************************************************)
(* The exercises of Assignment/2_1 and 2_2 that create children and reap   *)
(* them: a shell runs one of them, a3 with its handler or one that waits.  *)
(***************************************************************************)
EXTENDS SigChld, ForkWait

VARIABLE byHandler     \* the program that is run is 2_1/a3

reapingVars == <<byHandler, vars, forkVars>>

ReapingInit ==
  /\ Init /\ ForkWaitInit
  /\ byHandler \in BOOLEAN
  /\ byHandler => program = CHOOSE p \in ForkPrograms : TRUE

HandlerStep == byHandler /\ Next /\ UNCHANGED <<byHandler, forkVars>>

WaitStep(p) == ~byHandler /\ ForkWaitStep(p) /\ UNCHANGED <<byHandler, vars>>

ReapingNext == HandlerStep \/ \E p \in Entry : WaitStep(p)

\* Only the waiting programs' fairness is used: every process gets its turn.
ReapingSpec ==
  /\ ReapingInit /\ [][ReapingNext]_reapingVars
  /\ \A p \in Entry : WF_reapingVars(WaitStep(p))

-----------------------------------------------------------------------------
\* Every program that waits comes to its end, those that fork without a limit because
\* children that have ended keep their entries until the fork fails; and with it every
\* process it made, whoever collects it.
AllEnd == <>(~byHandler => AllEnded)

=============================================================================
