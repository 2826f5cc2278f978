------------------------------ MODULE BatchQueue ------------------------------
(***************************************************************************)
(* What the message queue of thread_mutex_cond.c promises: jobs gather, in *)
(* order, until there are Batch of them, and then all of them are served   *)
(* at once.  No mutex, no condition variable, no counter.                  *)
(***************************************************************************)
EXTENDS Naturals, Sequences

CONSTANT Batch

VARIABLES backlog,    \* the jobs that wait, oldest first
          accepted    \* how many jobs were ever accepted

vars == <<backlog, accepted>>

Init == backlog = <<>> /\ accepted = 0

Accept == /\ Len(backlog) < Batch
          /\ accepted' = accepted + 1
          /\ backlog' = Append(backlog, accepted')

ServeAll == /\ Len(backlog) = Batch
            /\ backlog' = <<>>
            /\ UNCHANGED accepted

Next == Accept \/ ServeAll

SafeSpec == Init /\ [][Next]_vars
Spec == SafeSpec /\ WF_vars(ServeAll)
=============================================================================
