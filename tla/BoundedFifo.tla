----------------------------- MODULE BoundedFifo -----------------------------
(***************************************************************************)
(* What the ring buffer of prodcons_threads.c promises its two users, said *)
(* without slots, indices, counters, semaphores or locks: items come out   *)
(* in the order they went in, never more than Capacity of them wait, and   *)
(* an item that waits is taken out unless the process ends first.          *)
(***************************************************************************)
EXTENDS Naturals, Sequences

CONSTANTS Items,      \* what may be put
          Capacity    \* how many items may wait

VARIABLES queue,      \* the items put and not yet taken
          alive       \* FALSE once the process has ended

vars == <<queue, alive>>

TypeOK == queue \in Seq(Items) /\ alive \in BOOLEAN

Init == queue = <<>> /\ alive = TRUE

Put == /\ alive
       /\ Len(queue) < Capacity
       /\ \E item \in Items : queue' = Append(queue, item)
       /\ UNCHANGED alive

Get == /\ alive
       /\ queue # <<>>
       /\ queue' = Tail(queue)
       /\ UNCHANGED alive

End == /\ alive
       /\ alive' = FALSE
       /\ UNCHANGED queue

Next == Put \/ Get \/ End

\* The safety part alone, and the whole promise.
SafeSpec == Init /\ [][Next]_vars
Spec == SafeSpec /\ WF_vars(Get)
=============================================================================
