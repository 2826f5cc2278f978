------------------------------ MODULE SignalThreads ----------------------------
(***************************************************************************)
(* Examples/Threads/thread_sig_handler.c, sigwait1.c, sigwait2.c and       *)
(* thread_fifo_server1.c: main sets a signal mask or none, the threads it  *)
(* creates inherit it, one changes its own, others take their signals with *)
(* sigwait or read a FIFO.  No handler is installed: a signal that reaches *)
(* a thread which does not mask it ends the process.                       *)
(***************************************************************************)
EXTENDS Naturals, Sequences

CONSTANTS
  Programs,   \* which of the four programs are run
  Plain,      \* threads of sigwait2 that just return: 7
  Sent        \* bound: signals sent to the process

ASSUME SignalThreadsAssumption ==
  /\ Programs \subseteq {"sig_handler", "sigwait1", "sigwait2", "fifo_server1"}
  /\ Plain \in Nat /\ Sent \in Nat

VARIABLES
  prog,      \* the program that runs
  main,      \* what main is doing
  next,      \* threads 1..next - 1 are created; thread 0 is main
  joining,   \* the place of th_id main joins
  th_id,     \* the thread each place names
  at,        \* what each thread is doing
  mask,      \* the signals each thread blocks
  raised,    \* the signals sent to the process and not delivered
  sent,
  end        \* how the process ended, "no" if it has not

threadVars == <<prog, main, next, joining, th_id, at, mask, raised, sent, end>>
threads == <<next, joining, th_id>>

-----------------------------------------------------------------------------
(* The programs: main's mask, and the threads in the order of creation.    *)

Signal == {"INT", "TERM", "PIPE"}

\* fifo_server1 fills its set and does not use it.
MainMask ==
  CASE prog = "sigwait1" -> Signal \ {"INT", "TERM"}
    [] prog = "fifo_server1" -> {}
    [] OTHER -> Signal

Fifos == <<[place |-> 1, does |-> "fifo"], [place |-> 2, does |-> "fifo"]>>

\* sig_handler and sigwait1 name th_id[1] twice.
Threads ==
  CASE prog = "sig_handler" ->
         <<[place |-> 0, does |-> "spin"], [place |-> 1, does |-> "handleInt"]>> \o Fifos
    [] prog = "sigwait1" ->
         <<[place |-> 0, does |-> "spin"], [place |-> 1, does |-> "waitBoth"]>> \o Fifos
    [] prog = "sigwait2" ->
         <<[place |-> 0, does |-> "waitInt"], [place |-> 1, does |-> "waitTerm"],
           [place |-> 2, does |-> "waitPipe"]>>
         \o [i \in 1..Plain |-> [place |-> i + 2, does |-> "plain"]]
    [] prog = "fifo_server1" -> <<[place |-> 0, does |-> "fifo"]>> \o Fifos

Thread == 1..4 + Plain
Places == {Threads[i].place : i \in DOMAIN Threads}

Does(t) == Threads[t].does

WaitSet(t) ==
  CASE Does(t) = "waitBoth" -> {"INT", "TERM"}
    [] Does(t) = "waitInt" -> {"INT"}
    [] Does(t) = "waitTerm" -> {"TERM"}
    [] Does(t) = "waitPipe" -> {"PIPE"}
    [] OTHER -> {}

Forever == {"waitBoth", "waitInt"}

\* thread_func3 of sig_handler handles SIGINT only.  Slips: it masks it too, or what
\* it unmasks is not all it should keep masked.
OwnMaskFull(t, inherited) == inherited
OwnMaskTerm(t, inherited) ==
  IF Does(t) = "handleInt" THEN Signal \ {"INT", "TERM"} ELSE inherited

OwnMask(t, inherited) ==
  IF Does(t) = "handleInt" THEN Signal \ {"INT"} ELSE inherited

-----------------------------------------------------------------------------
ThreadsInit ==
  /\ prog \in Programs
  /\ main = "mask" /\ next = 1 /\ joining = 0
  /\ th_id = [i \in 0..2 + Plain |-> 0]
  /\ at = [t \in Thread |-> "none"]
  /\ mask = [t \in Thread \cup {0} |-> {}]
  /\ raised = {} /\ sent = 0 /\ end = "no"

Running == end = "no"

MainMasks ==
  /\ main = "mask"
  /\ main' = "create"
  /\ mask' = [mask EXCEPT ![0] = MainMask]
  /\ UNCHANGED <<prog, threads, at, raised, sent, end>>

\* A new thread has the mask of the thread that creates it.
Inherited(m) == m

Create ==
  /\ main = "create" /\ next <= Len(Threads)
  /\ next' = next + 1
  /\ th_id' = [th_id EXCEPT ![Threads[next].place] = next]
  /\ at' = [at EXCEPT ![next] = "new"]
  /\ mask' = [mask EXCEPT ![next] = Inherited(mask[0])]
  /\ UNCHANGED <<prog, main, joining, raised, sent, end>>

\* So does a FIFO that cannot be made, before the first thread is.
CreateFails ==
  /\ main = "create" /\ next <= Len(Threads)
  /\ end' = "error"
  /\ UNCHANGED <<prog, main, threads, at, mask, raised, sent>>

Created ==
  /\ main = "create" /\ next > Len(Threads)
  /\ main' = "join"
  /\ UNCHANGED <<prog, threads, at, mask, raised, sent, end>>

Join ==
  /\ main = "join" /\ joining \in Places /\ at[th_id[joining]] = "done"
  /\ joining' = joining + 1
  /\ UNCHANGED <<prog, main, next, th_id, at, mask, raised, sent, end>>

\* All joined: exit(0), or for ever in a loop.
Joined ==
  /\ main = "join" /\ joining \notin Places
  /\ main' = "over"
  /\ end' = IF prog = "sigwait2" THEN end ELSE "exit"
  /\ UNCHANGED <<prog, threads, at, mask, raised, sent>>

MainStep == MainMasks \/ Create \/ CreateFails \/ Created \/ Join \/ Joined

Begins(t) ==
  CASE Does(t) \in {"spin", "handleInt"} -> "spin"
    [] Does(t) = "fifo" -> "open"
    [] Does(t) = "plain" -> "done"
    [] OTHER -> "wait"

ThreadBegins(t) ==
  /\ at[t] = "new"
  /\ at' = [at EXCEPT ![t] = Begins(t)]
  /\ mask' = [mask EXCEPT ![t] = OwnMask(t, @)]
  /\ UNCHANGED <<prog, main, threads, raised, sent, end>>

\* sigwait took a signal.  Slip: the thread returns after its first one.
WaitOnce(t) == "done"

WaitAgain(t) == IF Does(t) \in Forever THEN "wait" ELSE "done"

Handled(t) ==
  /\ at[t] = "handle"
  /\ at' = [at EXCEPT ![t] = WaitAgain(t)]
  /\ UNCHANGED <<prog, main, threads, mask, raised, sent, end>>

FifoOpens(t) ==
  /\ at[t] = "open"
  /\ at' = [at EXCEPT ![t] = "read"]
  /\ UNCHANGED <<prog, main, threads, mask, raised, sent, end>>

\* exit(4) when the FIFO cannot be opened, exit(5) when it cannot be read.
FifoFails(t) ==
  /\ at[t] \in {"open", "read"}
  /\ end' = "error"
  /\ UNCHANGED <<prog, main, threads, at, mask, raised, sent>>

ThreadStep(t) == ThreadBegins(t) \/ Handled(t)

-----------------------------------------------------------------------------
(* The kernel.                                                             *)

Live(t) == t \in Thread => at[t] \notin {"none", "done"}

\* kill: a signal that is already pending is not sent twice.
Kill(s) ==
  /\ sent < Sent
  /\ sent' = sent + 1
  /\ raised' = raised \cup {s}
  /\ UNCHANGED <<prog, main, threads, at, mask, end>>

SigwaitReturns(t, s) ==
  /\ at[t] = "wait" /\ s \in WaitSet(t)
  /\ at' = [at EXCEPT ![t] = "handle"]
  /\ UNCHANGED end

\* The default action, for any thread that lets the signal through.
Killed(t, s) ==
  /\ Live(t) /\ s \notin mask[t]
  /\ end' = IF main = "mask" THEN "early" ELSE s
  /\ UNCHANGED at

DeliverSignal(s) ==
  /\ s \in raised
  /\ raised' = raised \ {s}
  /\ (\E t \in Thread : SigwaitReturns(t, s)) \/ (\E t \in Thread \cup {0} : Killed(t, s))
  /\ UNCHANGED <<prog, main, threads, mask, sent>>

ThreadsNext ==
  /\ Running
  /\ \/ MainStep
     \/ \E t \in Thread : ThreadStep(t) \/ FifoOpens(t) \/ FifoFails(t)
     \/ \E s \in Signal : Kill(s) \/ DeliverSignal(s)

ThreadsSpec == ThreadsInit /\ [][ThreadsNext]_threadVars

\* Threads are scheduled and signals delivered; a FIFO may never be opened or written.
ThreadsFairSpec ==
  /\ ThreadsSpec
  /\ WF_threadVars(Running /\ MainStep)
  /\ \A t \in Thread : WF_threadVars(Running /\ ThreadStep(t))
  /\ \A s \in Signal : WF_threadVars(Running /\ DeliverSignal(s))

-----------------------------------------------------------------------------
ThreadsTypeOK ==
  /\ prog \in Programs
  /\ main \in {"mask", "create", "join", "over"}
  /\ next \in 1..5 + Plain /\ joining \in 0..3 + Plain
  /\ th_id \in [0..2 + Plain -> 0..4 + Plain]
  /\ at \in [Thread -> {"none", "new", "spin", "wait", "handle", "open", "read", "done"}]
  /\ mask \in [Thread \cup {0} -> SUBSET Signal]
  /\ raised \subseteq Signal
  /\ sent \in 0..Sent
  /\ end \in Signal \cup {"no", "error", "exit", "early"}

\* Once main has masked its signals, only those a program lets through end it: SIGINT
\* for sig_handler, none for sigwait2.
LetThrough ==
  CASE prog = "sig_handler" -> {"INT"}
    [] prog = "sigwait1" -> {"INT", "TERM"}
    [] prog = "sigwait2" -> {}
    [] prog = "fifo_server1" -> Signal

SurvivesMasked == end \in Signal => end \in LetThrough

\* "all signals set in s1 must be masked before we enter" (sigwait1.c, before sigwait),
\* and in every thread, since the process has one set of pending signals.
Masked ==
  \A t \in Thread, u \in Thread \cup {0} :
    at[t] = "wait" /\ Live(u) => WaitSet(t) \subseteq mask[u]

\* sigwait1 unmasks in main the signals its thread waits for; sigwait2 does not.
MaskedBeforeSigwait == prog # "sigwait1" => Masked

\* A SIGINT is taken, by the thread meant for it or by ending the process, however often
\* it is sent and whichever threads have returned.
IntServed == "INT" \in raised ~> "INT" \notin raised \/ ~Running

\* main never gets past its joins: the first thread of each program runs for ever.
NeverOver == main # "over"

=============================================================================
