------------------------------- MODULE Priorities ------------------------------
(***************************************************************************)
(* KernelDrivers_March2011/sys.c: setpriority and getpriority over the     *)
(* process table of ProcessGroups.                                         *)
(*                                                                         *)
(* setpriority visits its targets one by one under tasklist_lock, which    *)
(* keeps processes from forking, exiting and changing groups meanwhile but *)
(* not from changing their user ids.                                       *)
(***************************************************************************)
EXTENDS ProcessGroups, FiniteSetsExt

CONSTANTS
  User, Root,   \* the user ids, and the one that is capable(CAP_SYS_NICE)
  MinNice, MaxNice   \* -20 and 19 in the source

ASSUME PriorityAssumption ==
  /\ Root \in User
  /\ MinNice \in -20..0 /\ MaxNice \in 0..19

Nice == MinNice..MaxNice

VARIABLES
  uid, euid,    \* the ids set_one_prio compares
  nice,
  call          \* the setpriority in progress, or NoCall

userVars == <<uid, euid>>
vars == <<groupVars, userVars, nice, call>>

NoCall == [by |-> InitPid, nice |-> 0, users |-> User, todo |-> {}, done |-> {},
           refused |-> {}, error |-> "none"]

Errors == {"none", "0", "ESRCH", "EPERM", "EACCES"}

PriorityInit ==
  /\ GroupInit
  /\ uid = [p \in Pid |-> Root]
  /\ euid = [p \in Pid |-> Root]
  /\ nice = [p \in Pid |-> 0]
  /\ call = NoCall

-----------------------------------------------------------------------------
Capable(c) == euid[c] = Root

\* PRIO_PROCESS, PRIO_PGRP and PRIO_USER, with who = 0 for the caller's own.  The
\* user of PRIO_USER is compared at each visit, so every process is visited.
Targets(c, which, who) ==
  CASE which = "process" -> {Default(who, c)} \cap alive
    [] which = "pgrp" -> Members(Default(who, pgrp[c]))
    [] which = "user" -> alive

\* Neither id of the process is the caller's effective id.
Stranger(c, p) == euid[c] \notin {uid[p], euid[p]}

\* A slip: only the ids are compared.
RefusalByUid(c, p, n) ==
  IF Stranger(c, p) /\ ~Capable(c) THEN "EPERM" ELSE "none"

\* Lowering the nice value takes the capability: RLIMIT_NICE is 0.
Refusal(c, p, n) ==
  IF Stranger(c, p) /\ ~Capable(c) THEN "EPERM"
  ELSE IF n < nice[p] /\ ~Capable(c) THEN "EACCES"
  ELSE "none"

\* Values out of range are brought to the nearest bound.
Clamp(n) == Max({MinNice, Min({n, MaxNice})})

Setpriority(c, targets, users, n) ==
  /\ call = NoCall
  /\ call' = [NoCall EXCEPT !.by = c, !.nice = Clamp(n), !.error = "ESRCH",
                            !.todo = targets, !.users = users]
  /\ UNCHANGED <<groupVars, userVars, nice>>

\* A slip: a success hides an earlier refusal.
ErrorForgotten(error) == "0"

\* A success clears the initial ESRCH and no other error.
ErrorAfter(error) == IF error = "ESRCH" THEN "0" ELSE error

SetOnePrio(p) ==
  LET refusal == Refusal(call.by, p, call.nice)
      visited == [call EXCEPT !.todo = @ \ {p}]
  IN /\ p \in call.todo
     /\ \/ /\ uid[p] \notin call.users
           /\ call' = visited
           /\ nice' = nice
        \/ /\ uid[p] \in call.users /\ refusal # "none"
           /\ call' = [visited EXCEPT !.refused = @ \cup {p}, !.error = refusal]
           /\ nice' = nice
        \/ /\ uid[p] \in call.users /\ refusal = "none"
           /\ call' = [visited EXCEPT !.done = @ \cup {p}, !.error = ErrorAfter(@)]
           /\ nice' = [nice EXCEPT ![p] = call.nice]
     /\ UNCHANGED <<groupVars, userVars>>

SetpriorityReturns ==
  /\ call # NoCall /\ call.todo = {}
  /\ call' = NoCall
  /\ UNCHANGED <<groupVars, userVars, nice>>

\* Offset by 20 and negated: the highest priority of the targets, ESRCH (-3) if none.
Getpriority(targets) == Max({20 - nice[p] : p \in targets} \cup {-3})

\* The set*uid calls, in so far as these calls see them: a process changes its
\* ids among those it has, or to any if it is root.
ChangeUser(c) ==
  \E r, e \in IF Capable(c) THEN User ELSE {uid[c], euid[c]} :
    /\ uid' = [uid EXCEPT ![c] = r]
    /\ euid' = [euid EXCEPT ![c] = e]
    /\ UNCHANGED <<groupVars, nice, call>>

\* A child inherits the ids and the nice value of its parent.
Inherit(f, c, p) == [f EXCEPT ![p] = f[c]]

-----------------------------------------------------------------------------
\* What takes tasklist_lock for writing waits for the setpriority in progress.
ProcessStep ==
  /\ call = NoCall
  /\ call' = call
  /\ \/ /\ GroupCall \/ \E c \in alive : Exec(c)
        /\ UNCHANGED <<userVars, nice>>
     \/ \E c \in alive, p \in Pid :
          /\ Fork(c, p)
          /\ uid' = Inherit(uid, c, p)
          /\ euid' = Inherit(euid, c, p)
          /\ nice' = Inherit(nice, c, p)
     \/ \E c \in alive :
          /\ Exit(c)
          /\ uid' = [uid EXCEPT ![c] = Root]
          /\ euid' = [euid EXCEPT ![c] = Root]
          /\ nice' = [nice EXCEPT ![c] = 0]

\* Bound: init calls neither this nor a set*uid.
PriorityStep ==
  \/ \E c \in alive \ {InitPid}, n \in MinNice - 1 .. MaxNice + 1 :
       \/ \E which \in {"process", "pgrp"}, who \in Pid \cup {0} :
            Setpriority(c, Targets(c, which, who), User, n)
       \/ \E u \in User : Setpriority(c, Targets(c, "user", 0), {u}, n)
  \/ \E p \in Pid : SetOnePrio(p)
  \/ SetpriorityReturns

Next ==
  \/ ProcessStep
  \/ PriorityStep
  \/ \E c \in alive \ {InitPid} : ChangeUser(c)

Spec == PriorityInit /\ [][Next]_vars

-----------------------------------------------------------------------------
TypeOK ==
  /\ GroupTypeOK
  /\ uid \in [Pid -> User] /\ euid \in [Pid -> User]
  /\ nice \in [Pid -> Nice]
  /\ call \in [by : Pid, nice : Nice, users : SUBSET User, todo : SUBSET alive, done : SUBSET alive,
               refused : SUBSET alive, error : Errors]

\* One call meets several processes and returns one number.  It is 0 exactly when
\* a process was found and none was refused, whatever the order of the visits;
\* then getpriority of the same processes reports the value asked for.
ReturnIsHonest ==
  call # NoCall /\ call.todo = {} =>
    /\ call.error = "0" <=> call.refused = {} /\ call.done # {}
    /\ call.error = "0" => Getpriority(call.done) = 20 - call.nice
    /\ call.error = "ESRCH" <=> call.refused = {} /\ call.done = {}

\* A nice value goes down only for a caller that is root at that moment, and only
\* a process that shares an id with the caller is touched by one that is not.
OnlyRootLowers ==
  [][\A p \in alive \cap alive' :
       nice'[p] # nice[p] /\ ~Capable(call.by) =>
         /\ nice'[p] > nice[p]
         /\ euid[call.by] \in {uid[p], euid[p]}]_vars

=============================================================================
