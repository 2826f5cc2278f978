----------------------------- MODULE ProcessGroups -----------------------------
(***************************************************************************)
(* KernelDrivers_March2011/sys.c: setpgid, getpgid, getsid and setsid over *)
(* a table of processes that fork, exec and exit.                          *)
(*                                                                         *)
(* Every call runs under tasklist_lock, so a call is one step; a call that *)
(* returns an error changes nothing and is no step.  Processes have one    *)
(* thread each: current is its own group_leader.                           *)
(***************************************************************************)
EXTENDS Integers

CONSTANTS
  Pid,      \* the process numbers
  InitPid   \* the process every orphan is given to

ASSUME PidAssumption == InitPid \in Pid /\ 0 \notin Pid

VARIABLES
  alive,    \* the processes not yet released
  parent,   \* real_parent
  pgrp,     \* the process group of each process
  session,  \* the session of each process
  leader,   \* signal->leader: the processes that lead a session
  execed    \* did_exec

groupVars == <<alive, parent, pgrp, session, leader, execed>>

-----------------------------------------------------------------------------
(* What the calls look up.                                                 *)

\* An argument 0 stands for the caller, or for the other argument.
Default(arg, otherwise) == IF arg = 0 THEN otherwise ELSE arg

Members(g) == {p \in alive : pgrp[p] = g}

\* The numbers in use as a process, a group or a session: no new process gets one.
InUse == alive \cup {pgrp[p] : p \in alive} \cup {session[p] : p \in alive}

Getpgid(c, pid) == pgrp[Default(pid, c)]
Getsid(c, pid) == session[Default(pid, c)]

-----------------------------------------------------------------------------
GroupInit ==
  /\ alive = {InitPid}
  /\ parent = [p \in Pid |-> InitPid]
  /\ pgrp = [p \in Pid |-> InitPid]
  /\ session = [p \in Pid |-> InitPid]
  /\ leader = {InitPid}
  /\ execed = {InitPid}

\* The child is born in its parent's group and session, leads nothing and has
\* not called exec.
Fork(c, p) ==
  /\ c \in alive
  /\ p \in Pid \ InUse
  /\ alive' = alive \cup {p}
  /\ parent' = [parent EXCEPT ![p] = c]
  /\ pgrp' = [pgrp EXCEPT ![p] = pgrp[c]]
  /\ session' = [session EXCEPT ![p] = session[c]]
  /\ leader' = leader \ {p}
  /\ execed' = execed \ {p}

Exec(c) ==
  /\ c \in alive
  /\ execed' = execed \cup {c}
  /\ UNCHANGED <<alive, parent, pgrp, session, leader>>

\* The process leaves the table and its children are given to init.  Its number
\* stays in use while a group or a session bears it.
Exit(c) ==
  /\ c \in alive \ {InitPid}
  /\ alive' = alive \ {c}
  /\ parent' = [p \in Pid |-> IF c \in {p, parent[p]} THEN InitPid ELSE parent[p]]
  /\ pgrp' = [pgrp EXCEPT ![c] = InitPid]
  /\ session' = [session EXCEPT ![c] = InitPid]
  /\ leader' = leader \ {c}
  /\ execed' = execed \ {c}

\* Slips: the child's own session, or the target group's, is not compared.
MayMoveAnyChild(c, p) == IF parent[p] = c THEN p \notin execed ELSE p = c

GroupOfAnySession(c, p, g) == g = p \/ Members(g) # {}

\* A caller may move itself, and a child of its session that has not exec'ed.
MayMove(c, p) ==
  IF parent[p] = c
  THEN session[p] = session[c] /\ p \notin execed
  ELSE p = c

\* The process founds a group of its own number, or joins one of the session.
MayJoin(c, p, g) ==
  \/ g = p
  \/ \E q \in Members(g) : session[q] = session[c]

Setpgid(c, pid, pgid) ==
  LET p == Default(pid, c)
      g == Default(pgid, p)
  IN /\ c \in alive
     /\ p \in alive
     /\ MayMove(c, p)
     /\ p \notin leader
     /\ MayJoin(c, p, g)
     /\ pgrp' = [pgrp EXCEPT ![p] = g]
     /\ UNCHANGED <<alive, parent, session, leader, execed>>

\* Slips: a group of the caller's number may be there already; the session
\* changes and the group does not.
SetsidOverGroup(c) ==
  /\ c \in alive \ leader
  /\ leader' = leader \cup {c}
  /\ session' = [session EXCEPT ![c] = c]
  /\ pgrp' = [pgrp EXCEPT ![c] = c]
  /\ UNCHANGED <<alive, parent, execed>>

SetsidKeepsGroup(c) ==
  /\ c \in alive \ leader
  /\ Members(c) = {}
  /\ leader' = leader \cup {c}
  /\ session' = [session EXCEPT ![c] = c]
  /\ UNCHANGED <<alive, parent, pgrp, execed>>

\* Refused to a session leader, and while a group of the new session's number
\* exists.
Setsid(c) ==
  /\ c \in alive \ leader
  /\ Members(c) = {}
  /\ leader' = leader \cup {c}
  /\ session' = [session EXCEPT ![c] = c]
  /\ pgrp' = [pgrp EXCEPT ![c] = c]
  /\ UNCHANGED <<alive, parent, execed>>

GroupCall ==
  \E c \in alive :
    \/ Setsid(c)
    \/ \E pid, pgid \in Pid \cup {0} : Setpgid(c, pid, pgid)

GroupNext ==
  \/ GroupCall
  \/ \E c \in alive : Exec(c) \/ Exit(c) \/ \E p \in Pid : Fork(c, p)

GroupSpec == GroupInit /\ [][GroupNext]_groupVars

-----------------------------------------------------------------------------
(* What the calls keep.                                                    *)

GroupTypeOK ==
  /\ alive \in SUBSET Pid /\ InitPid \in alive
  /\ parent \in [Pid -> Pid]
  /\ pgrp \in [Pid -> Pid]
  /\ session \in [Pid -> Pid]
  /\ leader \in SUBSET Pid
  /\ execed \in SUBSET Pid

\* setpgid compares one member's session with the caller's and setsid only asks
\* whether a group of its number exists; still, whatever processes fork, move and
\* exit, the processes getpgid finds in one group are in one session by getsid.
GroupInOneSession ==
  \A p, q \in alive :
    Getpgid(p, 0) = Getpgid(q, 0) => Getsid(p, 0) = Getsid(q, 0)

\* The leader flag setpgid refuses to move is the truth about sessions: a process
\* leads if and only if it founded the session that bears its number, and it
\* stands in the group of that number.
LeadersLead ==
  \A p \in alive :
    /\ p \in leader <=> session[p] = p
    /\ p \in leader => pgrp[p] = p

\* A session is founded and never joined: a process whose session changes is
\* alone in the new session and in the new group.
SessionsAreFounded ==
  [][\A p \in alive \cap alive' :
       session'[p] # session[p] =>
         \A q \in alive' \ {p} : session'[q] # session'[p] /\ pgrp'[q] # pgrp'[p]]_groupVars

=============================================================================
