-------------------------- MODULE ProcessGroupsProofs --------------------------
(***************************************************************************)
(* For every set of process numbers, the calls of ProcessGroups keep every *)
(* group inside one session, and a session is founded and never joined.    *)
(***************************************************************************)
EXTENDS Priorities, TLAPS

\* A group's number, or a session's, names a process of that session as long as
\* such a process lives.  This is what lets setpgid skip the comparison when a
\* process founds its own group, and setsid look at groups only.
FoundersStay ==
  \A p, q \in alive :
    /\ pgrp[p] = q => session[q] = session[p]
    /\ session[p] = q => session[q] = q

GroupInv == GroupTypeOK /\ GroupInOneSession /\ LeadersLead /\ FoundersStay

\* getpgid and getsid of a process by itself.
LEMMA OwnIds ==
  ASSUME NEW p \in Pid
  PROVE  Getpgid(p, 0) = pgrp[p] /\ Getsid(p, 0) = session[p]
  BY DEF Getpgid, Getsid, Default

\* The invariant holds of init alone.
LEMMA InitInv == GroupInit => GroupInv
  <1> SUFFICES ASSUME GroupInit PROVE GroupInv
    OBVIOUS
  <1>1. GroupTypeOK
    BY PidAssumption DEF GroupInit, GroupTypeOK
  <1>2. LeadersLead /\ FoundersStay
    BY PidAssumption DEF GroupInit, LeadersLead, FoundersStay
  <1>3. GroupInOneSession
    BY PidAssumption, OwnIds DEF GroupInit, GroupInOneSession
  <1> QED
    BY <1>1, <1>2, <1>3 DEF GroupInv

\* fork takes a number no group or session bears.
LEMMA ForkKeeps ==
  ASSUME GroupInv, NEW c \in alive, NEW p \in Pid, Fork(c, p)
  PROVE  GroupInv'
  <1> USE DEF GroupInv, GroupTypeOK
  <1>1. p \notin alive /\ \A q \in alive : pgrp[q] # p /\ session[q] # p
    BY DEF Fork, InUse
  <1>2. GroupTypeOK'
    BY PidAssumption DEF Fork
  <1>3. /\ alive' = alive \cup {p}
        /\ \A q \in alive : pgrp'[q] = pgrp[q] /\ session'[q] = session[q]
        /\ pgrp'[p] = pgrp[c] /\ session'[p] = session[c]
        /\ \A q \in alive : q \in leader' <=> q \in leader
        /\ p \notin leader'
    BY <1>1 DEF Fork
  <1>4. GroupInOneSession'
    BY <1>2, <1>3, OwnIds DEF GroupInOneSession, Getpgid, Getsid, Default
  <1>5. LeadersLead'
    BY <1>1, <1>3 DEF LeadersLead
  <1>6. FoundersStay'
    BY <1>1, <1>3 DEF FoundersStay
  <1> QED
    BY <1>2, <1>4, <1>5, <1>6

\* exec marks its process, which its parent may then no longer move, and nothing else.
LEMMA ExecKeeps ==
  ASSUME GroupInv, NEW c \in alive, Exec(c)
  PROVE  GroupInv'
  BY DEF Exec, GroupInv, GroupTypeOK, GroupInOneSession, Getpgid, Getsid, Default,
         LeadersLead, FoundersStay

\* A process that ends leaves its group and its session, and frees its identifier.
LEMMA ExitKeeps ==
  ASSUME GroupInv, NEW c \in alive, Exit(c)
  PROVE  GroupInv'
  <1> USE DEF GroupInv, GroupTypeOK
  <1>1. GroupTypeOK'
    BY PidAssumption DEF Exit
  <1>2. /\ alive' \subseteq alive
        /\ \A q \in alive' : /\ pgrp'[q] = pgrp[q] /\ session'[q] = session[q]
                             /\ q \in leader' <=> q \in leader
    BY DEF Exit
  <1>3. GroupInOneSession'
    BY <1>1, <1>2, OwnIds DEF GroupInOneSession, Getpgid, Getsid, Default
  <1>4. LeadersLead' /\ FoundersStay'
    BY <1>2 DEF LeadersLead, FoundersStay
  <1> QED
    BY <1>1, <1>3, <1>4

\* setpgid: the group founded has only members of the mover's session, and the
\* group joined has one and so all.
LEMMA SetpgidKeeps ==
  ASSUME GroupInv, NEW c \in alive, NEW pid \in Pid \cup {0}, NEW pgid \in Pid \cup {0},
         Setpgid(c, pid, pgid)
  PROVE  GroupInv'
  <1> USE DEF GroupInv, GroupTypeOK
  <1> DEFINE p == Default(pid, c)
             g == Default(pgid, p)
  <1>1. p \in alive /\ p \in Pid /\ g \in Pid /\ p \notin leader
    BY DEF Setpgid, Default
  <1>2. session[p] = session[c]
    BY <1>1 DEF Setpgid, MayMove
  <1>3. /\ UNCHANGED <<alive, session, leader>>
        /\ pgrp' = [pgrp EXCEPT ![p] = g]
    BY DEF Setpgid
  <1>4. GroupTypeOK'
    BY <1>1, <1>3 DEF Setpgid
  <1>5. \A q \in alive : pgrp[q] = g => session[q] = session[p]
    <2>1. CASE g = p
      BY <2>1, <1>1 DEF FoundersStay
    <2>2. CASE \E q \in Members(g) : session[q] = session[c]
      <3>1. PICK r \in alive : pgrp[r] = g /\ session[r] = session[p]
        BY <2>2, <1>2 DEF Members
      <3> QED
        BY <3>1, OwnIds DEF GroupInOneSession
    <2> QED
      BY <2>1, <2>2, <1>1 DEF Setpgid, MayJoin
  <1>6. g \in alive => session[g] = session[p]
    <2>1. CASE g = p
      BY <2>1
    <2>2. CASE \E q \in Members(g) : session[q] = session[c]
      BY <2>2, <1>2 DEF Members, FoundersStay
    <2> QED
      BY <2>1, <2>2, <1>1 DEF Setpgid, MayJoin
  <1>7. \A q \in alive : pgrp'[q] = IF q = p THEN g ELSE pgrp[q]
    BY <1>1, <1>3
  <1>8. GroupInOneSession'
    <2> SUFFICES ASSUME NEW q \in alive, NEW r \in alive, pgrp'[q] = pgrp'[r]
                 PROVE  session[q] = session[r]
      BY <1>3, <1>4, OwnIds DEF GroupInOneSession, Getpgid, Getsid, Default
    <2>1. pgrp[q] = pgrp[r] => session[q] = session[r]
      BY OwnIds DEF GroupInOneSession
    <2> QED
      BY <2>1, <1>5, <1>7
  <1>9. LeadersLead'
    BY <1>1, <1>3, <1>7 DEF LeadersLead
  <1>10. FoundersStay'
    BY <1>3, <1>6, <1>7 DEF FoundersStay
  <1> QED
    BY <1>4, <1>8, <1>9, <1>10

\* setsid: the caller founded no session and no group bears its number, so it is
\* alone in what it founds.
LEMMA SetsidKeeps ==
  ASSUME GroupInv, NEW c \in alive, Setsid(c)
  PROVE  /\ GroupInv'
         /\ \A q \in alive \ {c} : session'[q] # c /\ pgrp'[q] # c
  <1> USE DEF GroupInv, GroupTypeOK
  <1>1. \A q \in alive : pgrp[q] # c
    BY DEF Setsid, Members
  <1>2. session[c] # c
    BY DEF Setsid, LeadersLead
  <1>3. \A q \in alive : session[q] # c
    BY <1>2 DEF FoundersStay
  <1>4. /\ UNCHANGED alive
        /\ leader' = leader \cup {c}
        /\ \A q \in alive : session'[q] = IF q = c THEN c ELSE session[q]
        /\ \A q \in alive : pgrp'[q] = IF q = c THEN c ELSE pgrp[q]
    BY DEF Setsid
  <1>5. GroupTypeOK'
    BY DEF Setsid
  <1>6. GroupInOneSession'
    <2> SUFFICES ASSUME NEW q \in alive, NEW r \in alive, pgrp'[q] = pgrp'[r]
                 PROVE  session'[q] = session'[r]
      BY <1>4, <1>5, OwnIds DEF GroupInOneSession, Getpgid, Getsid, Default
    <2>1. pgrp[q] = pgrp[r] => session[q] = session[r]
      BY OwnIds DEF GroupInOneSession
    <2> QED
      BY <2>1, <1>1, <1>4
  <1>7. LeadersLead'
    BY <1>3, <1>4 DEF LeadersLead
  <1>8. FoundersStay'
    BY <1>1, <1>3, <1>4 DEF FoundersStay
  <1> QED
    BY <1>1, <1>3, <1>4, <1>5, <1>6, <1>7, <1>8

\* Every step keeps the invariant.
LEMMA StepKeeps == GroupInv /\ [GroupNext]_groupVars => GroupInv'
  <1> SUFFICES ASSUME GroupInv, [GroupNext]_groupVars PROVE GroupInv'
    OBVIOUS
  <1>1. CASE UNCHANGED groupVars
    BY <1>1 DEF groupVars, GroupInv, GroupTypeOK, GroupInOneSession, Getpgid, Getsid,
                Default, LeadersLead, FoundersStay
  <1>2. CASE GroupCall
    BY <1>2, SetsidKeeps, SetpgidKeeps DEF GroupCall
  <1>3. CASE \E c \in alive : Exec(c) \/ Exit(c) \/ \E p \in Pid : Fork(c, p)
    BY <1>3, ExecKeeps, ExitKeeps, ForkKeeps
  <1> QED
    BY <1>1, <1>2, <1>3 DEF GroupNext

\* The invariant holds throughout.
LEMMA Invariance == GroupSpec => []GroupInv
  BY InitInv, StepKeeps, PTL DEF GroupSpec

\* The process table keeps its shape.
THEOREM GroupTypeCorrect == GroupSpec => []GroupTypeOK
  <1>1. GroupInv => GroupTypeOK
    BY DEF GroupInv
  <1> QED
    BY <1>1, Invariance, PTL

\* setpgid and setsid between them never leave a group across two sessions.
THEOREM GroupsStayInOneSession == GroupSpec => []GroupInOneSession
  <1>1. GroupInv => GroupInOneSession
    BY DEF GroupInv
  <1> QED
    BY <1>1, Invariance, PTL

\* The leader flag is set exactly for the living founders of sessions.
THEOREM LeadersAlwaysLead == GroupSpec => []LeadersLead
  <1>1. GroupInv => LeadersLead
    BY DEF GroupInv
  <1> QED
    BY <1>1, Invariance, PTL

\* No call takes a process into a session that has another member.
THEOREM SessionsAreNeverJoined == GroupSpec => SessionsAreFounded
  <1> DEFINE Founded ==
        \A p \in alive \cap alive' :
          session'[p] # session[p] =>
            \A q \in alive' \ {p} : session'[q] # session'[p] /\ pgrp'[q] # pgrp'[p]
  <1>1. GroupInv /\ [GroupNext]_groupVars => [Founded]_groupVars
    <2> SUFFICES ASSUME GroupInv, GroupNext PROVE Founded
      OBVIOUS
    <2>1. ASSUME NEW c \in alive, Setsid(c) PROVE Founded
      <3>1. \A q \in alive \ {c} : session'[q] # c /\ pgrp'[q] # c
        BY <2>1, SetsidKeeps
      <3>2. /\ alive' = alive /\ session'[c] = c /\ pgrp'[c] = c
            /\ \A q \in alive \ {c} : session'[q] = session[q]
        BY <2>1 DEF Setsid, GroupInv, GroupTypeOK
      <3> QED
        BY <3>1, <3>2
    <2>2. ASSUME NEW c \in alive, NEW pid \in Pid \cup {0}, NEW pgid \in Pid \cup {0},
                 Setpgid(c, pid, pgid)
          PROVE Founded
      BY <2>2 DEF Setpgid
    <2>3. ASSUME NEW c \in alive, Exec(c) PROVE Founded
      BY <2>3 DEF Exec
    <2>4. ASSUME NEW c \in alive, Exit(c) PROVE Founded
      BY <2>4 DEF Exit, GroupInv, GroupTypeOK
    <2>5. ASSUME NEW c \in alive, NEW p \in Pid, Fork(c, p) PROVE Founded
      BY <2>5 DEF Fork, InUse, GroupInv, GroupTypeOK
    <2> QED
      BY <2>1, <2>2, <2>3, <2>4, <2>5 DEF GroupNext, GroupCall
  <1> QED
    BY <1>1, Invariance, PTL DEF GroupSpec, SessionsAreFounded

-----------------------------------------------------------------------------
(* setpriority over the same table.                                        *)

\* A step of Priorities is a step of the table, or leaves it alone.
LEMMA StepIsTableStep == [Next]_vars => [GroupNext]_groupVars
  <1> SUFFICES ASSUME [Next]_vars PROVE [GroupNext]_groupVars
    OBVIOUS
  <1>1. CASE UNCHANGED vars
    BY <1>1 DEF vars
  <1>2. CASE ProcessStep
    <2>1. CASE GroupCall
      BY <2>1 DEF GroupNext
    <2>2. CASE \E c \in alive : Exec(c)
      BY <2>2 DEF GroupNext
    <2>3. CASE \E c \in alive, p \in Pid : Fork(c, p)
      BY <2>3 DEF GroupNext
    <2>4. CASE \E c \in alive : Exit(c)
      BY <2>4 DEF GroupNext
    <2> QED
      BY <1>2, <2>1, <2>2, <2>3, <2>4, Zenon DEF ProcessStep
  <1>3. CASE PriorityStep
    BY <1>3, Zenon DEF PriorityStep, Setpriority, SetOnePrio, SetpriorityReturns
  <1>4. CASE \E c \in alive \ {InitPid} : ChangeUser(c)
    BY <1>4 DEF ChangeUser
  <1> QED
    BY <1>1, <1>2, <1>3, <1>4 DEF Next

\* setpriority adds nothing to what the process table may do, so the theorems on
\* the table hold beside it.
THEOREM PrioritiesKeepTheTable == Spec => GroupSpec
  BY StepIsTableStep, PTL DEF Spec, GroupSpec, PriorityInit

\* What setpriority stores is in range, whatever it was given.
LEMMA ClampInRange ==
  ASSUME NEW n \in Int
  PROVE  Clamp(n) \in Nice
  <1>1. MinNice \in Int /\ MaxNice \in Int /\ MinNice <= MaxNice
    BY PriorityAssumption
  <1>2. Min({n, MaxNice}) = IF n <= MaxNice THEN n ELSE MaxNice
    BY <1>1 DEF Min
  <1>3. Clamp(n) = IF MinNice >= Min({n, MaxNice}) THEN MinNice ELSE Min({n, MaxNice})
    BY <1>1, <1>2 DEF Clamp, Max
  <1> QED
    BY <1>1, <1>2, <1>3 DEF Nice

\* What the call in progress has recorded: ESRCH until a process is met, an error
\* once one is refused, and the value asked for on every process it has set.
Recorded ==
  call # NoCall =>
    /\ call.error = "ESRCH" <=> call.refused = {} /\ call.done = {}
    /\ call.error = "0" <=> call.refused = {} /\ call.done # {}
    /\ \A p \in call.done : nice[p] = call.nice

PriorityInv == TypeOK /\ Recorded

\* The first process has a nice value of 0 and has called nothing.
LEMMA PriorityInitInv == PriorityInit => PriorityInv
  <1> SUFFICES ASSUME PriorityInit PROVE PriorityInv
    OBVIOUS
  <1>1. GroupTypeOK
    BY InitInv DEF PriorityInit, GroupInv
  <1>2. TypeOK
    BY <1>1, PidAssumption, PriorityAssumption
    DEF PriorityInit, TypeOK, NoCall, Nice, Errors
  <1>3. Recorded
    BY DEF PriorityInit, Recorded
  <1> QED
    BY <1>2, <1>3 DEF PriorityInv

\* The record of no call is a record of a call.
LEMMA NoCallType ==
  ASSUME GroupTypeOK
  PROVE  NoCall \in [by : Pid, nice : Nice, users : SUBSET User, todo : SUBSET alive,
                     done : SUBSET alive, refused : SUBSET alive, error : Errors]
  BY PidAssumption, PriorityAssumption DEF NoCall, Nice, Errors, GroupTypeOK

\* The table moves only between calls.
LEMMA ProcessStepKeeps ==
  ASSUME PriorityInv, ProcessStep, GroupTypeOK'
  PROVE  PriorityInv'
  <1> USE DEF PriorityInv, TypeOK
  <1>1. call = NoCall /\ call' = NoCall
    BY DEF ProcessStep
  <1>2. Recorded'
    BY <1>1 DEF Recorded
  <1>3. nice' \in [Pid -> Nice] /\ uid' \in [Pid -> User] /\ euid' \in [Pid -> User]
    BY PriorityAssumption DEF ProcessStep, Inherit, Nice, userVars, GroupTypeOK
  <1>4. call' \in [by : Pid, nice : Nice, users : SUBSET User, todo : SUBSET alive,
                  done : SUBSET alive, refused : SUBSET alive, error : Errors]'
    BY <1>1, PidAssumption, PriorityAssumption
    DEF NoCall, Nice, Errors, GroupTypeOK
  <1> QED
    BY <1>2, <1>3, <1>4

\* sys_setpriority begins with all its targets to do and ESRCH as its error.
LEMMA SetpriorityKeeps ==
  ASSUME PriorityInv, NEW c \in alive, NEW targets \in SUBSET alive,
         NEW users \in SUBSET User, NEW n \in Int, Setpriority(c, targets, users, n)
  PROVE  PriorityInv'
  <1> USE DEF PriorityInv, TypeOK
  <1>1. UNCHANGED <<groupVars, userVars, nice>>
    BY DEF Setpriority
  <1>2. call' = [by |-> c, nice |-> Clamp(n), users |-> users, todo |-> targets,
                 done |-> {}, refused |-> {}, error |-> "ESRCH"]
    BY DEF Setpriority, NoCall
  <1>3. Recorded'
    BY <1>2 DEF Recorded
  <1>4. TypeOK'
    BY <1>1, <1>2, ClampInRange DEF groupVars, userVars, GroupTypeOK, Errors
  <1> QED
    BY <1>3, <1>4

\* Each target is set or refused, and recorded as such.
LEMMA SetOnePrioKeeps ==
  ASSUME PriorityInv, NEW p \in Pid, SetOnePrio(p)
  PROVE  PriorityInv'
  <1> USE DEF PriorityInv, TypeOK
  <1> DEFINE refusal == Refusal(call.by, p, call.nice)
             visited == [call EXCEPT !.todo = @ \ {p}]
  <1>1. UNCHANGED <<groupVars, userVars>> /\ p \in call.todo
    BY DEF SetOnePrio
  <1>2. call # NoCall
    BY <1>1 DEF NoCall
  <1>3. CASE call' = visited /\ nice' = nice
    BY <1>1, <1>2, <1>3 DEF groupVars, userVars, GroupTypeOK, Recorded
  <1>4. CASE /\ refusal # "none"
             /\ call' = [visited EXCEPT !.refused = @ \cup {p}, !.error = refusal]
             /\ nice' = nice
    <2>1. refusal \in {"EPERM", "EACCES"}
      BY <1>4 DEF Refusal
    <2>2. TypeOK'
      BY <1>1, <1>4, <2>1 DEF groupVars, userVars, GroupTypeOK, Errors
    <2>3. Recorded'
      BY <1>2, <1>4, <2>1 DEF Recorded
    <2> QED
      BY <2>2, <2>3
  <1>5. CASE /\ call' = [visited EXCEPT !.done = @ \cup {p}, !.error = ErrorAfter(@)]
             /\ nice' = [nice EXCEPT ![p] = call.nice]
    <2>1. TypeOK'
      BY <1>1, <1>5 DEF groupVars, userVars, GroupTypeOK, Errors, ErrorAfter
    <2>2. Recorded'
      BY <1>2, <1>5 DEF Recorded, ErrorAfter
    <2> QED
      BY <2>1, <2>2
  <1> QED
    BY <1>3, <1>4, <1>5 DEF SetOnePrio

\* Every step keeps the record true.
LEMMA PriorityStepKeeps == GroupTypeOK' /\ PriorityInv /\ [Next]_vars => PriorityInv'
  <1> SUFFICES ASSUME GroupTypeOK', PriorityInv, [Next]_vars PROVE PriorityInv'
    OBVIOUS
  <1>1. CASE UNCHANGED vars
    BY <1>1 DEF vars, groupVars, userVars, PriorityInv, TypeOK, GroupTypeOK, Recorded
  <1>2. CASE ProcessStep
    BY <1>2, ProcessStepKeeps
  <1>3. CASE PriorityStep
    <2>1. \A c \in alive, which \in {"process", "pgrp", "user"}, who \in Pid \cup {0} :
            Targets(c, which, who) \in SUBSET alive
      BY DEF Targets, Members
    <2>2. \A n \in MinNice - 1 .. MaxNice + 1 : n \in Int
      BY PriorityAssumption
    <2>3. CASE SetpriorityReturns
      BY <2>3, NoCallType
      DEF SetpriorityReturns, PriorityInv, TypeOK, GroupTypeOK, Recorded, groupVars, userVars
    <2>4. CASE \E p \in Pid : SetOnePrio(p)
      BY <2>4, <1>1, SetOnePrioKeeps
    <2>5. CASE \E c \in alive \ {InitPid}, n \in MinNice - 1 .. MaxNice + 1 :
                 \/ \E which \in {"process", "pgrp"}, who \in Pid \cup {0} :
                      Setpriority(c, Targets(c, which, who), User, n)
                 \/ \E u \in User : Setpriority(c, Targets(c, "user", 0), {u}, n)
      BY <2>1, <2>2, <2>5, SetpriorityKeeps
    <2> QED
      BY <1>3, <2>3, <2>4, <2>5 DEF PriorityStep
  <1>4. CASE \E c \in alive \ {InitPid} : ChangeUser(c)
    BY <1>4 DEF ChangeUser, PriorityInv, TypeOK, GroupTypeOK, Recorded, groupVars
  <1> QED
    BY <1>1, <1>2, <1>3, <1>4 DEF Next

\* Every call and every step of a call keeps it.
LEMMA PriorityInvariance == Spec => []PriorityInv
  <1>1. GroupInv => GroupTypeOK
    BY DEF GroupInv
  <1>2. Spec => []GroupTypeOK
    BY <1>1, Invariance, PrioritiesKeepTheTable, PTL
  <1> QED
    BY <1>2, PriorityInitInv, PriorityStepKeeps, PTL DEF Spec

\* The state keeps its types: a nice value is always in range.
THEOREM PriorityTypeCorrect == Spec => []TypeOK
  <1>1. PriorityInv => TypeOK
    BY DEF PriorityInv
  <1> QED
    BY <1>1, PriorityInvariance, PTL

\* The one number setpriority returns for several processes tells the truth.
THEOREM ReturnIsAlwaysHonest == Spec => []ReturnIsHonest
  <1>1. ASSUME PriorityInv PROVE ReturnIsHonest
    <2> SUFFICES ASSUME call # NoCall
                 PROVE  call.error = "0" => Getpriority(call.done) = 20 - call.nice
      BY <1>1 DEF ReturnIsHonest, PriorityInv, Recorded
    <2> SUFFICES ASSUME call.error = "0"
                 PROVE  Getpriority(call.done) = 20 - call.nice
      OBVIOUS
    <2>1. call.done # {} /\ \A p \in call.done : nice[p] = call.nice
      BY <1>1 DEF PriorityInv, Recorded
    <2>2. {20 - nice[p] : p \in call.done} \cup {-3} = {20 - call.nice, -3}
      BY <2>1
    <2>3. call.nice \in Int /\ call.nice <= 19
      BY <1>1, PriorityAssumption DEF PriorityInv, TypeOK, Nice
    <2>4. Getpriority(call.done) = Max({20 - call.nice, -3})
      BY <2>2 DEF Getpriority
    <2> DEFINE n == 20 - call.nice
    <2>5. n \in Int /\ n > -3
      BY <2>3
    <2>6. Max({n, -3}) = n
      <3> HIDE DEF n
      <3> QED
        BY <2>5 DEF Max
    <2> QED
      BY <2>4, <2>6
  <1> QED
    BY <1>1, PriorityInvariance, PTL

\* Only root raises a priority, and only a process of one's own is touched.
THEOREM OnlyRootEverLowers == Spec => OnlyRootLowers
  <1> DEFINE Rule ==
        \A p \in alive \cap alive' :
          nice'[p] # nice[p] /\ ~Capable(call.by) =>
            /\ nice'[p] > nice[p]
            /\ euid[call.by] \in {uid[p], euid[p]}
  <1>1. PriorityInv /\ [Next]_vars => [Rule]_vars
    <2> SUFFICES ASSUME PriorityInv, Next PROVE Rule
      OBVIOUS
    <2> USE DEF PriorityInv, TypeOK
    <2>1. CASE ProcessStep
      BY <2>1 DEF ProcessStep, Inherit, Fork, InUse, Exit, GroupTypeOK
    <2>2. ASSUME NEW q \in Pid, SetOnePrio(q) PROVE Rule
      <3> SUFFICES ASSUME NEW p \in alive, nice'[p] # nice[p], ~Capable(call.by)
                   PROVE  /\ nice'[p] > nice[p]
                          /\ euid[call.by] \in {uid[p], euid[p]}
        OBVIOUS
      <3>1. /\ p = q /\ nice'[p] = call.nice
            /\ Refusal(call.by, p, call.nice) = "none"
        BY <2>2 DEF SetOnePrio, GroupTypeOK
      <3>2. ~Stranger(call.by, p) /\ ~(call.nice < nice[p])
        BY <3>1 DEF Refusal
      <3>3. call.nice \in Int /\ nice[p] \in Int
        BY PriorityAssumption DEF Nice, GroupTypeOK
      <3> QED
        BY <3>1, <3>2, <3>3 DEF Stranger
    <2>3. CASE UNCHANGED nice
      BY <2>3
    <2> QED
      BY <2>1, <2>2, <2>3
      DEF Next, PriorityStep, Setpriority, SetpriorityReturns, ChangeUser
  <1> QED
    BY <1>1, PriorityInvariance, PTL DEF Spec, OnlyRootLowers

=============================================================================
