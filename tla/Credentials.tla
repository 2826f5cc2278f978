------------------------------ MODULE Credentials ------------------------------
(***************************************************************************)
(* KernelDrivers_March2011/sys.c: the calls that change the user and group *)
(* ids of a process, and what prctl lets it set beside them.               *)
(*                                                                         *)
(* A call that passes its checks takes two steps, the two sides of the     *)
(* write barrier smp_wmb: it makes the memory not dumpable, then stores    *)
(* the ids.  A call that fails its checks changes nothing and is no step.  *)
(***************************************************************************)
EXTENDS Naturals

CONSTANTS
  User, Group,   \* uids and gids
  Root,          \* uid 0
  Same           \* the argument (uid_t) -1: leave this id as it is

ASSUME IdAssumption == Root \in User /\ Same \notin User \cup Group

VARIABLES
  user, group,   \* uid, euid, suid, fsuid and gid, egid, sgid, fsgid
  caps,          \* CAP_SETUID and CAP_SETGID: none, permitted only, or effective
  keepcaps,      \* keep_capabilities
  dumpable,      \* of the process's memory
  counted,       \* the user the process is counted for
  storing        \* the call between its check and its stores, or Idle

capVars == <<caps, keepcaps>>
idVars == <<user, group, capVars, dumpable, counted, storing>>

Ids(S) == [r : S, e : S, s : S, f : S]   \* real, effective, saved, file system
Held(i) == {i.r, i.e, i.s}

Capable == caps = "effective"

Idle == [kind |-> "idle"]

-----------------------------------------------------------------------------
(* The ids a call asks for, the same rules for users and groups.           *)

Or(new, old) == IF new = Same THEN old ELSE new

\* A slip: the effective id is not compared.
SetreMayByReal(i, r, e) == Capable \/ (r # Same => r \in {i.r, i.e})

\* The real id may become the effective one, the effective any held one.
SetreMay(i, r, e) ==
  \/ Capable
  \/ /\ r # Same => r \in {i.r, i.e}
     /\ e # Same => e \in Held(i)

\* The saved id follows the effective one when the real id is set, or the effective
\* one to something else than the real.
SetreIds(i, r, e) ==
  LET new == Or(e, i.e)
  IN [r |-> Or(r, i.r), e |-> new, f |-> new,
      s |-> IF r # Same \/ (e # Same /\ e # i.r) THEN new ELSE i.s]

SetMay(i, id) == Capable \/ id \in {i.r, i.s}

\* The capable process sets all four, any other its effective id.
SetIds(i, id) ==
  IF Capable
  THEN [r |-> id, e |-> id, s |-> id, f |-> id]
  ELSE [i EXCEPT !.e = id, !.f = id]

SetresMay(i, r, e, s) == Capable \/ \A id \in {r, e, s} \ {Same} : id \in Held(i)

SetresIds(i, r, e, s) ==
  [r |-> Or(r, i.r), e |-> Or(e, i.e), s |-> Or(s, i.s), f |-> Or(e, i.e)]

SetfsMay(i, id) == Capable \/ id \in Held(i) \cup {i.f}

-----------------------------------------------------------------------------
(* The steps of a call.                                                    *)

\* A slip: the memory stays as it is.
LeaveDumpable(changed) == dumpable

ClearDumpable(changed) == IF changed THEN 0 ELSE dumpable

\* The call goes ahead: it clears dumpable if the effective id is to change.
Begin(kind, i, ids) ==
  /\ storing = Idle
  /\ storing' = [kind |-> kind, ids |-> ids]
  /\ dumpable' = ClearDumpable(ids.e # i.e)
  /\ UNCHANGED <<user, group, capVars, counted>>

Setreuid(r, e) == SetreMay(user, r, e) /\ Begin("user", user, SetreIds(user, r, e))
Setregid(r, e) == SetreMay(group, r, e) /\ Begin("group", group, SetreIds(group, r, e))
Setuid(id) == SetMay(user, id) /\ Begin("user", user, SetIds(user, id))
Setgid(id) == SetMay(group, id) /\ Begin("group", group, SetIds(group, id))
Setresuid(r, e, s) == SetresMay(user, r, e, s) /\ Begin("user", user, SetresIds(user, r, e, s))
Setresgid(r, e, s) == SetresMay(group, r, e, s) /\ Begin("group", group, SetresIds(group, r, e, s))

\* setfsuid and setfsgid clear dumpable when the file system id is to change.
Setfsuid(id) ==
  /\ storing = Idle /\ SetfsMay(user, id)
  /\ storing' = [kind |-> "fsuser", ids |-> [user EXCEPT !.f = id]]
  /\ dumpable' = ClearDumpable(id # user.f)
  /\ UNCHANGED <<user, group, capVars, counted>>

Setfsgid(id) ==
  /\ storing = Idle /\ SetfsMay(group, id)
  /\ storing' = [kind |-> "group", ids |-> [group EXCEPT !.f = id]]
  /\ dumpable' = ClearDumpable(id # group.f)
  /\ UNCHANGED <<user, group, capVars, counted>>

\* security_task_post_setuid: the capabilities go with the last root id unless they
\* are kept, and are in effect as long as the effective id is root's.
LosesAll(old, new) == Root \in Held(old) /\ Root \notin Held(new) /\ ~keepcaps

PostSetuid(old, new) ==
  /\ caps' = IF caps = "none" \/ LosesAll(old, new) THEN "none"
             ELSE IF (old.e = Root) = (new.e = Root) THEN caps
             ELSE IF new.e = Root THEN "effective" ELSE "permitted"
  /\ UNCHANGED keepcaps

\* set_user: the process is counted for its new real user.
SwitchUid(id) == counted' = id

StoreUids ==
  /\ storing.kind = "user"
  /\ user' = storing.ids
  /\ SwitchUid(storing.ids.r)
  /\ PostSetuid(user, storing.ids)
  /\ UNCHANGED group

StoreFsuid ==
  /\ storing.kind = "fsuser"
  /\ user' = storing.ids
  /\ UNCHANGED <<group, capVars, counted>>

StoreGids ==
  /\ storing.kind = "group"
  /\ group' = storing.ids
  /\ UNCHANGED <<user, capVars, counted>>

Store ==
  /\ StoreUids \/ StoreFsuid \/ StoreGids
  /\ storing' = Idle
  /\ UNCHANGED dumpable

-----------------------------------------------------------------------------
\* prctl, PR_SET_DUMPABLE and PR_SET_KEEPCAPS.
Prctl ==
  /\ storing = Idle
  /\ \/ /\ dumpable' \in {0, 1}
        /\ UNCHANGED keepcaps
     \/ /\ keepcaps' \in BOOLEAN
        /\ UNCHANGED dumpable
  /\ UNCHANGED <<user, group, caps, counted, storing>>

\* capset: the process puts its capabilities in effect or out of it.
Capset ==
  /\ storing = Idle
  /\ caps # "none"
  /\ caps' \in {"permitted", "effective"}
  /\ UNCHANGED <<user, group, keepcaps, dumpable, counted, storing>>

\* What exec leaves: the saved and file system ids are the effective ones, root has
\* the capabilities, and a program that changed an id is not dumpable.
IdInit ==
  /\ \E r, e \in User : user = [r |-> r, e |-> e, s |-> e, f |-> e]
  /\ \E r, e \in Group : group = [r |-> r, e |-> e, s |-> e, f |-> e]
  /\ caps = IF user.e = Root THEN "effective" ELSE IF user.r = Root THEN "permitted" ELSE "none"
  /\ keepcaps = FALSE
  /\ dumpable = IF user.r = user.e /\ group.r = group.e THEN 1 ELSE 0
  /\ counted = user.r
  /\ storing = Idle

UserCall ==
  \/ \E id \in User : Setuid(id) \/ Setfsuid(id)
  \/ \E r, e \in User \cup {Same} : Setreuid(r, e)
  \/ \E r, e, s \in User \cup {Same} : Setresuid(r, e, s)

GroupCall ==
  \/ \E id \in Group : Setgid(id) \/ Setfsgid(id)
  \/ \E r, e \in Group \cup {Same} : Setregid(r, e)
  \/ \E r, e, s \in Group \cup {Same} : Setresgid(r, e, s)

IdNext == UserCall \/ GroupCall \/ Store \/ Prctl \/ Capset

IdSpec == IdInit /\ [][IdNext]_idVars

-----------------------------------------------------------------------------
Calls ==
  {Idle} \cup [kind : {"user", "fsuser"}, ids : Ids(User)] \cup [kind : {"group"}, ids : Ids(Group)]

IdTypeOK ==
  /\ user \in Ids(User)
  /\ group \in Ids(Group)
  /\ caps \in {"none", "permitted", "effective"}
  /\ keepcaps \in BOOLEAN
  /\ dumpable \in {0, 1}
  /\ counted \in User
  /\ storing \in Calls

\* The calls exist so that a set-uid program can drop its privileges for good: with
\* no root id held and no capability, no sequence of calls brings one back.
Dropped == caps = "none" /\ Root \notin Held(user)

DroppedForGood == [][Dropped => Dropped']_idVars

\* Whoever sees the new effective id, at whatever moment, sees memory that was made
\* not dumpable before: the write barrier is on the right side.
DumpableClearedFirst ==
  [][user'.e # user.e \/ group'.e # group.e => dumpable = 0 /\ dumpable' = 0]_idVars

\* The file system ids shadow the effective ones except when set explicitly: a call
\* that leaves them apart has changed nothing else.
FsIdsShadow ==
  [][/\ user' # user /\ user'.f # user'.e => Held(user') = Held(user) /\ user'.e = user.e
     /\ group' # group /\ group'.f # group'.e => Held(group') = Held(group) /\ group'.e = group.e]_idVars

\* Between calls the process is counted for its real user, which is what the limit
\* RLIMIT_NPROC is compared with: no call changes the one without the other.
CountedForRealUser == storing = Idle => counted = user.r

=============================================================================
