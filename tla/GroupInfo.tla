------------------------------- MODULE GroupInfo -------------------------------
(***************************************************************************)
(* KernelDrivers_March2011/sys.c: the supplementary groups of processes.   *)
(* A group_info is allocated in pages, filled from the caller's array,     *)
(* sorted, installed and shared by reference count between the processes   *)
(* that fork; in_group_p searches it by bisection.                         *)
(***************************************************************************)
EXTENDS Integers, SequencesExt

CONSTANTS
  Task, InitTask,    \* processes, and the one that is there from the start
  Info, InitGroups,  \* group_info objects, and init_groups
  Lists,             \* the arrays setgroups is called with
  PerBlock,          \* NGROUPS_PER_BLOCK: gids in a page
  Small,             \* NGROUPS_SMALL: gids that need no page
  Pages,             \* pages there are
  Width              \* gid_t and int have this many values: 2^32

NoInfo == "none"

ASSUME GroupInfoAssumption ==
  /\ InitTask \in Task /\ IsFiniteSet(Task)
  /\ InitGroups \in Info /\ IsFiniteSet(Info) /\ NoInfo \notin Info
  /\ Small \in Nat /\ PerBlock \in Nat /\ Small <= PerBlock /\ PerBlock > 0
  /\ Pages \in Nat
  /\ Width \in Nat /\ Width > 0 /\ Width % 2 = 0

\* Arrays of gids.
Arrays == Seq(0..Width - 1)

ASSUME ListsAssumption == Lists \subseteq Arrays

VARIABLES
  cur,     \* the group_info of each process, NoInfo for one that does not exist
  usage,   \* references counted on each object, 0 when it is free
  gids,    \* what each object holds
  held,    \* the pages each object holds
  calls    \* the setgroups each process is in

vars == <<cur, usage, gids, held, calls>>

\* pc: alloc, fill, old (put the old object), new (put the new one), or idle.
NoCall == [pc |-> "idle", new |-> NoInfo, old |-> NoInfo, list |-> <<>>]

FreePages == Pages - SumFunction(held)

-----------------------------------------------------------------------------
(* groups_sort, a Shell sort, and groups_search, a bisection.              *)

\* One turn of the inner loop: of the elements before right, a stride apart, those in a
\* row that are greater move up a stride, and the one at right takes the place left.
Sink(s, right, stride) ==
  LET before == {right - m * stride : m \in 1..right} \cap 1..right
      up == {k \in before : \A j \in before : j >= k => s[j] > s[right]}
  IN [k \in 1..Len(s) |-> IF k - stride \in up THEN s[k - stride]
                          ELSE IF k \in up \cup {right} THEN s[right] ELSE s[k]]

\* A slip: the last element of each pass is left out.
ShortPass(s, stride) ==
  LET sunk[base \in 0..Len(s) - stride] ==
        IF base = 0 THEN s ELSE Sink(sunk[base - 1], base + stride, stride)
  IN sunk[Len(s) - stride - 1]

\* The elements one after the other, from the first that has one before it; 1-based.
Pass(s, stride) ==
  LET sunk[base \in 0..Len(s) - stride] ==
        IF base = 0 THEN s ELSE Sink(sunk[base - 1], base + stride, stride)
  IN sunk[Len(s) - stride]

\* The strides 1, 4, 13, ... below the length, from the largest down.
GroupsSort(list) ==
  LET sorted[stride \in Nat \ {0}] ==
        IF stride >= Len(list) THEN list ELSE Pass(sorted[3 * stride + 1], stride)
  IN sorted[1]

\* int cmp = grp - GROUP_AT: the unsigned difference read as a signed number.
Signed(n) == LET d == n % Width IN IF 2 * d >= Width THEN d - Width ELSE d

\* A slip: the half that is searched further starts after the middle and ends before it.
SearchShort(s, grp) ==
  LET bisect[left \in Int, right \in Int] ==
        LET mid == (left + right) \div 2
            cmp == Signed(grp - s[mid + 1])
        IN IF left >= right THEN FALSE
           ELSE IF cmp > 0 THEN bisect[mid + 1, right]
           ELSE IF cmp < 0 THEN bisect[left, mid - 1]
           ELSE TRUE
  IN bisect[0, Len(s)]

GroupsSearch(s, grp) ==
  LET bisect[span \in (0..Len(s)) \X (0..Len(s))] ==
        LET left == span[1]
            right == span[2]
            mid == (left + right) \div 2
            cmp == Signed(grp - s[mid + 1])
        IN IF left >= right THEN FALSE
           ELSE IF cmp > 0 THEN bisect[<<mid + 1, right>>]
           ELSE IF cmp < 0 THEN bisect[<<left, mid>>]
           ELSE TRUE
  IN bisect[<<0, Len(s)>>]

\* in_group_p and in_egroup_p: grp is the process's fsgid (or egid), or is found.
InGroup(t, gid, grp) == grp = gid \/ GroupsSearch(gids[cur[t]], grp)

-----------------------------------------------------------------------------
(* The blocks of an object.                                                *)

Blocks(n) == IF n <= Small THEN 0 ELSE (n + PerBlock - 1) \div PerBlock

\* What is copied of block number b, which the last one fills in part.
Block(s, b) == [i \in 1..Min({PerBlock, Len(s) - b * PerBlock}) |-> s[b * PerBlock + i]]

\* groups_from_user and groups_to_user copy block by block.
CopyBlocks(s) ==
  [i \in 1..Len(s) |-> Block(s, (i - 1) \div PerBlock)[((i - 1) % PerBlock) + 1]]

\* getgroups with room for size gids: the list, or EINVAL.
Getgroups(t, size) ==
  IF size < Len(gids[cur[t]]) THEN "EINVAL" ELSE CopyBlocks(gids[cur[t]])

-----------------------------------------------------------------------------
Init ==
  /\ cur = [t \in Task |-> IF t = InitTask THEN InitGroups ELSE NoInfo]
  /\ usage = [i \in Info |-> IF i = InitGroups THEN 2 ELSE 0]
  /\ gids = [i \in Info |-> <<>>]
  /\ held = [i \in Info |-> 0]
  /\ calls = [t \in Task |-> NoCall]

Alive(t) == cur[t] # NoInfo
Ready(t) == Alive(t) /\ calls[t].pc = "idle"
At(t, pc) == calls[t].pc = pc

\* The object loses a reference, and its pages and contents with the last one.
Put(i) ==
  /\ usage' = [usage EXCEPT ![i] = @ - 1]
  /\ gids' = IF usage[i] = 1 THEN [gids EXCEPT ![i] = <<>>] ELSE gids
  /\ held' = IF usage[i] = 1 THEN [held EXCEPT ![i] = 0] ELSE held

\* setgroups starts with groups_alloc: a fresh object with one reference.
Setgroups(t, list) ==
  /\ Ready(t)
  /\ \E i \in Info :
       /\ usage[i] = 0
       /\ usage' = [usage EXCEPT ![i] = 1]
       /\ calls' = [calls EXCEPT ![t] = [pc |-> "alloc", new |-> i, old |-> NoInfo,
                                         list |-> list]]
  /\ UNCHANGED <<cur, gids, held>>

AllocPage(t) ==
  LET i == calls[t].new IN
  /\ At(t, "alloc")
  /\ held[i] < Blocks(Len(calls[t].list))
  /\ FreePages > 0
  /\ held' = [held EXCEPT ![i] = @ + 1]
  /\ UNCHANGED <<cur, usage, gids, calls>>

AllocDone(t) ==
  /\ At(t, "alloc")
  /\ held[calls[t].new] = Blocks(Len(calls[t].list))
  /\ calls' = [calls EXCEPT ![t].pc = "fill"]
  /\ UNCHANGED <<cur, usage, gids, held>>

\* A slip: the undo stops one page short.
UndoShort(n) == IF n > 0 THEN 1 ELSE 0

\* out_undo_partial_alloc: every page taken so far is given back.
Undo(n) == 0

\* No page is to be had: the call undoes the allocation and returns ENOMEM.
AllocFails(t) ==
  LET i == calls[t].new IN
  /\ At(t, "alloc")
  /\ held[i] < Blocks(Len(calls[t].list))
  /\ held' = [held EXCEPT ![i] = Undo(@)]
  /\ usage' = [usage EXCEPT ![i] = 0]
  /\ calls' = [calls EXCEPT ![t] = NoCall]
  /\ UNCHANGED <<cur, gids>>

\* groups_from_user fails half way: the object is put.
CopyFails(t) ==
  /\ At(t, "fill")
  /\ Put(calls[t].new)
  /\ calls' = [calls EXCEPT ![t] = NoCall]
  /\ UNCHANGED cur

\* groups_from_user, and set_current_groups up to task_unlock: sorted, referenced
\* by the process too, and installed.
Install(t) ==
  LET i == calls[t].new IN
  /\ At(t, "fill")
  /\ gids' = [gids EXCEPT ![i] = GroupsSort(CopyBlocks(calls[t].list))]
  /\ usage' = [usage EXCEPT ![i] = @ + 1]
  /\ cur' = [cur EXCEPT ![t] = i]
  /\ calls' = [calls EXCEPT ![t].pc = "old", ![t].old = cur[t]]
  /\ UNCHANGED held

\* set_current_groups drops the process's reference to the old object.
PutOld(t) ==
  /\ At(t, "old")
  /\ Put(calls[t].old)
  /\ calls' = [calls EXCEPT ![t].pc = "new", ![t].old = NoInfo]
  /\ UNCHANGED cur

\* A slip: the caller keeps its own reference.
PutNewForgotten(t) ==
  /\ At(t, "new")
  /\ calls' = [calls EXCEPT ![t] = NoCall]
  /\ UNCHANGED <<cur, usage, gids, held>>

\* setgroups drops the reference groups_alloc gave it.
PutNew(t) ==
  /\ At(t, "new")
  /\ Put(calls[t].new)
  /\ calls' = [calls EXCEPT ![t] = NoCall]
  /\ UNCHANGED cur

\* A child shares its parent's object; the object of an ended process is put.
Fork(t, child) ==
  /\ Ready(t) /\ ~Alive(child)
  /\ cur' = [cur EXCEPT ![child] = cur[t]]
  /\ usage' = [usage EXCEPT ![cur[t]] = @ + 1]
  /\ UNCHANGED <<gids, held, calls>>

Exit(t) ==
  /\ Ready(t) /\ t # InitTask
  /\ Put(cur[t])
  /\ cur' = [cur EXCEPT ![t] = NoInfo]
  /\ UNCHANGED calls

Call(t) ==
  \/ \E list \in Lists : Setgroups(t, list)
  \/ AllocPage(t) \/ AllocDone(t) \/ AllocFails(t)
  \/ CopyFails(t) \/ Install(t) \/ PutOld(t) \/ PutNew(t)

Next == \E t \in Task : Call(t) \/ Exit(t) \/ \E child \in Task : Fork(t, child)

Spec == Init /\ [][Next]_vars

-----------------------------------------------------------------------------
\* The references there should be: of the processes, of the calls in progress, and
\* the one that keeps init_groups for ever.
References(i) ==
  Cardinality({t \in Task : cur[t] = i})
  + Cardinality({t \in Task : calls[t].new = i})
  + Cardinality({t \in Task : calls[t].old = i})
  + (IF i = InitGroups THEN 1 ELSE 0)

\* Through every order of setgroups, fork and exit of processes that share objects,
\* and every failure half way, an object's count is the number of its references.
CountsAreReferences == \A i \in Info : usage[i] = References(i)

\* No page is lost: an object that nobody refers to holds none.
NoPageLost == FreePages >= 0 /\ \A i \in Info : usage[i] = 0 => held[i] = 0

\* The gids there are: root's, and those of the arrays.
Gids == {0} \cup UNION {Range(l) : l \in Lists}

\* in_group_p says of every gid what a look through the whole list, which getgroups
\* returns, would say; the list is sorted so that the bisection can work.
MembersAreFound ==
  \A t \in Task : Alive(t) =>
    \A grp, gid \in Gids :
      InGroup(t, gid, grp) <=> grp \in {gid} \cup Range(Getgroups(t, Len(gids[cur[t]])))

\* An int holds the difference of any two.
NearGroups == \A g, h \in Gids : 2 * (g - h) < Width

InOrder(s) == \A i, j \in 1..Len(s) : i <= j => s[i] <= s[j]

\* How often a gid is in a list.
Occurs(gid, s) == Cardinality({i \in 1..Len(s) : s[i] = gid})

\* What a process is given is what it, or an ancestor, asked for: every gid as often, and
\* in increasing order.  While the object is shared nothing changes it.
GroupsAsAsked ==
  [][\A i \in Info : gids'[i] # gids[i] /\ usage'[i] > 0 =>
       \E t \in Task :
         /\ calls[t].new = i /\ usage[i] = 1
         /\ InOrder(gids'[i])
         /\ \A gid \in 0..Width - 1 : Occurs(gid, gids'[i]) = Occurs(gid, calls[t].list)]_vars

=============================================================================
