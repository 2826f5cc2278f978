------------------------------ MODULE MCGroupInfo ------------------------------
(***************************************************************************)
(* The arrays the model checker has setgroups called with.                 *)
(***************************************************************************)
EXTENDS GroupInfo

\* The object init starts with is not like the others.
Objects == Permutations(Info \ {InitGroups})

\* No page, one, one in part, and two or three: from the fifth gid on the sort starts
\* with a stride of 4.
NearLists ==
  {<<>>, <<3>>, <<6, 3>>, <<3, 3, 1>>, <<6, 3, 1>>, <<6, 3, 1, 6, 1>>, <<1, 6, 1, 3, 3>>,
   <<6, 6, 3, 3, 1, 1>>, <<3, 6, 1, 6, 3, 1>>}

\* One gid whose difference from another no int of this width holds.
FarLists == {<<>>, <<13>>, <<3, 13>>, <<13, 1>>, <<13, 3, 1>>}

=============================================================================
