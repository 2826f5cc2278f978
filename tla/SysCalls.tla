-------------------------------- MODULE SysCalls --------------------------------
(***************************************************************************)
(* The calls of sys.c on the supplementary groups and on the times of a    *)
(* process.  They share no state, so their interleavings are those of each *)
(* alone: a behaviour makes the calls of one part.                         *)
(***************************************************************************)
EXTENDS MCGroupInfo, MCUsage

VARIABLE part

SysCallsInit == part \in {"groups", "times"} /\ Init /\ UsageInit

SysCallsNext ==
  \/ part = "groups" /\ Next /\ UNCHANGED <<part, usageVars>>
  \/ part = "times" /\ UsageNext /\ UNCHANGED <<part, vars>>

SysCallsSpec == SysCallsInit /\ [][SysCallsNext]_<<part, vars, usageVars>>

=============================================================================
