------------------------------- MODULE Grants --------------------------------
(***************************************************************************)
(* What the address spaces promise: each process may write frames of its   *)
(* own, no two the same one and none the kernel keeps.                     *)
(***************************************************************************)
EXTENDS Functions

CONSTANTS Processes, Frames

VARIABLES
  may,      \* for each process, the frames it may write
  kept      \* the frames that hold what the kernel knows of the processes

vars == <<may, kept>>

Apart(m, k) ==
  /\ (UNION Range(m)) \cap k = {}
  /\ \A p, q \in Processes : p # q => m[p] \cap m[q] = {}

Init ==
  /\ may \in [Processes -> SUBSET Frames]
  /\ Apart(may, kept)

(* Frames are given to one process or taken from it; those of the others   *)
(* stay as they are. *)
Next ==
  LET now == may
      next == may'
  IN  \/ next = now /\ Apart(now, kept')
      \/ /\ \E p \in Processes : \A q \in Processes \ {p} : next[q] = now[q]
         /\ Apart(next, kept')

Spec == Init /\ [][Next]_vars
==============================================================================
