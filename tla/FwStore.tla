------------------------------- MODULE FwStore -------------------------------
(***************************************************************************)
(* What firmware upgrade promises, without flash, descriptors or packets:  *)
(* a confirmed firmware that is always there, at most one staged firmware, *)
(* and the one that runs.  A firmware is staged whole or not at all, the   *)
(* staged one replaces the confirmed one in one step, and the one that     *)
(* runs changes only by a reset.                                           *)
(***************************************************************************)
CONSTANTS Version, NoVersion

VARIABLES confirmed, staged, running

storeVars == <<confirmed, staged, running>>

Init ==
    /\ confirmed \in Version
    /\ staged = NoVersion
    /\ running = confirmed

\* The last step of an upload.
Publish ==
    /\ staged = NoVersion
    /\ staged' \in Version
    /\ UNCHANGED <<confirmed, running>>

\* A new upload replaces the staged firmware, or it is rejected.
Withdraw ==
    /\ staged # NoVersion
    /\ staged' = NoVersion
    /\ UNCHANGED <<confirmed, running>>

Confirm ==
    /\ staged # NoVersion
    /\ confirmed' = staged
    /\ staged' = NoVersion
    /\ UNCHANGED running

Reset ==
    /\ running' \in {confirmed, staged} \ {NoVersion}
    /\ UNCHANGED <<confirmed, staged>>

Next ==
    \/ Reset
    \/ Publish
    \/ Withdraw
    \/ Confirm

Spec == Init /\ [][Next]_storeVars
=============================================================================
