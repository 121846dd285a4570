---------------------------- MODULE MCFwUpgrade ----------------------------
(***************************************************************************)
(* A small device: blocks of two units, one-block file systems, files of   *)
(* an application that spans two blocks and an auxiliary image, and a file *)
(* system image without data, as the all-in-one files have it.             *)
(***************************************************************************)
EXTENDS FwUpgrade, TLC

CONSTANTS v1, v2    \* two files to upload, alike to everything but the eye

MCVersion == {v1, v2}
FileSymmetry == Permutations(MCVersion)

MCFactoryEntries ==
    5   :> [start |-> 3, size |-> 1] @@
    128 :> [start |-> 4, size |-> 1] @@
    10  :> [start |-> 5, size |-> 2] @@
    11  :> [start |-> 7, size |-> 1]

MCImages ==
    << [id |-> 5, pos |-> HeaderLen, len |-> 0, disk |-> 1],
       [id |-> 10, pos |-> HeaderLen, len |-> 3, disk |-> 2],
       [id |-> 11, pos |-> HeaderLen + 3, len |-> 1, disk |-> 1] >>
=============================================================================
