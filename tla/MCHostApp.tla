----------------------------- MODULE MCHostApp -----------------------------
(* An instance of HostApp for TLC: commands and messages of the slave meet in *)
(* every order, but not as many of each as their bounds allow.                *)
EXTENDS HostApp

CONSTANT MaxEvents   \* bound: commands and messages together

Bounded == commands' + produced' <= MaxEvents

BoundedSpec == Init /\ [][Next /\ Bounded]_vars /\ Fairness
=============================================================================
