---------------------------- MODULE MCHookChain -----------------------------
(* Instances of HookChain for TLC.                                         *)
EXTENDS HookChain

CONSTANTS m1, m2, s1

MCRequest == [m \in Messages |-> IF m = m1 THEN "pon" ELSE "reboot"]
MCHooks == <<"cmd", "other">>
=============================================================================
