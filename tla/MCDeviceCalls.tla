---------------------------- MODULE MCDeviceCalls ----------------------------
(* Two callers for the safety properties, which are symmetric in them; one *)
(* for the liveness properties, for which the callers are independent.     *)
EXTENDS DeviceCalls, TLC
CONSTANTS t1, t2
Callers    == {t1, t2}
OneCaller  == {t1}
AnyCaller  == Permutations(Callers)
==============================================================================
