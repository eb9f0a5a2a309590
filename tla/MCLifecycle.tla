---------------------------- MODULE MCLifecycle ----------------------------
(* Three callers, each of which may connect or close. *)
EXTENDS ClientLifecycle
CONSTANTS t1, t2, t3
Callers == {t1, t2, t3}
============================================================================
