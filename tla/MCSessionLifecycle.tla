-------------------------- MODULE MCSessionLifecycle --------------------------
(* Two processes and two sessions: one and its restart, or a competitor's.     *)
EXTENDS SessionLifecycle

CONSTANTS p1, p2, c1, c2
===============================================================================
