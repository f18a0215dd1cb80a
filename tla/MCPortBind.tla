----------------------------- MODULE MCPortBind -----------------------------
(* PortBind for TLC. *)
EXTENDS PortBind, TLC

\* Devices and threads are interchangeable.
Symmetry == Permutations(Devs) \cup Permutations(Threads)

\* The state without what no later step and none of the invariants of
\* MCPortBind.cfg depends on: the argument of a call that has returned, and the
\* history of AnyServed.
View ==
  <<drvvars, opened, tpc, top, tdev, tfd,
    [t \in Threads |-> IF top[t] = "bind" THEN targ[t] ELSE AnyPort], result>>

=============================================================================
