---------------------------- MODULE MCLifecycle -----------------------------
(* Lifecycle with one open file, where everything that can fail may fail. *)
EXTENDS Lifecycle
AllSteps == Range(LoadSteps) \cup Range(ProbeSteps) \cup {"long_map"}
=============================================================================
