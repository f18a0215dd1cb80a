----------------------------- MODULE MCUserMsg ------------------------------
(* A small instance of UserMsg for TLC. *)
EXTENDS UserMsg, TLC

Symmetric == Permutations(Devs)

\* Left out: results, which only the step that returns them is judged by; the
\* arguments of a finished call, and the size the sender asked for, which no step
\* after the one that refuses it reads; poll results that no thread is scanning.
Live == <<q, nonblk, dev, flags, pc, kind, psize, tmo, rdy, reg, trig, upd, nb,
          [d \in Devs |-> IF \E t \in Threads : dev[t] = d /\ pc[t] \in {"scan_raw", "scan_long"}
                          THEN revents[d] ELSE {}],
          [t \in Threads |-> IF pc[t] = "idle" THEN <<>> ELSE <<op[t], cap[t]>>],
          IF snd.st = "ioctl" THEN <<snd.kind, snd.size>> ELSE <<>>>>
=============================================================================
