------------------------------ MODULE PortBind ------------------------------
(***************************************************************************)
(* Opening, binding and closing the AXIOM device: axiom_open, axiom_bind   *)
(* and axiom_close of the user library (axiom_user_api.c) over the open,   *)
(* bind and release operations of the driver (axiomnet_open_*,             *)
(* axiomnet_bind, axiomnet_unbind, axiomnet_release).                      *)
(*                                                                         *)
(* A device of the library is four open files of the driver.  The driver   *)
(* counts the open files in used and keeps, for RAW and for LONG, the set  *)
(* port_used of the ports that are bound; both are protected by            *)
(* drvdata->lock.  The port of a file, bind_port, is not: axiomnet_unbind  *)
(* tests it before it takes the lock and resets it after the unlock.  A    *)
(* step is a section under the lock or one access of bind_port outside it. *)
(***************************************************************************)
EXTENDS Naturals, Sequences, FiniteSets

CONSTANTS
  Devs,       \* devices, one axiom_dev_t each
  Threads,    \* threads of the processes that own the devices
  Shared,     \* may two threads call axiom_bind on one device at once?
  PortNum,    \* AXIOM_PORT_NUM
  MaxOpen,    \* AXIOMNET_MAX_OPEN
  AnyPort,    \* AXIOM_PORT_ANY
  Invalid,    \* AXIOMNET_PORT_INVALID
  None        \* no device, no file

ASSUME PortBindAssumption ==
  /\ Shared \in BOOLEAN /\ PortNum \in Nat /\ MaxOpen \in Nat
  /\ AnyPort \notin Nat /\ Invalid \notin Nat
  /\ None \notin Devs /\ IsFiniteSet(Devs)

Ports == 0 .. PortNum - 1
\* The order in which axiom_open opens the files of a device.
OpenOrder == <<"GENERIC", "RAW", "LONG", "RDMA">>
FdTypes == {"GENERIC", "RAW", "LONG", "RDMA"}
NextFd == [GENERIC |-> "RAW", RAW |-> "LONG", LONG |-> "RDMA"]
\* Files whose ioctl has AXNET_BIND.
Bindable == {"RAW", "LONG"}

VARIABLES
  \* driver
  used,       \* number of open files
  port_used,  \* ports bound, for RAW and for LONG
  bind_port,  \* the port of each file
  \* library
  opened,     \* the open files of each device
  tpc,        \* where a thread is
  top,        \* the operation it is in
  tdev, tfd,  \* on which device and which of its files
  targ,       \* ioctl_bind.port
  \* history
  result,     \* what the last axiom_bind on a device returned
  tany,       \* was AXIOM_PORT_ANY asked for?
  missed      \* such a call failed while a port was free for RAW and LONG

drvvars == <<used, port_used, bind_port>>
tvars == <<tpc, top, tdev, tfd, targ>>
history == <<result, tany, missed>>
vars == <<drvvars, opened, tvars, history>>

-----------------------------------------------------------------------------

Init ==
  /\ used = 0
  /\ port_used = [ty \in Bindable |-> {}]
  /\ bind_port = [d \in Devs |-> [ty \in FdTypes |-> Invalid]]
  /\ opened = [d \in Devs |-> {}]
  /\ tpc = [t \in Threads |-> "idle"]
  /\ top = [t \in Threads |-> "none"]
  /\ tdev = [t \in Threads |-> None]
  /\ tfd = [t \in Threads |-> None]
  /\ targ = [t \in Threads |-> AnyPort]
  /\ result = [d \in Devs |-> Invalid]
  /\ tany = [t \in Threads |-> FALSE]
  /\ missed = FALSE

Nobody(d) == \A t \in Threads : tdev[t] # d

\* Thread t enters operation op on device d, at pc, with file ty first.
Enter(t, op, d, pc, ty) ==
  /\ tpc' = [tpc EXCEPT ![t] = pc]
  /\ top' = [top EXCEPT ![t] = op]
  /\ tdev' = [tdev EXCEPT ![t] = d]
  /\ tfd' = [tfd EXCEPT ![t] = ty]

Leave(t) == Enter(t, "none", None, "idle", None)

Goto(t, pc) == tpc' = [tpc EXCEPT ![t] = pc] /\ UNCHANGED <<top, tdev, tfd>>

SetPort(d, ty, p) == bind_port' = [bind_port EXCEPT ![d][ty] = p]

\* The first and the last open file of a device, in the order of axiom_open.
FirstOpen(S) ==
  OpenOrder[CHOOSE i \in 1 .. 4 :
              OpenOrder[i] \in S /\ \A j \in 1 .. i - 1 : OpenOrder[j] \notin S]
LastOpen(S) ==
  OpenOrder[CHOOSE i \in 1 .. 4 :
              OpenOrder[i] \in S /\ \A j \in i + 1 .. 4 : OpenOrder[j] \notin S]

\* Thread t goes on to close the files S that are still open: the library
\* closes them last opened first, an exit in the order of their descriptors.
CloseNext(t, op, d, S) ==
  IF S = {} THEN Leave(t)
  ELSE Enter(t, op, d, "unbind", IF op = "exit" THEN FirstOpen(S) ELSE LastOpen(S))

-----------------------------------------------------------------------------
(***************************************************************************)
(* axiom_open and axiomnet_open_generic, _raw, _long, _rdma.               *)
(***************************************************************************)

axiom_open(t, d) ==
  /\ tpc[t] = "idle" /\ opened[d] = {} /\ Nobody(d)
  /\ Enter(t, "open", d, "open", "GENERIC")
  /\ result' = [result EXCEPT ![d] = Invalid]
  /\ UNCHANGED <<drvvars, opened, targ, tany, missed>>

axiomnet_open(t) ==
  LET d == tdev[t]  ty == tfd[t] IN
  /\ tpc[t] = "open"
  /\ used < MaxOpen
  /\ used' = used + 1
  /\ SetPort(d, ty, Invalid)
  /\ opened' = [opened EXCEPT ![d] = @ \cup {ty}]
  /\ IF ty = "RDMA" THEN Leave(t) ELSE Enter(t, "open", d, "open", NextFd[ty])
  /\ UNCHANGED <<port_used, targ, history>>

\* -EBUSY or -ENOMEM: axiom_open closes the files it has opened.  When it fails
\* after the last of them, in setting the flags, that is an axiom_close.
OpenFails(t) ==
  /\ tpc[t] = "open"
  /\ CloseNext(t, "close", tdev[t], opened[tdev[t]])
  /\ UNCHANGED <<drvvars, opened, targ, history>>

axiom_close(t, d) ==
  /\ tpc[t] = "idle" /\ opened[d] = FdTypes /\ Nobody(d)
  /\ CloseNext(t, "close", d, opened[d])
  /\ UNCHANGED <<drvvars, opened, targ, history>>

\* The process ends, in or out of a library call but not in the driver, and
\* the kernel closes its files.
ProcessExit(t, d) ==
  /\ \/ tpc[t] = "idle" /\ opened[d] # {} /\ Nobody(d)
     \/ /\ tpc[t] \in {"open", "unbind"} /\ top[t] # "exit" /\ tdev[t] = d
        /\ \A u \in Threads \ {t} : tdev[u] # d
  /\ CloseNext(t, "exit", d, opened[d])
  /\ UNCHANGED <<drvvars, opened, targ, history>>

-----------------------------------------------------------------------------
(***************************************************************************)
(* axiom_bind: AXNET_BIND on the RAW file and then, with the port that the *)
(* first one returned, on the LONG file.                                   *)
(***************************************************************************)

axiom_bind(t, d, p) ==
  /\ tpc[t] = "idle" /\ opened[d] = FdTypes
  /\ \A u \in Threads : tdev[u] = d => Shared /\ top[u] = "bind"
  /\ Enter(t, "bind", d, "unbind", "RAW")
  /\ targ' = [targ EXCEPT ![t] = p]
  /\ result' = [result EXCEPT ![d] = Invalid]
  /\ tany' = [tany EXCEPT ![t] = (p = AnyPort)]
  /\ UNCHANGED <<drvvars, opened, missed>>

\* What follows axiomnet_unbind, in axiomnet_bind and in axiomnet_release.
AfterUnbind(t) == IF top[t] = "bind" THEN "bind" ELSE "release"

\* axiomnet_unbind: the test without the lock.
UnbindTest(t) ==
  /\ tpc[t] = "unbind"
  /\ Goto(t, IF bind_port[tdev[t]][tfd[t]] = Invalid THEN AfterUnbind(t)
                                                     ELSE "clear")
  /\ UNCHANGED <<drvvars, opened, targ, history>>

\* For a mutant: the LONG branch is forgotten.
ClearsRawOnly(t) ==
  LET ty == tfd[t] IN
  /\ tpc[t] = "clear"
  /\ port_used' = [port_used EXCEPT
       !["RAW"] = IF ty = "RAW" THEN @ \ {bind_port[tdev[t]][ty]} ELSE @]
  /\ Goto(t, "reset")
  /\ UNCHANGED <<used, bind_port, opened, targ, history>>

\* axiomnet_unbind, under the lock.  A bind_port that another thread has reset
\* since the test shifts 1 by 255, on the supported machines by 31: no bit of
\* the uint8_t is cleared.
UnbindClear(t) ==
  LET d == tdev[t]  ty == tfd[t] IN
  /\ tpc[t] = "clear"
  /\ port_used' = [port_used EXCEPT ![ty] = @ \ {bind_port[d][ty]}]
  /\ Goto(t, "reset")
  /\ UNCHANGED <<used, bind_port, opened, targ, history>>

\* axiomnet_unbind, after the unlock.
UnbindReset(t) ==
  /\ tpc[t] = "reset"
  /\ SetPort(tdev[t], tfd[t], Invalid)
  /\ Goto(t, AfterUnbind(t))
  /\ UNCHANGED <<used, port_used, opened, targ, history>>

\* For a mutant: a port that the caller chooses is not tested.
PortForUntested(p, busy) ==
  LET avail == Ports \ busy IN
  IF p = AnyPort
  THEN IF avail = {} THEN Invalid
       ELSE CHOOSE i \in avail : \A j \in avail : i <= j
  ELSE IF p \in Ports THEN p ELSE Invalid

\* The port that axiomnet_bind takes for the argument p, Invalid if it fails
\* with -EBUSY or -EFBIG.
PortFor(p, busy) ==
  LET avail == Ports \ busy IN
  IF p = AnyPort
  THEN IF avail = {} THEN Invalid
       ELSE CHOOSE i \in avail : \A j \in avail : i <= j
  ELSE IF p \in avail THEN p ELSE Invalid

\* For a mutant: the error of the second ioctl is ignored.
LongErrorIgnored(t, d, ty, p) ==
  IF p # Invalid /\ ty = "RAW"
  THEN Enter(t, "bind", d, "unbind", "LONG") /\ UNCHANGED result
  ELSE /\ Leave(t)
       /\ result' = [result EXCEPT ![d] = IF ty = "LONG" THEN targ[t] ELSE p]

\* axiom_bind after the ioctl on file ty gave port p.
BindReturns(t, d, ty, p) ==
  IF p # Invalid /\ ty = "RAW"
  THEN Enter(t, "bind", d, "unbind", "LONG") /\ UNCHANGED result
  ELSE Leave(t) /\ result' = [result EXCEPT ![d] = p]

\* axiomnet_bind, under the lock.  What its ioctl does after it adds no failure: the
\* flush is that of RawRx and LongRx and cannot fail on a bound file, and the port is
\* copied back to the argument of the library that it was copied from.
axiomnet_bind(t) ==
  LET d == tdev[t]
      ty == tfd[t]
      p == PortFor(targ[t], port_used[ty])
  IN  /\ tpc[t] = "bind"
      /\ IF p = Invalid
         THEN UNCHANGED <<port_used, bind_port, targ>>
         ELSE /\ port_used' = [port_used EXCEPT ![ty] = @ \cup {p}]
              /\ SetPort(d, ty, p)
              /\ targ' = [targ EXCEPT ![t] = p]
      /\ BindReturns(t, d, ty, p)
      /\ missed' = (missed \/
           (p = Invalid /\ tany[t]
              /\ Ports \ (port_used["RAW"] \cup port_used["LONG"]) # {}))
      /\ UNCHANGED <<used, opened, tany>>

\* For a mutant: a file that was bound is not counted down.
ReleaseKeepsCount(t) ==
  LET d == tdev[t] IN
  /\ tpc[t] = "release"
  /\ used' = IF tfd[t] \in Bindable THEN used ELSE used - 1
  /\ opened' = [opened EXCEPT ![d] = @ \ {tfd[t]}]
  /\ CloseNext(t, top[t], d, opened[d] \ {tfd[t]})
  /\ UNCHANGED <<port_used, bind_port, targ, history>>

\* axiomnet_release after axiomnet_unbind.
axiomnet_release(t) ==
  LET d == tdev[t] IN
  /\ tpc[t] = "release"
  /\ used' = used - 1
  /\ opened' = [opened EXCEPT ![d] = @ \ {tfd[t]}]
  /\ CloseNext(t, top[t], d, opened[d] \ {tfd[t]})
  /\ UNCHANGED <<port_used, bind_port, targ, history>>

-----------------------------------------------------------------------------

Next ==
  \E t \in Threads :
    \/ \E d \in Devs :
         \/ axiom_open(t, d)
         \/ axiom_close(t, d)
         \/ ProcessExit(t, d)
         \/ \E p \in 0 .. PortNum \cup {AnyPort} : axiom_bind(t, d, p)
    \/ axiomnet_open(t)
    \/ OpenFails(t)
    \/ UnbindTest(t)
    \/ UnbindClear(t)
    \/ UnbindReset(t)
    \/ axiomnet_bind(t)
    \/ axiomnet_release(t)

Spec == Init /\ [][Next]_vars

-----------------------------------------------------------------------------
(***************************************************************************)
(* Properties.                                                             *)
(***************************************************************************)

DriverType ==
  /\ used \in Nat
  /\ port_used \in [Bindable -> SUBSET Ports]
  /\ bind_port \in [Devs -> [FdTypes -> Ports \cup {Invalid}]]
  /\ opened \in [Devs -> SUBSET FdTypes]
ThreadType ==
  /\ tpc \in [Threads -> {"idle", "open", "unbind", "clear", "reset", "bind",
                          "release"}]
  /\ top \in [Threads -> {"none", "open", "bind", "close", "exit"}]
  /\ tdev \in [Threads -> Devs \cup {None}]
  /\ tfd \in [Threads -> FdTypes \cup {None}]
  /\ targ \in [Threads -> 0 .. PortNum \cup {AnyPort}]
HistoryType ==
  /\ result \in [Devs -> Ports \cup {Invalid}]
  /\ tany \in [Threads -> BOOLEAN]
  /\ missed \in BOOLEAN
\* The type of the state; only ports below AXIOM_PORT_NUM are ever bound, so
\* that the shifts of axiomnet_bind and axiomnet_unbind stay in the uint8_t.
TypeOK == DriverType /\ ThreadType /\ HistoryType

\* File ty of device d is between the unlock of axiomnet_unbind and the reset
\* of bind_port.
Resetting(d, ty) ==
  \E t \in Threads : tpc[t] = "reset" /\ tdev[t] = d /\ tfd[t] = ty

\* The open file ty of device d is bound to p.
Holds(d, ty, p) ==
  ty \in opened[d] /\ bind_port[d][ty] = p /\ ~Resetting(d, ty)

\* Two files of one type are never bound to one port: the test "check if port
\* is already bound" of axiomnet_bind, over the races of bind, unbind, failed
\* opens and the exit of a process.
Exclusive ==
  \A d, e \in Devs, ty \in Bindable, p \in Ports :
    Holds(d, ty, p) /\ Holds(e, ty, p) => d = e

\* port_used is the set of ports that an open file is bound to ("Current port
\* bound"): no port is lost when a file is closed or bound again, and no bound
\* port is offered to another file.
UsedExact ==
  \A ty \in Bindable :
    port_used[ty] = {p \in Ports : \E d \in Devs : Holds(d, ty, p)}

OpenFiles == {f \in Devs \X FdTypes : f[2] \in opened[f[1]]}
\* used counts the open files, whichever way they are opened, rolled back by a
\* failed axiom_open, closed, or left to the exit of the process, and never
\* exceeds AXIOMNET_MAX_OPEN.
OpenCount == used = Cardinality(OpenFiles) /\ used <= MaxOpen

\* When axiom_bind returned port p for a device that nobody is calling, its RAW
\* and its LONG file are both bound to p.
BoundTogether ==
  \A d \in Devs :
    opened[d] = FdTypes /\ Nobody(d) /\ result[d] # Invalid =>
      \A ty \in Bindable : bind_port[d][ty] = result[d]
-----------------------------------------------------------------------------
(* What the code does not do.  The README gives the instance that shows it.  *)

\* axiom_bind "(specify AXIOM_PORT_ANY to bind a random port available)":
\* asked for any port, it does not fail while one is available for RAW and LONG.
AnyServed == ~missed
=============================================================================
