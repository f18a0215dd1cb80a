---------------------------- MODULE DeviceProofs ----------------------------
(***************************************************************************)
(* Proofs about the device.  First PortBind, for any number of devices,    *)
(* threads and ports and any limit of open files, when no two threads use  *)
(* one device at once.  In the second part Lifecycle, for any number of    *)
(* open files and any set of steps that may fail.  The parts use nothing   *)
(* of each other.                                                          *)
(***************************************************************************)
EXTENDS PortBind, Lifecycle, FiniteSetTheorems, SequenceTheorems,
        WellFoundedInduction, TLAPS

\* A thread is on a device exactly while it is in a call.
InCall ==
  \A t \in Threads :
    /\ tdev[t] = None <=> tpc[t] = "idle"
    /\ tpc[t] # "idle" => tfd[t] \in FdTypes

\* No two threads are on one device.
Alone == \A t, u \in Threads : tdev[t] = tdev[u] /\ tdev[t] # None => t = u

\* The files that are open when axiom_open is about to open file ty.
Before == [GENERIC |-> {}, RAW |-> {"GENERIC"}, LONG |-> {"GENERIC", "RAW"},
           RDMA |-> {"GENERIC", "RAW", "LONG"}]

\* What a thread knows of the device and of the file it works on.
Place ==
  \A t \in Threads :
    /\ tpc[t] = "open" => top[t] = "open" /\ opened[tdev[t]] = Before[tfd[t]]
    /\ tpc[t] \notin {"idle", "open"} =>
         top[t] \in {"bind", "close", "exit"} /\ tfd[t] \in opened[tdev[t]]
    /\ tpc[t] \in {"clear", "reset"} => bind_port[tdev[t]][tfd[t]] \in Ports
    /\ tpc[t] \in {"bind", "release"} => bind_port[tdev[t]][tfd[t]] = Invalid
    /\ tpc[t] = "bind" => top[t] = "bind"
    /\ tpc[t] = "release" => top[t] # "bind"
    /\ top[t] = "bind" =>
         tpc[t] # "idle" /\ tfd[t] \in Bindable /\ opened[tdev[t]] = FdTypes

\* Only RAW and LONG files are ever bound.
OnlyBindable ==
  \A d \in Devs, ty \in FdTypes \ Bindable : bind_port[d][ty] = Invalid

\* How far axiom_open and axiom_bind are.
Stage ==
  \A t \in Threads :
    /\ top[t] = "open" => tpc[t] = "open" /\ result[tdev[t]] = Invalid
    /\ top[t] = "bind" => result[tdev[t]] = Invalid
    /\ top[t] = "bind" /\ tfd[t] = "LONG" =>
         targ[t] \in Ports /\ bind_port[tdev[t]]["RAW"] = targ[t]

Control == InCall /\ Alone /\ Place /\ OnlyBindable /\ Stage
Safe == Exclusive /\ UsedExact /\ OpenCount /\ BoundTogether
IInv == TypeOK /\ Control /\ Safe

-----------------------------------------------------------------------------
USE PortBindAssumption

\* The initial state satisfies the invariant.
LEMMA InitInv == Init => IInv
  <1> SUFFICES ASSUME Init PROVE IInv
    OBVIOUS
  <1>1. TypeOK
    BY DEF Init, TypeOK, DriverType, ThreadType, HistoryType, Bindable, FdTypes, Ports
  <1>2. Control
    BY DEF Init, Control, InCall, Alone, Place, OnlyBindable, Stage, FdTypes
  <1>3. OpenFiles = {}
    BY DEF Init, OpenFiles
  <1>4. OpenCount
    BY <1>3, FS_EmptySet DEF Init, OpenCount
  <1>5. Exclusive /\ UsedExact /\ BoundTogether
    BY DEF Init, Exclusive, UsedExact, BoundTogether, Holds, FdTypes, Ports, Bindable
  <1> QED BY <1>1, <1>2, <1>4, <1>5 DEF IInv, Safe

-----------------------------------------------------------------------------
(* What the helpers of the actions do to the thread and to the others. *)

\* No other thread than t has moved.
OnlyMoves(t) ==
  \A u \in Threads : u # t =>
    tpc'[u] = tpc[u] /\ top'[u] = top[u] /\ tdev'[u] = tdev[u] /\ tfd'[u] = tfd[u]

MoveType ==
  /\ tpc \in [Threads -> {"idle", "open", "unbind", "clear", "reset", "bind",
                          "release"}]
  /\ top \in [Threads -> {"none", "open", "bind", "close", "exit"}]
  /\ tdev \in [Threads -> Devs \cup {None}]
  /\ tfd \in [Threads -> FdTypes \cup {None}]

\* A thread that enters an operation is where Enter puts it.
LEMMA Entered ==
  ASSUME ThreadType, NEW t \in Threads, NEW op, NEW d, NEW pc, NEW ty,
         Enter(t, op, d, pc, ty)
  PROVE  /\ tpc'[t] = pc /\ top'[t] = op /\ tdev'[t] = d /\ tfd'[t] = ty
         /\ OnlyMoves(t)
  BY DEF Enter, ThreadType, OnlyMoves

\* A thread that leaves is idle and on no device.
LEMMA Left ==
  ASSUME ThreadType, NEW t \in Threads, Leave(t)
  PROVE  /\ tpc'[t] = "idle" /\ top'[t] = "none" /\ tdev'[t] = None /\ tfd'[t] = None
         /\ OnlyMoves(t)
  BY Entered DEF Leave

\* Goto moves a thread within its operation.
LEMMA Went ==
  ASSUME ThreadType, NEW t \in Threads, NEW pc, Goto(t, pc)
  PROVE  /\ tpc'[t] = pc /\ top'[t] = top[t] /\ tdev'[t] = tdev[t] /\ tfd'[t] = tfd[t]
         /\ OnlyMoves(t)
  BY DEF Goto, ThreadType, OnlyMoves

\* The file to close next is one of the open ones.
LEMMA PickOpen ==
  ASSUME NEW S \in SUBSET FdTypes, S # {}
  PROVE  FirstOpen(S) \in S /\ LastOpen(S) \in S
  <1>1. /\ OpenOrder[1] = "GENERIC" /\ OpenOrder[2] = "RAW"
        /\ OpenOrder[3] = "LONG" /\ OpenOrder[4] = "RDMA"
    BY DEF OpenOrder
  <1> DEFINE First(i) == OpenOrder[i] \in S /\ \A j \in 1 .. i - 1 : OpenOrder[j] \notin S
             Last(i) == OpenOrder[i] \in S /\ \A j \in i + 1 .. 4 : OpenOrder[j] \notin S
  <1>2. \E i \in 1 .. 4 : First(i)
    <2>1. CASE "GENERIC" \in S
      <3> First(1) BY <1>1, <2>1
      <3> QED OBVIOUS
    <2>2. CASE "GENERIC" \notin S /\ "RAW" \in S
      <3> First(2) BY <1>1, <2>2
      <3> QED OBVIOUS
    <2>3. CASE S \subseteq {"LONG", "RDMA"} /\ "LONG" \in S
      <3> First(3) BY <1>1, <2>3
      <3> QED OBVIOUS
    <2>4. CASE S = {"RDMA"}
      <3> First(4) BY <1>1, <2>4
      <3> QED OBVIOUS
    <2> QED BY <2>1, <2>2, <2>3, <2>4 DEF FdTypes
  <1>3. \E i \in 1 .. 4 : Last(i)
    <2>1. CASE "RDMA" \in S
      <3> Last(4) BY <1>1, <2>1
      <3> QED OBVIOUS
    <2>2. CASE "RDMA" \notin S /\ "LONG" \in S
      <3> Last(3) BY <1>1, <2>2
      <3> QED OBVIOUS
    <2>3. CASE S \subseteq {"GENERIC", "RAW"} /\ "RAW" \in S
      <3> Last(2) BY <1>1, <2>3
      <3> QED OBVIOUS
    <2>4. CASE S = {"GENERIC"}
      <3> Last(1) BY <1>1, <2>4
      <3> QED OBVIOUS
    <2> QED BY <2>1, <2>2, <2>3, <2>4 DEF FdTypes
  <1> QED BY <1>2, <1>3 DEF FirstOpen, LastOpen

\* CloseNext ends the operation or goes on to one of the files still open.
LEMMA Closing ==
  ASSUME ThreadType, NEW t \in Threads, NEW op, NEW d, NEW S \in SUBSET FdTypes,
         CloseNext(t, op, d, S)
  PROVE  /\ OnlyMoves(t)
         /\ \/ /\ S = {}
               /\ tpc'[t] = "idle" /\ top'[t] = "none" /\ tdev'[t] = None /\ tfd'[t] = None
            \/ /\ tpc'[t] = "unbind" /\ top'[t] = op /\ tdev'[t] = d /\ tfd'[t] \in S
  BY Entered, Left, PickOpen DEF CloseNext

\* CloseNext keeps the types of the control state.
LEMMA TypedMove ==
  ASSUME ThreadType, NEW t \in Threads, NEW op \in {"open", "bind", "close", "exit"},
         NEW d \in Devs, NEW S \in SUBSET FdTypes, CloseNext(t, op, d, S)
  PROVE  MoveType'
  <1>1. CASE S = {}
    BY <1>1 DEF CloseNext, Leave, Enter, ThreadType, MoveType
  <1>2. CASE S # {}
    BY <1>2, PickOpen DEF CloseNext, Enter, ThreadType, MoveType
  <1> QED BY <1>1, <1>2

\* SetPort changes the port of one file only.
LEMMA PortSet ==
  ASSUME DriverType, NEW d \in Devs, NEW ty \in FdTypes, NEW p, SetPort(d, ty, p)
  PROVE  /\ bind_port'[d][ty] = p
         /\ \A e \in Devs, x \in FdTypes :
              <<e, x>> # <<d, ty>> => bind_port'[e][x] = bind_port[e][x]
  BY DEF SetPort, DriverType

\* A set of ports that is not empty has a first one.
LEMMA FirstPort ==
  ASSUME NEW S \in SUBSET Ports, S # {}
  PROVE  \E i \in S : \A j \in S : i <= j
  <1>1. S \subseteq Nat
    BY DEF Ports
  <1>2. PICK i \in S : \A j \in S : ~(<<j, i>> \in OpToRel(<, Nat))
    BY <1>1, NatLessThanWellFounded, WFMin
  <1>3. \A j \in S : ~(j < i)
    BY <1>1, <1>2 DEF OpToRel
  <1> QED BY <1>1, <1>3

\* The port of a successful bind is free.
LEMMA PortChosen ==
  ASSUME NEW p, NEW busy \in SUBSET Ports
  PROVE  /\ PortFor(p, busy) \in Ports \cup {Invalid}
         /\ PortFor(p, busy) # Invalid => PortFor(p, busy) \notin busy
         /\ p # AnyPort /\ PortFor(p, busy) # Invalid => PortFor(p, busy) = p
  BY FirstPort DEF PortFor

-----------------------------------------------------------------------------
(* One lemma per action: it preserves the invariant. *)

\* A step that neither binds nor unbinds an open file keeps the table exact.
LEMMA Quiet ==
  ASSUME Exclusive, UsedExact, NEW t \in Threads, OnlyMoves(t),
         tpc[t] # "reset", tpc'[t] # "reset", UNCHANGED port_used,
         \A d \in Devs, ty \in Bindable, p \in Ports :
           (ty \in opened'[d] /\ bind_port'[d][ty] = p)
             <=> (ty \in opened[d] /\ bind_port[d][ty] = p)
  PROVE  Exclusive' /\ UsedExact'
  <1>1. \A d \in Devs, ty \in Bindable : Resetting(d, ty)' <=> Resetting(d, ty)
    BY DEF Resetting, OnlyMoves
  <1>2. \A d \in Devs, ty \in Bindable, p \in Ports : Holds(d, ty, p)' <=> Holds(d, ty, p)
    BY <1>1 DEF Holds
  <1> QED BY <1>2 DEF Exclusive, UsedExact

\* The set of open files is finite.
LEMMA FiniteFiles == IsFiniteSet(OpenFiles)
  <1>1. IsFiniteSet(FdTypes)
    <2>1. /\ IsFiniteSet({"GENERIC"}) /\ IsFiniteSet({"RAW"})
          /\ IsFiniteSet({"LONG"}) /\ IsFiniteSet({"RDMA"})
      BY FS_Singleton
    <2>2. IsFiniteSet({"GENERIC"} \cup {"RAW"}) /\ IsFiniteSet({"LONG"} \cup {"RDMA"})
      BY <2>1, FS_Union
    <2>3. IsFiniteSet(({"GENERIC"} \cup {"RAW"}) \cup ({"LONG"} \cup {"RDMA"}))
      BY <2>2, FS_Union
    <2>4. FdTypes = ({"GENERIC"} \cup {"RAW"}) \cup ({"LONG"} \cup {"RDMA"})
      BY DEF FdTypes
    <2> QED BY <2>3, <2>4
  <1>2. IsFiniteSet(Devs \X FdTypes)
    BY <1>1, FS_Product
  <1> QED BY <1>2, FS_Subset DEF OpenFiles

\* A step that leaves nobody on a device that had somebody keeps or forgets its
\* result.
LEMMA SameResult ==
  ASSUME InCall, BoundTogether, NEW t \in Threads, OnlyMoves(t),
         \A d \in Devs :
           opened'[d] = FdTypes /\ Nobody(d)' /\ result'[d] # Invalid =>
             /\ tdev[t] # d /\ opened[d] = FdTypes /\ result'[d] = result[d]
             /\ \A ty \in Bindable : bind_port'[d][ty] = bind_port[d][ty]
  PROVE  BoundTogether'
  <1> SUFFICES ASSUME NEW d \in Devs, opened'[d] = FdTypes, Nobody(d)',
                      result'[d] # Invalid, NEW ty \in Bindable
               PROVE  bind_port'[d][ty] = result'[d]
    BY DEF BoundTogether
  <1>1. Nobody(d)
    BY DEF Nobody, OnlyMoves
  <1> QED BY <1>1 DEF BoundTogether

\* axiom_open is called.
LEMMA OpenCallInv ==
  ASSUME Shared = FALSE, IInv, NEW t \in Threads, NEW d \in Devs, axiom_open(t, d)
  PROVE  IInv'
  <1> USE DEF IInv, Control, Safe
  <1>1. /\ tpc'[t] = "open" /\ top'[t] = "open" /\ tdev'[t] = d /\ tfd'[t] = "GENERIC"
        /\ OnlyMoves(t)
    BY Entered DEF axiom_open, TypeOK
  <1>2. TypeOK'
    BY <1>1 DEF axiom_open, Enter, TypeOK, DriverType, ThreadType, HistoryType,
       drvvars, FdTypes
  <1>3. InCall' /\ Alone'
    <2>1. InCall'
      BY <1>1 DEF axiom_open, InCall, OnlyMoves, TypeOK, DriverType, ThreadType,
         HistoryType, drvvars, Nobody, FdTypes
    <2>2. Alone'
      BY <1>1 DEF axiom_open, InCall, Alone, OnlyMoves, TypeOK, DriverType, ThreadType,
         HistoryType, drvvars, Nobody, FdTypes
    <2> QED BY <2>1, <2>2
  <1>4. Place'
    <2>1. Before["GENERIC"] = {}
      BY DEF Before
    <2> SUFFICES ASSUME NEW u \in Threads PROVE Place!(u)'
      BY DEF Place
    <2>2. CASE u = t
      BY <1>1, <2>1, <2>2 DEF axiom_open
    <2>3. CASE u # t
      BY <1>1, <2>3 DEF axiom_open, Place, OnlyMoves, drvvars
    <2> QED BY <2>2, <2>3
  <1>5. OnlyBindable' /\ Stage'
    BY <1>1 DEF axiom_open, OnlyBindable, Stage, InCall, Alone, Place, OnlyMoves,
       TypeOK, DriverType, ThreadType, HistoryType, drvvars, Nobody, FdTypes
  <1>6. Exclusive' /\ UsedExact'
    BY <1>1, Quiet DEF axiom_open, drvvars
  <1>7. OpenCount'
    BY DEF axiom_open, OpenCount, OpenFiles, drvvars
  <1>8. BoundTogether'
    <2> SUFFICES ASSUME NEW e \in Devs, opened'[e] = FdTypes, Nobody(e)', result'[e] # Invalid
                 PROVE  /\ tdev[t] # e /\ opened[e] = FdTypes /\ result'[e] = result[e]
                        /\ \A ty \in Bindable : bind_port'[e][ty] = bind_port[e][ty]
      BY <1>1, SameResult
    <2> QED BY <1>1 DEF axiom_open, Nobody, InCall, FdTypes, TypeOK, DriverType,
               HistoryType, drvvars, history
  <1> QED BY <1>2, <1>3, <1>4, <1>5, <1>6, <1>7, <1>8

\* axiom_bind is called.
LEMMA BindCallInv ==
  ASSUME Shared = FALSE, IInv, NEW t \in Threads, NEW d \in Devs, NEW p \in 0 .. PortNum \cup {AnyPort}, axiom_bind(t, d, p)
  PROVE  IInv'
  <1> USE DEF IInv, Control, Safe
  <1>1. /\ tpc'[t] = "unbind" /\ top'[t] = "bind" /\ tdev'[t] = d /\ tfd'[t] = "RAW"
        /\ OnlyMoves(t)
    BY Entered DEF axiom_bind, TypeOK
  <1>2. TypeOK'
    BY <1>1 DEF axiom_bind, TypeOK, DriverType, ThreadType, HistoryType, Enter,
       drvvars, FdTypes, Bindable
  <1>3. InCall' /\ Alone'
    <2>1. InCall'
      BY <1>1 DEF axiom_bind, InCall, OnlyMoves, TypeOK, DriverType, ThreadType,
         HistoryType, Enter, drvvars, FdTypes, Bindable
    <2>2. Alone'
      BY <1>1 DEF axiom_bind, InCall, Alone, OnlyMoves, TypeOK, DriverType, ThreadType,
         HistoryType, Enter, drvvars, FdTypes, Bindable
    <2> QED BY <2>1, <2>2
  <1>4. Place'
    BY <1>1 DEF axiom_bind, Place, InCall, Alone, OnlyMoves, TypeOK, DriverType,
       ThreadType, HistoryType, Enter, drvvars, FdTypes, Bindable
  <1>5. OnlyBindable' /\ Stage'
    BY <1>1 DEF axiom_bind, OnlyBindable, Stage, InCall, Alone, Place, OnlyMoves,
       TypeOK, DriverType, ThreadType, HistoryType, Enter, drvvars, FdTypes, Bindable
  <1>6. Exclusive' /\ UsedExact'
    BY <1>1, Quiet DEF axiom_bind, drvvars
  <1>7. OpenCount'
    BY DEF axiom_bind, OpenCount, OpenFiles, drvvars
  <1>8. BoundTogether'
    <2> SUFFICES ASSUME NEW e \in Devs, opened'[e] = FdTypes, Nobody(e)', result'[e] # Invalid
                 PROVE  /\ tdev[t] # e /\ opened[e] = FdTypes /\ result'[e] = result[e]
                        /\ \A ty \in Bindable : bind_port'[e][ty] = bind_port[e][ty]
      BY <1>1, SameResult
    <2> QED BY <1>1 DEF axiom_bind, Nobody, InCall, FdTypes, TypeOK, DriverType,
               HistoryType, drvvars, history
  <1> QED BY <1>2, <1>3, <1>4, <1>5, <1>6, <1>7, <1>8

\* axiom_close is called.
LEMMA CloseCallInv ==
  ASSUME Shared = FALSE, IInv, NEW t \in Threads, NEW d \in Devs, axiom_close(t, d)
  PROVE  IInv'
  <1> USE DEF IInv, Control, Safe
  <1>1. /\ OnlyMoves(t)
        /\ \/ /\ opened[d] = {}
              /\ tpc'[t] = "idle" /\ top'[t] = "none" /\ tdev'[t] = None /\ tfd'[t] = None
           \/ /\ tpc'[t] = "unbind" /\ top'[t] = "close" /\ tdev'[t] = d /\ tfd'[t] \in opened[d]
    BY Closing DEF axiom_close, TypeOK, DriverType
  <1>2. TypeOK'
    <2>1. opened[d] \in SUBSET FdTypes
      BY DEF TypeOK, DriverType
    <2>2. MoveType'
      BY <2>1, TypedMove DEF axiom_close, TypeOK
    <2> QED BY <2>2 DEF axiom_close, TypeOK, DriverType, ThreadType, HistoryType, MoveType,
               drvvars, history
  <1>3. InCall' /\ Alone'
    <2>1. InCall'
      BY <1>1 DEF axiom_close, InCall, OnlyMoves, TypeOK, DriverType, ThreadType,
         HistoryType, MoveType, drvvars, history, Nobody, FdTypes, Bindable
    <2>2. Alone'
      BY <1>1 DEF axiom_close, InCall, Alone, OnlyMoves, TypeOK, DriverType,
         ThreadType, HistoryType, MoveType, drvvars, history, Nobody, FdTypes, Bindable
    <2> QED BY <2>1, <2>2
  <1>4. Place'
    BY <1>1 DEF axiom_close, Place, InCall, Alone, OnlyMoves, TypeOK, DriverType,
       ThreadType, HistoryType, MoveType, drvvars, history, Nobody, FdTypes, Bindable
  <1>5. OnlyBindable' /\ Stage'
    BY <1>1 DEF axiom_close, OnlyBindable, Stage, InCall, Alone, Place, OnlyMoves,
       TypeOK, DriverType, ThreadType, HistoryType, MoveType, drvvars, history, Nobody,
       FdTypes, Bindable
  <1>6. Exclusive' /\ UsedExact'
    BY <1>1, Quiet DEF axiom_close, drvvars
  <1>7. OpenCount'
    BY DEF axiom_close, OpenCount, OpenFiles, drvvars
  <1>8. BoundTogether'
    <2> SUFFICES ASSUME NEW e \in Devs, opened'[e] = FdTypes, Nobody(e)', result'[e] # Invalid
                 PROVE  /\ tdev[t] # e /\ opened[e] = FdTypes /\ result'[e] = result[e]
                        /\ \A ty \in Bindable : bind_port'[e][ty] = bind_port[e][ty]
      BY <1>1, SameResult
    <2> QED BY <1>1 DEF axiom_close, Nobody, InCall, FdTypes, TypeOK, DriverType,
               HistoryType, drvvars, history
  <1> QED BY <1>2, <1>3, <1>4, <1>5, <1>6, <1>7, <1>8

\* axiom_open fails and closes what it has opened.
LEMMA OpenFailsInv ==
  ASSUME Shared = FALSE, IInv, NEW t \in Threads, OpenFails(t)
  PROVE  IInv'
  <1> USE DEF IInv, Control, Safe
  <1>1. /\ OnlyMoves(t)
        /\ \/ /\ opened[tdev[t]] = {}
              /\ tpc'[t] = "idle" /\ top'[t] = "none" /\ tdev'[t] = None /\ tfd'[t] = None
           \/ /\ tpc'[t] = "unbind" /\ top'[t] = "close" /\ tdev'[t] = tdev[t] /\ tfd'[t] \in opened[tdev[t]]
    BY Closing DEF OpenFails, TypeOK, DriverType, InCall, ThreadType
  <1>2. TypeOK'
    <2>1. tdev[t] \in Devs /\ opened[tdev[t]] \in SUBSET FdTypes
      BY DEF OpenFails, InCall, TypeOK, DriverType, ThreadType
    <2>2. MoveType'
      BY <2>1, TypedMove DEF OpenFails, TypeOK
    <2> QED BY <2>2 DEF OpenFails, TypeOK, DriverType, ThreadType, HistoryType, MoveType,
               drvvars, history
  <1>3. InCall' /\ Alone'
    <2>1. InCall'
      BY <1>1 DEF OpenFails, InCall, OnlyMoves, TypeOK, DriverType, ThreadType,
         HistoryType, MoveType, InCall, drvvars, history, FdTypes, Bindable
    <2>2. Alone'
      BY <1>1 DEF OpenFails, InCall, Alone, OnlyMoves, TypeOK, DriverType, ThreadType,
         HistoryType, MoveType, InCall, drvvars, history, FdTypes, Bindable
    <2> QED BY <2>1, <2>2
  <1>4. Place'
    BY <1>1 DEF OpenFails, Place, InCall, Alone, OnlyMoves, TypeOK, DriverType,
       ThreadType, HistoryType, MoveType, InCall, drvvars, history, FdTypes, Bindable
  <1>5. OnlyBindable' /\ Stage'
    BY <1>1 DEF OpenFails, OnlyBindable, Stage, InCall, Alone, Place, OnlyMoves,
       TypeOK, DriverType, ThreadType, HistoryType, MoveType, InCall, drvvars, history,
       FdTypes, Bindable
  <1>6. Exclusive' /\ UsedExact'
    BY <1>1, Quiet DEF OpenFails, drvvars
  <1>7. OpenCount'
    BY DEF OpenFails, OpenCount, OpenFiles, drvvars
  <1>8. BoundTogether'
    <2> SUFFICES ASSUME NEW e \in Devs, opened'[e] = FdTypes, Nobody(e)', result'[e] # Invalid
                 PROVE  /\ tdev[t] # e /\ opened[e] = FdTypes /\ result'[e] = result[e]
                        /\ \A ty \in Bindable : bind_port'[e][ty] = bind_port[e][ty]
      BY <1>1, SameResult
    <2> QED BY <1>1 DEF OpenFails, Nobody, InCall, FdTypes, TypeOK, DriverType,
               HistoryType, drvvars, history
  <1> QED BY <1>2, <1>3, <1>4, <1>5, <1>6, <1>7, <1>8

\* The process ends.
LEMMA ExitInv ==
  ASSUME Shared = FALSE, IInv, NEW t \in Threads, NEW d \in Devs, ProcessExit(t, d)
  PROVE  IInv'
  <1> USE DEF IInv, Control, Safe
  <1>1. /\ OnlyMoves(t)
        /\ \/ /\ opened[d] = {}
              /\ tpc'[t] = "idle" /\ top'[t] = "none" /\ tdev'[t] = None /\ tfd'[t] = None
           \/ /\ tpc'[t] = "unbind" /\ top'[t] = "exit" /\ tdev'[t] = d /\ tfd'[t] \in opened[d]
    BY Closing DEF ProcessExit, TypeOK, DriverType
  <1>2. TypeOK'
    <2>1. opened[d] \in SUBSET FdTypes
      BY DEF TypeOK, DriverType
    <2>2. MoveType'
      BY <2>1, TypedMove DEF ProcessExit, TypeOK
    <2> QED BY <2>2 DEF ProcessExit, TypeOK, DriverType, ThreadType, HistoryType, MoveType,
               drvvars, history
  <1>3. InCall' /\ Alone'
    <2>1. InCall'
      BY <1>1 DEF ProcessExit, InCall, OnlyMoves, TypeOK, DriverType, ThreadType,
         HistoryType, MoveType, drvvars, history, Nobody, FdTypes, Bindable
    <2>2. Alone'
      BY <1>1 DEF ProcessExit, InCall, Alone, OnlyMoves, TypeOK, DriverType,
         ThreadType, HistoryType, MoveType, drvvars, history, Nobody, FdTypes, Bindable
    <2> QED BY <2>1, <2>2
  <1>4. Place'
    BY <1>1 DEF ProcessExit, Place, InCall, Alone, OnlyMoves, TypeOK, DriverType,
       ThreadType, HistoryType, MoveType, drvvars, history, Nobody, FdTypes, Bindable
  <1>5. OnlyBindable' /\ Stage'
    BY <1>1 DEF ProcessExit, OnlyBindable, Stage, InCall, Alone, Place, OnlyMoves,
       TypeOK, DriverType, ThreadType, HistoryType, MoveType, drvvars, history, Nobody,
       FdTypes, Bindable
  <1>6. Exclusive' /\ UsedExact'
    BY <1>1, Quiet DEF ProcessExit, drvvars
  <1>7. OpenCount'
    BY DEF ProcessExit, OpenCount, OpenFiles, drvvars
  <1>8. BoundTogether'
    <2> SUFFICES ASSUME NEW e \in Devs, opened'[e] = FdTypes, Nobody(e)', result'[e] # Invalid
                 PROVE  /\ tdev[t] # e /\ opened[e] = FdTypes /\ result'[e] = result[e]
                        /\ \A ty \in Bindable : bind_port'[e][ty] = bind_port[e][ty]
      BY <1>1, SameResult
    <2> QED BY <1>1 DEF ProcessExit, Nobody, InCall, FdTypes, TypeOK, DriverType,
               HistoryType, drvvars, history
  <1> QED BY <1>2, <1>3, <1>4, <1>5, <1>6, <1>7, <1>8

\* axiomnet_unbind tests bind_port.
LEMMA TestInv ==
  ASSUME Shared = FALSE, IInv, NEW t \in Threads, UnbindTest(t)
  PROVE  IInv'
  <1> USE DEF IInv, Control, Safe
  <1>1. PICK pc : /\ pc = (IF bind_port[tdev[t]][tfd[t]] = Invalid THEN AfterUnbind(t) ELSE "clear")
                  /\ tpc'[t] = pc /\ top'[t] = top[t] /\ tdev'[t] = tdev[t] /\ tfd'[t] = tfd[t]
                  /\ OnlyMoves(t)
    BY Went DEF UnbindTest, TypeOK
  <1>2. TypeOK'
    BY <1>1 DEF UnbindTest, TypeOK, DriverType, ThreadType, HistoryType, Goto,
       AfterUnbind, drvvars, history, FdTypes, Bindable
  <1>3. InCall' /\ Alone'
    <2>1. InCall'
      BY <1>1 DEF UnbindTest, InCall, OnlyMoves, TypeOK, DriverType, ThreadType,
         HistoryType, Goto, AfterUnbind, drvvars, history, FdTypes, Bindable
    <2>2. Alone'
      BY <1>1 DEF UnbindTest, InCall, Alone, OnlyMoves, TypeOK, DriverType, ThreadType,
         HistoryType, Goto, AfterUnbind, drvvars, history, FdTypes, Bindable
    <2> QED BY <2>1, <2>2
  <1>4. Place'
    BY <1>1 DEF UnbindTest, Place, InCall, Alone, OnlyMoves, TypeOK, DriverType,
       ThreadType, HistoryType, Goto, AfterUnbind, drvvars, history, FdTypes, Bindable
  <1>5. OnlyBindable' /\ Stage'
    BY <1>1 DEF UnbindTest, OnlyBindable, Stage, InCall, Alone, Place, OnlyMoves,
       TypeOK, DriverType, ThreadType, HistoryType, Goto, AfterUnbind, drvvars,
       history, FdTypes, Bindable
  <1>6. Exclusive' /\ UsedExact'
    BY <1>1, Quiet DEF UnbindTest, AfterUnbind, drvvars
  <1>7. OpenCount'
    BY DEF UnbindTest, OpenCount, OpenFiles, drvvars
  <1>8. BoundTogether'
    <2> SUFFICES ASSUME NEW e \in Devs, opened'[e] = FdTypes, Nobody(e)', result'[e] # Invalid
                 PROVE  /\ tdev[t] # e /\ opened[e] = FdTypes /\ result'[e] = result[e]
                        /\ \A ty \in Bindable : bind_port'[e][ty] = bind_port[e][ty]
      BY <1>1, SameResult
    <2> QED BY <1>1 DEF UnbindTest, Nobody, InCall, FdTypes, TypeOK, DriverType,
               HistoryType, drvvars, history
  <1> QED BY <1>2, <1>3, <1>4, <1>5, <1>6, <1>7, <1>8

\* The next file of a device is opened.
LEMMA OpenInv ==
  ASSUME Shared = FALSE, IInv, NEW t \in Threads, axiomnet_open(t)
  PROVE  IInv'
  <1> USE DEF IInv, Control, Safe
  <1> DEFINE d == tdev[t]
             ty == tfd[t]
  <1>0. /\ d \in Devs /\ ty \in FdTypes /\ top[t] = "open" /\ opened[d] = Before[ty]
        /\ ty \notin opened[d]
    BY DEF axiomnet_open, InCall, Place, Before, FdTypes, TypeOK, ThreadType
  <1>1. /\ OnlyMoves(t)
        /\ \/ /\ ty = "RDMA"
              /\ tpc'[t] = "idle" /\ top'[t] = "none" /\ tdev'[t] = None /\ tfd'[t] = None
           \/ /\ ty # "RDMA" /\ tpc'[t] = "open" /\ top'[t] = "open"
              /\ tdev'[t] = d /\ tfd'[t] = NextFd[ty]
    BY Entered, Left DEF axiomnet_open, TypeOK
  <1>2. ty # "RDMA" => NextFd[ty] \in FdTypes /\ Before[NextFd[ty]] = Before[ty] \cup {ty}
    BY <1>0 DEF NextFd, Before, FdTypes
  <1>3. /\ opened' = [opened EXCEPT ![d] = @ \cup {ty}]
        /\ \A e \in Devs : e # d => opened'[e] = opened[e]
        /\ opened'[d] = opened[d] \cup {ty}
        /\ bind_port'[d][ty] = Invalid
        /\ \A e \in Devs, x \in FdTypes :
             <<e, x>> # <<d, ty>> => bind_port'[e][x] = bind_port[e][x]
    BY <1>0, PortSet DEF axiomnet_open, TypeOK, DriverType
  <1>4. TypeOK'
    <2>1. DriverType'
      BY <1>0 DEF axiomnet_open, SetPort, TypeOK, DriverType
    <2>2. ThreadType'
      BY <1>0, <1>2 DEF axiomnet_open, Leave, Enter, TypeOK, ThreadType
    <2>3. HistoryType'
      BY DEF axiomnet_open, history, TypeOK, HistoryType
    <2> QED BY <2>1, <2>2, <2>3 DEF TypeOK
  <1>5. InCall' /\ Alone'
    <2>1. InCall'
      BY <1>0, <1>1, <1>2 DEF InCall, OnlyMoves, axiomnet_open
    <2>2. Alone'
      BY <1>0, <1>1 DEF Alone, OnlyMoves
    <2> QED BY <2>1, <2>2
  <1>6. Place'
    <2> SUFFICES ASSUME NEW u \in Threads PROVE Place!(u)'
      BY DEF Place
    <2>1. CASE u = t
      BY <1>0, <1>1, <1>2, <1>3, <2>1
    <2>2. CASE u # t
      <3>1. tpc[u] # "idle" => tdev[u] \in Devs /\ tdev[u] # d /\ tfd[u] \in FdTypes
        BY <1>0, <2>2 DEF InCall, Alone, TypeOK, ThreadType
      <3> QED BY <1>0, <1>1, <1>3, <2>2, <3>1 DEF Place, OnlyMoves
    <2> QED BY <2>1, <2>2
  <1>7. OnlyBindable'
    BY <1>0, <1>3 DEF OnlyBindable
  <1>8. Stage'
    <2> SUFFICES ASSUME NEW u \in Threads PROVE Stage!(u)'
      BY DEF Stage
    <2>1. CASE u = t
      BY <1>0, <1>1, <2>1 DEF Stage, axiomnet_open, history
    <2>2. CASE u # t
      <3>1. tpc[u] # "idle" => tdev[u] \in Devs /\ tdev[u] # d /\ tfd[u] \in FdTypes
        BY <1>0, <2>2 DEF InCall, Alone, TypeOK, ThreadType
      <3> QED BY <1>0, <1>1, <1>3, <2>2, <3>1 DEF Stage, Place, OnlyMoves,
                 axiomnet_open, history, FdTypes
    <2> QED BY <2>1, <2>2
  <1>9. Exclusive' /\ UsedExact'
    <2>1. \A e \in Devs, x \in Bindable, p \in Ports :
            (x \in opened'[e] /\ bind_port'[e][x] = p)
              <=> (x \in opened[e] /\ bind_port[e][x] = p)
      BY <1>0, <1>3 DEF Bindable, FdTypes, Ports
    <2> QED BY <1>1, <2>1, Quiet DEF axiomnet_open
  <1>10. OpenCount'
    <2>1. <<d, ty>> \notin OpenFiles
      BY <1>0 DEF OpenFiles
    <2>2. OpenFiles' = OpenFiles \cup {<<d, ty>>}
      BY <1>0, <1>3 DEF OpenFiles
    <2>3. Cardinality(OpenFiles') = Cardinality(OpenFiles) + 1
      BY <2>1, <2>2, FiniteFiles, FS_AddElement
    <2> QED BY <2>3 DEF OpenCount, axiomnet_open, TypeOK, DriverType
  <1>11. BoundTogether'
    <2> SUFFICES ASSUME NEW e \in Devs, opened'[e] = FdTypes, Nobody(e)', result'[e] # Invalid
                 PROVE  /\ tdev[t] # e /\ opened[e] = FdTypes /\ result'[e] = result[e]
                        /\ \A x \in Bindable : bind_port'[e][x] = bind_port[e][x]
      BY <1>1, SameResult
    <2>1. result' = result /\ e # d
      BY <1>0 DEF axiomnet_open, history, Stage
    <2> QED BY <1>0, <1>3, <2>1 DEF Bindable, FdTypes
  <1> QED BY <1>4, <1>5, <1>6, <1>7, <1>8, <1>9, <1>10, <1>11

\* axiomnet_unbind clears the bit of the port.
LEMMA ClearInv ==
  ASSUME Shared = FALSE, IInv, NEW t \in Threads, UnbindClear(t)
  PROVE  IInv'
  <1> USE DEF IInv, Control, Safe
  <1> DEFINE d == tdev[t]
             ty == tfd[t]
  <1>0. /\ d \in Devs /\ ty \in Bindable /\ ty \in opened[d] /\ bind_port[d][ty] \in Ports
        /\ tpc[t] = "clear" /\ ~Resetting(d, ty) /\ Holds(d, ty, bind_port[d][ty])
    <2>1. /\ d \in Devs /\ ty \in FdTypes /\ ty \in opened[d] /\ bind_port[d][ty] \in Ports
          /\ tpc[t] = "clear"
      BY DEF UnbindClear, InCall, Place, TypeOK, ThreadType
    <2>2. ty \in Bindable
      BY <2>1 DEF OnlyBindable, Ports
    <2>3. ~Resetting(d, ty)
      BY <2>1 DEF Resetting, Alone
    <2> QED BY <2>1, <2>2, <2>3 DEF Holds
  <1>1. /\ OnlyMoves(t)
        /\ tpc'[t] = "reset" /\ top'[t] = top[t] /\ tdev'[t] = d /\ tfd'[t] = ty
    BY Went DEF UnbindClear, TypeOK
  <1>2. UNCHANGED <<opened, bind_port, used, targ, result>>
    BY DEF UnbindClear, history
  <1>4. TypeOK'
    BY DEF UnbindClear, Goto, history, TypeOK, DriverType, ThreadType, HistoryType
  <1>5. InCall' /\ Alone'
    <2>1. InCall'
      BY <1>0, <1>1 DEF InCall, OnlyMoves
    <2>2. Alone'
      BY <1>1 DEF Alone, OnlyMoves
    <2> QED BY <2>1, <2>2
  <1>6. Place'
    <2> SUFFICES ASSUME NEW u \in Threads PROVE Place!(u)'
      BY DEF Place
    <2>1. CASE u = t
      BY <1>0, <1>1, <1>2, <2>1 DEF Place
    <2>2. CASE u # t
      <3>1. tpc[u] # "idle" => tdev[u] \in Devs /\ tdev[u] # d /\ tfd[u] \in FdTypes
        BY <1>0, <2>2 DEF InCall, Alone, TypeOK, ThreadType
      <3> QED BY <1>1, <1>2, <2>2, <3>1 DEF Place, OnlyMoves
    <2> QED BY <2>1, <2>2
  <1>7. OnlyBindable'
    BY <1>2 DEF OnlyBindable
  <1>8. Stage'
    <2> SUFFICES ASSUME NEW u \in Threads PROVE Stage!(u)'
      BY DEF Stage
    <2>1. CASE u = t
      BY <1>0, <1>1, <1>2, <2>1 DEF Stage
    <2>2. CASE u # t
      <3>1. tpc[u] # "idle" => tdev[u] \in Devs /\ tdev[u] # d /\ tfd[u] \in FdTypes
        BY <1>0, <2>2 DEF InCall, Alone, TypeOK, ThreadType
      <3> QED BY <1>1, <1>2, <2>2, <3>1 DEF Stage, Place, OnlyMoves
    <2> QED BY <2>1, <2>2
  <1>9. Exclusive' /\ UsedExact'
    <2> DEFINE q == bind_port[d][ty]
    <2>1. \A e \in Devs, x \in Bindable : Resetting(e, x)' <=> (Resetting(e, x) \/ <<e, x>> = <<d, ty>>)
      BY <1>0, <1>1 DEF Resetting, OnlyMoves
    <2>2. \A e \in Devs, x \in Bindable, p \in Ports :
            Holds(e, x, p)' <=> (Holds(e, x, p) /\ <<e, x>> # <<d, ty>>)
      BY <1>2, <2>1 DEF Holds
    <2>3. Exclusive'
      BY <2>2 DEF Exclusive
    <2>4. \A x \in Bindable : port_used'[x] = IF x = ty THEN port_used[x] \ {q} ELSE port_used[x]
      BY <1>0 DEF UnbindClear, TypeOK, DriverType
    <2>5. \A e \in Devs : Holds(e, ty, q) => e = d
      BY <1>0 DEF Exclusive
    <2>6. \A p \in Ports : p # q => ~Holds(d, ty, p)
      BY DEF Holds
    <2>7. ASSUME NEW x \in Bindable
          PROVE  port_used'[x] = {p \in Ports : \E e \in Devs : Holds(e, x, p)'}
      <3>1. port_used[x] = {p \in Ports : \E e \in Devs : Holds(e, x, p)}
        BY DEF UsedExact
      <3>2. CASE x = ty
        <4>1. ASSUME NEW p \in port_used[x] \ {q}
              PROVE  p \in Ports /\ \E e \in Devs : Holds(e, x, p)'
          <5>1. PICK e \in Devs : p \in Ports /\ Holds(e, x, p)
            BY <3>1, <4>1
          <5>2. e # d
            BY <2>6, <3>2, <4>1, <5>1
          <5> QED BY <2>2, <5>1, <5>2
        <4>2. ASSUME NEW p \in Ports, NEW e \in Devs, Holds(e, x, p)'
              PROVE  p \in port_used[x] \ {q}
          <5>1. Holds(e, x, p) /\ e # d
            BY <2>2, <3>2, <4>2
          <5> QED BY <2>5, <3>1, <3>2, <5>1
        <4>3. port_used'[x] = port_used[x] \ {q}
          BY <2>4, <3>2
        <4> QED BY <4>1, <4>2, <4>3
      <3>3. CASE x # ty
        BY <2>2, <2>4, <3>1, <3>3
      <3> QED BY <3>2, <3>3
    <2> QED BY <2>3, <2>7 DEF UsedExact
  <1>10. OpenCount'
    BY <1>2 DEF OpenCount, OpenFiles
  <1>11. BoundTogether'
    <2> SUFFICES ASSUME NEW e \in Devs, opened'[e] = FdTypes, Nobody(e)', result'[e] # Invalid
                 PROVE  /\ tdev[t] # e /\ opened[e] = FdTypes /\ result'[e] = result[e]
                        /\ \A x \in Bindable : bind_port'[e][x] = bind_port[e][x]
      BY <1>1, SameResult
    <2> QED BY <1>1, <1>2 DEF Nobody
  <1> QED BY <1>4, <1>5, <1>6, <1>7, <1>8, <1>9, <1>10, <1>11

\* axiomnet_unbind resets bind_port.
LEMMA ResetInv ==
  ASSUME Shared = FALSE, IInv, NEW t \in Threads, UnbindReset(t)
  PROVE  IInv'
  <1> USE DEF IInv, Control, Safe
  <1> DEFINE d == tdev[t]
             ty == tfd[t]
  <1>0. /\ d \in Devs /\ ty \in FdTypes /\ ty \in opened[d]
        /\ tpc[t] = "reset" /\ top[t] \in {"bind", "close", "exit"}
    BY DEF UnbindReset, InCall, Place, TypeOK, ThreadType
  <1>1. /\ OnlyMoves(t)
        /\ tpc'[t] = (IF top[t] = "bind" THEN "bind" ELSE "release")
        /\ top'[t] = top[t] /\ tdev'[t] = d /\ tfd'[t] = ty
    BY Went DEF UnbindReset, AfterUnbind, TypeOK
  <1>2. UNCHANGED <<opened, port_used, used, targ, result>>
    BY DEF UnbindReset, history
  <1>3. /\ bind_port'[d][ty] = Invalid
        /\ \A e \in Devs, x \in FdTypes :
             <<e, x>> # <<d, ty>> => bind_port'[e][x] = bind_port[e][x]
    BY <1>0, PortSet DEF UnbindReset, TypeOK
  <1>4. TypeOK'
    BY <1>0 DEF UnbindReset, SetPort, Goto, AfterUnbind, history, TypeOK, DriverType,
       ThreadType, HistoryType
  <1>5. InCall' /\ Alone'
    <2>1. InCall'
      BY <1>0, <1>1 DEF InCall, OnlyMoves
    <2>2. Alone'
      BY <1>1 DEF Alone, OnlyMoves
    <2> QED BY <2>1, <2>2
  <1>6. Place'
    <2> SUFFICES ASSUME NEW u \in Threads PROVE Place!(u)'
      BY DEF Place
    <2>1. CASE u = t
      BY <1>0, <1>1, <1>2, <1>3, <2>1 DEF Place
    <2>2. CASE u # t
      <3>1. tpc[u] # "idle" => tdev[u] \in Devs /\ tdev[u] # d /\ tfd[u] \in FdTypes
        BY <1>0, <2>2 DEF InCall, Alone, TypeOK, ThreadType
      <3> QED BY <1>0, <1>1, <1>2, <1>3, <2>2, <3>1 DEF Place, OnlyMoves
    <2> QED BY <2>1, <2>2
  <1>7. OnlyBindable'
    BY <1>3 DEF OnlyBindable
  <1>8. Stage'
    <2> SUFFICES ASSUME NEW u \in Threads PROVE Stage!(u)'
      BY DEF Stage
    <2>1. CASE u = t
      BY <1>0, <1>1, <1>2, <1>3, <2>1 DEF Stage, FdTypes
    <2>2. CASE u # t
      <3>1. tpc[u] # "idle" => tdev[u] \in Devs /\ tdev[u] # d /\ tfd[u] \in FdTypes
        BY <1>0, <2>2 DEF InCall, Alone, TypeOK, ThreadType
      <3> QED BY <1>0, <1>1, <1>2, <1>3, <2>2, <3>1 DEF Stage, Place, OnlyMoves, FdTypes
    <2> QED BY <2>1, <2>2
  <1>9. Exclusive' /\ UsedExact'
    <2>1. \A e \in Devs, x \in Bindable : <<e, x>> # <<d, ty>> => (Resetting(e, x)' <=> Resetting(e, x))
      BY <1>0, <1>1 DEF Resetting, OnlyMoves
    <2>2. Resetting(d, ty)
      BY <1>0 DEF Resetting
    <2>3. \A e \in Devs, x \in Bindable, p \in Ports : Holds(e, x, p)' <=> Holds(e, x, p)
      <3> SUFFICES ASSUME NEW e \in Devs, NEW x \in Bindable, NEW p \in Ports
                   PROVE  Holds(e, x, p)' <=> Holds(e, x, p)
        OBVIOUS
      <3>1. CASE <<e, x>> = <<d, ty>>
        BY <1>3, <2>2, <3>1 DEF Holds, Ports
      <3>2. CASE <<e, x>> # <<d, ty>>
        BY <1>2, <1>3, <2>1, <3>2 DEF Holds, Bindable, FdTypes
      <3> QED BY <3>1, <3>2
    <2> QED BY <1>2, <2>3 DEF Exclusive, UsedExact
  <1>10. OpenCount'
    BY <1>2 DEF OpenCount, OpenFiles
  <1>11. BoundTogether'
    <2> SUFFICES ASSUME NEW e \in Devs, opened'[e] = FdTypes, Nobody(e)', result'[e] # Invalid
                 PROVE  /\ tdev[t] # e /\ opened[e] = FdTypes /\ result'[e] = result[e]
                        /\ \A x \in Bindable : bind_port'[e][x] = bind_port[e][x]
      BY <1>1, SameResult
    <2> QED BY <1>1, <1>2, <1>3 DEF Nobody, Bindable, FdTypes
  <1> QED BY <1>4, <1>5, <1>6, <1>7, <1>8, <1>9, <1>10, <1>11

\* A file is closed.
LEMMA ReleaseInv ==
  ASSUME Shared = FALSE, IInv, NEW t \in Threads, axiomnet_release(t)
  PROVE  IInv'
  <1> USE DEF IInv, Control, Safe
  <1> DEFINE d == tdev[t]
             ty == tfd[t]
  <1>0. /\ d \in Devs /\ ty \in FdTypes /\ ty \in opened[d] /\ bind_port[d][ty] = Invalid
        /\ tpc[t] = "release" /\ top[t] \in {"close", "exit"} /\ opened[d] \subseteq FdTypes
    BY DEF axiomnet_release, InCall, Place, TypeOK, ThreadType, DriverType
  <1>1. /\ OnlyMoves(t)
        /\ \/ /\ opened[d] \ {ty} = {}
              /\ tpc'[t] = "idle" /\ top'[t] = "none" /\ tdev'[t] = None /\ tfd'[t] = None
           \/ /\ tpc'[t] = "unbind" /\ top'[t] = top[t] /\ tdev'[t] = d
              /\ tfd'[t] \in opened[d] \ {ty}
    BY <1>0, Closing DEF axiomnet_release, TypeOK
  <1>2. UNCHANGED <<bind_port, port_used, targ, result>>
    BY DEF axiomnet_release, history
  <1>3. /\ opened'[d] = opened[d] \ {ty}
        /\ \A e \in Devs : e # d => opened'[e] = opened[e]
    BY <1>0 DEF axiomnet_release, TypeOK, DriverType
  <1>10. OpenCount' /\ used' \in Nat
    <2>1. <<d, ty>> \in OpenFiles
      BY <1>0 DEF OpenFiles
    <2>2. OpenFiles' = OpenFiles \ {<<d, ty>>}
      BY <1>0, <1>3 DEF OpenFiles
    <2>3. /\ IsFiniteSet(OpenFiles')
          /\ Cardinality(OpenFiles') = Cardinality(OpenFiles) - 1
      BY <2>1, <2>2, FiniteFiles, FS_RemoveElement
    <2>4. Cardinality(OpenFiles') \in Nat
      BY <2>3, FS_CardinalityType
    <2> QED BY <2>3, <2>4 DEF OpenCount, axiomnet_release, TypeOK, DriverType
  <1>4. TypeOK'
    <2>1. DriverType'
      BY <1>0, <1>10 DEF axiomnet_release, TypeOK, DriverType
    <2>2. MoveType'
      BY <1>0, TypedMove DEF axiomnet_release, TypeOK
    <2>3. ThreadType' /\ HistoryType'
      BY <2>2 DEF axiomnet_release, history, TypeOK, MoveType, ThreadType, HistoryType
    <2> QED BY <2>1, <2>3 DEF TypeOK
  <1>5. InCall' /\ Alone'
    <2>1. InCall'
      BY <1>0, <1>1 DEF InCall, OnlyMoves
    <2>2. Alone'
      BY <1>1 DEF Alone, OnlyMoves
    <2> QED BY <2>1, <2>2
  <1>6. Place'
    <2> SUFFICES ASSUME NEW u \in Threads PROVE Place!(u)'
      BY DEF Place
    <2>1. CASE u = t
      BY <1>0, <1>1, <1>2, <1>3, <2>1 DEF Place
    <2>2. CASE u # t
      <3>1. tpc[u] # "idle" => tdev[u] \in Devs /\ tdev[u] # d /\ tfd[u] \in FdTypes
        BY <1>0, <2>2 DEF InCall, Alone, TypeOK, ThreadType
      <3> QED BY <1>0, <1>1, <1>2, <1>3, <2>2, <3>1 DEF Place, OnlyMoves
    <2> QED BY <2>1, <2>2
  <1>7. OnlyBindable'
    BY <1>2 DEF OnlyBindable
  <1>8. Stage'
    <2> SUFFICES ASSUME NEW u \in Threads PROVE Stage!(u)'
      BY DEF Stage
    <2>1. CASE u = t
      BY <1>0, <1>1, <1>2, <1>3, <2>1 DEF Stage
    <2>2. CASE u # t
      <3>1. tpc[u] # "idle" => tdev[u] \in Devs /\ tdev[u] # d /\ tfd[u] \in FdTypes
        BY <1>0, <2>2 DEF InCall, Alone, TypeOK, ThreadType
      <3> QED BY <1>0, <1>1, <1>2, <1>3, <2>2, <3>1 DEF Stage, Place, OnlyMoves
    <2> QED BY <2>1, <2>2
  <1>9. Exclusive' /\ UsedExact'
    <2>1. \A e \in Devs, x \in Bindable, p \in Ports :
            (x \in opened'[e] /\ bind_port'[e][x] = p)
              <=> (x \in opened[e] /\ bind_port[e][x] = p)
      BY <1>0, <1>2, <1>3 DEF Ports
    <2> QED BY <1>0, <1>1, <1>2, <2>1, Quiet
  <1>11. BoundTogether'
    <2> SUFFICES ASSUME NEW e \in Devs, opened'[e] = FdTypes, Nobody(e)', result'[e] # Invalid
                 PROVE  /\ tdev[t] # e /\ opened[e] = FdTypes /\ result'[e] = result[e]
                        /\ \A x \in Bindable : bind_port'[e][x] = bind_port[e][x]
      BY <1>1, SameResult
    <2>1. e # d
      BY <1>0, <1>3
    <2> QED BY <1>2, <1>3, <2>1
  <1> QED BY <1>4, <1>5, <1>6, <1>7, <1>8, <1>9, <1>10, <1>11

\* axiomnet_bind takes a port or fails.
LEMMA BindInv ==
  ASSUME Shared = FALSE, IInv, NEW t \in Threads, axiomnet_bind(t)
  PROVE  IInv'
  <1> USE DEF IInv, Control, Safe
  <1> DEFINE d == tdev[t]
             ty == tfd[t]
  <1> DEFINE p == PortFor(targ[t], port_used[ty])
  <1>0. /\ d \in Devs /\ ty \in Bindable /\ ty \in FdTypes /\ ty \in opened[d]
        /\ bind_port[d][ty] = Invalid /\ tpc[t] = "bind" /\ top[t] = "bind"
        /\ port_used[ty] \subseteq Ports
    BY DEF axiomnet_bind, InCall, Place, TypeOK, ThreadType, DriverType, Bindable,
       FdTypes
  <1>p. /\ p \in Ports \cup {Invalid} /\ (p # Invalid => p \in Ports /\ p \notin port_used[ty])
        /\ targ[t] # AnyPort /\ p # Invalid => p = targ[t]
    BY <1>0, PortChosen
  <1>1. /\ OnlyMoves(t)
        /\ \/ /\ p # Invalid /\ ty = "RAW" /\ result' = result
              /\ tpc'[t] = "unbind" /\ top'[t] = "bind" /\ tdev'[t] = d /\ tfd'[t] = "LONG"
           \/ /\ p = Invalid \/ ty = "LONG"
              /\ result' = [result EXCEPT ![d] = p]
              /\ tpc'[t] = "idle" /\ top'[t] = "none" /\ tdev'[t] = None /\ tfd'[t] = None
    <2>1. BindReturns(t, d, ty, p)
      BY DEF axiomnet_bind
    <2> QED BY <1>0, <2>1, Entered, Left DEF BindReturns, TypeOK, Bindable
  <1>2. UNCHANGED <<opened, used>>
    BY DEF axiomnet_bind
  <1>3. \/ p = Invalid /\ UNCHANGED <<port_used, bind_port, targ>>
        \/ /\ p # Invalid
           /\ port_used' = [port_used EXCEPT ![ty] = @ \cup {p}]
           /\ targ' = [targ EXCEPT ![t] = p]
           /\ bind_port' = [bind_port EXCEPT ![d][ty] = p]
           /\ bind_port'[d][ty] = p
           /\ \A e \in Devs, x \in FdTypes :
                <<e, x>> # <<d, ty>> => bind_port'[e][x] = bind_port[e][x]
    <2>1. CASE p = Invalid
      BY <2>1 DEF axiomnet_bind
    <2>2. CASE p # Invalid
      <3>1. /\ SetPort(d, ty, p)
            /\ port_used' = [port_used EXCEPT ![ty] = @ \cup {p}]
            /\ targ' = [targ EXCEPT ![t] = p]
        BY <2>2 DEF axiomnet_bind
      <3>2. bind_port' = [bind_port EXCEPT ![d][ty] = p]
        BY <3>1 DEF SetPort
      <3> QED BY <1>0, <2>2, <3>1, <3>2, PortSet DEF TypeOK
    <2> QED BY <2>1, <2>2
  <1>a. \A u \in Threads : u # t => targ'[u] = targ[u]
    BY <1>3 DEF TypeOK, ThreadType
  <1>b. \A e \in Devs : e # d => result'[e] = result[e]
    BY <1>1 DEF TypeOK, HistoryType
  <1>4. TypeOK'
    <2>1. DriverType'
      <3>1. CASE p = Invalid
        BY <1>2, <1>3, <3>1 DEF TypeOK, DriverType
      <3>2. CASE p # Invalid
        <4>1. port_used' \in [Bindable -> SUBSET Ports]
          BY <1>0, <1>p, <1>3, <3>2 DEF TypeOK, DriverType
        <4>2. bind_port' \in [Devs -> [FdTypes -> Ports \cup {Invalid}]]
          <5>1. p \in Ports \cup {Invalid}
            BY <1>p
          <5>2. bind_port' = [bind_port EXCEPT ![d][ty] = p]
            BY <1>3, <3>2
          <5> HIDE DEF p
          <5> QED BY <1>0, <5>1, <5>2 DEF TypeOK, DriverType
        <4> QED BY <1>2, <4>1, <4>2 DEF TypeOK, DriverType
      <3> QED BY <3>1, <3>2
    <2>2. MoveType'
      BY <1>0 DEF axiomnet_bind, BindReturns, Leave, Enter, TypeOK, ThreadType,
         MoveType, FdTypes
    <2>3. targ' \in [Threads -> 0 .. PortNum \cup {AnyPort}]
      BY <1>p, <1>3 DEF TypeOK, ThreadType, Ports
    <2>4. result' \in [Devs -> Ports \cup {Invalid}]
      BY <1>0, <1>p, <1>1 DEF TypeOK, HistoryType
    <2>5. tany' \in [Threads -> BOOLEAN] /\ missed' \in BOOLEAN
      BY DEF axiomnet_bind, TypeOK, HistoryType
    <2> QED BY <2>1, <2>2, <2>3, <2>4, <2>5 DEF TypeOK, MoveType, ThreadType,
               HistoryType
  <1>5. InCall' /\ Alone'
    <2>1. InCall'
      BY <1>0, <1>1 DEF InCall, OnlyMoves, FdTypes
    <2>2. Alone'
      BY <1>1 DEF Alone, OnlyMoves
    <2> QED BY <2>1, <2>2
  <1>c. ty = "RAW" => "LONG" \in opened[d]
    BY <1>0 DEF Place, FdTypes
  <1>6. Place'
    <2> SUFFICES ASSUME NEW u \in Threads PROVE Place!(u)'
      BY DEF Place
    <2>1. CASE u = t
      <3>1. opened[d] = FdTypes
        BY <1>0 DEF Place
      <3> QED BY <1>1, <1>2, <1>c, <2>1, <3>1 DEF Bindable
    <2>2. CASE u # t
      <3>1. tpc[u] # "idle" => tdev[u] \in Devs /\ tdev[u] # d /\ tfd[u] \in FdTypes
        BY <1>0, <2>2 DEF InCall, Alone, TypeOK, ThreadType
      <3> QED BY <1>0, <1>1, <1>2, <1>3, <2>2, <3>1 DEF Place, OnlyMoves
    <2> QED BY <2>1, <2>2
  <1>7. OnlyBindable'
    BY <1>0, <1>3 DEF OnlyBindable
  <1>8. Stage'
    <2> SUFFICES ASSUME NEW u \in Threads PROVE Stage!(u)'
      BY DEF Stage
    <2>1. CASE u = t
      BY <1>0, <1>p, <1>1, <1>3, <2>1 DEF Stage, TypeOK, ThreadType
    <2>2. CASE u # t
      <3>1. tpc[u] # "idle" => tdev[u] \in Devs /\ tdev[u] # d /\ tfd[u] \in FdTypes
        BY <1>0, <2>2 DEF InCall, Alone, TypeOK, ThreadType
      <3> QED BY <1>0, <1>1, <1>3, <1>a, <1>b, <2>2, <3>1 DEF Stage, Place, OnlyMoves,
                 FdTypes
    <2> QED BY <2>1, <2>2
  <1>9. Exclusive' /\ UsedExact'
    <2>1. \A e \in Devs, x \in Bindable : Resetting(e, x)' <=> Resetting(e, x)
      BY <1>0, <1>1 DEF Resetting, OnlyMoves
    <2>2. CASE p = Invalid
      BY <1>0, <1>1, <1>2, <1>3, <2>2, Quiet
    <2>3. CASE p # Invalid
      <3>1. ~Resetting(d, ty)
        BY <1>0 DEF Resetting, Alone
      <3>2. \A e \in Devs, x \in Bindable, i \in Ports :
              Holds(e, x, i)' <=> (Holds(e, x, i) \/ (<<e, x>> = <<d, ty>> /\ i = p))
        <4> SUFFICES ASSUME NEW e \in Devs, NEW x \in Bindable, NEW i \in Ports
                     PROVE  Holds(e, x, i)' <=> (Holds(e, x, i) \/ (<<e, x>> = <<d, ty>> /\ i = p))
          OBVIOUS
        <4>1. CASE <<e, x>> = <<d, ty>>
          BY <1>0, <1>2, <1>3, <2>1, <2>3, <3>1, <4>1 DEF Holds, Ports
        <4>2. CASE <<e, x>> # <<d, ty>>
          BY <1>2, <1>3, <2>1, <2>3, <4>2 DEF Holds, Bindable, FdTypes
        <4> QED BY <4>1, <4>2
      <3>3. \A e \in Devs : ~Holds(e, ty, p)
        BY <1>0, <1>p, <2>3 DEF UsedExact
      <3>4. Exclusive'
        BY <1>0, <3>2, <3>3 DEF Exclusive
      <3>5. \A x \in Bindable : port_used'[x] = IF x = ty THEN port_used[x] \cup {p} ELSE port_used[x]
        BY <1>0, <1>3, <2>3 DEF TypeOK, DriverType
      <3>6. ASSUME NEW x \in Bindable
            PROVE  port_used'[x] = {i \in Ports : \E e \in Devs : Holds(e, x, i)'}
        <4>1. port_used[x] = {i \in Ports : \E e \in Devs : Holds(e, x, i)}
          BY DEF UsedExact
        <4>2. ASSUME NEW i \in port_used'[x]
              PROVE  i \in Ports /\ \E e \in Devs : Holds(e, x, i)'
          <5>1. CASE x = ty /\ i = p
            BY <1>0, <1>p, <2>3, <3>2, <5>1
          <5>2. CASE i \in port_used[x]
            BY <3>2, <4>1, <5>2
          <5> QED BY <3>5, <4>2, <5>1, <5>2
        <4>3. ASSUME NEW i \in Ports, NEW e \in Devs, Holds(e, x, i)'
              PROVE  i \in port_used'[x]
          <5>1. Holds(e, x, i) \/ (x = ty /\ i = p)
            BY <3>2, <4>3
          <5> QED BY <3>5, <4>1, <5>1
        <4> QED BY <4>2, <4>3
      <3> QED BY <3>4, <3>6 DEF UsedExact
    <2> QED BY <2>2, <2>3
  <1>10. OpenCount'
    BY <1>2 DEF OpenCount, OpenFiles
  <1>11. BoundTogether'
    <2> SUFFICES ASSUME NEW e \in Devs, opened'[e] = FdTypes, Nobody(e)', result'[e] # Invalid,
                        NEW x \in Bindable
                 PROVE  bind_port'[e][x] = result'[e]
      BY DEF BoundTogether
    <2>1. CASE e # d
      <3>1. Nobody(e)
        BY <1>1, <2>1 DEF Nobody, OnlyMoves
      <3> QED BY <1>2, <1>3, <1>b, <2>1, <3>1 DEF BoundTogether, Bindable, FdTypes
    <2>2. CASE e = d
      <3>1. p # Invalid /\ ty = "LONG" /\ result'[d] = p
        BY <1>0, <1>1, <2>2 DEF Nobody, TypeOK, HistoryType, Stage
      <3>2. targ[t] \in Ports /\ bind_port[d]["RAW"] = targ[t] /\ p = targ[t]
        BY <1>0, <1>p, <3>1 DEF Stage, Ports
      <3> QED BY <1>0, <1>3, <2>2, <3>1, <3>2 DEF Bindable, FdTypes
    <2> QED BY <2>1, <2>2
  <1> QED BY <1>4, <1>5, <1>6, <1>7, <1>8, <1>9, <1>10, <1>11

-----------------------------------------------------------------------------

\* Every step preserves the invariant.
LEMMA Inductive == Shared = FALSE /\ IInv /\ [Next]_vars => IInv'
  <1> SUFFICES ASSUME Shared = FALSE, IInv, [Next]_vars PROVE IInv'
    OBVIOUS
  <1>1. CASE UNCHANGED vars
    BY <1>1 DEF vars, drvvars, tvars, history, IInv, Control, Safe, TypeOK, DriverType,
      ThreadType, HistoryType, InCall, Alone, Place, OnlyBindable, Stage, Exclusive,
      UsedExact, OpenCount, OpenFiles, BoundTogether, Holds, Resetting, Nobody
  <1>2. CASE Next
    BY <1>2, OpenCallInv, BindCallInv, CloseCallInv, OpenFailsInv, ExitInv, TestInv,
      OpenInv, ClearInv, ResetInv, ReleaseInv, BindInv DEF Next
  <1> QED BY <1>1, <1>2

\* The invariant holds in every reachable state.
LEMMA Invariance ==
  ASSUME Shared = FALSE
  PROVE  Spec => []IInv
  <1>1. IInv /\ [Next]_vars => IInv'
    BY Inductive
  <1> QED BY <1>1, InitInv, PTL DEF Spec

\* Whatever the number of devices, threads and ports: the state is well typed.
THEOREM TypeCorrect ==
  ASSUME Shared = FALSE
  PROVE  Spec => []TypeOK
  <1>1. IInv => TypeOK
    BY DEF IInv
  <1> QED BY <1>1, Invariance, PTL

\* No port is ever bound to two files of one type, for all interleavings of
\* axiom_open, axiom_bind, axiom_close and exits.
THEOREM PortsExclusive ==
  ASSUME Shared = FALSE
  PROVE  Spec => []Exclusive
  <1>1. IInv => Exclusive
    BY DEF IInv, Safe
  <1> QED BY <1>1, Invariance, PTL

\* port_used is at every lock section the set of the ports that are bound: no
\* port leaks.
THEOREM PortTableExact ==
  ASSUME Shared = FALSE
  PROVE  Spec => []UsedExact
  <1>1. IInv => UsedExact
    BY DEF IInv, Safe
  <1> QED BY <1>1, Invariance, PTL

\* used is the number of open files and never exceeds AXIOMNET_MAX_OPEN.
THEOREM OpenFilesCounted ==
  ASSUME Shared = FALSE
  PROVE  Spec => []OpenCount
  <1>1. IInv => OpenCount
    BY DEF IInv, Safe
  <1> QED BY <1>1, Invariance, PTL

\* A port that axiom_bind returned is bound for RAW and for LONG.
THEOREM PairBound ==
  ASSUME Shared = FALSE
  PROVE  Spec => []BoundTogether
  <1>1. IInv => BoundTogether
    BY DEF IInv, Safe
  <1> QED BY <1>1, Invariance, PTL

-----------------------------------------------------------------------------
(* The invariant of Lifecycle: the order of steps and releases *)

\* The place of each step in LoadSteps and in ProbeSteps.
LoadNum == [region |-> 1, cdev |-> 2, cdev_raw |-> 3, cdev_long |-> 4, cdev_rdma |-> 5,
            class |-> 6, driver |-> 7]
LoadNames == {"region", "cdev", "cdev_raw", "cdev_long", "cdev_rdma", "class", "driver"}

ProbeNum ==
  [armdata |-> 1, registers |-> 2, gpio |-> 3, fifo_raw_tx |-> 4, fifo_raw_rx |-> 5,
   fifo_rdma_tx |-> 6, fifo_rdma_rx |-> 7, bram_long |-> 8, bram_routing |-> 9,
   dev_api |-> 10, irq |-> 11, drvdata |-> 12, dev |-> 13, dev_raw |-> 14,
   dev_long |-> 15, dev_rdma |-> 16, chrdev |-> 17, sysfs |-> 18, param |-> 19,
   info |-> 20, sys_raw |-> 21, sys_rdma |-> 22, sys_wtd |-> 23, axsys |-> 24,
   raw_tx |-> 25, rdma_eviq |-> 26, rdma_desc |-> 27, ltx_eviq |-> 28, ltx_desc |-> 29,
   raw_eviq |-> 30, raw_desc |-> 31, lrx_eviq |-> 32, lrx_desc |-> 33,
   kthread_raw |-> 34, kthread_rdma |-> 35, zone |-> 36, mask |-> 37, kthread_wtd |-> 38]
ProbeNames ==
  {"armdata", "registers", "gpio", "fifo_raw_tx", "fifo_raw_rx", "fifo_rdma_tx",
   "fifo_rdma_rx", "bram_long", "bram_routing", "dev_api", "irq", "drvdata", "dev",
   "dev_raw", "dev_long", "dev_rdma", "chrdev", "sysfs", "param", "info", "sys_raw",
   "sys_rdma", "sys_wtd", "axsys", "raw_tx", "rdma_eviq", "rdma_desc", "ltx_eviq",
   "ltx_desc", "raw_eviq", "raw_desc", "lrx_eviq", "lrx_desc", "kthread_raw",
   "kthread_rdma", "zone", "mask", "kthread_wtd"}

\* One order in which every error path and the removal give back: all their lists
\* follow it, and nothing is listed twice.
Rank ==
  [mask |-> 1, zone |-> 2, kthread_wtd |-> 3, kthread_rdma |-> 4, kthread_raw |-> 5,
   lrx_eviq |-> 6, rdma_rx_ring |-> 7, raw_eviq |-> 8, raw_rx_ring |-> 9,
   ltx_eviq |-> 10, rdma_desc |-> 11, rdma_eviq |-> 12, rdma_tx_ring |-> 13,
   sys_wtd |-> 14, sys_rdma |-> 15, sys_raw |-> 16, info |-> 17, param |-> 18,
   root |-> 19, sysfs_uninit |-> 20, dev_long |-> 21, dev_raw |-> 22, dev |-> 23,
   destroy_chrdev |-> 24, irq |-> 25, dev_api |-> 26, armdata |-> 27, devres |-> 28,
   driver |-> 29, class_unregister |-> 30, class_destroy |-> 31, cdev_rdma |-> 32,
   cdev_long |-> 33, cdev_raw |-> 34, cdev |-> 35, region |-> 36]

\* The releases of loading, of the rollback of sysfs, and of the device.
LoadOps == {"driver", "class_unregister", "class_destroy", "cdev_rdma", "cdev_long",
            "cdev_raw", "cdev", "region"}
RollbackOps == Folders \cup {"root"}
DevOps ==
  {"mask", "zone", "kthread_wtd", "kthread_rdma", "kthread_raw", "lrx_eviq",
   "rdma_rx_ring", "raw_eviq", "raw_rx_ring", "ltx_eviq", "rdma_desc", "rdma_eviq",
   "rdma_tx_ring", "sys_wtd", "sys_rdma", "sys_raw", "info", "param", "root",
   "sysfs_uninit", "dev_long", "dev_raw", "dev", "destroy_chrdev", "irq", "dev_api",
   "armdata", "devres"}
Ops == DevOps \cup LoadOps

\* A list of releases follows the order.
Sorted(u) == \A i, j \in DOMAIN u : i < j => Rank[u[i]] < Rank[u[j]]

\* Steps that the probe passes without having the resource.
Optional == Folders \cup {"gpio", "bram_long", "bram_routing", "sysfs", "axsys", "mask"}
\* What a step may leave held.
Gains(s) == CASE s = "zone" -> {"zone", "long_map"}
              [] s = "mask" -> {}
              [] OTHER      -> {s} \cup Prepares(s)

\* The steps that are behind the loading thread.
LoadPassed == {s \in LoadNames : LoadNum[s] < step}
Passed == {s \in ProbeNames : phase \in {"probe", "nosysfs"} => ProbeNum[s] < step}
\* The releases that are still to be done, and what they give back.
ToDo == Range(undo)
Given(U) == UNION {Frees(op) : op \in U}

\* Types of what the loading thread works on.
LoaderShape ==
  /\ phase \in {"out", "load", "loaded", "probe", "bound", "oops", "failload", "unprobe",
                "nosysfs", "remove", "unload"}
  /\ step \in Nat
  /\ phase = "load" => step \in 1 .. 7
  /\ phase = "probe" => step \in 1 .. 38
  /\ phase = "nosysfs" => step \in 19 .. 23
  /\ held \subseteq LoadNames \cup ProbeNames \cup Embedded \cup {"long_map"}
  /\ undo \in Seq(Ops)

\* Types of the rest.
Shape ==
  /\ going \in BOOLEAN /\ mask \in BOOLEAN
  /\ kthread \in [Kthreads -> {"none", "wait", "work"}]
  /\ irq \in {"none", "own", "shared"}
  /\ rx \subseteq Kthreads
  /\ reader \in Folders \cup {"none"}
  /\ files \in [Files -> Minors \cup {"closed", "stale"}]

\* The pending releases are those of the phase, in order; armdata goes after all that
\* uses it, and the device nodes are destroyed one by one or all at once, not both.
Order ==
  /\ Sorted(undo)
  /\ phase \in {"failload", "unload"} => ToDo \subseteq LoadOps
  /\ phase = "nosysfs" => ToDo \subseteq RollbackOps
  /\ phase \in {"unprobe", "remove"} =>
       /\ ToDo \subseteq DevOps
       /\ ToDo \subseteq {"devres"} \/ "armdata" \in ToDo
       /\ "destroy_chrdev" \in ToDo => ToDo \cap Minors = {}

\* Nothing is held that neither the phase explains nor a pending release gives back.
AtMost ==
  /\ phase = "out" => held \subseteq {"region"}
  /\ phase = "load" => held \subseteq {"region"} \cup LoadPassed
  /\ phase \in {"failload", "unload"} => held \subseteq {"region"} \cup Given(ToDo)
  /\ phase = "loaded" => held \subseteq LoadNames
  /\ phase \in {"probe", "nosysfs", "bound"} =>
       held \subseteq LoadNames \cup UNION {Gains(s) : s \in Passed}
  /\ phase \in {"unprobe", "remove"} => held \subseteq LoadNames \cup Given(ToDo)

\* Everything is held that the thread has gone past and that a pending release gives back
\* untested.
AtLeast ==
  /\ phase = "load" => LoadPassed \subseteq held
  /\ phase \in {"loaded", "probe", "nosysfs", "bound", "oops", "unprobe", "remove"} =>
       LoadNames \subseteq held
  /\ phase \in {"probe", "nosysfs", "bound"} =>
       /\ \A s \in Passed \ Optional : {s} \cup Prepares(s) \subseteq held
       /\ "zone" \in held => "bram_long" \in held
  /\ Undoing => \A op \in ToDo \ {"class_destroy"} : Untested(op) \subseteq held

\* In axiom_sysfs_init the folders so far are there; later a folder is only there with
\* the structure its files use, until sysfs_uninit.
Sysfs ==
  /\ phase = "probe" /\ step <= 24 => Passed \cap ({"sysfs"} \cup Folders) \subseteq held
  /\ phase = "nosysfs" => held \cap Folders \subseteq ToDo
  /\ (phase = "probe" /\ step > 24) \/ phase = "bound" => held \cap Folders = {} \/ "axsys" \in held
  /\ phase = "remove" => \A d \in held \cap Folders : SysfsNeeds(d) \subseteq held

\* Whoever runs is known to the thread that gives back, and the interrupts are only on
\* while the handler has what it uses.
Runners ==
  /\ \A k \in Kthreads : kthread[k] # "none" => k \in held
  /\ irq # "none" => "irq" \in held
  /\ "irq" \in held /\ (mask \/ irq = "own" \/ phase \in {"bound", "remove"})
       => HandlerNeeds \subseteq held
  /\ reader # "none" => reader \in held
  /\ held \cap Minors # {} => "armdata" \in held
  /\ \A f \in Files : files[f] \in Minors => "armdata" \in held
  /\ going => phase \in {"remove", "unload"} /\ \A f \in Files : files[f] = "closed"

\* The inductive invariant.
LifeInv == LoaderShape /\ Shape /\ Order /\ AtMost /\ AtLeast /\ Sysfs /\ Runners /\ KthreadSafe

-----------------------------------------------------------------------------
(* The order in which the code acquires *)

\* The m elements of s have the numbers n + 1, n + 2, ...
Numbered(N, S, s, n, m) ==
  s \in Seq(S) /\ Len(s) = m /\ \A i \in 1 .. Len(s) : N[s[i]] = n + i

\* Two parts that are numbered one after the other make a numbered sequence.
LEMMA NumberedConcat ==
  ASSUME NEW N, NEW S, NEW s, NEW t, NEW n \in Nat, NEW m \in Nat, NEW p \in Nat,
         NEW k \in Nat, k = n + m, NEW q \in Nat, q = m + p,
         Numbered(N, S, s, n, m), Numbered(N, S, t, k, p)
  PROVE  Numbered(N, S, s \o t, n, q)
  <1>1. s \o t \in Seq(S) /\ Len(s \o t) = q
    BY DEF Numbered
  <1>2. ASSUME NEW i \in 1 .. q PROVE N[(s \o t)[i]] = n + i
    <2>1. CASE i <= m
      <3>1. (s \o t)[i] = s[i]
        BY <2>1 DEF Numbered
      <3> QED BY <2>1, <3>1 DEF Numbered
    <2>2. CASE i > m
      <3>0. s \in Seq(S) /\ t \in Seq(S) /\ Len(s) = m /\ Len(t) = p
        BY DEF Numbered
      <3>1. i - m \in 1 .. p
        BY <2>2
      <3>3. (s \o t)[i] = t[i - m]
        BY <2>2, <3>0, <1>1
      <3>2. N[t[i - m]] = k + (i - m)
        BY <3>1 DEF Numbered
      <3> QED BY <3>3, <3>2
    <2>3. i <= m \/ i > m
      OBVIOUS
    <2> QED BY <2>1, <2>2, <2>3
  <1> QED BY <1>1, <1>2 DEF Numbered

\* The parts of ProbeSteps.
LEMMA NumbersOf ==
  /\ Numbered(ProbeNum, ProbeNames, <<"armdata">>, 0, 1)
  /\ Numbered(ProbeNum, ProbeNames, axiomnet_axi_init, 1, 8)
  /\ Numbered(ProbeNum, ProbeNames, <<"dev_api", "irq">>, 9, 2)
  /\ Numbered(ProbeNum, ProbeNames, <<"drvdata">>, 11, 1)
  /\ Numbered(ProbeNum, ProbeNames, axiomnet_alloc_chrdev, 12, 5)
  /\ Numbered(ProbeNum, ProbeNames, axiom_sysfs_init, 17, 7)
  /\ Numbered(ProbeNum, ProbeNames, <<"raw_tx">>, 24, 1)
  /\ Numbered(ProbeNum, ProbeNames, axiomnet_rdma_tx_hwring_init, 25, 4)
  /\ Numbered(ProbeNum, ProbeNames, axiomnet_raw_rx_hwring_init, 29, 2)
  /\ Numbered(ProbeNum, ProbeNames, axiomnet_rdma_rx_hwring_init, 31, 2)
  /\ Numbered(ProbeNum, ProbeNames, <<"kthread_raw", "kthread_rdma", "zone", "mask", "kthread_wtd">>, 33, 5)
  <1>1. Numbered(ProbeNum, ProbeNames, <<"armdata">>, 0, 1)
    BY DEF Numbered, ProbeNum, ProbeNames
  <1>2. Numbered(ProbeNum, ProbeNames, axiomnet_axi_init, 1, 8)
    BY DEF Numbered, ProbeNum, ProbeNames, axiomnet_axi_init
  <1>3. Numbered(ProbeNum, ProbeNames, <<"dev_api", "irq">>, 9, 2)
    BY DEF Numbered, ProbeNum, ProbeNames
  <1>4. Numbered(ProbeNum, ProbeNames, <<"drvdata">>, 11, 1)
    BY DEF Numbered, ProbeNum, ProbeNames
  <1>5. Numbered(ProbeNum, ProbeNames, axiomnet_alloc_chrdev, 12, 5)
    BY DEF Numbered, ProbeNum, ProbeNames, axiomnet_alloc_chrdev
  <1>6. Numbered(ProbeNum, ProbeNames, axiom_sysfs_init, 17, 7)
    BY DEF Numbered, ProbeNum, ProbeNames, axiom_sysfs_init
  <1>7. Numbered(ProbeNum, ProbeNames, <<"raw_tx">>, 24, 1)
    BY DEF Numbered, ProbeNum, ProbeNames
  <1>8. Numbered(ProbeNum, ProbeNames, axiomnet_rdma_tx_hwring_init, 25, 4)
    BY DEF Numbered, ProbeNum, ProbeNames, axiomnet_rdma_tx_hwring_init
  <1>9. Numbered(ProbeNum, ProbeNames, axiomnet_raw_rx_hwring_init, 29, 2)
    BY DEF Numbered, ProbeNum, ProbeNames, axiomnet_raw_rx_hwring_init
  <1>10. Numbered(ProbeNum, ProbeNames, axiomnet_rdma_rx_hwring_init, 31, 2)
    BY DEF Numbered, ProbeNum, ProbeNames, axiomnet_rdma_rx_hwring_init
  <1>11. Numbered(ProbeNum, ProbeNames, <<"kthread_raw", "kthread_rdma", "zone", "mask", "kthread_wtd">>, 33, 5)
    BY DEF Numbered, ProbeNum, ProbeNames
  <1> QED BY <1>1, <1>2, <1>3, <1>4, <1>5, <1>6, <1>7, <1>8, <1>9, <1>10, <1>11

\* No two steps have one number.
LEMMA NumInjective ==
  \A s, t \in ProbeNames : ProbeNum[s] = ProbeNum[t] => s = t
  BY DEF ProbeNames, ProbeNum

\* The numbers are 1 to 38.
LEMMA NumRange == \A s \in ProbeNames : ProbeNum[s] \in 1 .. 38
  BY DEF ProbeNames, ProbeNum

\* ProbeSteps is numbered from 1.
LEMMA ProbeStepsNumbered == Numbered(ProbeNum, ProbeNames, ProbeSteps, 0, 38)
  <1> DEFINE a1 == <<"drvdata">> \o axiomnet_alloc_chrdev
             a2 == a1 \o axiom_sysfs_init
             a3 == a2 \o <<"raw_tx">>
             a4 == a3 \o axiomnet_rdma_tx_hwring_init
             a5 == a4 \o axiomnet_raw_rx_hwring_init
             a6 == a5 \o axiomnet_rdma_rx_hwring_init
             a7 == a6 \o <<"kthread_raw", "kthread_rdma", "zone", "mask", "kthread_wtd">>
             b1 == <<"armdata">> \o axiomnet_axi_init
             b2 == b1 \o <<"dev_api", "irq">>
  <1>1. Numbered(ProbeNum, ProbeNames, a1, 11, 6)
    BY NumbersOf, NumberedConcat
  <1> HIDE DEF a1
  <1>2. Numbered(ProbeNum, ProbeNames, a2, 11, 13)
    <2>1. Numbered(ProbeNum, ProbeNames, axiom_sysfs_init, 17, 7)
      BY NumbersOf
    <2> QED BY <1>1, <2>1, NumberedConcat
  <1> HIDE DEF a2
  <1>3. Numbered(ProbeNum, ProbeNames, a3, 11, 14)
    <2>1. Numbered(ProbeNum, ProbeNames, <<"raw_tx">>, 24, 1)
      BY NumbersOf
    <2> QED BY <1>2, <2>1, NumberedConcat
  <1> HIDE DEF a3
  <1>4. Numbered(ProbeNum, ProbeNames, a4, 11, 18)
    <2>1. Numbered(ProbeNum, ProbeNames, axiomnet_rdma_tx_hwring_init, 25, 4)
      BY NumbersOf
    <2> QED BY <1>3, <2>1, NumberedConcat
  <1> HIDE DEF a4
  <1>5. Numbered(ProbeNum, ProbeNames, a5, 11, 20)
    <2>1. Numbered(ProbeNum, ProbeNames, axiomnet_raw_rx_hwring_init, 29, 2)
      BY NumbersOf
    <2> QED BY <1>4, <2>1, NumberedConcat
  <1> HIDE DEF a5
  <1>6. Numbered(ProbeNum, ProbeNames, a6, 11, 22)
    <2>1. Numbered(ProbeNum, ProbeNames, axiomnet_rdma_rx_hwring_init, 31, 2)
      BY NumbersOf
    <2> QED BY <1>5, <2>1, NumberedConcat
  <1> HIDE DEF a6
  <1>7. Numbered(ProbeNum, ProbeNames, a7, 11, 27)
    BY <1>6, NumbersOf, NumberedConcat
  <1> HIDE DEF a7
  <1>8. axiomnet_probe = a7
    BY DEF axiomnet_probe, a1, a2, a3, a4, a5, a6, a7
  <1>9. Numbered(ProbeNum, ProbeNames, b1, 0, 9)
    BY NumbersOf, NumberedConcat
  <1> HIDE DEF b1
  <1>10. Numbered(ProbeNum, ProbeNames, b2, 0, 11)
    <2>1. Numbered(ProbeNum, ProbeNames, <<"dev_api", "irq">>, 9, 2)
      BY NumbersOf
    <2> QED BY <1>9, <2>1, NumberedConcat
  <1> HIDE DEF b2
  <1>11. Numbered(ProbeNum, ProbeNames, b2 \o a7, 0, 38)
    BY <1>7, <1>10, NumberedConcat
  <1>12. ProbeSteps = b2 \o a7
    BY <1>8 DEF ProbeSteps, b1, b2
  <1> QED BY <1>11, <1>12

\* The number of a step of probing is its index.
LEMMA ProbeNumbered ==
  /\ Len(ProbeSteps) = 38
  /\ \A i \in 1 .. 38 : ProbeSteps[i] \in ProbeNames /\ ProbeNum[ProbeSteps[i]] = i
  <1>1. Len(ProbeSteps) = 38 /\ ProbeSteps \in Seq(ProbeNames)
    BY ProbeStepsNumbered DEF Numbered
  <1>2. ASSUME NEW i \in 1 .. 38 PROVE ProbeNum[ProbeSteps[i]] = i
    <2>1. ProbeNum[ProbeSteps[i]] = 0 + i
      BY ProbeStepsNumbered DEF Numbered
    <2> QED BY <2>1
  <1>3. ASSUME NEW i \in 1 .. 38 PROVE ProbeSteps[i] \in ProbeNames
    BY <1>1, ElementOfSeq
  <1> QED BY <1>1, <1>2, <1>3

\* LoadSteps is numbered from 1.
LEMMA LoadStepsNumbered == Numbered(LoadNum, LoadNames, LoadSteps, 0, 7)
  <1>1. Numbered(LoadNum, LoadNames, axiomnet_init_chrdev, 0, 6)
    BY DEF Numbered, LoadNum, LoadNames, axiomnet_init_chrdev
  <1>2. Numbered(LoadNum, LoadNames, <<"driver">>, 6, 1)
    BY DEF Numbered, LoadNum, LoadNames
  <1> QED BY <1>1, <1>2, NumberedConcat DEF LoadSteps

\* The number of a step of loading is its index.
LEMMA LoadNumbered ==
  /\ Len(LoadSteps) = 7
  /\ \A i \in 1 .. 7 : LoadSteps[i] \in LoadNames /\ LoadNum[LoadSteps[i]] = i
  <1>1. Len(LoadSteps) = 7 /\ LoadSteps \in Seq(LoadNames)
    BY LoadStepsNumbered DEF Numbered
  <1>2. ASSUME NEW i \in 1 .. 7 PROVE LoadNum[LoadSteps[i]] = i
    <2>1. LoadNum[LoadSteps[i]] = 0 + i
      BY LoadStepsNumbered DEF Numbered
    <2> QED BY <2>1
  <1>3. ASSUME NEW i \in 1 .. 7 PROVE LoadSteps[i] \in LoadNames
    BY <1>1, ElementOfSeq
  <1> QED BY <1>1, <1>2, <1>3

\* No two steps of loading have one number, and the numbers are 1 to 7.
LEMMA LoadInjective ==
  /\ \A s, t \in LoadNames : LoadNum[s] = LoadNum[t] => s = t
  /\ \A s \in LoadNames : LoadNum[s] \in 1 .. 7
  BY DEF LoadNames, LoadNum

\* The steps of probing are these names.
LEMMA ProbeRange == Range(ProbeSteps) = ProbeNames
  <1>1. ASSUME NEW s \in ProbeNames PROVE s \in Range(ProbeSteps)
    <2>1. ProbeNum[s] \in DOMAIN ProbeSteps /\ ProbeSteps[ProbeNum[s]] = s
      BY NumRange, NumInjective, ProbeNumbered
    <2> QED BY <2>1 DEF Range
  <1> QED BY <1>1, ProbeNumbered DEF Range

\* The steps of loading are these names.
LEMMA LoadRange == Range(LoadSteps) = LoadNames
  <1>1. ASSUME NEW s \in LoadNames PROVE s \in Range(LoadSteps)
    <2>1. LoadNum[s] \in DOMAIN LoadSteps /\ LoadSteps[LoadNum[s]] = s
      BY LoadInjective, LoadNumbered
    <2> QED BY <2>1 DEF Range
  <1> QED BY <1>1, LoadNumbered DEF Range

\* Where the probe goes on when axiom_sysfs_init has given up.
LEMMA RawTxPos == Pos(ProbeSteps, "raw_tx") = 25
  <1>1. "raw_tx" \in ProbeNames /\ ProbeNum["raw_tx"] = 25
    BY DEF ProbeNames, ProbeNum
  <1>2. 25 \in DOMAIN ProbeSteps /\ ProbeSteps[25] = "raw_tx"
    BY <1>1, NumInjective, ProbeNumbered
  <1>3. \A i \in DOMAIN ProbeSteps : ProbeSteps[i] = "raw_tx" => i = 25
    BY <1>1, ProbeNumbered
  <1> QED BY <1>2, <1>3 DEF Pos

-----------------------------------------------------------------------------
(* Lists of releases in order *)

\* Ranks are numbers.
LEMMA RankNat == \A op \in Ops : Rank[op] \in Nat
  BY DEF Ops, DevOps, LoadOps, Rank

\* What a list of releases is as a function.
LEMMA SeqFacts ==
  ASSUME NEW u \in Seq(Ops)
  PROVE  /\ Len(u) \in Nat /\ DOMAIN u = 1 .. Len(u)
         /\ \A i \in DOMAIN u : u[i] \in Ops /\ Rank[u[i]] \in Nat
         /\ Range(u) \subseteq Ops
  <1>1. Len(u) \in Nat /\ DOMAIN u = 1 .. Len(u)
    BY LenProperties
  <1>2. \A i \in DOMAIN u : u[i] \in Ops
    BY <1>1, ElementOfSeq
  <1> QED BY <1>1, <1>2, RankNat DEF Range

\* The head of a sorted list comes before all the others, and only its tail is left.
LEMMA SortedTail ==
  ASSUME NEW u \in Seq(Ops), u # <<>>, Sorted(u)
  PROVE  /\ Head(u) \in Range(u)
         /\ Tail(u) \in Seq(Ops) /\ Sorted(Tail(u))
         /\ Range(Tail(u)) = Range(u) \ {Head(u)}
         /\ \A op \in Range(u) : op = Head(u) \/ Rank[Head(u)] < Rank[op]
  <1>1. /\ Len(u) \in Nat \ {0} /\ DOMAIN u = 1 .. Len(u)
        /\ \A i \in 1 .. Len(u) : u[i] \in Ops /\ Rank[u[i]] \in Nat
    BY EmptySeq, SeqFacts
  <1>2. /\ Tail(u) \in Seq(Ops) /\ Len(Tail(u)) = Len(u) - 1
        /\ \A i \in 1 .. Len(Tail(u)) : Tail(u)[i] = u[i + 1]
    BY HeadTailProperties
  <1>3. Head(u) = u[1] /\ 1 \in DOMAIN u
    BY <1>1
  <1>4. DOMAIN Tail(u) = 1 .. Len(u) - 1
    BY <1>2, LenProperties
  <1>5. Sorted(Tail(u))
    <2> SUFFICES ASSUME NEW i \in 1 .. Len(u) - 1, NEW j \in 1 .. Len(u) - 1, i < j
                 PROVE  Rank[Tail(u)[i]] < Rank[Tail(u)[j]]
      BY <1>4 DEF Sorted
    <2>1. i + 1 \in DOMAIN u /\ j + 1 \in DOMAIN u /\ i + 1 < j + 1
      BY <1>1
    <2>2. Rank[u[i + 1]] < Rank[u[j + 1]]
      BY <2>1 DEF Sorted
    <2> QED BY <1>2, <2>2
  <1>6. \A i \in DOMAIN u : i = 1 \/ Rank[u[1]] < Rank[u[i]]
    BY <1>1, <1>3 DEF Sorted
  <1>7. \A i \in DOMAIN u : i = 1 \/ u[i] # u[1]
    BY <1>1, <1>3, <1>6
  <1>8. ASSUME NEW op \in Range(u), op # Head(u) PROVE op \in Range(Tail(u))
    <2>1. PICK i \in DOMAIN u : u[i] = op
      BY DEF Range
    <2>2. i - 1 \in 1 .. Len(u) - 1 /\ (i - 1) + 1 = i
      BY <1>1, <1>3, <1>8, <2>1
    <2>3. Tail(u)[i - 1] = op
      BY <1>2, <2>1, <2>2
    <2> QED BY <1>4, <2>2, <2>3 DEF Range
  <1>9. ASSUME NEW op \in Range(Tail(u)) PROVE op \in Range(u) /\ op # Head(u)
    <2>1. PICK i \in 1 .. Len(u) - 1 : Tail(u)[i] = op
      BY <1>4 DEF Range
    <2>2. i + 1 \in DOMAIN u /\ i + 1 # 1 /\ op = u[i + 1]
      BY <1>1, <1>2, <2>1
    <2> QED BY <1>3, <1>7, <2>2 DEF Range
  <1>10. \A op \in Range(u) : op = Head(u) \/ Rank[Head(u)] < Rank[op]
    BY <1>3, <1>6 DEF Range
  <1>11. Head(u) \in Range(u)
    BY <1>3 DEF Range
  <1> QED BY <1>2, <1>5, <1>8, <1>9, <1>10, <1>11

\* Sorted lists, one below the other, make a sorted list.
LEMMA SortedConcat ==
  ASSUME NEW s \in Seq(Ops), NEW t \in Seq(Ops), Sorted(s), Sorted(t),
         \A a \in Range(s), b \in Range(t) : Rank[a] < Rank[b]
  PROVE  s \o t \in Seq(Ops) /\ Sorted(s \o t) /\ Range(s \o t) = Range(s) \cup Range(t)
  <1> DEFINE u == s \o t
  <1>1. /\ u \in Seq(Ops) /\ Len(u) = Len(s) + Len(t)
        /\ \A i \in 1 .. Len(s) + Len(t) : u[i] = IF i <= Len(s) THEN s[i] ELSE t[i - Len(s)]
    BY ConcatProperties
  <1>2. /\ Len(s) \in Nat /\ DOMAIN s = 1 .. Len(s)
        /\ Len(t) \in Nat /\ DOMAIN t = 1 .. Len(t)
    BY SeqFacts
  <1>3. DOMAIN u = 1 .. Len(s) + Len(t)
    BY <1>1, SeqFacts
  <1> HIDE DEF u
  <1>4. ASSUME NEW i \in DOMAIN u, NEW j \in DOMAIN u, i < j PROVE Rank[u[i]] < Rank[u[j]]
    <2>1. CASE j <= Len(s)
      <3>1. i \in DOMAIN s /\ j \in DOMAIN s /\ u[i] = s[i] /\ u[j] = s[j]
        BY <1>1, <1>2, <1>3, <1>4, <2>1
      <3> QED BY <1>4, <3>1 DEF Sorted
    <2>2. CASE i > Len(s)
      <3>1. /\ i - Len(s) \in DOMAIN t /\ j - Len(s) \in DOMAIN t /\ i - Len(s) < j - Len(s)
            /\ u[i] = t[i - Len(s)] /\ u[j] = t[j - Len(s)]
        BY <1>1, <1>2, <1>3, <1>4, <2>2
      <3> QED BY <3>1 DEF Sorted
    <2>3. CASE i <= Len(s) /\ j > Len(s)
      <3>1. /\ i \in DOMAIN s /\ j - Len(s) \in DOMAIN t
            /\ u[i] = s[i] /\ u[j] = t[j - Len(s)]
        BY <1>1, <1>2, <1>3, <1>4, <2>3
      <3> QED BY <3>1 DEF Range
    <2>4. j <= Len(s) \/ i > Len(s) \/ (i <= Len(s) /\ j > Len(s))
      BY <1>2, <1>3
    <2> QED BY <2>1, <2>2, <2>3, <2>4
  <1>5. Range(u) = Range(s) \cup Range(t)
    BY RangeConcatenation DEF u
  <1>6. Sorted(u)
    BY <1>4 DEF Sorted
  <1> QED BY <1>1, <1>5, <1>6 DEF u

\* The end of a sorted list is sorted.
LEMMA SortedSub ==
  ASSUME NEW s \in Seq(Ops), Sorted(s), NEW n \in 1 .. Len(s) + 1
  PROVE  /\ SubSeq(s, n, Len(s)) \in Seq(Ops) /\ Sorted(SubSeq(s, n, Len(s)))
         /\ Range(SubSeq(s, n, Len(s))) = {s[i] : i \in n .. Len(s)}
  <1> DEFINE u == SubSeq(s, n, Len(s))
  <1>1. Len(s) \in Nat /\ DOMAIN s = 1 .. Len(s) /\ \A i \in n .. Len(s) : s[i] \in Ops
    BY SeqFacts
  <1>2. /\ u \in Seq(Ops) /\ Len(u) = IF n <= Len(s) THEN Len(s) - n + 1 ELSE 0
        /\ \A i \in 1 .. Len(s) - n + 1 : u[i] = s[n + i - 1]
    BY <1>1, SubSeqProperties
  <1>3. DOMAIN u = 1 .. Len(s) - n + 1
    BY <1>1, <1>2, SeqFacts
  <1> HIDE DEF u
  <1>4. Sorted(u)
    <2> SUFFICES ASSUME NEW i \in DOMAIN u, NEW j \in DOMAIN u, i < j
                 PROVE  Rank[u[i]] < Rank[u[j]]
      BY DEF Sorted
    <2>1. n + i - 1 \in DOMAIN s /\ n + j - 1 \in DOMAIN s /\ n + i - 1 < n + j - 1
      BY <1>1, <1>3
    <2>2. u[i] = s[n + i - 1] /\ u[j] = s[n + j - 1]
      BY <1>2, <1>3
    <2> QED BY <2>1, <2>2 DEF Sorted
  <1>5. ASSUME NEW i \in n .. Len(s) PROVE s[i] \in Range(u)
    <2>1. i - n + 1 \in DOMAIN u /\ n + (i - n + 1) - 1 = i
      BY <1>1, <1>3
    <2>2. u[i - n + 1] = s[i]
      BY <1>2, <1>3, <2>1
    <2> QED BY <2>1, <2>2 DEF Range
  <1>6. ASSUME NEW x \in Range(u) PROVE x \in {s[i] : i \in n .. Len(s)}
    <2>1. PICK i \in 1 .. Len(s) - n + 1 : u[i] = x
      BY <1>3 DEF Range
    <2>2. n + i - 1 \in n .. Len(s) /\ x = s[n + i - 1]
      BY <1>1, <1>2, <2>1
    <2> QED BY <2>2
  <1> QED BY <1>2, <1>4, <1>5, <1>6 DEF u

\* A goto into a sorted list of labels does what ranks at or after the label.
LEMMA SortedFrom ==
  ASSUME NEW s \in Seq(Ops), Sorted(s), NEW op \in Range(s)
  PROVE  /\ From(s, op) \in Seq(Ops) /\ Sorted(From(s, op))
         /\ Range(From(s, op)) = {x \in Range(s) : Rank[op] <= Rank[x]}
         /\ After(s, op) \in Seq(Ops) /\ Sorted(After(s, op))
         /\ Range(After(s, op)) = {x \in Range(s) : Rank[op] < Rank[x]}
  <1> DEFINE p == Pos(s, op)
  <1>1. Len(s) \in Nat /\ DOMAIN s = 1 .. Len(s) /\ \A i \in DOMAIN s : Rank[s[i]] \in Nat
    BY SeqFacts
  <1>2. p \in DOMAIN s /\ s[p] = op
    BY DEF Range, Pos
  <1>3. p \in 1 .. Len(s) + 1 /\ p + 1 \in 1 .. Len(s) + 1
    BY <1>1, <1>2
  <1>4. From(s, op) = SubSeq(s, p, Len(s)) /\ After(s, op) = SubSeq(s, p + 1, Len(s))
    BY DEF From, After
  <1> HIDE DEF p
  <1>5. \A i \in DOMAIN s : /\ i \in p .. Len(s) <=> Rank[op] <= Rank[s[i]]
                            /\ i \in p + 1 .. Len(s) <=> Rank[op] < Rank[s[i]]
    <2> TAKE i \in DOMAIN s
    <2>1. CASE i < p
      <3>1. Rank[s[i]] < Rank[op]
        BY <1>2, <2>1 DEF Sorted
      <3> QED BY <1>1, <1>2, <2>1, <3>1
    <2>2. CASE i = p
      BY <1>1, <1>2, <2>2
    <2>3. CASE i > p
      <3>1. Rank[op] < Rank[s[i]]
        BY <1>1, <1>2, <2>3 DEF Sorted
      <3> QED BY <1>1, <1>2, <2>3, <3>1
    <2>4. i < p \/ i = p \/ i > p
      BY <1>1, <1>2
    <2> QED BY <2>1, <2>2, <2>3, <2>4
  <1>6. /\ {s[i] : i \in p .. Len(s)} = {x \in Range(s) : Rank[op] <= Rank[x]}
    <2>1. \A i \in p .. Len(s) : i \in DOMAIN s
      BY <1>1, <1>2
    <2> QED BY <1>5, <2>1 DEF Range
  <1>7. /\ {s[i] : i \in p + 1 .. Len(s)} = {x \in Range(s) : Rank[op] < Rank[x]}
    <2>1. \A i \in p + 1 .. Len(s) : i \in DOMAIN s
      BY <1>1, <1>2
    <2> QED BY <1>5, <2>1 DEF Range
  <1>8. /\ From(s, op) \in Seq(Ops) /\ Sorted(From(s, op))
        /\ Range(From(s, op)) = {s[i] : i \in p .. Len(s)}
    BY <1>3, <1>4, SortedSub
  <1>9. /\ After(s, op) \in Seq(Ops) /\ Sorted(After(s, op))
        /\ Range(After(s, op)) = {s[i] : i \in p + 1 .. Len(s)}
    BY <1>3, <1>4, SortedSub
  <1> QED BY <1>6, <1>7, <1>8, <1>9

-----------------------------------------------------------------------------
(* The error paths and the removal as sets of releases *)

\* The labels of axiomnet_arm_probe and of axiomnet_probe.
ArmSet == {"irq", "dev_api", "armdata", "devres"}
LabelSet == {"mask", "zone", "kthread_rdma", "kthread_raw", "rdma_rx_ring", "raw_rx_ring",
             "rdma_tx_ring", "sysfs_uninit", "destroy_chrdev"}

\* The list u is in order and does the releases S.
Follows(u, S) == u \in Seq(Ops) /\ Sorted(u) /\ Range(u) = S

\* The lists of the code are in order.
LEMMA Lists ==
  /\ Follows(arm_probe_labels, ArmSet)
  /\ Follows(probe_labels, LabelSet)
  /\ Follows(axiomnet_remove, LabelSet \cup {"kthread_wtd"})
  /\ Follows(axiom_sysfs_rollback, RollbackOps)
  /\ Follows(axiomnet_cleanup_chrdev, LoadOps \ {"driver"})
  <1>1. Follows(arm_probe_labels, ArmSet)
    <2>1. arm_probe_labels \in Seq(Ops)
      BY DEF arm_probe_labels, Ops, DevOps
    <2>2. Sorted(arm_probe_labels)
      BY DEF arm_probe_labels, Sorted, Rank
    <2>3. Range(arm_probe_labels) = ArmSet
      BY DEF arm_probe_labels, Range, ArmSet
    <2> QED BY <2>1, <2>2, <2>3 DEF Follows
  <1>2. Follows(probe_labels, LabelSet)
    <2>1. probe_labels \in Seq(Ops)
      BY DEF probe_labels, Ops, DevOps
    <2>2. Sorted(probe_labels)
      BY DEF probe_labels, Sorted, Rank
    <2>3. Range(probe_labels) = LabelSet
      BY DEF probe_labels, Range, LabelSet
    <2> QED BY <2>1, <2>2, <2>3 DEF Follows
  <1>3. Follows(axiomnet_remove, LabelSet \cup {"kthread_wtd"})
    <2>1. axiomnet_remove \in Seq(Ops)
      BY DEF axiomnet_remove, Ops, DevOps
    <2>2. Sorted(axiomnet_remove)
      BY DEF axiomnet_remove, Sorted, Rank
    <2>3. Range(axiomnet_remove) = LabelSet \cup {"kthread_wtd"}
      BY DEF axiomnet_remove, Range, LabelSet
    <2> QED BY <2>1, <2>2, <2>3 DEF Follows
  <1>4. Follows(axiom_sysfs_rollback, RollbackOps)
    <2>1. axiom_sysfs_rollback \in Seq(Ops)
      BY DEF axiom_sysfs_rollback, Ops, DevOps
    <2>2. Sorted(axiom_sysfs_rollback)
      BY DEF axiom_sysfs_rollback, Sorted, Rank
    <2>3. Range(axiom_sysfs_rollback) = RollbackOps
      BY DEF axiom_sysfs_rollback, Range, RollbackOps, Folders
    <2> QED BY <2>1, <2>2, <2>3 DEF Follows
  <1>5. Follows(axiomnet_cleanup_chrdev, LoadOps \ {"driver"})
    <2>1. axiomnet_cleanup_chrdev \in Seq(Ops)
      BY DEF axiomnet_cleanup_chrdev, Ops, LoadOps
    <2>2. Sorted(axiomnet_cleanup_chrdev)
      BY DEF axiomnet_cleanup_chrdev, Sorted, Rank
    <2>3. Range(axiomnet_cleanup_chrdev) = LoadOps \ {"driver"}
      BY DEF axiomnet_cleanup_chrdev, Range, LoadOps
    <2> QED BY <2>1, <2>2, <2>3 DEF Follows
  <1> QED BY <1>1, <1>2, <1>3, <1>4, <1>5

\* What the init functions of the mappings and of the rings take.
AxiSet == {"registers", "gpio", "fifo_raw_tx", "fifo_raw_rx", "fifo_rdma_tx",
           "fifo_rdma_rx", "bram_long", "bram_routing"}
RdmaTxSet == {"rdma_eviq", "rdma_desc", "ltx_eviq", "ltx_desc"}
RawRxSet == {"raw_eviq", "raw_desc"}
RdmaRxSet == {"lrx_eviq", "lrx_desc"}

\* These are their elements.
LEMMA Ranges ==
  /\ Range(axiomnet_axi_init) = AxiSet
  /\ Range(axiomnet_rdma_tx_hwring_init) = RdmaTxSet
  /\ Range(axiomnet_raw_rx_hwring_init) = RawRxSet
  /\ Range(axiomnet_rdma_rx_hwring_init) = RdmaRxSet
  <1>1. Range(axiomnet_axi_init) = AxiSet
    BY DEF Range, axiomnet_axi_init, AxiSet
  <1>2. Range(axiomnet_rdma_tx_hwring_init) = RdmaTxSet
    BY DEF Range, axiomnet_rdma_tx_hwring_init, RdmaTxSet
  <1>3. Range(axiomnet_raw_rx_hwring_init) = RawRxSet
    BY DEF Range, axiomnet_raw_rx_hwring_init, RawRxSet
  <1>4. Range(axiomnet_rdma_rx_hwring_init) = RdmaRxSet
    BY DEF Range, axiomnet_rdma_rx_hwring_init, RdmaRxSet
  <1> QED BY <1>1, <1>2, <1>3, <1>4

\* Releases of one resource.
SingleOps == {"kthread_wtd", "kthread_rdma", "kthread_raw", "lrx_eviq", "raw_eviq",
              "ltx_eviq", "rdma_desc", "rdma_eviq", "sys_wtd", "sys_rdma", "sys_raw",
              "info", "param", "dev_long", "dev_raw", "dev", "irq", "dev_api",
              "driver", "cdev_rdma", "cdev_long", "cdev_raw", "cdev"}

\* What each release gives back.
LEMMA FreesIs ==
  /\ Frees("armdata") = {"armdata"} \cup Embedded
  /\ Frees("devres") = AxiSet
  /\ Frees("rdma_tx_ring") = RdmaTxSet
  /\ Frees("raw_rx_ring") = RawRxSet
  /\ Frees("rdma_rx_ring") = RdmaRxSet
  /\ Frees("sysfs_uninit") = {"sysfs"} \cup Folders
  /\ Frees("root") = {"sysfs"}
  /\ Frees("destroy_chrdev") = Minors \cup {"chrdev"}
  /\ Frees("zone") = {"zone", "long_map"}
  /\ Frees("class_unregister") = {"class"} /\ Frees("class_destroy") = {"class"}
  /\ Frees("region") = {} /\ Frees("mask") = {}
  /\ \A op \in SingleOps : Frees(op) = {op}
  BY Ranges DEF Frees, SingleOps

\* What each release gives back untested.
LEMMA UntestedIs ==
  /\ \A op \in {"devres", "rdma_tx_ring", "raw_rx_ring", "rdma_rx_ring", "sysfs_uninit",
                "mask", "region"} \cup Kthreads : Untested(op) = {}
  /\ Untested("armdata") = {"armdata"}
  /\ Untested("zone") = {"zone"}
  /\ Untested("root") = {"sysfs"}
  /\ Untested("destroy_chrdev") = Minors \cup {"chrdev"}
  /\ Untested("class_unregister") = {"class"}
  /\ \A op \in SingleOps \ Kthreads : Untested(op) = {op}
  BY FreesIs DEF Untested, SingleOps, Kthreads

\* The release that gives back, in the end, what a step takes.
Owner(s) ==
  CASE s \in AxiSet                  -> "devres"
    [] s \in Minors \cup {"chrdev"}  -> "destroy_chrdev"
    [] s \in Folders \cup {"sysfs"}  -> "sysfs_uninit"
    [] s \in RdmaTxSet               -> "rdma_tx_ring"
    [] s \in RawRxSet                -> "raw_rx_ring"
    [] s \in RdmaRxSet               -> "rdma_rx_ring"
    [] s \in Kthreads \cup {"zone", "irq", "dev_api"} -> s
    [] OTHER                         -> "armdata"

\* What a step prepares lies in armdata.
LEMMA PreparesEmbedded == \A s : Prepares(s) \subseteq Embedded
  BY DEF Prepares, Embedded

\* The owner and the kfree of armdata give back all of it.
LEMMA OwnerFrees ==
  ASSUME NEW s \in ProbeNames
  PROVE  Gains(s) \subseteq Frees("armdata") \cup Frees(Owner(s))
  <1>1. Prepares(s) \subseteq Frees("armdata")
    BY PreparesEmbedded, FreesIs
  <1>2. s \in Frees("armdata") \cup Frees(Owner(s)) \/ s = "mask"
    BY FreesIs DEF ProbeNames, Owner, AxiSet, RdmaTxSet, RawRxSet, RdmaRxSet, Minors, Folders,
       Kthreads,
       SingleOps, Embedded
  <1>3. s = "zone" => "long_map" \in Frees(Owner(s))
    BY FreesIs DEF Owner, AxiSet, RdmaTxSet, RawRxSet, RdmaRxSet, Minors, Folders, Kthreads
  <1> QED BY <1>1, <1>2, <1>3 DEF Gains

\* The steps of probing whose failure ends the probe.
MayEnd == {"armdata", "registers", "fifo_raw_tx", "fifo_raw_rx", "fifo_rdma_tx",
           "fifo_rdma_rx", "irq", "sysfs", "zone"}
          \cup Minors \cup Folders \cup RdmaTxSet \cup RawRxSet \cup RdmaRxSet \cup Kthreads

\* The releases inside the function that fails.
InnerOps(s) ==
  CASE s = "dev_raw"   -> {"dev"}
    [] s = "dev_long"  -> {"dev_raw", "dev"}
    [] s = "dev_rdma"  -> {"dev_long", "dev_raw", "dev"}
    [] s \in Folders   -> {op \in RollbackOps : Rank[s] <= Rank[op]}
    [] s = "rdma_desc" -> {"rdma_eviq"}
    [] s = "ltx_eviq"  -> {"rdma_desc", "rdma_eviq"}
    [] s = "ltx_desc"  -> {"ltx_eviq", "rdma_desc", "rdma_eviq"}
    [] s = "raw_desc"  -> {"raw_eviq"}
    [] s = "lrx_desc"  -> {"lrx_eviq"}
    [] OTHER           -> {}

\* InnerError does them, in order.
LEMMA InnerList ==
  ASSUME NEW s \in MayEnd
  PROVE  Follows(InnerError(s), InnerOps(s))
  <1>1. CASE s \in Folders
    <2>1. s \in Range(axiom_sysfs_rollback)
      BY <1>1, Lists DEF Follows, RollbackOps
    <2>2. InnerError(s) = From(axiom_sysfs_rollback, s)
      BY <1>1 DEF InnerError, Folders
    <2>3. InnerOps(s) = {op \in RollbackOps : Rank[s] <= Rank[op]}
      BY <1>1 DEF InnerOps, Folders
    <2> QED BY <2>1, <2>2, <2>3, Lists, SortedFrom DEF Follows
  <1>2. CASE s = "dev_raw"
    BY <1>2 DEF InnerError, InnerOps, Folders, Follows, Ops, DevOps, Sorted, Rank, Range
  <1>3. CASE s = "dev_long"
    BY <1>3 DEF InnerError, InnerOps, Folders, Follows, Ops, DevOps, Sorted, Rank, Range
  <1>4. CASE s = "dev_rdma"
    BY <1>4 DEF InnerError, InnerOps, Folders, Follows, Ops, DevOps, Sorted, Rank, Range
  <1>5. CASE s = "rdma_desc"
    BY <1>5 DEF InnerError, InnerOps, Folders, Follows, Ops, DevOps, Sorted, Rank, Range
  <1>6. CASE s = "ltx_eviq"
    BY <1>6 DEF InnerError, InnerOps, Folders, Follows, Ops, DevOps, Sorted, Rank, Range
  <1>7. CASE s = "ltx_desc"
    BY <1>7 DEF InnerError, InnerOps, Folders, Follows, Ops, DevOps, Sorted, Rank, Range
  <1>8. CASE s = "raw_desc"
    BY <1>8 DEF InnerError, InnerOps, Folders, Follows, Ops, DevOps, Sorted, Rank, Range
  <1>9. CASE s = "lrx_desc"
    BY <1>9 DEF InnerError, InnerOps, Folders, Follows, Ops, DevOps, Sorted, Rank, Range
  <1>10. CASE s \notin Folders \cup {"dev_raw", "dev_long", "dev_rdma", "rdma_desc",
                                     "ltx_eviq", "ltx_desc", "raw_desc", "lrx_desc"}
    <2>1. InnerError(s) = <<>> /\ InnerOps(s) = {}
      BY <1>10 DEF InnerError, InnerOps
    <2>2. <<>> \in Seq(Ops) /\ Len(<<>>) = 0
      BY EmptySeq
    <2>3. Sorted(<<>>) /\ Range(<<>>) = {}
      BY DEF Sorted, Range
    <2> QED BY <2>1, <2>2, <2>3 DEF Follows
  <1> QED BY <1>1, <1>2, <1>3, <1>4, <1>5, <1>6, <1>7, <1>8, <1>9, <1>10

\* The releases of axiomnet_probe when step s fails.
LabelOps(s) ==
  CASE s \in {"sysfs"} \cup Folders -> {"destroy_chrdev"}
    [] s \in RdmaTxSet -> {"sysfs_uninit", "destroy_chrdev"}
    [] s \in RawRxSet  -> {"rdma_tx_ring", "sysfs_uninit", "destroy_chrdev"}
    [] s \in RdmaRxSet -> {"raw_rx_ring", "rdma_tx_ring", "sysfs_uninit", "destroy_chrdev"}
    [] s = "kthread_raw" ->
         {"rdma_rx_ring", "raw_rx_ring", "rdma_tx_ring", "sysfs_uninit", "destroy_chrdev"}
    [] s = "kthread_rdma" -> LabelSet \ {"mask", "zone", "kthread_rdma"}
    [] s = "zone" -> LabelSet \ {"mask", "zone"}
    [] s = "kthread_wtd" -> LabelSet
    [] OTHER -> {}

\* The steps of axiomnet_probe after the device nodes.
Late == {"sysfs", "zone"} \cup Folders \cup RdmaTxSet \cup RawRxSet \cup RdmaRxSet \cup Kthreads

\* The goto of axiomnet_probe does them, in order.
LEMMA LabelList ==
  ASSUME NEW s \in Late
  PROVE  Follows(From(probe_labels, ProbeLabel(s)), LabelOps(s))
  <1>1. ProbeLabel(s) \in LabelSet /\ LabelOps(s) = {op \in LabelSet : Rank[ProbeLabel(s)] <= Rank[op]}
    <2>1. CASE s \in {"sysfs"} \cup Folders
      BY <2>1, Ranges DEF ProbeLabel, LabelOps, LabelSet, Rank, Folders, RdmaTxSet, RawRxSet,
         RdmaRxSet
    <2>2. CASE s \in RdmaTxSet
      BY <2>2, Ranges DEF ProbeLabel, LabelOps, LabelSet, Rank, RdmaTxSet, Folders
    <2>3. CASE s \in RawRxSet
      BY <2>3, Ranges DEF ProbeLabel, LabelOps, LabelSet, Rank, RdmaTxSet, RawRxSet, Folders
    <2>4. CASE s \in RdmaRxSet
      BY <2>4, Ranges DEF ProbeLabel, LabelOps, LabelSet, Rank, RdmaTxSet, RawRxSet, RdmaRxSet,
         Folders
    <2>5. CASE s = "kthread_raw"
      BY <2>5, Ranges DEF ProbeLabel, LabelOps, LabelSet, Rank, RdmaTxSet, RawRxSet, RdmaRxSet,
         Folders
    <2>6. CASE s = "kthread_rdma"
      BY <2>6, Ranges DEF ProbeLabel, LabelOps, LabelSet, Rank, RdmaTxSet, RawRxSet, RdmaRxSet,
         Folders
    <2>7. CASE s = "zone"
      BY <2>7, Ranges DEF ProbeLabel, LabelOps, LabelSet, Rank, RdmaTxSet, RawRxSet, RdmaRxSet,
         Folders
    <2>8. CASE s = "kthread_wtd"
      BY <2>8, Ranges DEF ProbeLabel, LabelOps, LabelSet, Rank, RdmaTxSet, RawRxSet, RdmaRxSet,
         Folders
    <2> QED BY <2>1, <2>2, <2>3, <2>4, <2>5, <2>6, <2>7, <2>8 DEF Late, Kthreads
  <1>2. probe_labels \in Seq(Ops) /\ Sorted(probe_labels) /\ Range(probe_labels) = LabelSet
    BY Lists DEF Follows
  <1> QED BY <1>1, <1>2, SortedFrom DEF Follows

\* The releases when step s fails.
ErrorOps(s) ==
  CASE s = "armdata"  -> {}
    [] s \in AxiSet   -> {"armdata", "devres"}
    [] s = "irq"      -> {"dev_api", "armdata", "devres"}
    [] OTHER          -> InnerOps(s) \cup LabelOps(s) \cup ArmSet

\* ProbeError does them, in order.
LEMMA ErrorList ==
  ASSUME NEW s \in MayEnd
  PROVE  Follows(ProbeError(s), ErrorOps(s))
  <1>a. Follows(arm_probe_labels, ArmSet)
    BY Lists
  <1>1. CASE s = "armdata"
    <2>1. ProbeError(s) = <<>> /\ ErrorOps(s) = {}
      BY <1>1, Ranges DEF ProbeError, ErrorOps, AxiSet, Minors
    <2>2. <<>> \in Seq(Ops)
      BY EmptySeq
    <2>3. Sorted(<<>>) /\ Range(<<>>) = {}
      BY DEF Sorted, Range
    <2> QED BY <2>1, <2>2, <2>3 DEF Follows
  <1>2. CASE s \in AxiSet
    <2>1. ProbeError(s) = From(arm_probe_labels, "armdata") /\ ErrorOps(s) = {"armdata", "devres"}
      BY <1>2, Ranges DEF ProbeError, ErrorOps, AxiSet, Minors
    <2>2. {op \in ArmSet : Rank["armdata"] <= Rank[op]} = {"armdata", "devres"} /\ "armdata" \in ArmSet
      BY DEF ArmSet, Rank
    <2> QED BY <1>a, <2>1, <2>2, SortedFrom DEF Follows
  <1>3. CASE s = "irq"
    <2>1. /\ ProbeError(s) = From(arm_probe_labels, "dev_api")
          /\ ErrorOps(s) = {"dev_api", "armdata", "devres"}
      BY <1>3, Ranges DEF ProbeError, ErrorOps, AxiSet, Minors
    <2>2. /\ {op \in ArmSet : Rank["dev_api"] <= Rank[op]} = {"dev_api", "armdata", "devres"}
          /\ "dev_api" \in ArmSet
      BY DEF ArmSet, Rank
    <2> QED BY <1>a, <2>1, <2>2, SortedFrom DEF Follows
  <1>4. CASE s \in Minors
    <2>1. ProbeError(s) = InnerError(s) \o arm_probe_labels
      BY <1>4, Ranges DEF ProbeError, AxiSet, Minors
    <2>2. ErrorOps(s) = InnerOps(s) \cup ArmSet
      BY <1>4 DEF ErrorOps, AxiSet, Minors, LabelOps, Folders, RdmaTxSet, RawRxSet, RdmaRxSet
    <2>3. \A a \in InnerOps(s), b \in ArmSet : Rank[a] < Rank[b]
      BY <1>4 DEF Minors, InnerOps, ArmSet, Rank, Folders
    <2> QED BY <1>a, <2>1, <2>2, <2>3, InnerList, SortedConcat DEF Follows
  <1>5. CASE s \in Late
    <2>1. ProbeError(s) = InnerError(s) \o From(probe_labels, ProbeLabel(s)) \o arm_probe_labels
      BY <1>5, Ranges DEF ProbeError, AxiSet, Minors, Late, Folders, RdmaTxSet, RawRxSet,
         RdmaRxSet,
         Kthreads
    <2>2. ErrorOps(s) = (InnerOps(s) \cup LabelOps(s)) \cup ArmSet
      BY <1>5 DEF ErrorOps, AxiSet, Late, Folders, RdmaTxSet, RawRxSet, RdmaRxSet, Kthreads
    <2>3. \A a \in InnerOps(s), b \in LabelOps(s) : Rank[a] < Rank[b]
      BY <1>5 DEF Late, InnerOps, LabelOps, LabelSet, Rank, Folders, RollbackOps,
         RdmaTxSet, RawRxSet, RdmaRxSet, Kthreads
    <2>4. \A a \in InnerOps(s) \cup LabelOps(s), b \in ArmSet : Rank[a] < Rank[b]
      BY <1>5 DEF Late, InnerOps, LabelOps, LabelSet, ArmSet, Rank, Folders, RollbackOps,
         RdmaTxSet, RawRxSet, RdmaRxSet, Kthreads
    <2>5. Follows(InnerError(s) \o From(probe_labels, ProbeLabel(s)), InnerOps(s) \cup LabelOps(s))
      BY <1>5, <2>3, InnerList, LabelList, SortedConcat DEF Follows
    <2> QED BY <1>a, <2>1, <2>2, <2>4, <2>5, SortedConcat DEF Follows
  <1> QED BY <1>1, <1>2, <1>3, <1>4, <1>5 DEF MayEnd, Late, AxiSet

\* They end with armdata, and destroy the nodes in one way only.
LEMMA ErrorShape ==
  ASSUME NEW s \in MayEnd
  PROVE  /\ ErrorOps(s) \subseteq DevOps
         /\ ErrorOps(s) = {} \/ "armdata" \in ErrorOps(s)
         /\ s # "armdata" => "armdata" \in ErrorOps(s)
         /\ "destroy_chrdev" \in ErrorOps(s) => ErrorOps(s) \cap Minors = {}
         /\ s \in Folders => s \in ErrorOps(s)
  <1>1. InnerOps(s) \subseteq DevOps
    BY DEF InnerOps, DevOps, RollbackOps, Folders
  <1>2. LabelOps(s) \subseteq LabelSet /\ LabelSet \subseteq DevOps /\ ArmSet \subseteq DevOps
    BY DEF LabelOps, LabelSet, DevOps, ArmSet
  <1>3. ErrorOps(s) \subseteq DevOps
    BY <1>1, <1>2 DEF ErrorOps, DevOps
  <1>4. ErrorOps(s) = {} \/ "armdata" \in ErrorOps(s)
    BY DEF ErrorOps, ArmSet
  <1>5. s # "armdata" => "armdata" \in ErrorOps(s)
    BY DEF ErrorOps, ArmSet
  <1>6. "destroy_chrdev" \in ErrorOps(s) => ErrorOps(s) \cap Minors = {}
    BY DEF ErrorOps, ArmSet, AxiSet, MayEnd, InnerOps, LabelOps, LabelSet, Minors, Folders,
       RollbackOps,
       RdmaTxSet, RawRxSet, RdmaRxSet
  <1>7. s \in Folders => s \in ErrorOps(s)
    <2> SUFFICES ASSUME s \in Folders PROVE s \in ErrorOps(s)
      OBVIOUS
    <2>1. s \in InnerOps(s)
      BY DEF InnerOps, Folders, RollbackOps, Rank
    <2> QED BY <2>1 DEF ErrorOps, Folders, AxiSet
  <1> QED BY <1>3, <1>4, <1>5, <1>6, <1>7

\* A step before the one that fails has its owner, or its own release, among them.
LEMMA OwnerListed ==
  ASSUME NEW s \in MayEnd, NEW x \in ProbeNames, ProbeNum[x] < ProbeNum[s]
  PROVE  \/ x = "mask" \/ x \in ErrorOps(s) \/ Owner(x) \in ErrorOps(s)
         \/ x = "sysfs" /\ "root" \in ErrorOps(s)
  <1>1. CASE s = "armdata"
    BY <1>1, NumRange DEF ProbeNum
  <1>2. CASE s \in AxiSet
    BY <1>2 DEF AxiSet, ProbeNum, ProbeNames, ErrorOps, Owner, Minors, Folders, RdmaTxSet,
       RawRxSet, RdmaRxSet, Kthreads
  <1>3. CASE s = "irq"
    BY <1>3 DEF AxiSet, ProbeNum, ProbeNames, ErrorOps, Owner, Minors, Folders, RdmaTxSet,
       RawRxSet, RdmaRxSet, Kthreads
  <1>4. CASE s \in Minors
    BY <1>4 DEF AxiSet, ProbeNum, ProbeNames, ErrorOps, Owner, Minors, InnerOps, LabelOps, ArmSet,
       Folders, RdmaTxSet, RawRxSet, RdmaRxSet, Kthreads
  <1>5. CASE s = "sysfs"
    BY <1>5 DEF AxiSet, ProbeNum, ProbeNames, ErrorOps, Owner, Minors, InnerOps, LabelOps, ArmSet,
       Folders, RdmaTxSet, RawRxSet, RdmaRxSet, Kthreads
  <1>6. CASE s \in Folders
    BY <1>6 DEF AxiSet, ProbeNum, ProbeNames, ErrorOps, Owner, Minors, InnerOps, LabelOps, ArmSet,
       Folders, RdmaTxSet, RawRxSet, RdmaRxSet, Kthreads, RollbackOps, Rank
  <1>7. CASE s \in RdmaTxSet
    BY <1>7 DEF AxiSet, ProbeNum, ProbeNames, ErrorOps, Owner, Minors, InnerOps, LabelOps, ArmSet,
       Folders, RdmaTxSet, RawRxSet, RdmaRxSet, Kthreads
  <1>8. CASE s \in RawRxSet
    BY <1>8 DEF AxiSet, ProbeNum, ProbeNames, ErrorOps, Owner, Minors, InnerOps, LabelOps, ArmSet,
       Folders, RdmaTxSet, RawRxSet, RdmaRxSet, Kthreads
  <1>9. CASE s \in RdmaRxSet
    BY <1>9 DEF AxiSet, ProbeNum, ProbeNames, ErrorOps, Owner, Minors, InnerOps, LabelOps, ArmSet,
       Folders, RdmaTxSet, RawRxSet, RdmaRxSet, Kthreads
  <1>10. CASE s \in Kthreads \cup {"zone"}
    BY <1>10 DEF AxiSet, ProbeNum, ProbeNames, ErrorOps, Owner, Minors, InnerOps, LabelOps,
       LabelSet,
       ArmSet, Folders, RdmaTxSet, RawRxSet, RdmaRxSet, Kthreads
  <1> QED BY <1>1, <1>2, <1>3, <1>4, <1>5, <1>6, <1>7, <1>8, <1>9, <1>10 DEF MayEnd, AxiSet

\* What they give back untested was taken before, and was not optional.
LEMMA UntestedTaken ==
  ASSUME NEW s \in MayEnd, NEW op \in ErrorOps(s), NEW y \in Untested(op)
  PROVE  /\ y \in ProbeNames
         /\ \/ y \notin Optional /\ ProbeNum[y] < ProbeNum[s]
            \/ s \in Folders /\ y \in Folders \cup {"sysfs"} /\ ProbeNum[y] <= ProbeNum[s]
  <1> USE DEF Optional
  <1>1. CASE s = "armdata"
    BY <1>1 DEF ErrorOps, AxiSet
  <1>2. CASE s \in AxiSet
    BY <1>2, UntestedIs DEF MayEnd, AxiSet, ProbeNum, ProbeNames, ErrorOps, Folders
  <1>3. CASE s = "irq"
    BY <1>3, UntestedIs DEF AxiSet, ProbeNum, ProbeNames, ErrorOps, SingleOps, Folders, Kthreads
  <1>4. CASE s \in Minors
    BY <1>4, UntestedIs DEF AxiSet, ProbeNum, ProbeNames, ErrorOps, Minors, InnerOps, LabelOps,
       ArmSet,
       Folders, RdmaTxSet, RawRxSet, RdmaRxSet, Kthreads, SingleOps
  <1>5. CASE s = "sysfs"
    BY <1>5, UntestedIs DEF AxiSet, ProbeNum, ProbeNames, ErrorOps, Minors, InnerOps, LabelOps,
       ArmSet,
       Folders, RdmaTxSet, RawRxSet, RdmaRxSet, Kthreads, SingleOps
  <1>6. CASE s \in Folders
    BY <1>6, UntestedIs DEF AxiSet, ProbeNum, ProbeNames, ErrorOps, Minors, InnerOps, LabelOps,
       ArmSet,
       Folders, RdmaTxSet, RawRxSet, RdmaRxSet, Kthreads, RollbackOps, Rank, SingleOps
  <1>7. CASE s \in RdmaTxSet
    BY <1>7, UntestedIs DEF AxiSet, ProbeNum, ProbeNames, ErrorOps, Minors, InnerOps, LabelOps,
       ArmSet,
       Folders, RdmaTxSet, RawRxSet, RdmaRxSet, Kthreads, SingleOps
  <1>8. CASE s \in RawRxSet
    BY <1>8, UntestedIs DEF AxiSet, ProbeNum, ProbeNames, ErrorOps, Minors, InnerOps, LabelOps,
       ArmSet,
       Folders, RdmaTxSet, RawRxSet, RdmaRxSet, Kthreads, SingleOps
  <1>9. CASE s \in RdmaRxSet
    BY <1>9, UntestedIs DEF AxiSet, ProbeNum, ProbeNames, ErrorOps, Minors, InnerOps, LabelOps,
       ArmSet,
       Folders, RdmaTxSet, RawRxSet, RdmaRxSet, Kthreads, SingleOps
  <1>10. CASE s \in Kthreads \cup {"zone"}
    BY <1>10, UntestedIs DEF AxiSet, ProbeNum, ProbeNames, ErrorOps, Minors, InnerOps, LabelOps,
       LabelSet,
       ArmSet, Folders, RdmaTxSet, RawRxSet, RdmaRxSet, Kthreads, SingleOps
  <1> QED BY <1>1, <1>2, <1>3, <1>4, <1>5, <1>6, <1>7, <1>8, <1>9, <1>10 DEF MayEnd, AxiSet

\* They give back all that the steps before the one that fails may have left.
LEMMA ErrorCovers ==
  ASSUME NEW s \in MayEnd, NEW x \in ProbeNames, ProbeNum[x] < ProbeNum[s]
  PROVE  Gains(x) \subseteq Given(ErrorOps(s))
  <1>1. s # "armdata"
    BY NumRange DEF ProbeNum
  <1>2. Frees("armdata") \subseteq Given(ErrorOps(s))
    BY <1>1, ErrorShape DEF Given
  <1>3. Gains(x) \subseteq Frees("armdata") \cup Frees(Owner(x))
    BY OwnerFrees
  <1>4. CASE x = "mask"
    BY <1>4 DEF Gains
  <1>5. CASE x \in ErrorOps(s)
    <2>1. x \in DevOps
      BY <1>5, ErrorShape
    <2>2. Gains(x) \subseteq Frees("armdata") \cup Frees(x)
      <3>1. Prepares(x) \subseteq Frees("armdata")
        BY PreparesEmbedded, FreesIs
      <3>2. x = "mask" \/ x \in Frees(x)
        BY <2>1, FreesIs DEF DevOps, ProbeNames, SingleOps
      <3>3. x = "zone" => Frees(x) = {"zone", "long_map"}
        BY FreesIs
      <3> QED BY <3>1, <3>2, <3>3 DEF Gains
    <2> QED BY <1>2, <1>5, <2>2 DEF Given
  <1>6. CASE Owner(x) \in ErrorOps(s)
    BY <1>2, <1>3, <1>6 DEF Given
  <1>7. CASE x = "sysfs" /\ "root" \in ErrorOps(s)
    <2>1. Gains(x) = {"sysfs"}
      BY <1>7 DEF Gains, Prepares
    <2> QED BY <1>7, <2>1, FreesIs DEF Given
  <1> QED BY <1>4, <1>5, <1>6, <1>7, OwnerListed

\* The releases of the removal.
RemoveOps == LabelSet \cup {"kthread_wtd"} \cup ArmSet

\* axiomnet_arm_remove does them, in order.
LEMMA RemoveList == Follows(axiomnet_arm_remove, RemoveOps)
  <1>1. axiomnet_arm_remove = axiomnet_remove \o arm_probe_labels
    BY DEF axiomnet_arm_remove, arm_probe_labels
  <1>2. \A a \in LabelSet \cup {"kthread_wtd"}, b \in ArmSet : Rank[a] < Rank[b]
    BY DEF LabelSet, ArmSet, Rank
  <1> QED BY <1>1, <1>2, Lists, SortedConcat DEF Follows, RemoveOps

\* axiomnet_arm_cleanup does the releases of loading, in order.
LEMMA CleanupList == Follows(axiomnet_arm_cleanup, LoadOps)
  <1>1. Follows(<<"driver">>, {"driver"})
    BY DEF Follows, Ops, LoadOps, Sorted, Range
  <1>2. \A a \in {"driver"}, b \in LoadOps \ {"driver"} : Rank[a] < Rank[b]
    BY DEF LoadOps, Rank
  <1>3. {"driver"} \cup (LoadOps \ {"driver"}) = LoadOps
    BY DEF LoadOps
  <1> QED BY <1>1, <1>2, <1>3, Lists, SortedConcat DEF Follows, axiomnet_arm_cleanup

\* The releases when a step of loading fails.
LoadErrorOps(s) ==
  CASE s = "region"    -> {}
    [] s = "cdev"      -> {"region"}
    [] s = "cdev_raw"  -> {"cdev", "region"}
    [] s = "cdev_long" -> {"cdev_raw", "cdev", "region"}
    [] s = "cdev_rdma" -> {"cdev_long", "cdev_raw", "cdev", "region"}
    [] s = "class"     -> {"cdev_rdma", "cdev_long", "cdev_raw", "cdev", "region"}
    [] s = "driver"    -> LoadOps \ {"driver"}

\* LoadError does them, in order.
LEMMA LoadErrorList ==
  ASSUME NEW s \in LoadNames
  PROVE  Follows(LoadError(s), LoadErrorOps(s))
  <1>a. Follows(axiomnet_cleanup_chrdev, LoadOps \ {"driver"})
    BY Lists
  <1>1. CASE s = "region"
    <2>1. LoadError(s) = <<>> /\ LoadErrorOps(s) = {}
      BY <1>1 DEF LoadError, LoadErrorOps
    <2>2. <<>> \in Seq(Ops)
      BY EmptySeq
    <2>3. Sorted(<<>>) /\ Range(<<>>) = {}
      BY DEF Sorted, Range
    <2> QED BY <2>1, <2>2, <2>3 DEF Follows
  <1>2. CASE s = "cdev"
    BY <1>2 DEF LoadError, LoadErrorOps, Follows, Ops, LoadOps, Sorted, Range
  <1>3. CASE s = "driver"
    <2>1. LoadError(s) = axiomnet_cleanup_chrdev /\ LoadErrorOps(s) = LoadOps \ {"driver"}
      BY <1>3 DEF LoadError, LoadErrorOps
    <2> QED BY <1>a, <2>1
  <1>4. CASE s \in {"cdev_raw", "cdev_long", "cdev_rdma", "class"}
    <2> DEFINE Is(op) == /\ LoadError(s) = From(axiomnet_cleanup_chrdev, op)
                         /\ LoadErrorOps(s) = {x \in LoadOps \ {"driver"} : Rank[op] <= Rank[x]}
    <2>3. s = "cdev_raw" => Is("cdev")
      BY DEF LoadError, LoadErrorOps, LoadOps, Rank
    <2>4. s = "cdev_long" => Is("cdev_raw")
      BY DEF LoadError, LoadErrorOps, LoadOps, Rank
    <2>5. s = "cdev_rdma" => Is("cdev_long")
      BY DEF LoadError, LoadErrorOps, LoadOps, Rank
    <2>6. s = "class" => Is("cdev_rdma")
      BY DEF LoadError, LoadErrorOps, LoadOps, Rank
    <2>1. PICK op \in {"cdev", "cdev_raw", "cdev_long", "cdev_rdma"} : Is(op)
      BY <1>4, <2>3, <2>4, <2>5, <2>6
    <2>2. op \in LoadOps \ {"driver"}
      BY DEF LoadOps
    <2> QED BY <1>a, <2>1, <2>2, SortedFrom DEF Follows
  <1> QED BY <1>1, <1>2, <1>3, <1>4 DEF LoadNames

\* No release of the device gives back what loading took, and the rollback of sysfs
\* gives back only sysfs.
LEMMA FreesLoad ==
  /\ \A op \in DevOps : Frees(op) \cap LoadNames = {}
  /\ \A op \in RollbackOps : Frees(op) \subseteq {"sysfs"} \cup Folders
  <1>1. ASSUME NEW op \in DevOps PROVE Frees(op) \cap LoadNames = {}
    BY FreesIs DEF DevOps, SingleOps, LoadNames, AxiSet, RdmaTxSet, RawRxSet, RdmaRxSet, Minors,
       Folders,
       Embedded
  <1>2. ASSUME NEW op \in RollbackOps PROVE Frees(op) \subseteq {"sysfs"} \cup Folders
    BY FreesIs DEF RollbackOps, Folders, SingleOps
  <1> QED BY <1>1, <1>2

\* The kthreads, the handler, armdata, the folders and the nodes have their own releases.
LEMMA FreedBy ==
  ASSUME NEW op \in DevOps, NEW y \in Frees(op)
  PROVE  /\ y \in Kthreads \cup {"irq", "armdata"} => op = y
         /\ y \in Folders => op \in {y, "sysfs_uninit"}
         /\ y \in Minors => op \in {y, "destroy_chrdev"}
  BY FreesIs DEF DevOps, SingleOps, AxiSet, RdmaTxSet, RawRxSet, RdmaRxSet, Minors, Folders,
     Embedded, Kthreads

\* A release that takes away what the handler, a sysfs file or a kthread uses comes after
\* the one that ends it.
LEMMA FreesLate ==
  ASSUME NEW op \in DevOps, NEW y \in Frees(op)
  PROVE  /\ y \in HandlerNeeds => Rank["irq"] < Rank[op]
         /\ \A d \in Folders : y \in SysfsNeeds(d) => Rank["sysfs_uninit"] < Rank[op]
         /\ \A k \in Kthreads : y \in WorkerNeeds(k) => Rank[k] < Rank[op]
  <1>1. y \in HandlerNeeds => Rank["irq"] < Rank[op]
    BY FreesIs DEF DevOps, SingleOps, AxiSet, RdmaTxSet, RawRxSet, RdmaRxSet, Minors, Folders,
       Embedded, HandlerNeeds, Rank
  <1>2. ASSUME NEW d \in Folders, y \in SysfsNeeds(d) PROVE Rank["sysfs_uninit"] < Rank[op]
    BY <1>2, FreesIs DEF DevOps, SingleOps, AxiSet, RdmaTxSet, RawRxSet, RdmaRxSet, Minors,
       Folders,
       Embedded, SysfsNeeds, Rank
  <1>3. ASSUME NEW k \in Kthreads, y \in WorkerNeeds(k) PROVE Rank[k] < Rank[op]
    BY <1>3, FreesIs DEF DevOps, SingleOps, AxiSet, RdmaTxSet, RawRxSet, RdmaRxSet, Minors,
       Folders,
       Embedded, WorkerNeeds, Rank, Kthreads
  <1> QED BY <1>1, <1>2, <1>3

\* A release does not give back what a later one gives back untested.
LEMMA NotTwice ==
  ASSUME NEW a \in DevOps, NEW b \in DevOps, Rank[a] < Rank[b],
         ~(b = "destroy_chrdev" /\ a \in Minors)
  PROVE  Frees(a) \cap Untested(b) = {}
  <1>1. CASE b \in SingleOps \ Kthreads
    BY <1>1, FreesIs, UntestedIs DEF DevOps, SingleOps, AxiSet, RdmaTxSet, RawRxSet, RdmaRxSet,
       Minors,
       Folders, Embedded, Kthreads, Rank
  <1>2. CASE b = "destroy_chrdev"
    BY <1>2, FreesIs, UntestedIs DEF DevOps, SingleOps, AxiSet, RdmaTxSet, RawRxSet, RdmaRxSet,
       Minors,
       Folders, Embedded, Rank
  <1>3. CASE b \in {"armdata", "zone", "root"}
    BY <1>3, FreesIs, UntestedIs DEF DevOps, SingleOps, AxiSet, RdmaTxSet, RawRxSet, RdmaRxSet,
       Minors,
       Folders, Embedded, Rank
  <1>4. CASE Untested(b) = {}
    BY <1>4
  <1> QED BY <1>1, <1>2, <1>3, <1>4, UntestedIs DEF DevOps, SingleOps, Kthreads

\* The same for loading, but for class_destroy.
LEMMA LoadNotTwice ==
  ASSUME NEW a \in LoadOps, NEW b \in LoadOps, Rank[a] < Rank[b], b # "class_destroy"
  PROVE  Frees(a) \cap Untested(b) = {}
  BY FreesIs, UntestedIs DEF LoadOps, SingleOps, Rank, Kthreads

-----------------------------------------------------------------------------
(* Everybody else keeps the invariant *)

\* The part of the invariant that is about the loading thread alone.
LoaderInv == LoaderShape /\ Order /\ AtMost /\ AtLeast /\ Sysfs

\* Steps of the others leave it alone.
LEMMA LoaderSame == LoaderInv /\ UNCHANGED loader => LoaderInv'
  <1> SUFFICES ASSUME LoaderInv, UNCHANGED loader PROVE LoaderInv'
    OBVIOUS
  <1> USE DEF LoaderInv, loader
  <1>1. LoaderShape'
    BY DEF LoaderShape
  <1>2. Order'
    BY DEF Order, ToDo, Sorted
  <1>3. AtMost'
    BY DEF AtMost, ToDo, LoadPassed, Passed
  <1>4. AtLeast'
    BY DEF AtLeast, ToDo, LoadPassed, Passed, Undoing
  <1>5. Sysfs'
    BY DEF Sysfs, ToDo, Passed
  <1> QED BY <1>1, <1>2, <1>3, <1>4, <1>5

\* The initial state satisfies the invariant.
LEMMA LifeStarts == LifeInit => LifeInv
  <1> SUFFICES ASSUME LifeInit PROVE LifeInv
    OBVIOUS
  <1>1. LoaderShape /\ Shape
    BY EmptySeq DEF LifeInit, LoaderShape, Shape, Kthreads, Minors
  <1>2. Order /\ AtMost /\ AtLeast /\ Sysfs
    <2>1. Sorted(<<>>)
      BY DEF Sorted
    <2> QED BY <2>1 DEF LifeInit, Order, AtMost, AtLeast, Sysfs, Undoing
  <1>3. Runners /\ KthreadSafe
    BY DEF LifeInit, Runners, KthreadSafe, Minors
  <1> QED BY <1>1, <1>2, <1>3 DEF LifeInv

\* A message arrives.
LEMMA NetworkInv == LifeInv /\ Network => LifeInv'
  <1> SUFFICES ASSUME LifeInv, Network PROVE LifeInv'
    OBVIOUS
  <1>1. UNCHANGED <<loader, kthread, irq, reader, files>> /\ rx' \subseteq Kthreads
    BY DEF Network, Arrive, LifeInv, Shape, Kthreads
  <1>2. LoaderInv'
    BY <1>1, LoaderSame DEF LifeInv, LoaderInv
  <1>3. Shape'
    BY <1>1 DEF LifeInv, Shape, loader
  <1>4. Runners' /\ KthreadSafe'
    BY <1>1 DEF LifeInv, Runners, KthreadSafe, loader
  <1> QED BY <1>2, <1>3, <1>4 DEF LifeInv, LoaderInv

\* The handler comes and goes.
LEMMA IrqInv == LifeInv /\ (IrqEnter \/ IrqReturn) => LifeInv'
  <1> SUFFICES ASSUME LifeInv, IrqEnter \/ IrqReturn PROVE LifeInv'
    OBVIOUS
  <1>1. UNCHANGED <<loader, kthread, rx, reader, files>> /\ irq' \in {"none", "own", "shared"}
    BY DEF IrqEnter, IrqReturn
  <1>2. LoaderInv'
    BY <1>1, LoaderSame DEF LifeInv, LoaderInv
  <1>3. Shape'
    BY <1>1 DEF LifeInv, Shape, loader
  <1>4. irq' # "none" => "irq" \in held
    BY DEF IrqEnter, IrqReturn
  <1>5. irq' = "own" => mask
    BY DEF IrqEnter, IrqReturn
  <1>6. Runners' /\ KthreadSafe'
    BY <1>1, <1>4, <1>5 DEF LifeInv, Runners, KthreadSafe, loader
  <1> QED BY <1>2, <1>3, <1>6 DEF LifeInv, LoaderInv

\* A kthread wakes, works or exits.
LEMMA KthreadInv ==
  LifeInv /\ (\E k \in Kthreads : axkt_wake(k) \/ axkt_work(k) \/ axkt_exit(k)) => LifeInv'
  <1> SUFFICES ASSUME LifeInv, NEW k \in Kthreads, axkt_wake(k) \/ axkt_work(k) \/ axkt_exit(k)
               PROVE LifeInv'
    OBVIOUS
  <1>1. UNCHANGED <<loader, irq, reader, files>> /\ rx' \subseteq rx
    BY DEF axkt_wake, axkt_work, axkt_exit
  <1>2. /\ kthread' \in [Kthreads -> {"none", "wait", "work"}]
        /\ \A h \in Kthreads : kthread'[h] # "none" => kthread[h] # "none"
    BY DEF axkt_wake, axkt_work, axkt_exit, LifeInv, Shape
  <1>3. LoaderInv'
    BY <1>1, LoaderSame DEF LifeInv, LoaderInv
  <1>4. Shape'
    BY <1>1, <1>2 DEF LifeInv, Shape, loader
  <1>5. Runners' /\ KthreadSafe'
    BY <1>1, <1>2 DEF LifeInv, Runners, KthreadSafe, loader
  <1> QED BY <1>3, <1>4, <1>5 DEF LifeInv, LoaderInv

\* A sysfs call comes and goes.
LEMMA SysfsInv == LifeInv /\ ((\E d \in Folders : SysfsEnter(d)) \/ SysfsReturn) => LifeInv'
  <1> SUFFICES ASSUME LifeInv, (\E d \in Folders : SysfsEnter(d)) \/ SysfsReturn PROVE LifeInv'
    OBVIOUS
  <1>1. /\ UNCHANGED <<loader, kthread, irq, rx, files>>
        /\ reader' \in Folders \cup {"none"} /\ (reader' # "none" => reader' \in held)
    BY DEF SysfsEnter, SysfsReturn
  <1>2. LoaderInv'
    BY <1>1, LoaderSame DEF LifeInv, LoaderInv
  <1>3. Shape'
    BY <1>1 DEF LifeInv, Shape, loader
  <1>4. Runners' /\ KthreadSafe'
    BY <1>1 DEF LifeInv, Runners, KthreadSafe, loader
  <1> QED BY <1>2, <1>3, <1>4 DEF LifeInv, LoaderInv

\* A file is opened or closed.
LEMMA FileInv ==
  LifeInv /\ ((\E f \in Files, d \in Minors : Open(f, d)) \/ (\E f \in Files : Close(f))) => LifeInv'
  <1> SUFFICES ASSUME LifeInv, NEW f \in Files, (\E d \in Minors : Open(f, d)) \/ Close(f)
               PROVE LifeInv'
    OBVIOUS
  <1>1. /\ UNCHANGED <<loader, kthread, irq, rx, reader>>
        /\ files' \in [Files -> Minors \cup {"closed", "stale"}]
    BY DEF Open, Close, LifeInv, Shape
  <1>2. \A g \in Files : \/ files'[g] = files[g] \/ files'[g] = "closed"
                         \/ ~going /\ held \cap Minors # {}
    BY DEF Open, Close, LifeInv, Shape
  <1>3. LoaderInv'
    BY <1>1, LoaderSame DEF LifeInv, LoaderInv
  <1>4. Shape'
    BY <1>1 DEF LifeInv, Shape, loader
  <1>5. \A g \in Files : files'[g] \in Minors => "armdata" \in held
    BY <1>2 DEF LifeInv, Runners, Minors
  <1>6. going => \A g \in Files : files'[g] = "closed"
    BY <1>2 DEF LifeInv, Runners
  <1>7. Runners' /\ KthreadSafe'
    BY <1>1, <1>5, <1>6 DEF LifeInv, Runners, KthreadSafe, loader
  <1> QED BY <1>3, <1>4, <1>7 DEF LifeInv, LoaderInv

-----------------------------------------------------------------------------
(* The loading thread probes *)

\* What a step leaves held for certain, and what all steps below n do.
Sure(s) == {s} \cup Prepares(s)
Made(n) == UNION {Sure(x) : x \in {s \in ProbeNames \ Optional : ProbeNum[s] < n}}

\* The handler, the kthreads, sysfs and the files use what earlier steps make.
LEMMA NeedsMade ==
  /\ HandlerNeeds \subseteq Made(37)
  /\ \A k \in Kthreads : WorkerNeeds(k) \subseteq Made(ProbeNum[k] + 1)
  /\ \A d \in Folders : SysfsNeeds(d) \ {"axsys"} \subseteq Made(39)
  /\ \A d \in Minors : UserNeeds(d) \ (Unchecked \cup {"bram_long"}) \subseteq Made(39)
  <1>1. ASSUME NEW y, NEW n \in Nat, y \in ProbeNames \ Optional, ProbeNum[y] < n PROVE y \in Made(n)
    BY <1>1 DEF Made, Sure
  <1>2. ASSUME NEW n \in Nat
        PROVE  /\ n > 26 => "rdma_port" \in Made(n)
               /\ n > 28 => "long_port" \in Made(n)
               /\ n > 30 => "raw_ports" \in Made(n)
               /\ n > 32 => "long_ports" \in Made(n)
               /\ n > 34 => "wq_raw" \in Made(n)
               /\ n > 35 => "wq_rdma" \in Made(n)
               /\ n > 38 => "wq_wtd" \in Made(n)
    <2>1. ASSUME NEW s \in ProbeNames \ Optional, ProbeNum[s] < n PROVE Prepares(s) \subseteq Made(n)
      BY <2>1 DEF Made, Sure
    <2>2. {"rdma_eviq", "ltx_eviq", "raw_eviq", "lrx_eviq", "kthread_raw", "kthread_rdma", "kthread_wtd"}
            \subseteq ProbeNames \ Optional
      BY DEF ProbeNames, Optional, Folders
    <2>3. /\ ProbeNum["rdma_eviq"] = 26 /\ ProbeNum["ltx_eviq"] = 28 /\ ProbeNum["raw_eviq"] = 30
          /\ ProbeNum["lrx_eviq"] = 32 /\ ProbeNum["kthread_raw"] = 34
          /\ ProbeNum["kthread_rdma"] = 35 /\ ProbeNum["kthread_wtd"] = 38
      BY DEF ProbeNum
    <2>4. /\ Prepares("rdma_eviq") = {"rdma_port"} /\ Prepares("ltx_eviq") = {"long_port"}
          /\ Prepares("raw_eviq") = {"raw_ports"} /\ Prepares("lrx_eviq") = {"long_ports"}
          /\ Prepares("kthread_raw") = {"wq_raw"} /\ Prepares("kthread_rdma") = {"wq_rdma"}
          /\ Prepares("kthread_wtd") = {"wq_wtd"}
      BY DEF Prepares
    <2> QED BY <2>1, <2>2, <2>3, <2>4
  <1>3. HandlerNeeds \subseteq Made(37)
    BY <1>1, <1>2 DEF HandlerNeeds, ProbeNames, Optional, Folders, ProbeNum
  <1>4. ASSUME NEW k \in Kthreads PROVE WorkerNeeds(k) \subseteq Made(ProbeNum[k] + 1)
    <2>1. CASE k = "kthread_raw"
      <3>1. ProbeNum[k] + 1 = 35
        BY <2>1 DEF ProbeNum
      <3> QED BY <1>1, <1>2, <2>1, <3>1 DEF WorkerNeeds, ProbeNames, Optional, Folders, ProbeNum
    <2>2. CASE k = "kthread_rdma"
      <3>1. ProbeNum[k] + 1 = 36
        BY <2>2 DEF ProbeNum
      <3> QED BY <1>1, <1>2, <2>2, <3>1 DEF WorkerNeeds, ProbeNames, Optional, Folders, ProbeNum
    <2>3. CASE k = "kthread_wtd"
      <3>1. ProbeNum[k] + 1 = 39
        BY <2>3 DEF ProbeNum
      <3> QED BY <1>1, <1>2, <2>3, <3>1 DEF WorkerNeeds, ProbeNames, Optional, Folders, ProbeNum
    <2> QED BY <2>1, <2>2, <2>3 DEF Kthreads
  <1>5. ASSUME NEW d \in Folders PROVE SysfsNeeds(d) \ {"axsys"} \subseteq Made(39)
    BY <1>1, <1>2 DEF SysfsNeeds, ProbeNames, Optional, Folders, ProbeNum
  <1>6. ASSUME NEW d \in Minors PROVE UserNeeds(d) \ (Unchecked \cup {"bram_long"}) \subseteq Made(39)
    BY <1>1, <1>2 DEF UserNeeds, Unchecked, ProbeNames, Optional, Folders, ProbeNum, Minors
  <1> QED BY <1>3, <1>4, <1>5, <1>6

\* It is there once the probe has gone past.
LEMMA MadeHeld ==
  ASSUME LifeInv
  PROVE  /\ phase \in {"probe", "nosysfs"} => Made(step) \subseteq held
         /\ phase = "bound" => Made(39) \subseteq held
  BY NumRange DEF LifeInv, AtLeast, Made, Sure, Passed

\* The step of the probing thread has its number, and is not behind it.
LEMMA StepName ==
  ASSUME LifeInv, phase = "probe"
  PROVE  /\ ProbeSteps[step] \in ProbeNames /\ ProbeNum[ProbeSteps[step]] = step
         /\ ProbeSteps[step] \notin Passed
         /\ Passed = {x \in ProbeNames : ProbeNum[x] < step}
  <1>1. step \in 1 .. 38
    BY DEF LifeInv, LoaderShape
  <1> QED BY <1>1, ProbeNumbered DEF Passed

\* When a step succeeds it is behind the thread.
LEMMA PassedGrows ==
  ASSUME LifeInv, phase = "probe", Forward
  PROVE  /\ Passed' = Passed \cup {ProbeSteps[step]}
         /\ \/ step < 38 /\ phase' = "probe" /\ step' = step + 1
            \/ step = 38 /\ phase' = "bound" /\ step' = 1
  <1> DEFINE s == ProbeSteps[step]
  <1>1. /\ s \in ProbeNames /\ ProbeNum[s] = step
        /\ Passed = {x \in ProbeNames : ProbeNum[x] < step}
    BY StepName
  <1>2. step \in 1 .. 38
    BY DEF LifeInv, LoaderShape
  <1>3. \/ step < 38 /\ phase' = "probe" /\ step' = step + 1
        \/ step = 38 /\ phase' = "bound" /\ step' = 1
    BY <1>2, ProbeNumbered DEF Forward
  <1> HIDE DEF s
  <1>4. \A x \in ProbeNames : ProbeNum[x] < step + 1 <=> ProbeNum[x] < step \/ x = s
    BY <1>1, <1>2, NumRange, NumInjective
  <1>5. CASE step < 38
    <2>1. Passed' = {x \in ProbeNames : ProbeNum[x] < step + 1}
      BY <1>3, <1>5 DEF Passed
    <2> QED BY <1>1, <1>3, <1>4, <2>1 DEF s
  <1>6. CASE step = 38
    <2>1. Passed' = ProbeNames
      BY <1>3, <1>6 DEF Passed
    <2>2. \A x \in ProbeNames : ProbeNum[x] < step + 1
      BY <1>6, NumRange
    <2> QED BY <1>1, <1>3, <1>4, <2>1, <2>2 DEF s
  <1> QED BY <1>2, <1>5, <1>6

\* What a step that succeeds may have taken.
Takes(s, G) ==
  /\ G \subseteq Gains(s)
  /\ s \notin Optional => Sure(s) \subseteq G
  /\ s \in Folders \cup {"sysfs", "axsys"} => s \in G
  /\ "zone" \in G => "bram_long" \in held

\* A step takes itself and fields of armdata.
LEMMA GainsIn ==
  ASSUME NEW s \in ProbeNames
  PROVE  /\ Gains(s) \subseteq ProbeNames \cup Embedded \cup {"long_map"}
         /\ \A y \in Gains(s) : y \in ProbeNames \ Embedded => y = s
  BY DEF Gains, Prepares, Embedded, ProbeNames

\* A step that succeeds keeps the loading thread's part.
LEMMA AdvanceLoader ==
  ASSUME LifeInv, phase = "probe", Forward, UNCHANGED undo,
         NEW G, Takes(ProbeSteps[step], G), held' = held \cup G
  PROVE  LoaderInv'
  <1> DEFINE s == ProbeSteps[step]
  <1>1. /\ s \in ProbeNames /\ ProbeNum[s] = step
        /\ Passed = {x \in ProbeNames : ProbeNum[x] < step}
    BY StepName
  <1>2. step \in 1 .. 38
    BY DEF LifeInv, LoaderShape
  <1>3. /\ Passed' = Passed \cup {s}
        /\ \/ step < 38 /\ phase' = "probe" /\ step' = step + 1
           \/ step = 38 /\ phase' = "bound" /\ step' = 1
    BY PassedGrows
  <1>4. Takes(s, G)
    OBVIOUS
  <1> HIDE DEF s
  <1>5. LoaderShape'
    <2>1. G \subseteq ProbeNames \cup Embedded \cup {"long_map"}
      BY <1>1, <1>4, GainsIn DEF Takes
    <2>2. held' \subseteq LoadNames \cup ProbeNames \cup Embedded \cup {"long_map"}
      BY <2>1 DEF LifeInv, LoaderShape
    <2>3. undo' \in Seq(Ops)
      BY DEF LifeInv, LoaderShape
    <2>4. step' \in Nat /\ (phase' = "probe" => step' \in 1 .. 38) /\ phase' \in {"probe", "bound"}
      BY <1>2, <1>3
    <2> QED BY <2>2, <2>3, <2>4 DEF LoaderShape
  <1>6. Order'
    BY <1>3 DEF LifeInv, Order, Sorted, ToDo
  <1>7. AtMost'
    <2>1. held \subseteq LoadNames \cup UNION {Gains(x) : x \in Passed}
      BY DEF LifeInv, AtMost
    <2>2. held' \subseteq LoadNames \cup UNION {Gains(x) : x \in Passed'}
      BY <1>3, <1>4, <2>1 DEF Takes
    <2> QED BY <1>3, <2>2 DEF AtMost
  <1>8. AtLeast'
    <2>1. LoadNames \subseteq held' /\ ("zone" \in held' => "bram_long" \in held')
      BY <1>4 DEF LifeInv, AtLeast, Takes
    <2>2. \A x \in Passed' \ Optional : {x} \cup Prepares(x) \subseteq held'
      BY <1>3, <1>4 DEF LifeInv, AtLeast, Takes, Sure
    <2> QED BY <1>3, <2>1, <2>2 DEF AtLeast, Undoing
  <1>9. Sysfs'
    <2>1. phase' = "probe" /\ step' <= 24 => Passed' \cap ({"sysfs"} \cup Folders) \subseteq held'
      BY <1>2, <1>3, <1>4 DEF LifeInv, Sysfs, Takes
    <2>2. ASSUME step' > 24 \/ phase' = "bound" PROVE held' \cap Folders = {} \/ "axsys" \in held'
      <3>1. CASE step = 24
        <4>1. s = "axsys"
          BY <1>1, <3>1, NumInjective DEF ProbeNames, ProbeNum
        <4> QED BY <1>4, <4>1 DEF Takes
      <3>2. CASE step > 24
        <4>1. G \cap Folders = {}
          BY <1>1, <1>4, <3>2, GainsIn DEF Takes, Folders, ProbeNames, ProbeNum, Embedded
        <4> QED BY <3>2, <4>1 DEF LifeInv, Sysfs
      <3> QED BY <1>2, <1>3, <2>2, <3>1, <3>2
    <2> QED BY <1>3, <2>1, <2>2 DEF Sysfs
  <1> QED BY <1>5, <1>6, <1>7, <1>8, <1>9 DEF LoaderInv

\* What the others use stays while a step of probing succeeds; a new kthread and the
\* handler of an enabled interrupt find what they use.
LEMMA AdvanceOthers ==
  ASSUME LifeInv, phase = "probe", Forward, Shape',
         NEW G, Takes(ProbeSteps[step], G), held' = held \cup G, UNCHANGED <<irq, reader, files, going>>,
         mask' => mask \/ ProbeSteps[step] = "mask", ProbeSteps[step] = "irq" => ~mask',
         \A k \in Kthreads : kthread'[k] # "none" => kthread[k] # "none" \/ k = ProbeSteps[step]
  PROVE  Runners' /\ KthreadSafe'
  <1> DEFINE s == ProbeSteps[step]
  <1>1. /\ s \in ProbeNames /\ ProbeNum[s] = step
        /\ Passed = {x \in ProbeNames : ProbeNum[x] < step} /\ s \notin Passed
    BY StepName
  <1>2. step \in 1 .. 38
    BY DEF LifeInv, LoaderShape
  <1>3. \/ step < 38 /\ phase' = "probe" /\ step' = step + 1
        \/ step = 38 /\ phase' = "bound" /\ step' = 1
    BY PassedGrows
  <1>4. /\ Takes(s, G) /\ (mask' => mask \/ s = "mask") /\ (s = "irq" => ~mask')
        /\ \A k \in Kthreads : kthread'[k] # "none" => kthread[k] # "none" \/ k = s
    OBVIOUS
  <1>5. Made(step + 1) \subseteq held'
    <2>1. Made(step) \subseteq held
      BY MadeHeld
    <2>2. Made(step + 1) \subseteq Made(step) \cup (IF s \notin Optional THEN Sure(s) ELSE {})
      BY <1>1, <1>2, NumRange, NumInjective DEF Made
    <2> QED BY <1>4, <2>1, <2>2 DEF Takes
  <1> HIDE DEF s
  <1>6. \A k \in Kthreads : kthread'[k] # "none" => k \in held' /\ WorkerNeeds(k) \subseteq held'
    <2> TAKE k \in Kthreads
    <2>1. CASE kthread[k] # "none"
      BY <2>1 DEF LifeInv, Runners, KthreadSafe
    <2>2. CASE k = s
      <3>1. k \in G
        BY <1>4, <2>2 DEF Takes, Sure, Optional, Folders, Kthreads
      <3> QED BY <1>1, <1>5, <2>2, <3>1, NeedsMade
    <2> QED BY <1>4, <2>1, <2>2
  <1>7. "irq" \in held => s # "irq"
    <2>1. held \subseteq LoadNames \cup UNION {Gains(x) : x \in Passed}
      BY DEF LifeInv, AtMost
    <2>2. "irq" \in ProbeNames \ Embedded /\ "irq" \notin LoadNames
      BY DEF ProbeNames, Embedded, LoadNames
    <2> QED BY <1>1, <2>1, <2>2, GainsIn
  <1>8. ASSUME "irq" \in held', mask' \/ irq' = "own" \/ phase' \in {"bound", "remove"}
        PROVE  HandlerNeeds \subseteq held'
    <2>1. CASE step >= 36
      <3>1. Made(37) \subseteq Made(step + 1)
        BY <1>2, <2>1, NumRange DEF Made
      <3> QED BY <1>5, <3>1, NeedsMade
    <2>2. CASE step < 36
      <3>1. s # "mask" /\ phase' = "probe"
        BY <1>1, <1>3, <2>2 DEF ProbeNum
      <3>2. s # "irq"
        BY <1>4, <1>7, <1>8, <3>1 DEF LifeInv, Runners
      <3>3. "irq" \in held
        <4>1. "irq" \in ProbeNames \ Embedded
          BY DEF ProbeNames, Embedded
        <4> QED BY <1>1, <1>4, <1>8, <3>2, <4>1, GainsIn DEF Takes
      <3> QED BY <1>4, <1>8, <3>1, <3>3 DEF LifeInv, Runners
    <2> QED BY <1>2, <2>1, <2>2
  <1>9. held' \cap Minors # {} => "armdata" \in held'
    <2>1. CASE held \cap Minors # {}
      BY <2>1 DEF LifeInv, Runners
    <2>2. CASE step > 1
      <3>1. "armdata" \in Made(step)
        BY <2>2 DEF Made, Sure, ProbeNames, Optional, Folders, ProbeNum
      <3> QED BY <3>1, MadeHeld
    <2>3. CASE step = 1 /\ held \cap Minors = {}
      <3>1. s = "armdata"
        BY <1>1, <2>3, NumInjective DEF ProbeNames, ProbeNum
      <3> QED BY <1>4, <3>1 DEF Takes, Sure, Optional, Folders
    <2> QED BY <1>2, <2>1, <2>2, <2>3
  <1>10. ~going'
    BY DEF LifeInv, Runners
  <1> QED BY <1>6, <1>8, <1>9, <1>10 DEF LifeInv, Runners, KthreadSafe

\* A step that succeeds.
LEMMA AdvanceInv ==
  ASSUME LifeInv, phase = "probe", Forward, UNCHANGED undo, Shape',
         NEW G, Takes(ProbeSteps[step], G), held' = held \cup G, UNCHANGED <<irq, reader, files, going>>,
         mask' => mask \/ ProbeSteps[step] = "mask", ProbeSteps[step] = "irq" => ~mask',
         \A k \in Kthreads : kthread'[k] # "none" => kthread[k] # "none" \/ k = ProbeSteps[step]
  PROVE  LifeInv'
  <1>1. LoaderInv'
    BY AdvanceLoader
  <1>2. Runners' /\ KthreadSafe'
    BY AdvanceOthers
  <1> QED BY <1>1, <1>2 DEF LifeInv, LoaderInv

\* A step that fails leads to a list that gives back what is held.
LEMMA FailLoader ==
  ASSUME LifeInv, phase = "probe", NEW s \in MayEnd, s = ProbeSteps[step],
         NEW P, P \subseteq Prepares(s) \cup (Folders \cap {s}), s \in Folders => s \in P,
         held' = held \cup P, Fail("unprobe", ProbeError(s))
  PROVE  LoaderInv'
  <1>1. /\ s \in ProbeNames /\ ProbeNum[s] = step
        /\ Passed = {x \in ProbeNames : ProbeNum[x] < step} /\ s \notin Passed
    BY StepName
  <1>2. phase' = "unprobe" /\ step' = 1 /\ undo' = ProbeError(s)
    BY DEF Fail
  <1>3. undo' \in Seq(Ops) /\ Sorted(undo') /\ ToDo' = ErrorOps(s)
    BY <1>2, ErrorList DEF Follows, ToDo
  <1>4. LoaderShape'
    <2>1. P \subseteq Embedded \cup ProbeNames
      BY <1>1, PreparesEmbedded
    <2>2. held' \subseteq LoadNames \cup ProbeNames \cup Embedded \cup {"long_map"}
      BY <2>1 DEF LifeInv, LoaderShape
    <2> QED BY <1>2, <1>3, <2>2 DEF LoaderShape
  <1>5. Order'
    BY <1>2, <1>3, ErrorShape DEF Order
  <1>6. AtMost'
    <2>1. held \subseteq LoadNames \cup UNION {Gains(x) : x \in Passed}
      BY DEF LifeInv, AtMost
    <2>2. \A x \in Passed : Gains(x) \subseteq Given(ErrorOps(s))
      BY <1>1, ErrorCovers
    <2>3. P \subseteq Given(ErrorOps(s))
      <3>1. CASE s = "armdata"
        BY <3>1 DEF Prepares, Folders
      <3>2. CASE s # "armdata"
        <4>1. Prepares(s) \subseteq Frees("armdata") /\ "armdata" \in ErrorOps(s)
          BY <3>2, ErrorShape, PreparesEmbedded, FreesIs
        <4>2. s \in Folders => s \in Frees(s) /\ s \in ErrorOps(s)
          BY ErrorShape, FreesIs DEF Folders, SingleOps
        <4> QED BY <4>1, <4>2 DEF Given
      <3> QED BY <3>1, <3>2
    <2>4. held' \subseteq LoadNames \cup Given(ToDo')
      BY <1>3, <2>1, <2>2, <2>3
    <2> QED BY <1>2, <2>4 DEF AtMost, Given
  <1>7. AtLeast'
    <2>1. LoadNames \subseteq held'
      BY DEF LifeInv, AtLeast
    <2>2. ASSUME NEW op \in ErrorOps(s), NEW y \in Untested(op) PROVE y \in held'
      <3>1. /\ y \in ProbeNames
            /\ \/ y \notin Optional /\ ProbeNum[y] < ProbeNum[s]
               \/ s \in Folders /\ y \in Folders \cup {"sysfs"} /\ ProbeNum[y] <= ProbeNum[s]
        BY UntestedTaken
      <3>2. CASE y \notin Optional /\ ProbeNum[y] < ProbeNum[s]
        BY <1>1, <3>1, <3>2 DEF LifeInv, AtLeast
      <3>3. CASE s \in Folders /\ y \in Folders \cup {"sysfs"} /\ ProbeNum[y] <= ProbeNum[s]
        <4>1. step <= 24
          BY <1>1, <3>3 DEF Folders, ProbeNum
        <4>2. y = s \/ y \in Passed
          BY <1>1, <3>1, <3>3, NumRange, NumInjective
        <4> QED BY <3>3, <4>1, <4>2 DEF LifeInv, Sysfs
      <3> QED BY <3>1, <3>2, <3>3
    <2> QED BY <1>2, <1>3, <2>1, <2>2 DEF AtLeast
  <1>8. Sysfs'
    BY <1>2 DEF Sysfs
  <1> QED BY <1>4, <1>5, <1>6, <1>7, <1>8 DEF LoaderInv

\* No step prepares a node, the handler or a folder.
LEMMA PreparesAside == \A s : Prepares(s) \cap (Minors \cup {"irq"} \cup Folders) = {}
  BY DEF Prepares, Minors, Folders

\* A step that fails.
LEMMA FailInv ==
  ASSUME LifeInv, phase = "probe", NEW s \in MayEnd, s = ProbeSteps[step], Shape',
         NEW P, P \subseteq Prepares(s) \cup (Folders \cap {s}), s \in Folders => s \in P,
         held' = held \cup P, Fail("unprobe", ProbeError(s)),
         UNCHANGED <<kthread, irq, reader, files, going>>, mask' => mask
  PROVE  LifeInv'
  <1>1. LoaderInv'
    BY FailLoader
  <1>2. phase' = "unprobe"
    BY DEF Fail
  <1>3. P \cap (Minors \cup {"irq"}) = {}
    BY PreparesAside DEF Folders, Minors
  <1>4. Runners'
    BY <1>2, <1>3 DEF LifeInv, Runners
  <1>5. KthreadSafe'
    BY DEF LifeInv, KthreadSafe
  <1> QED BY <1>1, <1>4, <1>5 DEF LifeInv, LoaderInv

\* A step that crashes.
LEMMA OopsInv ==
  ASSUME LifeInv, phase = "probe", phase' = "oops",
         UNCHANGED <<step, undo, held, going, mask, kthread, irq, rx, reader, files>>
  PROVE  LifeInv'
  <1>1. LoaderShape' /\ Shape'
    BY DEF LifeInv, LoaderShape, Shape
  <1>2. Order' /\ AtMost'
    BY DEF LifeInv, Order, AtMost, Sorted
  <1>3. AtLeast' /\ Sysfs'
    BY DEF LifeInv, AtLeast, Sysfs, Undoing
  <1>4. Runners' /\ KthreadSafe'
    BY DEF LifeInv, Runners, KthreadSafe
  <1> QED BY <1>1, <1>2, <1>3, <1>4 DEF LifeInv

\* A folder that cannot be created: axiom_sysfs_init gives back the folders so far.
LEMMA NoFolderInv ==
  ASSUME LifeInv, phase = "probe", NEW s \in Folders, s = ProbeSteps[step], phase' = "nosysfs",
         undo' = After(axiom_sysfs_rollback, s),
         UNCHANGED <<step, held, going, mask, kthread, irq, rx, reader, files>>
  PROVE  LifeInv'
  <1>1. /\ s \in ProbeNames /\ ProbeNum[s] = step
        /\ Passed = {x \in ProbeNames : ProbeNum[x] < step} /\ s \notin Passed
    BY StepName
  <1>2. step \in 19 .. 23
    BY <1>1 DEF Folders, ProbeNum
  <1>3. undo' \in Seq(Ops) /\ Sorted(undo') /\ ToDo' = {op \in RollbackOps : Rank[s] < Rank[op]}
    BY Lists, SortedFrom DEF Follows, RollbackOps, ToDo
  <1>4. LoaderShape' /\ Shape'
    BY <1>2, <1>3 DEF LifeInv, LoaderShape, Shape
  <1>5. Passed' = Passed
    BY DEF Passed
  <1>6. Order' /\ AtMost'
    BY <1>3, <1>5 DEF LifeInv, Order, AtMost
  <1>7. \A d \in Folders : ProbeNum[d] < ProbeNum[s] <=> Rank[s] < Rank[d]
    BY DEF Folders, ProbeNum, Rank
  <1>8. \A d \in Folders : d \in ProbeNames \ Embedded /\ d \notin LoadNames
    BY DEF Folders, ProbeNames, Embedded, LoadNames
  <1>9. Passed \cap ({"sysfs"} \cup Folders) \subseteq held
    BY <1>2 DEF LifeInv, Sysfs
  <1>10. AtLeast'
    <2>1. ASSUME NEW op \in ToDo' PROVE Untested(op) \subseteq held
      <3>1. CASE op = "root"
        <4>1. "sysfs" \in Passed
          BY <1>1, <1>2 DEF ProbeNames, ProbeNum
        <4> QED BY <1>9, <3>1, <4>1, UntestedIs
      <3>2. CASE op \in Folders
        <4>1. op \in Passed
          BY <1>1, <1>3, <1>7, <1>8, <3>2
        <4>2. Untested(op) = {op}
          BY <3>2, UntestedIs DEF Folders, SingleOps, Kthreads
        <4> QED BY <1>9, <3>2, <4>1, <4>2
      <3> QED BY <1>3, <2>1, <3>1, <3>2 DEF RollbackOps
    <2> QED BY <1>5, <2>1 DEF LifeInv, AtLeast
  <1>11. Sysfs'
    <2>1. ASSUME NEW d \in held \cap Folders PROVE d \in ToDo'
      <3>1. d \in Passed
        <4>1. held \subseteq LoadNames \cup UNION {Gains(x) : x \in Passed}
          BY DEF LifeInv, AtMost
        <4> QED BY <1>1, <1>8, <4>1, GainsIn
      <3> QED BY <1>1, <1>3, <1>7, <3>1 DEF RollbackOps
    <2> QED BY <2>1 DEF Sysfs
  <1>12. Runners' /\ KthreadSafe'
    BY DEF LifeInv, Runners, KthreadSafe
  <1> QED BY <1>4, <1>6, <1>10, <1>11, <1>12 DEF LifeInv

\* The mappings.
LEMMA MapInv == ASSUME LifeInv, phase = "probe", MapStep(ProbeSteps[step]) PROVE LifeInv'
  <1> DEFINE s == ProbeSteps[step]
  <1>1. s \in AxiSet /\ MapStep(s)
    BY Ranges DEF MapStep
  <1>2. /\ UNCHANGED <<going, mask, kthread, irq, reader, files>> /\ rx' \subseteq rx
    BY DEF MapStep
  <1>3. Shape'
    BY <1>2 DEF LifeInv, Shape
  <1> HIDE DEF s
  <1>4. s # "irq" /\ s # "mask" /\ s \notin Folders \cup {"sysfs", "axsys"} /\ Prepares(s) = {}
    BY <1>1 DEF AxiSet, Folders, Prepares
  <1>5. CASE Acquire({s})
    <2>1. Takes(s, {s})
      BY <1>1, <1>4 DEF Takes, Gains, Sure, AxiSet
    <2> QED BY <1>2, <1>3, <1>4, <1>5, <2>1, AdvanceInv DEF Acquire, s
  <1>6. CASE s \in {"gpio", "bram_long", "bram_routing"} /\ Acquire({})
    <2>1. Takes(s, {})
      BY <1>4, <1>6 DEF Takes, Optional
    <2> QED BY <1>2, <1>3, <1>4, <1>6, <2>1, AdvanceInv DEF Acquire, s
  <1>7. CASE s \notin {"gpio", "bram_long", "bram_routing"} /\ Fail("unprobe", ProbeError(s)) /\ UNCHANGED held
    <2>1. s \in MayEnd
      BY <1>1, <1>7 DEF MayEnd, AxiSet
    <2>2. held' = held \cup {}
      BY <1>7
    <2> QED BY <1>2, <1>3, <1>4, <1>7, <2>1, <2>2, FailInv DEF s
  <1> QED BY <1>1, <1>5, <1>6, <1>7 DEF MapStep

\* The API object.
LEMMA AllocInv == ASSUME LifeInv, AllocApi PROVE LifeInv'
  <1>1. phase = "probe" /\ ProbeSteps[step] = "dev_api"
    BY DEF AllocApi, Probing
  <1>2. UNCHANGED <<going, mask, kthread, irq, rx, reader, files>>
    BY DEF AllocApi
  <1>3. Shape'
    BY <1>2 DEF LifeInv, Shape
  <1>4. CASE Acquire({"dev_api"})
    <2>1. Takes("dev_api", {"dev_api"})
      BY DEF Takes, Gains, Sure, Prepares, Folders
    <2> QED BY <1>1, <1>2, <1>3, <1>4, <2>1, AdvanceInv DEF Acquire
  <1>5. CASE phase' = "oops" /\ UNCHANGED <<step, undo, held>>
    BY <1>1, <1>2, <1>5, OopsInv
  <1> QED BY <1>4, <1>5 DEF AllocApi

\* The registration of the handler.
LEMMA RequestInv == ASSUME LifeInv, RequestIrq PROVE LifeInv'
  <1>1. phase = "probe" /\ ProbeSteps[step] = "irq"
    BY DEF RequestIrq, Probing
  <1>2. UNCHANGED <<going, kthread, irq, rx, reader, files>> /\ mask' = FALSE
    BY DEF RequestIrq
  <1>3. Shape'
    BY <1>2 DEF LifeInv, Shape
  <1>4. CASE Acquire({"irq"})
    <2>1. Takes("irq", {"irq"})
      BY DEF Takes, Gains, Sure, Prepares, Folders
    <2> QED BY <1>1, <1>2, <1>3, <1>4, <2>1, AdvanceInv DEF Acquire
  <1>5. CASE Fail("unprobe", ProbeError("irq")) /\ UNCHANGED held
    <2>1. "irq" \in MayEnd \ Folders /\ held' = held \cup {}
      BY <1>5 DEF MayEnd, Folders
    <2> QED BY <1>1, <1>2, <1>3, <1>5, <2>1, FailInv
  <1> QED BY <1>4, <1>5 DEF RequestIrq

\* The steps that take one resource.
LEMMA TakeInv == ASSUME LifeInv, phase = "probe", TakeStep(ProbeSteps[step]) PROVE LifeInv'
  <1> DEFINE s == ProbeSteps[step]
  <1>1. /\ s \in {"armdata", "drvdata", "chrdev", "sysfs", "axsys", "raw_tx"} \cup Minors
                 \cup RdmaTxSet \cup RawRxSet \cup RdmaRxSet
        /\ TakeStep(s)
    BY Ranges DEF TakeStep
  <1>2. UNCHANGED <<going, mask, kthread, irq, rx, reader, files>>
    BY DEF TakeStep
  <1>3. Shape'
    BY <1>2 DEF LifeInv, Shape
  <1> HIDE DEF s
  <1>4. s # "irq" /\ s # "mask" /\ s # "zone" /\ s \notin Folders /\ "zone" \notin Prepares(s)
    BY <1>1 DEF Folders, Minors, RdmaTxSet, RawRxSet, RdmaRxSet, Prepares
  <1>5. CASE Acquire({s} \cup Prepares(s))
    <2>1. Takes(s, {s} \cup Prepares(s))
      BY <1>4 DEF Takes, Gains, Sure
    <2> QED BY <1>2, <1>3, <1>4, <1>5, <2>1, AdvanceInv DEF Acquire, s
  <1>6. CASE /\ s \in MayFail \ {"drvdata", "chrdev", "axsys", "raw_tx"}
             /\ held' = held \cup Prepares(s)
             /\ Fail("unprobe", ProbeError(s))
    <2>1. s \in MayEnd
      BY <1>1, <1>6 DEF MayEnd
    <2> QED BY <1>2, <1>3, <1>4, <1>6, <2>1, FailInv DEF s
  <1> QED BY <1>1, <1>5, <1>6 DEF TakeStep

\* The folders of sysfs.
LEMMA FolderInv == ASSUME LifeInv, phase = "probe", FolderStep(ProbeSteps[step]) PROVE LifeInv'
  <1> DEFINE s == ProbeSteps[step]
  <1>1. s \in Folders /\ FolderStep(s)
    BY DEF FolderStep
  <1>2. UNCHANGED <<going, mask, kthread, irq, rx, reader, files>>
    BY DEF FolderStep
  <1>3. Shape'
    BY <1>2 DEF LifeInv, Shape
  <1> HIDE DEF s
  <1>4. s # "irq" /\ s # "mask" /\ s # "zone"
    BY <1>1 DEF Folders
  <1>5. CASE Acquire({s})
    <2>1. Takes(s, {s})
      BY <1>1, <1>4 DEF Takes, Gains, Optional
    <2> QED BY <1>2, <1>3, <1>4, <1>5, <2>1, AdvanceInv DEF Acquire, s
  <1>6. CASE held' = held \cup {s} /\ Fail("unprobe", ProbeError(s))
    <2>1. s \in MayEnd
      BY <1>1 DEF MayEnd
    <2> QED BY <1>1, <1>2, <1>3, <1>6, <2>1, FailInv DEF s
  <1>7. CASE /\ phase' = "nosysfs" /\ undo' = After(axiom_sysfs_rollback, s)
             /\ UNCHANGED <<step, held>>
    BY <1>1, <1>2, <1>7, NoFolderInv DEF s
  <1> QED BY <1>1, <1>5, <1>6, <1>7 DEF FolderStep

\* The start of a kthread.
LEMMA StartInv == ASSUME LifeInv, phase = "probe", axiom_kthread_init(ProbeSteps[step]) PROVE LifeInv'
  <1> DEFINE s == ProbeSteps[step]
  <1>1. s \in Kthreads /\ axiom_kthread_init(s)
    BY DEF axiom_kthread_init
  <1>2. UNCHANGED <<going, mask, irq, rx, reader, files>>
    BY DEF axiom_kthread_init
  <1>3. /\ kthread' \in [Kthreads -> {"none", "wait", "work"}]
        /\ \A k \in Kthreads : kthread'[k] # "none" => kthread[k] # "none" \/ k = s
    BY <1>1 DEF axiom_kthread_init, LifeInv, Shape
  <1>4. Shape'
    BY <1>2, <1>3 DEF LifeInv, Shape
  <1> HIDE DEF s
  <1>5. s # "irq" /\ s # "mask" /\ s # "zone" /\ s \notin Folders /\ "zone" \notin Prepares(s)
        /\ s # "sysfs" /\ s # "axsys"
    BY <1>1 DEF Folders, Kthreads, Prepares
  <1>6. CASE Acquire({s} \cup Prepares(s))
    <2>1. Takes(s, {s} \cup Prepares(s))
      BY <1>5 DEF Takes, Gains, Sure
    <2> QED BY <1>2, <1>3, <1>4, <1>5, <1>6, <2>1, AdvanceInv DEF Acquire, s
  <1>7. CASE held' = held \cup Prepares(s) /\ Fail("unprobe", ProbeError(s)) /\ UNCHANGED kthread
    <2>1. s \in MayEnd
      BY <1>1 DEF MayEnd
    <2> QED BY <1>2, <1>4, <1>5, <1>7, <2>1, FailInv DEF s
  <1> QED BY <1>1, <1>6, <1>7 DEF axiom_kthread_init

\* The RDMA zone.
LEMMA ZoneInv == ASSUME LifeInv, axiomnet_rdma_init PROVE LifeInv'
  <1>1. phase = "probe" /\ ProbeSteps[step] = "zone"
    BY DEF axiomnet_rdma_init, Probing
  <1>2. UNCHANGED <<going, mask, kthread, irq, rx, reader, files>>
    BY DEF axiomnet_rdma_init
  <1>3. Shape'
    BY <1>2 DEF LifeInv, Shape
  <1>4. ASSUME NEW G \in {{"zone", "long_map"}, {"zone"}}, "bram_long" \in held, Acquire(G)
        PROVE  LifeInv'
    <2>1. Takes("zone", G)
      BY <1>4 DEF Takes, Gains, Sure, Prepares, Folders
    <2> QED BY <1>1, <1>2, <1>3, <1>4, <2>1, AdvanceInv DEF Acquire
  <1>5. CASE phase' = "oops" /\ UNCHANGED <<step, undo, held>>
    BY <1>1, <1>2, <1>5, OopsInv
  <1>6. CASE Fail("unprobe", ProbeError("zone")) /\ UNCHANGED held
    <2>1. "zone" \in MayEnd \ Folders /\ held' = held \cup {}
      BY <1>6 DEF MayEnd, Folders
    <2> QED BY <1>1, <1>2, <1>3, <1>6, <2>1, FailInv
  <1> QED BY <1>4, <1>5, <1>6 DEF axiomnet_rdma_init

\* The interrupts are enabled.
LEMMA EnableInv == ASSUME LifeInv, axiom_hw_enable_irq PROVE LifeInv'
  <1>1. phase = "probe" /\ ProbeSteps[step] = "mask"
    BY DEF axiom_hw_enable_irq, Probing
  <1>2. UNCHANGED <<undo, going, held, kthread, irq, rx, reader, files>> /\ mask' = TRUE /\ Forward
    BY DEF axiom_hw_enable_irq
  <1>3. Shape'
    BY <1>2 DEF LifeInv, Shape
  <1>4. Takes("mask", {})
    BY DEF Takes, Optional, Folders
  <1>5. held' = held \cup {}
    BY <1>2
  <1> QED BY <1>1, <1>2, <1>3, <1>4, <1>5, AdvanceInv

-----------------------------------------------------------------------------
(* The loading thread loads, unloads, binds and unbinds *)

\* Without a device nothing of it is held and nobody runs.
LEMMA NoDevice ==
  ASSUME LifeInv, phase \in {"out", "load", "loaded", "failload", "unload"}
  PROVE  /\ held \subseteq LoadNames
         /\ irq = "none" /\ reader = "none"
         /\ \A k \in Kthreads : kthread[k] = "none"
         /\ \A f \in Files : files[f] \notin Minors
         /\ held \cap Minors = {} /\ "irq" \notin held
  <1>1. Given(LoadOps) \subseteq LoadNames
    BY FreesIs DEF Given, LoadOps, LoadNames, SingleOps
  <1>2. held \subseteq LoadNames
    <2>1. "region" \in LoadNames /\ LoadPassed \subseteq LoadNames
      BY DEF LoadNames, LoadPassed
    <2>2. phase \in {"failload", "unload"} => Given(ToDo) \subseteq Given(LoadOps)
      BY DEF LifeInv, Order, Given
    <2> QED BY <1>1, <2>1, <2>2 DEF LifeInv, AtMost
  <1>3. LoadNames \cap (Kthreads \cup {"irq", "armdata"} \cup Folders \cup Minors) = {}
    BY DEF LoadNames, Kthreads, Folders, Minors
  <1>4. \A k \in Kthreads : kthread[k] = "none"
    BY <1>2, <1>3 DEF LifeInv, Runners
  <1>5. irq = "none" /\ "irq" \notin held
    BY <1>2, <1>3 DEF LifeInv, Runners
  <1>6. reader = "none"
    BY <1>2, <1>3 DEF LifeInv, Runners, Shape
  <1>7. \A f \in Files : files[f] \notin Minors
    BY <1>2, <1>3 DEF LifeInv, Runners
  <1> QED BY <1>2, <1>3, <1>4, <1>5, <1>6, <1>7

\* Steps there that take nothing of a device keep the part about the others.
LEMMA QuietStep ==
  ASSUME LifeInv, phase \in {"out", "load", "loaded", "failload", "unload"},
         held' \subseteq LoadNames, LoaderInv',
         UNCHANGED <<kthread, irq, rx, reader>>, mask' \in BOOLEAN, going' \in BOOLEAN,
         files' \in [Files -> Minors \cup {"closed", "stale"}],
         \A f \in Files : files'[f] \notin Minors,
         going' => phase' \in {"remove", "unload"} /\ \A f \in Files : files'[f] = "closed"
  PROVE  LifeInv'
  <1>1. Shape'
    BY DEF LifeInv, Shape
  <1>2. LoadNames \cap (Minors \cup {"irq"}) = {}
    BY DEF LoadNames, Minors
  <1>3. Runners' /\ KthreadSafe'
    BY <1>2, NoDevice DEF Runners, KthreadSafe
  <1> QED BY <1>1, <1>3 DEF LifeInv, LoaderInv

\* The module is loaded.
LEMMA InsmodInv == ASSUME LifeInv, Insmod PROVE LifeInv'
  <1>1. /\ phase = "out" /\ phase' = "load" /\ step' = 1
        /\ UNCHANGED <<undo, going, held, mask, kthread, irq, rx, reader, files>>
    BY DEF Insmod
  <1>2. LoadPassed' = {}
    BY <1>1, LoadInjective DEF LoadPassed
  <1>3. LoaderShape'
    BY <1>1 DEF LifeInv, LoaderShape
  <1>4. Order' /\ AtMost' /\ AtLeast' /\ Sysfs'
    BY <1>1, <1>2 DEF LifeInv, Order, AtMost, AtLeast, Sysfs, Sorted, Undoing
  <1>5. held' \subseteq LoadNames /\ \A f \in Files : files'[f] \notin Minors
    BY <1>1, NoDevice
  <1>6. ~going'
    BY <1>1 DEF LifeInv, Runners
  <1> QED BY <1>1, <1>3, <1>4, <1>5, <1>6, QuietStep DEF LifeInv, LoaderInv, Shape

\* The device is given to the driver.
LEMMA GiveInv == ASSUME LifeInv, Bind PROVE LifeInv'
  <1>1. /\ phase = "loaded" /\ phase' = "probe" /\ step' = 1
        /\ UNCHANGED <<undo, going, held, mask, kthread, irq, rx, reader, files>>
    BY DEF Bind
  <1>2. Passed' = {}
    BY <1>1, NumRange DEF Passed
  <1>3. LoaderShape'
    BY <1>1 DEF LifeInv, LoaderShape
  <1>4. "zone" \notin LoadNames
    BY DEF LoadNames
  <1>5. Order' /\ AtMost' /\ AtLeast' /\ Sysfs'
    BY <1>1, <1>2, <1>4 DEF LifeInv, Order, AtMost, AtLeast, Sysfs, Sorted, Undoing
  <1>6. held' \subseteq LoadNames /\ \A f \in Files : files'[f] \notin Minors
    BY <1>1, NoDevice
  <1>7. ~going'
    BY <1>1 DEF LifeInv, Runners
  <1> QED BY <1>1, <1>3, <1>5, <1>6, <1>7, QuietStep DEF LifeInv, LoaderInv, Shape

\* The releases of a failed load give back what it took, and nothing untaken.
LEMMA LoadErrorFacts ==
  ASSUME NEW s \in LoadNames
  PROVE  /\ LoadErrorOps(s) \subseteq LoadOps
         /\ {x \in LoadNames : LoadNum[x] < LoadNum[s]} \subseteq {"region"} \cup Given(LoadErrorOps(s))
         /\ \A op \in LoadErrorOps(s) \ {"class_destroy"} :
              Untested(op) \subseteq {x \in LoadNames : LoadNum[x] < LoadNum[s]}
  <1>1. LoadErrorOps(s) \subseteq LoadOps
    BY DEF LoadNames, LoadErrorOps, LoadOps
  <1>2. ASSUME NEW x \in LoadNames, LoadNum[x] < LoadNum[s], x # "region"
        PROVE  \E op \in LoadErrorOps(s) : x \in Frees(op)
    <2>1. CASE x = "class"
      <3>1. "class_unregister" \in LoadErrorOps(s)
        BY <1>2, <2>1 DEF LoadNames, LoadNum, LoadErrorOps, LoadOps
      <3> QED BY <2>1, <3>1, FreesIs
    <2>2. CASE x # "class"
      <3>1. x \in LoadErrorOps(s) /\ x \in SingleOps
        BY <1>2, <2>2 DEF LoadNames, LoadNum, LoadErrorOps, LoadOps, SingleOps
      <3> QED BY <3>1, FreesIs
    <2> QED BY <2>1, <2>2
  <1>3. ASSUME NEW op \in LoadErrorOps(s) \ {"class_destroy"}, NEW y \in Untested(op)
        PROVE  y \in LoadNames /\ LoadNum[y] < LoadNum[s]
    BY UntestedIs DEF LoadNames, LoadNum, LoadErrorOps, LoadOps, SingleOps, Kthreads
  <1> QED BY <1>1, <1>2, <1>3 DEF Given

\* A step of loading.
LEMMA LoadInv == ASSUME LifeInv, phase = "load", LoadStep(LoadSteps[step]) PROVE LifeInv'
  <1> DEFINE s == LoadSteps[step]
  <1>1. step \in 1 .. 7
    BY DEF LifeInv, LoaderShape
  <1>2. s \in LoadNames /\ LoadNum[s] = step
    BY <1>1, LoadNumbered
  <1>3. UNCHANGED <<going, mask, kthread, irq, rx, reader, files>>
    BY DEF LoadStep
  <1>4. Acquire({s}) \/ (Fail("failload", LoadError(s)) /\ UNCHANGED held)
    BY DEF LoadStep
  <1> HIDE DEF s
  <1>5. held' \subseteq LoadNames
    BY <1>2, <1>4, NoDevice DEF Acquire
  <1>6. LoaderInv'
    <2>1. CASE Acquire({s})
      <3>1. /\ held' = held \cup {s} /\ UNCHANGED undo
            /\ \/ step < 7 /\ phase' = "load" /\ step' = step + 1
               \/ step = 7 /\ phase' = "probe" /\ step' = 1
        BY <1>1, <2>1, LoadNumbered DEF Acquire, Forward
      <3>2. \A x \in LoadNames : LoadNum[x] < step + 1 <=> LoadNum[x] < step \/ x = s
        BY <1>1, <1>2, LoadInjective
      <3>3. LoaderShape'
        <4>1. held' \subseteq LoadNames \cup ProbeNames \cup Embedded \cup {"long_map"}
          BY <1>5
        <4>2. undo' \in Seq(Ops)
          BY <3>1 DEF LifeInv, LoaderShape
        <4>3. step' \in Nat /\ (phase' = "load" => step' \in 1 .. 7) /\ (phase' = "probe" => step' \in 1 .. 38)
              /\ phase' \in {"load", "probe"}
          BY <1>1, <3>1
        <4> QED BY <4>1, <4>2, <4>3 DEF LoaderShape
      <3>4. LoadPassed \subseteq held /\ held \subseteq {"region"} \cup LoadPassed
        BY DEF LifeInv, AtMost, AtLeast
      <3>5. CASE step < 7
        <4>1. LoadPassed' = LoadPassed \cup {s}
          BY <1>2, <3>1, <3>2, <3>5 DEF LoadPassed
        <4>2. phase' = "load"
          BY <3>1, <3>5
        <4>3. Order' /\ Sysfs'
          BY <3>1, <4>2 DEF LifeInv, Order, Sysfs, Sorted
        <4>4. AtMost' /\ AtLeast'
          BY <3>1, <3>4, <4>1, <4>2 DEF AtMost, AtLeast, Undoing
        <4> QED BY <3>3, <4>3, <4>4 DEF LoaderInv
      <3>6. CASE step = 7
        <4>1. LoadPassed \cup {s} = LoadNames
          BY <1>2, <3>2, <3>6, LoadInjective DEF LoadPassed
        <4>2. phase' = "probe" /\ step' = 1
          BY <3>1, <3>6
        <4>3. Passed' = {}
          BY <4>2, NumRange DEF Passed
        <4>4. Order' /\ Sysfs'
          BY <3>1, <4>2, <4>3 DEF LifeInv, Order, Sysfs, Sorted
        <4>5. "zone" \notin LoadNames
          BY DEF LoadNames
        <4>6. AtMost' /\ AtLeast'
          BY <1>5, <3>1, <3>4, <4>1, <4>2, <4>3, <4>5 DEF AtMost, AtLeast, Undoing
        <4> QED BY <3>3, <4>4, <4>6 DEF LoaderInv
      <3> QED BY <1>1, <3>5, <3>6
    <2>2. CASE Fail("failload", LoadError(s)) /\ UNCHANGED held
      <3>1. phase' = "failload" /\ step' = 1 /\ undo' = LoadError(s) /\ held' = held
        BY <2>2 DEF Fail
      <3>2. undo' \in Seq(Ops) /\ Sorted(undo') /\ ToDo' = LoadErrorOps(s)
        BY <1>2, <3>1, LoadErrorList DEF Follows, ToDo
      <3>3. LoadPassed \subseteq held /\ held \subseteq {"region"} \cup LoadPassed
        BY DEF LifeInv, AtMost, AtLeast
      <3>4. LoadPassed = {x \in LoadNames : LoadNum[x] < LoadNum[s]}
        BY <1>2 DEF LoadPassed
      <3>5. LoaderShape'
        BY <3>1, <3>2 DEF LifeInv, LoaderShape
      <3>6. Order' /\ Sysfs'
        BY <1>2, <3>1, <3>2, LoadErrorFacts DEF Order, Sysfs
      <3>7. held' \subseteq {"region"} \cup Given(ToDo')
        BY <1>2, <3>1, <3>2, <3>3, <3>4, LoadErrorFacts
      <3>8. \A op \in ToDo' \ {"class_destroy"} : Untested(op) \subseteq held'
        BY <1>2, <3>1, <3>2, <3>3, <3>4, LoadErrorFacts
      <3>9. AtMost' /\ AtLeast'
        BY <3>1, <3>7, <3>8 DEF AtMost, AtLeast, Given
      <3> QED BY <3>5, <3>6, <3>9 DEF LoaderInv
    <2> QED BY <1>4, <2>1, <2>2
  <1>7. ~going' /\ \A f \in Files : files'[f] \notin Minors
    BY <1>3, NoDevice DEF LifeInv, Runners
  <1> QED BY <1>3, <1>5, <1>6, <1>7, QuietStep DEF LifeInv, Shape

\* A device that is bound has everything but what is optional.
LEMMA BoundHolds ==
  ASSUME LifeInv, phase = "bound"
  PROVE  /\ HandlerNeeds \subseteq held
         /\ \A d \in Folders \cap held : SysfsNeeds(d) \subseteq held
         /\ \A d \in Minors : UserNeeds(d) \ Unchecked \subseteq held
         /\ (LoadNames \cup ProbeNames) \ (Optional \ {"bram_long"}) \subseteq held
  <1>1. Made(39) \subseteq held
    BY MadeHeld
  <1>2. Made(37) \subseteq Made(39)
    BY NumRange DEF Made
  <1>3. \A s \in ProbeNames \ Optional : s \in held
    BY DEF LifeInv, AtLeast, Passed
  <1>4. "zone" \in held /\ "bram_long" \in held
    BY <1>3 DEF LifeInv, AtLeast, ProbeNames, Optional, Folders
  <1>5. \A d \in Folders \cap held : "axsys" \in held
    BY DEF LifeInv, Sysfs
  <1> QED BY <1>1, <1>2, <1>3, <1>4, <1>5, NeedsMade DEF LifeInv, AtLeast

\* The removal gives back all that a probe may take, and untested only what is certain.
LEMMA RemoveFacts ==
  /\ RemoveOps \subseteq DevOps /\ "armdata" \in RemoveOps
  /\ RemoveOps \cap Minors = {}
  /\ \A s \in ProbeNames : Gains(s) \subseteq Given(RemoveOps)
  /\ \A op \in RemoveOps : Untested(op) \subseteq ProbeNames \ Optional
  <1>1. /\ RemoveOps \subseteq DevOps /\ "armdata" \in RemoveOps
        /\ RemoveOps \cap Minors = {}
    BY DEF RemoveOps, LabelSet, ArmSet, DevOps, Minors
  <1>2. ASSUME NEW s \in ProbeNames PROVE Gains(s) \subseteq Given(RemoveOps)
    <2>1. Owner(s) \in RemoveOps
      BY DEF RemoveOps, LabelSet, ArmSet, ProbeNames, Owner, AxiSet, Minors, Folders, RdmaTxSet,
         RawRxSet,
         RdmaRxSet, Kthreads
    <2> QED BY <1>1, <2>1, OwnerFrees DEF Given
  <1>3. ASSUME NEW op \in RemoveOps, NEW y \in Untested(op) PROVE y \in ProbeNames \ Optional
    BY UntestedIs DEF RemoveOps, LabelSet, ArmSet, ProbeNames, Optional, Folders, SingleOps,
       Kthreads, Minors
  <1> QED BY <1>1, <1>2, <1>3

\* The removal begins.
LEMMA RemoveInv ==
  ASSUME LifeInv, phase = "bound", phase' = "remove", undo' = axiomnet_arm_remove,
         UNCHANGED <<step, held, mask, kthread, irq, rx, reader, files>>,
         going' \in BOOLEAN, going' => \A f \in Files : files[f] = "closed"
  PROVE  LifeInv'
  <1>1. undo' \in Seq(Ops) /\ Sorted(undo') /\ ToDo' = RemoveOps
    BY RemoveList DEF Follows, ToDo
  <1>2. LoaderShape' /\ Shape'
    BY <1>1 DEF LifeInv, LoaderShape, Shape
  <1>3. Order'
    BY <1>1, RemoveFacts DEF Order
  <1>4. held \subseteq LoadNames \cup Given(RemoveOps)
    <2>1. held \subseteq LoadNames \cup UNION {Gains(x) : x \in ProbeNames}
      BY DEF LifeInv, AtMost, Passed
    <2> QED BY <2>1, RemoveFacts
  <1>5. AtMost'
    BY <1>1, <1>4 DEF AtMost, Given
  <1>6. AtLeast'
    <2>1. ProbeNames \ Optional \subseteq held
      BY DEF LifeInv, AtLeast, Passed
    <2> QED BY <1>1, <2>1, RemoveFacts DEF LifeInv, AtLeast
  <1>7. Sysfs'
    BY BoundHolds DEF Sysfs
  <1>8. Runners' /\ KthreadSafe'
    BY BoundHolds DEF LifeInv, Runners, KthreadSafe
  <1> QED BY <1>2, <1>3, <1>5, <1>6, <1>7, <1>8 DEF LifeInv

\* The unloading begins.
LEMMA UnloadInv ==
  ASSUME LifeInv, held = LoadNames, phase' = "unload", undo' = axiomnet_arm_cleanup,
         UNCHANGED <<step, held, mask, kthread, irq, rx, reader, files>>,
         \A k \in Kthreads : kthread[k] = "none", irq = "none", reader = "none",
         going' \in BOOLEAN, going' => \A f \in Files : files[f] = "closed"
  PROVE  LifeInv'
  <1>1. undo' \in Seq(Ops) /\ Sorted(undo') /\ ToDo' = LoadOps
    BY CleanupList DEF Follows, ToDo
  <1>2. LoaderShape' /\ Shape'
    BY <1>1 DEF LifeInv, LoaderShape, Shape
  <1>3. Order' /\ Sysfs'
    BY <1>1 DEF Order, Sysfs
  <1>4. LoadNames \subseteq {"region"} \cup Given(LoadOps)
    <2>1. ASSUME NEW x \in LoadNames \ {"region"} PROVE \E op \in LoadOps : x \in Frees(op)
      <3>1. CASE x = "class"
        BY <3>1, FreesIs DEF LoadOps
      <3>2. CASE x # "class"
        BY <3>2, FreesIs DEF LoadNames, LoadOps, SingleOps
      <3> QED BY <3>1, <3>2
    <2> QED BY <2>1 DEF Given
  <1>5. \A op \in LoadOps \ {"class_destroy"} : Untested(op) \subseteq LoadNames
    BY UntestedIs DEF LoadOps, LoadNames, SingleOps, Kthreads
  <1>6. AtMost' /\ AtLeast'
    BY <1>1, <1>4, <1>5 DEF AtMost, AtLeast, Given
  <1>7. Runners' /\ KthreadSafe'
    BY DEF LifeInv, Runners, KthreadSafe, LoadNames
  <1> QED BY <1>2, <1>3, <1>6, <1>7 DEF LifeInv

\* The device is taken away through sysfs.
LEMMA UnbindInv == ASSUME LifeInv, Unbind PROVE LifeInv'
  <1>1. ~going' /\ going' \in BOOLEAN
    BY DEF Unbind, LifeInv, Shape, Runners
  <1> QED BY <1>1, RemoveInv DEF Unbind

\* The module is unloaded.
LEMMA RmmodInv == ASSUME LifeInv, Rmmod PROVE LifeInv'
  <1>1. CASE phase = "bound" /\ phase' = "remove" /\ undo' = axiomnet_arm_remove
    BY <1>1, RemoveInv DEF Rmmod
  <1>2. CASE phase = "loaded" /\ phase' = "unload" /\ undo' = axiomnet_arm_cleanup
    <2>1. held = LoadNames
      BY <1>2 DEF LifeInv, AtMost, AtLeast
    <2> QED BY <1>2, <2>1, NoDevice, UnloadInv DEF Rmmod
  <1> QED BY <1>1, <1>2 DEF Rmmod

\* A list of releases is done.
LEMMA ReleasedInv == ASSUME LifeInv, Released PROVE LifeInv'
  <1>1. /\ Undoing /\ undo = <<>> /\ UNCHANGED <<held, mask, kthread, irq, rx, reader, files>>
    BY DEF Released
  <1>2. ToDo = {} /\ Given(ToDo) = {}
    BY <1>1 DEF ToDo, Range, Given
  <1>3. CASE phase = "nosysfs"
    <2>1. phase' = "probe" /\ step' = 25 /\ UNCHANGED <<undo, going>>
      BY <1>3, RawTxPos DEF Released
    <2>2. LoaderShape' /\ Shape'
      BY <1>1, <2>1 DEF LifeInv, LoaderShape, Shape
    <2>3. step \in 19 .. 23
      BY <1>3 DEF LifeInv, LoaderShape
    <2>4. Passed = {x \in ProbeNames : ProbeNum[x] < step} /\ Passed' = {x \in ProbeNames : ProbeNum[x] < 25}
      BY <1>3, <2>1 DEF Passed
    <2>5. Passed \subseteq Passed'
      BY <2>3, <2>4, NumRange
    <2>6. \A x \in Passed' \ Optional : x \in Passed
      BY <2>3, <2>4 DEF ProbeNames, ProbeNum, Optional, Folders
    <2>7. Order' /\ AtMost'
      BY <1>1, <1>3, <2>1, <2>5 DEF LifeInv, Order, AtMost, Sorted
    <2>8. AtLeast'
      BY <1>1, <1>3, <2>1, <2>6 DEF LifeInv, AtLeast, Undoing
    <2>9. held \cap Folders = {}
      BY <1>2, <1>3 DEF LifeInv, Sysfs
    <2>10. Sysfs'
      BY <1>1, <2>1, <2>9 DEF Sysfs
    <2>11. Runners' /\ KthreadSafe'
      BY <1>1, <1>3, <2>1 DEF LifeInv, Runners, KthreadSafe
    <2> QED BY <2>2, <2>7, <2>8, <2>10, <2>11 DEF LifeInv
  <1>4. CASE phase \in {"unprobe", "remove"}
    <2>1. held = LoadNames
      BY <1>2, <1>4 DEF LifeInv, AtMost, AtLeast
    <2>2. LoadNames \cap (Kthreads \cup {"irq", "armdata"} \cup Folders \cup Minors) = {}
      BY DEF LoadNames, Kthreads, Folders, Minors
    <2>3. irq = "none" /\ \A k \in Kthreads : kthread[k] = "none"
      BY <2>1, <2>2 DEF LifeInv, Runners
    <2>4. reader = "none"
      BY <2>1, <2>2 DEF LifeInv, Runners, Shape
    <2>5. CASE ~going
      <3>1. phase' = "loaded" /\ UNCHANGED <<step, undo, going>>
        BY <1>4, <2>5 DEF Released
      <3>2. LoaderShape' /\ Shape'
        BY <1>1, <3>1 DEF LifeInv, LoaderShape, Shape
      <3>3. Order' /\ AtMost' /\ AtLeast' /\ Sysfs'
        BY <1>1, <2>1, <3>1 DEF LifeInv, Order, AtMost, AtLeast, Sysfs, Sorted, Undoing
      <3>4. Runners' /\ KthreadSafe'
        BY <1>1, <2>1, <2>2, <2>3, <2>4, <2>5, <3>1 DEF LifeInv, Runners, KthreadSafe
      <3> QED BY <3>2, <3>3, <3>4 DEF LifeInv
    <2>6. CASE going
      <3>1. phase = "remove"
        BY <1>4, <2>6 DEF LifeInv, Runners
      <3>2. phase' = "unload" /\ undo' = axiomnet_arm_cleanup /\ UNCHANGED <<step, going>>
        BY <2>6, <3>1 DEF Released
      <3>3. going' \in BOOLEAN /\ (going' => \A f \in Files : files[f] = "closed")
        BY <3>2 DEF LifeInv, Shape, Runners
      <3> QED BY <1>1, <2>1, <2>3, <2>4, <3>2, <3>3, UnloadInv
    <2> QED BY <2>5, <2>6
  <1>5. CASE phase \in {"failload", "unload"}
    <2>1. phase' = "out" /\ going' = FALSE /\ UNCHANGED <<step, undo>>
      BY <1>5 DEF Released
    <2>2. LoaderShape'
      BY <1>1, <2>1 DEF LifeInv, LoaderShape
    <2>3. Order' /\ AtMost' /\ AtLeast' /\ Sysfs'
      BY <1>1, <1>2, <1>5, <2>1 DEF LifeInv, Order, AtMost, AtLeast, Sysfs, Sorted, Undoing
    <2>4. held' \subseteq LoadNames /\ \A f \in Files : files'[f] \notin Minors
      BY <1>1, <1>5, NoDevice
    <2>5. /\ mask' \in BOOLEAN /\ going' \in BOOLEAN /\ ~going'
          /\ files' \in [Files -> Minors \cup {"closed", "stale"}]
      BY <1>1, <2>1 DEF LifeInv, Shape
    <2>6. LoaderInv'
      BY <2>2, <2>3 DEF LoaderInv
    <2> QED BY <1>1, <1>5, <2>4, <2>5, <2>6, QuietStep
  <1> QED BY <1>1, <1>3, <1>4, <1>5 DEF Undoing

-----------------------------------------------------------------------------
(* The loading thread gives back *)

\* What a release does to the list and to the resources.
LEMMA ReleaseStep ==
  ASSUME LifeInv, Release
  PROVE  /\ Head(undo) \in ToDo /\ ~Waits(Head(undo))
         /\ undo' \in Seq(Ops) /\ Sorted(undo') /\ ToDo' = ToDo \ {Head(undo)}
         /\ \A op \in ToDo' : op \in ToDo /\ Rank[Head(undo)] < Rank[op]
         /\ held' = held \ Frees(Head(undo))
         /\ UNCHANGED <<phase, step, going, kthread, irq, rx, reader>>
  <1>1. /\ Undoing /\ undo # <<>> /\ undo' = Tail(undo) /\ ~Waits(Head(undo))
        /\ held' = held \ Frees(Head(undo))
        /\ UNCHANGED <<phase, step, going, kthread, irq, rx, reader>>
    BY DEF Release
  <1>2. undo \in Seq(Ops) /\ Sorted(undo)
    BY DEF LifeInv, LoaderShape, Order
  <1> QED BY <1>1, <1>2, SortedTail DEF ToDo

\* A release keeps the types.
LEMMA ReleaseShape == ASSUME LifeInv, Release PROVE LoaderShape' /\ Shape'
  <1>1. LoaderShape'
    BY ReleaseStep DEF LifeInv, LoaderShape
  <1>2. mask' \in BOOLEAN /\ files' \in [Files -> Minors \cup {"closed", "stale"}]
    BY DEF Release, Stale, LifeInv, Shape
  <1> QED BY <1>1, <1>2, ReleaseStep DEF LifeInv, Shape

\* A release in the error path of loading or in unloading.
LEMMA ReleaseLoad ==
  ASSUME LifeInv, Release, phase \in {"failload", "unload"}
  PROVE  LifeInv'
  <1> DEFINE h == Head(undo)
  <1>1. /\ h \in ToDo /\ ToDo' = ToDo \ {h} /\ Sorted(undo')
        /\ \A op \in ToDo' : op \in ToDo /\ Rank[h] < Rank[op]
        /\ held' = held \ Frees(h) /\ UNCHANGED <<phase, step, going, kthread, irq, rx, reader>>
    BY ReleaseStep
  <1> HIDE DEF h
  <1>2. ToDo \subseteq LoadOps
    BY DEF LifeInv, Order
  <1>3. held \subseteq {"region"} \cup Given(ToDo)
    BY DEF LifeInv, AtMost
  <1>4. held' \subseteq {"region"} \cup Given(ToDo')
    BY <1>1, <1>3 DEF Given
  <1>5. \A op \in ToDo' \ {"class_destroy"} : Untested(op) \subseteq held'
    <2> TAKE op \in ToDo' \ {"class_destroy"}
    <2>1. Untested(op) \subseteq held
      BY <1>1 DEF LifeInv, AtLeast, Undoing
    <2>2. Frees(h) \cap Untested(op) = {}
      BY <1>1, <1>2, LoadNotTwice
    <2> QED BY <1>1, <2>1, <2>2
  <1>6. Order' /\ AtMost' /\ AtLeast' /\ Sysfs'
    BY <1>1, <1>2, <1>4, <1>5 DEF Order, AtMost, AtLeast, Sysfs, Given
  <1>7. LoaderShape' /\ Shape'
    BY ReleaseShape
  <1>8. held' \subseteq LoadNames
    BY <1>1, NoDevice
  <1>9. \A f \in Files : files'[f] \notin Minors
    BY NoDevice DEF Release, Stale, Minors
  <1>10. going' => phase' \in {"remove", "unload"} /\ \A f \in Files : files'[f] = "closed"
    BY <1>1 DEF Release, Stale, LifeInv, Runners
  <1> QED BY <1>1, <1>6, <1>7, <1>8, <1>9, <1>10, QuietStep DEF LoaderInv, Shape

\* Nobody but sysfs uses what the rollback of sysfs gives back.
LEMMA RollbackAside ==
  /\ RollbackOps \subseteq DevOps
  /\ ({"sysfs"} \cup Folders) \cap (HandlerNeeds \cup Kthreads \cup {"irq", "armdata"} \cup Minors \cup LoadNames) = {}
  /\ {"sysfs"} \cup Folders \subseteq Optional
  /\ \A k \in Kthreads : ({"sysfs"} \cup Folders) \cap WorkerNeeds(k) = {}
  /\ \A s : ({"sysfs"} \cup Folders) \cap Prepares(s) = {}
  <1>1. RollbackOps \subseteq DevOps /\ {"sysfs"} \cup Folders \subseteq Optional
    BY DEF RollbackOps, DevOps, Folders, Optional
  <1>2. ({"sysfs"} \cup Folders) \cap (HandlerNeeds \cup Kthreads \cup {"irq", "armdata"} \cup Minors \cup LoadNames) = {}
    BY DEF Folders, HandlerNeeds, Kthreads, Minors, LoadNames
  <1>3. \A k \in Kthreads : ({"sysfs"} \cup Folders) \cap WorkerNeeds(k) = {}
    BY DEF Folders, Kthreads, WorkerNeeds
  <1>4. \A s : ({"sysfs"} \cup Folders) \cap Prepares(s) = {}
    BY DEF Folders, Prepares
  <1> QED BY <1>1, <1>2, <1>3, <1>4

\* A release of the device frees nothing that is listed later untested, and leaves
\* what the later ones give back.
LEMMA ReleaseDevLoader ==
  ASSUME LifeInv, Release, phase \in {"unprobe", "remove"}
  PROVE  LoaderInv'
  <1> DEFINE h == Head(undo)
  <1>1. /\ h \in ToDo /\ ToDo' = ToDo \ {h} /\ Sorted(undo')
        /\ \A op \in ToDo' : op \in ToDo /\ Rank[h] < Rank[op]
        /\ held' = held \ Frees(h) /\ UNCHANGED <<phase, step, going, kthread, irq, rx, reader>>
    BY ReleaseStep
  <1> HIDE DEF h
  <1>2. /\ ToDo \subseteq DevOps /\ ("destroy_chrdev" \in ToDo => ToDo \cap Minors = {})
        /\ ToDo \subseteq {"devres"} \/ "armdata" \in ToDo
    BY DEF LifeInv, Order
  <1>3. ToDo' \subseteq {"devres"} \/ "armdata" \in ToDo'
    <2>1. CASE h = "armdata"
      <3>1. \A op \in DevOps : Rank["armdata"] < Rank[op] => op = "devres"
        BY DEF DevOps, Rank
      <3> QED BY <1>1, <1>2, <2>1, <3>1
    <2>2. CASE h # "armdata"
      BY <1>1, <1>2, <2>2
    <2> QED BY <2>1, <2>2
  <1>4. Order'
    BY <1>1, <1>2, <1>3 DEF Order
  <1>5. held \subseteq LoadNames \cup Given(ToDo)
    BY DEF LifeInv, AtMost
  <1>6. held' \subseteq LoadNames \cup Given(ToDo')
    BY <1>1, <1>5 DEF Given
  <1>7. AtMost'
    BY <1>1, <1>6 DEF AtMost, Given
  <1>8. LoadNames \subseteq held'
    BY <1>1, <1>2, FreesLoad DEF LifeInv, AtLeast
  <1>9. \A op \in ToDo' \ {"class_destroy"} : Untested(op) \subseteq held'
    <2> TAKE op \in ToDo' \ {"class_destroy"}
    <2>1. Untested(op) \subseteq held
      BY <1>1 DEF LifeInv, AtLeast, Undoing
    <2>2. Frees(h) \cap Untested(op) = {}
      BY <1>1, <1>2, NotTwice
    <2> QED BY <1>1, <2>1, <2>2
  <1>10. AtLeast'
    BY <1>1, <1>8, <1>9 DEF AtLeast
  <1>11. Sysfs'
    <2>1. ASSUME phase = "remove", NEW d \in held' \cap Folders PROVE SysfsNeeds(d) \subseteq held'
      <3>1. d \in held /\ SysfsNeeds(d) \subseteq held
        BY <1>1, <2>1 DEF LifeInv, Sysfs
      <3>2. d \notin LoadNames
        BY RollbackAside
      <3>3. PICK op \in ToDo' : d \in Frees(op)
        BY <1>6, <3>2 DEF Given
      <3>4. op \in {d, "sysfs_uninit"} /\ op \in DevOps /\ Rank[h] < Rank[op] /\ h \in DevOps
        BY <1>1, <1>2, <3>3, FreedBy
      <3>5. Rank[op] <= Rank["sysfs_uninit"] /\ Rank[op] \in Nat /\ Rank[h] \in Nat
        BY <3>4, RankNat DEF Folders, Rank, Ops
      <3>6. ~(Rank["sysfs_uninit"] < Rank[h])
        BY <3>4, <3>5 DEF Rank
      <3>7. Frees(h) \cap SysfsNeeds(d) = {}
        BY <3>4, <3>6, FreesLate
      <3> QED BY <1>1, <3>1, <3>7
    <2> QED BY <1>1, <2>1 DEF Sysfs
  <1> QED BY <1>4, <1>7, <1>10, <1>11, ReleaseShape DEF LoaderInv

\* A release in axiom_sysfs_init.
LEMMA ReleaseRollbackLoader ==
  ASSUME LifeInv, Release, phase = "nosysfs"
  PROVE  LoaderInv'
  <1> DEFINE h == Head(undo)
  <1>1. /\ h \in ToDo /\ ToDo' = ToDo \ {h} /\ Sorted(undo')
        /\ \A op \in ToDo' : op \in ToDo /\ Rank[h] < Rank[op]
        /\ held' = held \ Frees(h) /\ UNCHANGED <<phase, step, going, kthread, irq, rx, reader>>
    BY ReleaseStep
  <1> HIDE DEF h
  <1>2. ToDo \subseteq RollbackOps
    BY DEF LifeInv, Order
  <1>3. Frees(h) \subseteq {"sysfs"} \cup Folders
    BY <1>1, <1>2, FreesLoad
  <1>4. Passed' = Passed
    BY <1>1 DEF Passed
  <1>5. Order' /\ AtMost'
    BY <1>1, <1>2, <1>4 DEF LifeInv, Order, AtMost
  <1>6. \A op \in ToDo' : Untested(op) \subseteq held'
    <2> TAKE op \in ToDo'
    <2>1. op # "class_destroy" /\ op \in DevOps /\ h \in DevOps /\ op # "destroy_chrdev"
      BY <1>1, <1>2 DEF RollbackOps, Folders, DevOps
    <2>2. Untested(op) \subseteq held
      BY <1>1, <2>1 DEF LifeInv, AtLeast, Undoing
    <2>3. Frees(h) \cap Untested(op) = {}
      BY <1>1, <2>1, NotTwice
    <2> QED BY <1>1, <2>2, <2>3
  <1>7. \A s \in Passed \ Optional : {s} \cup Prepares(s) \subseteq held'
    BY <1>1, <1>3, RollbackAside DEF LifeInv, AtLeast
  <1>8. LoadNames \subseteq held' /\ ("zone" \in held' => "bram_long" \in held')
    <2>1. "bram_long" \notin {"sysfs"} \cup Folders
      BY DEF Folders
    <2> QED BY <1>1, <1>3, <2>1, RollbackAside DEF LifeInv, AtLeast
  <1>9. AtLeast'
    BY <1>1, <1>4, <1>6, <1>7, <1>8 DEF AtLeast
  <1>10. Sysfs'
    <2>1. h \in held' => h \notin Folders
      BY <1>1, FreesIs DEF Folders, SingleOps
    <2> QED BY <1>1, <2>1 DEF LifeInv, Sysfs
  <1> QED BY <1>5, <1>9, <1>10, ReleaseShape DEF LoaderInv

\* A release waits for whoever it ends, and comes after that end when it frees what
\* he uses.
LEMMA ReleaseOthers ==
  ASSUME LifeInv, Release, phase \in {"unprobe", "remove", "nosysfs"}, LoaderInv'
  PROVE  Runners' /\ KthreadSafe'
  <1> DEFINE h == Head(undo)
  <1>1. /\ h \in ToDo /\ ToDo' = ToDo \ {h} /\ ~Waits(h)
        /\ \A op \in ToDo' : op \in ToDo /\ Rank[h] < Rank[op]
        /\ held' = held \ Frees(h) /\ UNCHANGED <<phase, step, going, kthread, irq, rx, reader>>
    BY ReleaseStep
  <1>2. /\ mask' => mask
        /\ files' = [f \in Files |-> IF h = "armdata" /\ files[f] # "closed" THEN "stale" ELSE files[f]]
    BY DEF Release, Stale, LifeInv, Shape
  <1> HIDE DEF h
  <1>3. ToDo \subseteq DevOps /\ h \in DevOps /\ (phase = "nosysfs" => Frees(h) \subseteq {"sysfs"} \cup Folders)
    BY <1>1, RollbackAside, FreesLoad DEF LifeInv, Order
  <1>4. \A op \in DevOps : Rank[op] \in Nat
    BY RankNat DEF Ops
  \* Whoever is still there is stopped before what it uses is freed.
  <1>5. ASSUME NEW x \in Kthreads \cup {"irq"}, x \in held', NEW S,
               \A y \in Frees(h) : y \in S => Rank[x] < Rank[h],
               ({"sysfs"} \cup Folders) \cap S = {}, S \subseteq held
        PROVE  S \subseteq held'
    <2>1. CASE phase = "nosysfs"
      BY <1>1, <1>3, <1>5, <2>1
    <2>2. CASE phase \in {"unprobe", "remove"}
      <3>1. held' \subseteq LoadNames \cup Given(ToDo')
        BY <1>1, <2>2 DEF LoaderInv, AtMost, Given
      <3>2. x \notin LoadNames
        BY DEF Kthreads, LoadNames
      <3>3. PICK op \in ToDo' : x \in Frees(op)
        BY <1>5, <3>1, <3>2 DEF Given
      <3>4. op = x /\ op \in DevOps /\ Rank[h] < Rank[x]
        BY <1>1, <1>3, <3>3, FreedBy
      <3>5. ~(Rank[x] < Rank[h])
        BY <1>3, <1>4, <3>4
      <3> QED BY <1>1, <1>5, <3>5
    <2> QED BY <2>1, <2>2
  <1>6. ASSUME NEW k \in Kthreads, kthread'[k] # "none"
        PROVE  k \in held' /\ WorkerNeeds(k) \subseteq held'
    <2>1. k \in held /\ WorkerNeeds(k) \subseteq held /\ h # k
      BY <1>1, <1>6 DEF LifeInv, Runners, KthreadSafe, Waits
    <2>2. k \in held'
      BY <1>1, <1>3, <2>1, FreedBy
    <2>3. \A y \in Frees(h) : y \in WorkerNeeds(k) => Rank[k] < Rank[h]
      BY <1>3, FreesLate
    <2>4. ({"sysfs"} \cup Folders) \cap WorkerNeeds(k) = {}
      BY RollbackAside
    <2> QED BY <1>5, <2>1, <2>2, <2>3, <2>4
  <1>7. irq' # "none" => "irq" \in held'
    BY <1>1, <1>3, FreedBy DEF LifeInv, Runners, Waits
  <1>8. ASSUME "irq" \in held', mask' \/ irq' = "own" \/ phase' \in {"bound", "remove"}
        PROVE  HandlerNeeds \subseteq held'
    <2>1. HandlerNeeds \subseteq held
      BY <1>1, <1>2, <1>8 DEF LifeInv, Runners
    <2>2. \A y \in Frees(h) : y \in HandlerNeeds => Rank["irq"] < Rank[h]
      BY <1>3, FreesLate
    <2>3. ({"sysfs"} \cup Folders) \cap HandlerNeeds = {}
      BY RollbackAside
    <2> QED BY <1>5, <1>8, <2>1, <2>2, <2>3
  <1>9. reader' # "none" => reader' \in held'
    <2> SUFFICES ASSUME reader # "none" PROVE reader \in held'
      BY <1>1
    <2>1. reader \in Folders /\ reader \in held /\ h # reader /\ h # "sysfs_uninit"
      BY <1>1 DEF LifeInv, Shape, Runners, Waits
    <2> QED BY <1>1, <1>3, <2>1, FreedBy
  <1>10. held' \cap Minors # {} => "armdata" \in held'
    <2> SUFFICES ASSUME NEW m \in Minors, m \in held' PROVE "armdata" \in held'
      OBVIOUS
    <2>1. CASE phase = "nosysfs"
      BY <1>1, <1>3, <2>1, RollbackAside DEF LifeInv, Runners
    <2>2. CASE phase \in {"unprobe", "remove"}
      <3>1. held' \subseteq LoadNames \cup Given(ToDo')
        BY <1>1, <2>2 DEF LoaderInv, AtMost, Given
      <3>2. m \notin LoadNames
        BY DEF Minors, LoadNames
      <3>3. PICK op \in ToDo' : m \in Frees(op)
        BY <3>1, <3>2 DEF Given
      <3>4. op \in {m, "destroy_chrdev"}
        BY <1>1, <1>3, <3>3, FreedBy
      <3>5. op # "devres"
        BY <3>4 DEF Minors
      <3>6. "armdata" \in ToDo'
        BY <1>1, <2>2, <3>3, <3>5 DEF LoaderInv, Order
      <3>7. Untested("armdata") \subseteq held'
        BY <1>1, <2>2, <3>6 DEF LoaderInv, AtLeast, Undoing
      <3> QED BY <3>7, UntestedIs
    <2> QED BY <2>1, <2>2
  <1>11. \A f \in Files : files'[f] \in Minors => "armdata" \in held'
    <2> TAKE f \in Files
    <2>1. HAVE files'[f] \in Minors
    <2>2. h # "armdata" /\ files[f] \in Minors
      BY <1>2, <2>1 DEF Minors
    <2> QED BY <1>1, <1>3, <2>2, FreedBy DEF LifeInv, Runners
  <1>12. going' => phase' \in {"remove", "unload"} /\ \A f \in Files : files'[f] = "closed"
    BY <1>1, <1>2 DEF LifeInv, Runners
  <1>13. KthreadSafe'
    BY <1>6 DEF KthreadSafe
  <1>14. Runners'
    BY <1>6, <1>7, <1>8, <1>9, <1>10, <1>11, <1>12 DEF Runners
  <1> QED BY <1>13, <1>14

\* A release.
LEMMA GiveBackInv == ASSUME LifeInv, Release PROVE LifeInv'
  <1>1. CASE phase \in {"failload", "unload"}
    BY <1>1, ReleaseLoad
  <1>2. CASE phase \in {"unprobe", "remove", "nosysfs"}
    <2>1. LoaderInv'
      BY <1>2, ReleaseDevLoader, ReleaseRollbackLoader
    <2>2. Runners' /\ KthreadSafe'
      BY <1>2, <2>1, ReleaseOthers
    <2> QED BY <2>1, <2>2, ReleaseShape DEF LifeInv, LoaderInv
  <1> QED BY <1>1, <1>2 DEF Release, Undoing

-----------------------------------------------------------------------------
(* The theorems *)

\* Nothing happens.
LEMMA LifeStutter == LifeInv /\ UNCHANGED life_vars => LifeInv'
  <1> SUFFICES ASSUME LifeInv, UNCHANGED life_vars PROVE LifeInv'
    OBVIOUS
  <1>1. LoaderInv'
    BY LoaderSame DEF LifeInv, LoaderInv, life_vars
  <1>2. Shape' /\ Runners' /\ KthreadSafe'
    BY DEF LifeInv, Shape, Runners, KthreadSafe, life_vars, loader
  <1> QED BY <1>1, <1>2 DEF LifeInv, LoaderInv

\* The loading thread acquires.
LEMMA AcquisitionInv == LifeInv /\ Acquisition => LifeInv'
  <1> SUFFICES ASSUME LifeInv, Acquisition PROVE LifeInv'
    OBVIOUS
  <1>1. CASE phase = "load" /\ LoadStep(LoadSteps[step])
    BY <1>1, LoadInv
  <1>2. CASE phase = "probe" /\ MapStep(ProbeSteps[step])
    BY <1>2, MapInv
  <1>3. CASE phase = "probe" /\ TakeStep(ProbeSteps[step])
    BY <1>3, TakeInv
  <1>4. CASE phase = "probe" /\ FolderStep(ProbeSteps[step])
    BY <1>4, FolderInv
  <1>5. CASE phase = "probe" /\ axiom_kthread_init(ProbeSteps[step])
    BY <1>5, StartInv
  <1>6. CASE AllocApi
    BY <1>6, AllocInv
  <1>7. CASE RequestIrq
    BY <1>7, RequestInv
  <1>8. CASE axiomnet_rdma_init
    BY <1>8, ZoneInv
  <1>9. CASE axiom_hw_enable_irq
    BY <1>9, EnableInv
  <1> QED BY <1>1, <1>2, <1>3, <1>4, <1>5, <1>6, <1>7, <1>8, <1>9 DEF Acquisition

\* Every step keeps the invariant.
LEMMA LifeKept == LifeInv /\ [LifeNext]_life_vars => LifeInv'
  <1> SUFFICES ASSUME LifeInv, [LifeNext]_life_vars PROVE LifeInv'
    OBVIOUS
  <1>1. CASE Loader
    BY <1>1, AcquisitionInv, GiveBackInv, ReleasedInv DEF Loader
  <1>2. CASE Insmod \/ Rmmod \/ Unbind \/ Bind
    BY <1>2, InsmodInv, RmmodInv, UnbindInv, GiveInv
  <1>3. CASE Network \/ IrqEnter \/ IrqReturn
    BY <1>3, NetworkInv, IrqInv
  <1>4. CASE \E k \in Kthreads : axkt_wake(k) \/ axkt_work(k) \/ axkt_exit(k)
    BY <1>4, KthreadInv
  <1>5. CASE (\E d \in Folders : SysfsEnter(d)) \/ SysfsReturn
    BY <1>5, SysfsInv
  <1>6. CASE (\E f \in Files, d \in Minors : Open(f, d)) \/ (\E f \in Files : Close(f))
    BY <1>6, FileInv
  <1>7. CASE UNCHANGED life_vars
    BY <1>7, LifeStutter
  <1> QED BY <1>1, <1>2, <1>3, <1>4, <1>5, <1>6, <1>7 DEF LifeNext

\* The invariant holds in every behaviour.
LEMMA LifeAlways == LifeSpec => []LifeInv
  <1>1. LifeInit => LifeInv
    BY LifeStarts
  <1>2. LifeInv /\ [LifeNext]_life_vars => LifeInv'
    BY LifeKept
  <1> QED BY <1>1, <1>2, PTL DEF LifeSpec

\* What the loading thread holds and has to do are names of the code's resources and
\* releases, and its step is one of the list it works on.
THEOREM LifeTypeCorrect == LifeSpec => []LifeTypeOK
  <1>1. LifeInv => LifeTypeOK
    <2> SUFFICES ASSUME LifeInv PROVE LifeTypeOK
      OBVIOUS
    <2>1. DOMAIN LoadSteps = 1 .. 7 /\ DOMAIN ProbeSteps = 1 .. 38
      BY LoadNumbered, ProbeNumbered
    <2> QED BY <2>1, LoadRange, ProbeRange DEF LifeInv, LoaderShape, Shape, LifeTypeOK
  <1> QED BY <1>1, LifeAlways, PTL

\* axiomnet_arm_irq, when it runs for the NIC, and outside a half-done probe whenever
\* it runs, finds the structures, wait queues and registers it uses, whatever steps of
\* the probe fail.
THEOREM HandlerAlwaysSafe == LifeSpec => []HandlerSafe
  <1>1. LifeInv => HandlerSafe
    <2> SUFFICES ASSUME LifeInv, irq # "none", ~(HandlerNeeds \subseteq held)
                 PROVE  irq = "shared" /\ HalfProbed
      BY DEF HandlerSafe
    <2>1. phase \notin {"out", "load", "loaded", "failload", "unload"}
      BY NoDevice
    <2>2. phase \notin {"bound", "remove"} /\ irq # "own"
      BY DEF LifeInv, Runners
    <2> QED BY <2>1, <2>2 DEF HalfProbed, LifeInv, LoaderShape, Shape
  <1> QED BY <1>1, LifeAlways, PTL

\* From axiom_kthread_init to the end of kthread_stop a kthread finds its rings, FIFOs
\* and the API object, whatever fails and on every error path.
THEOREM KthreadsAlwaysSafe == LifeSpec => []KthreadSafe
  <1>1. LifeInv => KthreadSafe
    BY DEF LifeInv
  <1> QED BY <1>1, LifeAlways, PTL

\* Open files and sysfs calls find what they use once the probe is through, but for files
\* under which the device is taken away; unloading never meets an open file.
THEOREM ClientsAlwaysSafe == LifeSpec => []ClientsSafe
  <1>1. LifeInv => ClientsSafe
    <2> SUFFICES ASSUME LifeInv PROVE ClientsSafe
      OBVIOUS
    <2>1. ASSUME NEW f \in Files, files[f] \in Minors, ~(UserNeeds(files[f]) \ Unchecked \subseteq held)
          PROVE  HalfProbed \/ (phase = "remove" /\ ~going)
      <3>1. phase \notin {"out", "load", "loaded", "failload", "unload"}
        BY <2>1, NoDevice
      <3>2. phase # "bound"
        BY <2>1, BoundHolds
      <3>3. going => files[f] = "closed"
        BY DEF LifeInv, Runners
      <3>4. ~going
        BY <2>1, <3>3 DEF Minors
      <3> QED BY <3>1, <3>2, <3>4 DEF HalfProbed, LifeInv, LoaderShape
    <2>2. ASSUME reader # "none", ~(SysfsNeeds(reader) \subseteq held)
          PROVE  HalfProbed
      <3>1. phase \notin {"out", "load", "loaded", "failload", "unload"}
        BY <2>2, NoDevice
      <3>2. reader \in Folders \cap held
        BY <2>2 DEF LifeInv, Shape, Runners
      <3>3. phase # "bound"
        BY <2>2, <3>2, BoundHolds
      <3>4. phase # "remove"
        BY <2>2, <3>2 DEF LifeInv, Sysfs
      <3> QED BY <3>1, <3>3, <3>4 DEF HalfProbed, LifeInv, LoaderShape
    <2>3. going => \A f \in Files : files[f] = "closed"
      BY DEF LifeInv, Runners
    <2> QED BY <2>1, <2>2, <2>3 DEF ClientsSafe
  <1> QED BY <1>1, LifeAlways, PTL

\* Every error path and the removal give back exactly what was taken: nothing but the
\* region of device numbers leaks, and nothing but the class is given back twice.
THEOREM AlwaysBalanced == LifeSpec => []Balanced
  <1>1. LifeInv => NothingLeaked
    <2> SUFFICES ASSUME LifeInv PROVE NothingLeaked
      OBVIOUS
    <2>1. phase = "out" => held \subseteq {"region"} /\ reader = "none"
      BY NoDevice DEF LifeInv, AtMost
    <2>2. phase = "loaded" => held = Range(LoadSteps)
      BY LoadRange DEF LifeInv, AtMost, AtLeast
    <2>3. phase \in {"out", "loaded"} => irq = "none" /\ \A k \in Kthreads : kthread[k] = "none"
      BY NoDevice
    <2>4. ASSUME phase = "bound"
          PROVE  Range(LoadSteps \o ProbeSteps)
                   \ (Unchecked \cup Folders \cup {"gpio", "sysfs", "axsys", "mask"}) \subseteq held
      <3>1. Range(LoadSteps \o ProbeSteps) = LoadNames \cup ProbeNames
        <4>1. LoadSteps \in Seq(LoadNames \cup ProbeNames) /\ ProbeSteps \in Seq(LoadNames \cup ProbeNames)
          BY LoadStepsNumbered, ProbeStepsNumbered, SeqMonotonic DEF Numbered
        <4> QED BY <4>1, LoadRange, ProbeRange, RangeConcatenation
      <3> QED BY <2>4, <3>1, BoundHolds DEF Optional, Unchecked
    <2> QED BY <2>1, <2>2, <2>3, <2>4 DEF NothingLeaked
  <1>2. LifeInv => ReleasedOnce
    <2> SUFFICES ASSUME LifeInv, Undoing, undo # <<>>, Head(undo) # "class_destroy"
                 PROVE  Untested(Head(undo)) \subseteq held
      BY DEF ReleasedOnce
    <2>1. Head(undo) \in ToDo
      BY SortedTail DEF LifeInv, LoaderShape, Order, ToDo
    <2> QED BY <2>1 DEF LifeInv, AtLeast
  <1> QED BY <1>1, <1>2, LifeAlways, PTL DEF Balanced

=============================================================================
