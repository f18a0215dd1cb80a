----------------------------- MODULE Lifecycle ------------------------------
(***************************************************************************)
(* Loading, probing, removing and unloading the driver:                    *)
(* axiom_netdev_arm64.c, the init functions and the character devices of   *)
(* axiom_netdev_common.c, axiom_netdev_sysfs.c and the start and stop of   *)
(* the kthreads in axiom_kthread.c.                                        *)
(*                                                                         *)
(* One thread acquires resources one by one; where a step fails, the code  *)
(* jumps to a label and gives back what it holds, and the removal gives    *)
(* back everything.  Meanwhile the interrupt handler, the kthreads that    *)
(* exist already, readers of sysfs files and processes with an open device *)
(* run, and use what that thread has made or takes away.                   *)
(*                                                                         *)
(* Resources are named by what they are for.  Fields and wait queues       *)
(* inside struct axiomnet_armdata are resources too, which the kfree of    *)
(* that structure gives back.                                              *)
(***************************************************************************)
EXTENDS Naturals, Sequences, Functions

CONSTANTS
  Files,        \* open files of processes
  MayFail       \* steps that may fail

Kthreads == {"kthread_raw", "kthread_rdma", "kthread_wtd"}
Minors == {"dev", "dev_raw", "dev_long", "dev_rdma"}
Folders == {"param", "info", "sys_raw", "sys_rdma", "sys_wtd"}

VARIABLES
  phase,        \* what the loading thread does
  step,         \* its next step in LoadSteps or ProbeSteps
  undo,         \* releases that are still to be done
  going,        \* the module is being unloaded: no file can be opened
  held,         \* resources acquired and not given back
  kthread,      \* state of each kthread: none, wait, work
  mask,         \* are the NIC's interrupts enabled (MSKIRQ)?
  irq,          \* handler: none, or runs for the NIC (own) or for another device
  rx,           \* kthreads with something to read in their RX FIFO
  reader,       \* the sysfs folder with a call in progress, or none
  files         \* each file: closed, the minor it has open, or stale

loader == <<phase, step, undo, going, held, mask>>
life_vars == <<loader, kthread, irq, rx, reader, files>>
-----------------------------------------------------------------------------
(* The order in which the code acquires *)

axiomnet_init_chrdev == <<"region", "cdev", "cdev_raw", "cdev_long", "cdev_rdma", "class">>
LoadSteps == axiomnet_init_chrdev \o <<"driver">>

axiomnet_axi_init ==
  <<"registers", "gpio", "fifo_raw_tx", "fifo_raw_rx", "fifo_rdma_tx",
    "fifo_rdma_rx", "bram_long", "bram_routing">>
axiomnet_alloc_chrdev == <<"dev", "dev_raw", "dev_long", "dev_rdma", "chrdev">>
axiom_sysfs_init == <<"sysfs", "param", "info", "sys_raw", "sys_rdma", "sys_wtd", "axsys">>
axiomnet_rdma_tx_hwring_init == <<"rdma_eviq", "rdma_desc", "ltx_eviq", "ltx_desc">>
axiomnet_raw_rx_hwring_init == <<"raw_eviq", "raw_desc">>
axiomnet_rdma_rx_hwring_init == <<"lrx_eviq", "lrx_desc">>

\* For a mutant: the interrupts are enabled before the kthreads exist.
EarlyIrqProbe ==
  <<"drvdata">> \o axiomnet_alloc_chrdev \o axiom_sysfs_init \o <<"raw_tx">>
  \o axiomnet_rdma_tx_hwring_init \o axiomnet_raw_rx_hwring_init
  \o axiomnet_rdma_rx_hwring_init
  \o <<"mask", "kthread_raw", "kthread_rdma", "zone", "kthread_wtd">>

axiomnet_probe ==
  <<"drvdata">> \o axiomnet_alloc_chrdev \o axiom_sysfs_init \o <<"raw_tx">>
  \o axiomnet_rdma_tx_hwring_init \o axiomnet_raw_rx_hwring_init
  \o axiomnet_rdma_rx_hwring_init
  \o <<"kthread_raw", "kthread_rdma", "zone", "mask", "kthread_wtd">>

ProbeSteps ==
  <<"armdata">> \o axiomnet_axi_init \o <<"dev_api", "irq">> \o axiomnet_probe

\* Wait queues, mutexes and pointers that a step sets up in armdata whether it then
\* fails or not.
Prepares(s) ==
  CASE s = "rdma_eviq"    -> {"rdma_port"}
    [] s = "ltx_eviq"     -> {"long_port"}
    [] s = "raw_eviq"     -> {"raw_ports"}
    [] s = "lrx_eviq"     -> {"long_ports"}
    [] s = "kthread_raw"  -> {"wq_raw"}
    [] s = "kthread_rdma" -> {"wq_rdma"}
    [] s = "kthread_wtd"  -> {"wq_wtd"}
    [] OTHER              -> {}

Embedded == {"drvdata", "raw_tx", "axsys", "rdma_port", "long_port", "raw_ports",
             "long_ports", "wq_raw", "wq_rdma", "wq_wtd"}
-----------------------------------------------------------------------------
(* The order in which it gives back *)

Pos(s, op) == CHOOSE i \in DOMAIN s : s[i] = op
From(s, op) == SubSeq(s, Pos(s, op), Len(s))
After(s, op) == SubSeq(s, Pos(s, op) + 1, Len(s))

axiomnet_cleanup_chrdev ==
  <<"class_unregister", "class_destroy", "cdev_rdma", "cdev_long", "cdev_raw",
    "cdev", "region">>
\* platform_driver_unregister, after the devices are removed, and axiomnet_cleanup.
axiomnet_arm_cleanup == <<"driver">> \o axiomnet_cleanup_chrdev

axiom_sysfs_rollback == <<"sys_wtd", "sys_rdma", "sys_raw", "info", "param", "root">>
\* The labels of axiomnet_arm_probe; the mappings are the driver core's to release.
arm_probe_labels == <<"irq", "dev_api", "armdata", "devres">>
\* The labels of axiomnet_probe.
probe_labels ==
  <<"mask", "zone", "kthread_rdma", "kthread_raw", "rdma_rx_ring", "raw_rx_ring",
    "rdma_tx_ring", "sysfs_uninit", "destroy_chrdev">>

\* For a mutant: the rings go before the kthreads that use them.
RingsFirstRemove ==
  <<"mask", "zone", "rdma_rx_ring", "raw_rx_ring", "rdma_tx_ring", "kthread_wtd",
    "kthread_rdma", "kthread_raw", "sysfs_uninit", "destroy_chrdev">>

axiomnet_remove ==
  <<"mask", "zone", "kthread_wtd", "kthread_rdma", "kthread_raw", "rdma_rx_ring",
    "raw_rx_ring", "rdma_tx_ring", "sysfs_uninit", "destroy_chrdev">>
axiomnet_arm_remove == axiomnet_remove \o <<"irq", "dev_api", "armdata", "devres">>

\* What the failure of a step of loading leads to.
LoadError(s) ==
  CASE s = "region"    -> <<>>
    [] s = "cdev"      -> <<"region">>
    [] s = "cdev_raw"  -> From(axiomnet_cleanup_chrdev, "cdev")
    [] s = "cdev_long" -> From(axiomnet_cleanup_chrdev, "cdev_raw")
    [] s = "cdev_rdma" -> From(axiomnet_cleanup_chrdev, "cdev_long")
    [] s = "class"     -> From(axiomnet_cleanup_chrdev, "cdev_rdma")
    [] s = "driver"    -> axiomnet_cleanup_chrdev

\* For a mutant: the label free_rdma_queue of axiomnet_rdma_tx_hwring_init is missed.
InnerErrorLeaks(s) ==
  CASE s = "dev_raw"   -> <<"dev">>
    [] s = "dev_long"  -> <<"dev_raw", "dev">>
    [] s = "dev_rdma"  -> <<"dev_long", "dev_raw", "dev">>
    [] s \in Folders   -> From(axiom_sysfs_rollback, s)
    [] s = "rdma_desc" -> <<"rdma_eviq">>
    [] s = "ltx_desc"  -> <<"ltx_eviq">>
    [] s = "raw_desc"  -> <<"raw_eviq">>
    [] s = "lrx_desc"  -> <<"lrx_eviq">>
    [] OTHER           -> <<>>

\* What the function that fails gives back itself.
InnerError(s) ==
  CASE s = "dev_raw"   -> <<"dev">>
    [] s = "dev_long"  -> <<"dev_raw", "dev">>
    [] s = "dev_rdma"  -> <<"dev_long", "dev_raw", "dev">>
    [] s \in Folders   -> From(axiom_sysfs_rollback, s)
    [] s = "rdma_desc" -> <<"rdma_eviq">>
    [] s = "ltx_eviq"  -> <<"rdma_desc", "rdma_eviq">>
    [] s = "ltx_desc"  -> <<"ltx_eviq", "rdma_desc", "rdma_eviq">>
    [] s = "raw_desc"  -> <<"raw_eviq">>
    [] s = "lrx_desc"  -> <<"lrx_eviq">>
    [] OTHER           -> <<>>

\* The label that axiomnet_probe jumps to.
ProbeLabel(s) ==
  CASE s \in {"sysfs"} \cup Folders                   -> "destroy_chrdev"
    [] s \in Range(axiomnet_rdma_tx_hwring_init)      -> "sysfs_uninit"
    [] s \in Range(axiomnet_raw_rx_hwring_init)       -> "rdma_tx_ring"
    [] s \in Range(axiomnet_rdma_rx_hwring_init)      -> "raw_rx_ring"
    [] s = "kthread_raw"                              -> "rdma_rx_ring"
    [] s = "kthread_rdma"                             -> "kthread_raw"
    [] s = "zone"                                     -> "kthread_rdma"
    [] s = "kthread_wtd"                              -> "mask"

\* What the failure of a step of probing leads to.
ProbeError(s) ==
  CASE s = "armdata"                     -> <<>>
    [] s \in Range(axiomnet_axi_init)    -> From(arm_probe_labels, "armdata")
    [] s = "irq"                         -> From(arm_probe_labels, "dev_api")
    [] s \in Minors                      -> InnerError(s) \o arm_probe_labels
    [] OTHER -> InnerError(s) \o From(probe_labels, ProbeLabel(s)) \o arm_probe_labels

\* What a release gives back.  The region of device numbers stays:
\* unregister_chrdev_region is called with AXIOMNET_DEV_MINOR, 0, for the count.
Frees(op) ==
  CASE op = "armdata"          -> {"armdata"} \cup Embedded
    [] op = "devres"           -> Range(axiomnet_axi_init)
    [] op = "rdma_tx_ring"     -> Range(axiomnet_rdma_tx_hwring_init)
    [] op = "raw_rx_ring"      -> Range(axiomnet_raw_rx_hwring_init)
    [] op = "rdma_rx_ring"     -> Range(axiomnet_rdma_rx_hwring_init)
    [] op = "sysfs_uninit"     -> {"sysfs"} \cup Folders
    [] op = "root"             -> {"sysfs"}
    [] op = "destroy_chrdev"   -> Minors \cup {"chrdev"}
    [] op = "zone"             -> {"zone", "long_map"}
    [] op \in {"class_unregister", "class_destroy"} -> {"class"}
    [] op \in {"region", "mask"} -> {}
    [] OTHER                   -> {op}

\* What it gives back without a test whether it is there.
Untested(op) ==
  CASE op \in {"devres", "rdma_tx_ring", "raw_rx_ring", "rdma_rx_ring", "sysfs_uninit"}
              \cup Kthreads -> {}
    [] op = "armdata"       -> {"armdata"}
    [] op = "zone"          -> {"zone"}
    [] OTHER                -> Frees(op)
-----------------------------------------------------------------------------
LifeInit ==
  /\ phase = "out" /\ step = 1 /\ undo = <<>> /\ going = FALSE
  /\ held = {}
  /\ mask \in BOOLEAN
  /\ kthread = [k \in Kthreads |-> "none"]
  /\ irq = "none" /\ reader = "none"
  /\ rx = {}
  /\ files = [f \in Files |-> "closed"]

Loading(s) == phase = "load" /\ s = LoadSteps[step]
Probing(s) == phase = "probe" /\ s = ProbeSteps[step]
Undoing == phase \in {"failload", "unprobe", "nosysfs", "remove", "unload"}

\* The last step of loading finds the device and probes it at once.
Forward ==
  CASE phase = "load" /\ step = Len(LoadSteps)   -> phase' = "probe" /\ step' = 1
    [] phase = "probe" /\ step = Len(ProbeSteps) -> phase' = "bound" /\ step' = 1
    [] OTHER -> step' = step + 1 /\ UNCHANGED phase

Acquire(S) == held' = held \cup S /\ Forward /\ UNCHANGED undo

Fail(p, error) == phase' = p /\ undo' = error /\ step' = 1
-----------------------------------------------------------------------------
(* The loading thread acquires *)

\* insmod: axiomnet_arm_init and axiomnet_init.
Insmod ==
  /\ phase = "out" /\ phase' = "load" /\ step' = 1
  /\ UNCHANGED <<undo, going, held, mask, kthread, irq, rx, reader, files>>

LoadStep(s) ==
  /\ Loading(s)
  /\ \/ Acquire({s})
     \/ s \in MayFail /\ Fail("failload", LoadError(s)) /\ UNCHANGED held
  /\ UNCHANGED <<going, mask, kthread, irq, rx, reader, files>>

\* axiomnet_reg_init, axiomnet_gpio_init, axiomnet_fifo_init, axiomnet_bram_init: the
\* registers and FIFOs are tested.  gpio is optional, and the test of the BRAMs,
\* err & mandatory, is false for every error that can occur: they are even.
MapStep(s) ==
  /\ Probing(s) /\ s \in Range(axiomnet_axi_init)
  /\ \/ Acquire({s})
     \/ /\ s \in MayFail
        /\ IF s \in {"gpio", "bram_long", "bram_routing"}
             THEN Acquire({})
             ELSE Fail("unprobe", ProbeError(s)) /\ UNCHANGED held
  /\ rx' = CASE s = "fifo_raw_rx"  -> rx \ {"kthread_raw"}
             [] s = "fifo_rdma_rx" -> rx \ {"kthread_rdma"}
             [] OTHER              -> rx
  /\ UNCHANGED <<going, mask, kthread, irq, reader, files>>

\* axiom_hw_dev_alloc writes to what vmalloc returns before anybody tests it.
AllocApi ==
  /\ Probing("dev_api")
  /\ \/ Acquire({"dev_api"})
     \/ "dev_api" \in MayFail /\ phase' = "oops" /\ UNCHANGED <<step, undo, held>>
  /\ UNCHANGED <<going, mask, kthread, irq, rx, reader, files>>

\* The interrupts of the NIC are disabled, and the handler registered.
RequestIrq ==
  /\ Probing("irq")
  /\ \/ Acquire({"irq"})
     \/ "irq" \in MayFail /\ Fail("unprobe", ProbeError("irq")) /\ UNCHANGED held
  /\ mask' = FALSE
  /\ UNCHANGED <<going, kthread, irq, rx, reader, files>>

\* Steps that only take one resource, and may fail or not.  "drvdata" is taken although
\* a call of axiom_hw_check_version follows that could return early: it reads a register
\* and always returns AXIOM_RET_OK.
TakeStep(s) ==
  /\ Probing(s)
  /\ s \in {"armdata", "drvdata", "chrdev", "sysfs", "axsys", "raw_tx"} \cup Minors
           \cup Range(axiomnet_rdma_tx_hwring_init)
           \cup Range(axiomnet_raw_rx_hwring_init)
           \cup Range(axiomnet_rdma_rx_hwring_init)
  /\ \/ Acquire({s} \cup Prepares(s))
     \/ /\ s \in MayFail \ {"drvdata", "chrdev", "axsys", "raw_tx"}
        /\ held' = held \cup Prepares(s)
        /\ Fail("unprobe", ProbeError(s))
  /\ UNCHANGED <<going, mask, kthread, irq, rx, reader, files>>

\* A folder of sysfs.  Without its attributes the probe fails; without the folder
\* itself axiom_sysfs_init gives back the others and returns 0.
FolderStep(s) ==
  /\ Probing(s) /\ s \in Folders
  /\ \/ Acquire({s})
     \/ s \in MayFail /\ held' = held \cup {s} /\ Fail("unprobe", ProbeError(s))
     \/ /\ s \in MayFail /\ phase' = "nosysfs" /\ undo' = After(axiom_sysfs_rollback, s)
        /\ UNCHANGED <<step, held>>
  /\ UNCHANGED <<going, mask, kthread, irq, rx, reader, files>>

\* axiom_kthread_init: the kthread runs as soon as it exists.
axiom_kthread_init(k) ==
  /\ Probing(k) /\ k \in Kthreads
  /\ \/ Acquire({k} \cup Prepares(k)) /\ kthread' = [kthread EXCEPT ![k] = "wait"]
     \/ /\ k \in MayFail /\ held' = held \cup Prepares(k)
        /\ Fail("unprobe", ProbeError(k)) /\ UNCHANGED kthread
  /\ UNCHANGED <<going, mask, irq, rx, reader, files>>

\* The result of ioremap is not tested.  The buffers are then given to the NIC
\* through the BRAM, which may not be mapped.
axiomnet_rdma_init ==
  /\ Probing("zone")
  /\ \/ /\ "bram_long" \in held
        /\ \/ Acquire({"zone", "long_map"})
           \/ "long_map" \in MayFail /\ Acquire({"zone"})
     \/ "bram_long" \notin held /\ phase' = "oops" /\ UNCHANGED <<step, undo, held>>
     \/ "zone" \in MayFail /\ Fail("unprobe", ProbeError("zone")) /\ UNCHANGED held
  /\ UNCHANGED <<going, mask, kthread, irq, rx, reader, files>>

axiom_hw_enable_irq ==
  /\ Probing("mask") /\ mask' = TRUE
  /\ Forward
  /\ UNCHANGED <<undo, going, held, kthread, irq, rx, reader, files>>
-----------------------------------------------------------------------------
(* The loading thread gives back *)

\* kthread_stop and free_irq wait, and so does the removal of a sysfs folder.
Waits(op) ==
  \/ op \in Kthreads /\ kthread[op] # "none"
  \/ op = "irq" /\ irq # "none"
  \/ op = reader
  \/ op = "sysfs_uninit" /\ reader # "none"

\* After the kfree of armdata an open file keeps a pointer into it.
Stale(op) ==
  files' = [f \in Files |-> IF op = "armdata" /\ files[f] # "closed"
                              THEN "stale" ELSE files[f]]

Release ==
  /\ Undoing /\ undo # <<>>
  /\ ~Waits(Head(undo))
  /\ undo' = Tail(undo)
  /\ held' = held \ Frees(Head(undo))
  /\ mask' = (mask /\ Head(undo) # "mask")
  /\ Stale(Head(undo))
  /\ UNCHANGED <<phase, step, going, kthread, irq, rx, reader>>

Released ==
  /\ Undoing /\ undo = <<>>
  /\ CASE phase = "nosysfs" ->
            /\ phase' = "probe" /\ step' = Pos(ProbeSteps, "raw_tx")
            /\ UNCHANGED <<undo, going>>
       [] phase = "unprobe" \/ (phase = "remove" /\ ~going) ->
            phase' = "loaded" /\ UNCHANGED <<step, undo, going>>
       [] phase = "remove" /\ going ->
            phase' = "unload" /\ undo' = axiomnet_arm_cleanup /\ UNCHANGED <<step, going>>
       [] phase \in {"failload", "unload"} ->
            phase' = "out" /\ going' = FALSE /\ UNCHANGED <<step, undo>>
  /\ UNCHANGED <<held, mask, kthread, irq, rx, reader, files>>

\* For a mutant: the file operations have no owner.
RmmodAnyway ==
  /\ phase \in {"bound", "loaded"}
  /\ going' = TRUE
  /\ \/ phase = "bound" /\ phase' = "remove" /\ undo' = axiomnet_arm_remove
     \/ phase = "loaded" /\ phase' = "unload" /\ undo' = axiomnet_arm_cleanup
  /\ UNCHANGED <<step, held, mask, kthread, irq, rx, reader, files>>

\* rmmod: refused while a file is open, as each open holds the module (.owner).
Rmmod ==
  /\ phase \in {"bound", "loaded"}
  /\ \A f \in Files : files[f] = "closed"
  /\ going' = TRUE
  /\ \/ phase = "bound" /\ phase' = "remove" /\ undo' = axiomnet_arm_remove
     \/ phase = "loaded" /\ phase' = "unload" /\ undo' = axiomnet_arm_cleanup
  /\ UNCHANGED <<step, held, mask, kthread, irq, rx, reader, files>>

\* The device is taken from the driver, or given to it again, through sysfs: open
\* files do not prevent it.
Unbind ==
  /\ phase = "bound"
  /\ phase' = "remove" /\ undo' = axiomnet_arm_remove
  /\ UNCHANGED <<step, going, held, mask, kthread, irq, rx, reader, files>>

Bind ==
  /\ phase = "loaded"
  /\ phase' = "probe" /\ step' = 1
  /\ UNCHANGED <<undo, going, held, mask, kthread, irq, rx, reader, files>>
-----------------------------------------------------------------------------
(* Everybody else *)

\* A message arrives.
Arrive(k) ==
  /\ rx' = rx \cup {k}
  /\ UNCHANGED <<loader, kthread, irq, reader, files>>

\* The handler is called for the NIC, or because another device shares the line.
IrqEnter ==
  /\ "irq" \in held /\ irq = "none"
  /\ irq' \in {"shared"} \cup (IF mask THEN {"own"} ELSE {})
  /\ ~(Undoing /\ undo # <<>> /\ Head(undo) = "irq")
  /\ UNCHANGED <<loader, kthread, rx, reader, files>>

IrqReturn ==
  /\ irq # "none" /\ irq' = "none"
  /\ UNCHANGED <<loader, kthread, rx, reader, files>>

kthread_should_stop(k) == Undoing /\ undo # <<>> /\ Head(undo) = k

\* axkt_worker: woken without being told to stop, it calls the worker function.
axkt_wake(k) ==
  /\ kthread[k] = "wait" /\ ~kthread_should_stop(k)
  /\ kthread' = [kthread EXCEPT ![k] = "work"]
  /\ UNCHANGED <<loader, irq, rx, reader, files>>

\* The worker function reads until its FIFO is empty, and has no test of
\* kthread_should_stop; then the kthread comes back to the wait.
axkt_work(k) ==
  /\ kthread[k] = "work"
  /\ rx' = rx \ {k}
  /\ kthread' = IF k \in rx THEN kthread ELSE [kthread EXCEPT ![k] = "wait"]
  /\ UNCHANGED <<loader, irq, reader, files>>

\* For a mutant: the condition of the wait lacks axkt_should_stop, so that only work ends it.
ExitAfterWork(k) ==
  /\ kthread[k] = "wait" /\ kthread_should_stop(k) /\ k \in rx
  /\ kthread' = [kthread EXCEPT ![k] = "none"]
  /\ UNCHANGED <<loader, irq, rx, reader, files>>

\* Woken by kthread_stop, or awake, it leaves the loop.
axkt_exit(k) ==
  /\ kthread[k] = "wait" /\ kthread_should_stop(k)
  /\ kthread' = [kthread EXCEPT ![k] = "none"]
  /\ UNCHANGED <<loader, irq, rx, reader, files>>

\* A show or store function; a folder whose removal has begun lets nobody in.
SysfsEnter(d) ==
  /\ reader = "none" /\ d \in held
  /\ ~(Undoing /\ undo # <<>> /\ Head(undo) \in {d, "sysfs_uninit"})
  /\ reader' = d
  /\ UNCHANGED <<loader, kthread, irq, rx, files>>

SysfsReturn ==
  /\ reader # "none" /\ reader' = "none"
  /\ UNCHANGED <<loader, kthread, irq, rx, files>>

\* axiomnet_open_generic by the node of a minor.
Open(f, d) ==
  /\ files[f] = "closed" /\ d \in held /\ ~going
  /\ files' = [files EXCEPT ![f] = d]
  /\ UNCHANGED <<loader, kthread, irq, rx, reader>>

\* axiomnet_release
Close(f) ==
  /\ files[f] # "closed"
  /\ files' = [files EXCEPT ![f] = "closed"]
  /\ UNCHANGED <<loader, kthread, irq, rx, reader>>
-----------------------------------------------------------------------------
Acquisition ==
  \/ phase = "load" /\ LoadStep(LoadSteps[step])
  \/ /\ phase = "probe"
     /\ LET s == ProbeSteps[step]
        IN  MapStep(s) \/ TakeStep(s) \/ FolderStep(s) \/ axiom_kthread_init(s)
  \/ AllocApi \/ RequestIrq \/ axiomnet_rdma_init \/ axiom_hw_enable_irq

Network == \E k \in {"kthread_raw", "kthread_rdma"} : Arrive(k)

Loader == Acquisition \/ Release \/ Released

LifeNext ==
  \/ Loader
  \/ Insmod \/ Rmmod \/ Unbind \/ Bind
  \/ Network
  \/ IrqEnter \/ IrqReturn
  \/ \E k \in Kthreads : axkt_wake(k) \/ axkt_work(k) \/ axkt_exit(k)
  \/ \E d \in Folders : SysfsEnter(d)
  \/ SysfsReturn
  \/ \E f \in Files, d \in Minors : Open(f, d)
  \/ \E f \in Files : Close(f)

LifeSpec == LifeInit /\ [][LifeNext]_life_vars

\* The loading thread, the kthreads, the handler and the readers of sysfs run until
\* they wait for somebody.  Nothing obliges a process to open or close a file, the
\* administrator to load or unload, or the network to send or to be silent.
FairSpec ==
  /\ LifeSpec
  /\ WF_life_vars(Loader)
  /\ \A k \in Kthreads : WF_life_vars(axkt_work(k) \/ axkt_exit(k))
  /\ WF_life_vars(IrqReturn)
  /\ WF_life_vars(SysfsReturn)
-----------------------------------------------------------------------------
(* What each of them uses *)

\* axiomnet_irqhandler
HandlerNeeds ==
  {"armdata", "registers", "drvdata", "dev_api", "raw_tx", "rdma_port", "wq_raw", "wq_rdma"}

\* The worker functions and work_todo functions.  None of them uses the RDMA zone:
\* the kthread only puts away the address where the NIC has written.
WorkerNeeds(k) ==
  {"armdata", "drvdata", "dev_api"} \cup
  CASE k = "kthread_raw"  -> {"fifo_raw_rx", "raw_ports", "wq_raw", "raw_eviq", "raw_desc"}
    [] k = "kthread_rdma" -> {"fifo_rdma_rx", "fifo_rdma_tx", "rdma_port", "long_port",
                              "long_ports", "wq_rdma", "rdma_eviq", "rdma_desc",
                              "ltx_eviq", "ltx_desc", "lrx_eviq", "lrx_desc"}
    [] k = "kthread_wtd"  -> {"fifo_raw_rx", "fifo_raw_tx", "fifo_rdma_rx", "fifo_rdma_tx",
                              "wq_raw", "raw_tx", "wq_rdma", "rdma_port", "rdma_eviq", "wq_wtd"}

\* The show and store functions: the store of the watchdog period wakes kthread_wtd.
SysfsNeeds(d) ==
  {"armdata", "axsys"} \cup
  CASE d = "param" -> {"wq_wtd"}
    [] d = "info"  -> {"registers", "drvdata", "dev_api"}
    [] OTHER       -> {}

\* The system calls of a file.
UserNeeds(d) ==
  {"armdata", "chrdev", "drvdata", "dev_api"} \cup
  CASE d = "dev"      -> {"registers", "bram_routing"}
    [] d = "dev_raw"  -> {"fifo_raw_tx", "raw_tx", "raw_ports", "wq_raw", "raw_eviq", "raw_desc"}
    [] d = "dev_long" -> {"fifo_rdma_tx", "rdma_port", "long_port", "long_ports", "wq_rdma",
                          "rdma_eviq", "rdma_desc", "ltx_eviq", "ltx_desc", "lrx_eviq",
                          "lrx_desc", "zone", "long_map", "bram_long"}
    [] d = "dev_rdma" -> {"fifo_rdma_tx", "rdma_port", "rdma_eviq", "rdma_desc", "zone"}

\* Probing, giving back after a probe that failed, or stuck in one that crashed.
HalfProbed == phase \in {"probe", "nosysfs", "unprobe", "oops"}
-----------------------------------------------------------------------------
(* Properties *)

\* A type invariant: what the loading thread holds and has to do are names of the
\* code's resources and releases, and its step is one of the list it works on.
LifeTypeOK ==
  /\ phase \in {"out", "load", "loaded", "probe", "bound", "oops", "failload", "unprobe",
                "nosysfs", "remove", "unload"}
  /\ phase = "load" => step \in DOMAIN LoadSteps
  /\ phase = "probe" => step \in DOMAIN ProbeSteps
  /\ held \subseteq Range(LoadSteps) \cup Range(ProbeSteps) \cup Embedded \cup {"long_map"}
  /\ going \in BOOLEAN /\ mask \in BOOLEAN
  /\ kthread \in [Kthreads -> {"none", "wait", "work"}]
  /\ irq \in {"none", "own", "shared"}
  /\ rx \subseteq Kthreads
  /\ reader \in Folders \cup {"none"}
  /\ files \in [Files -> Minors \cup {"closed", "stale"}]

\* axiomnet_arm_irq never runs on a wait queue or pointer that is not set up or is
\* gone when it runs for the NIC; when it runs because the line is shared
\* (IRQF_SHARED), it may, but only in a probe that is not through.
HandlerSafe ==
  irq # "none" /\ ~(HandlerNeeds \subseteq held) => irq = "shared" /\ HalfProbed

\* A kthread, from axiom_kthread_init to the end of kthread_stop, finds its rings, its
\* FIFOs and the API object, whatever fails and in whatever order things are removed.
KthreadSafe ==
  \A k \in Kthreads : kthread[k] # "none" => WorkerNeeds(k) \subseteq held

\* What the loading thread accepts without having it: the BRAM of the routing table
\* and the mapping of the LONG buffers.
Unchecked == {"bram_routing", "long_map"}

\* The calls of open files and sysfs find what they use, except while a probe is not
\* through, and, for files, when the device is taken away through sysfs under an open
\* file.  Unloading never meets an open file.
ClientsSafe ==
  /\ \A f \in Files :
       files[f] \in Minors /\ ~(UserNeeds(files[f]) \ Unchecked \subseteq held)
         => HalfProbed \/ (phase = "remove" /\ ~going)
  /\ reader # "none" /\ ~(SysfsNeeds(reader) \subseteq held) => HalfProbed
  /\ going => \A f \in Files : files[f] = "closed"

\* Nothing is leaked but the region of device numbers: what is held when the thread
\* rests is what that state of the module needs.  sysfs may be missing, and gpio.
NothingLeaked ==
  /\ phase = "out" => held \subseteq {"region"} /\ reader = "none"
  /\ phase = "loaded" => held = Range(LoadSteps)
  /\ phase \in {"out", "loaded"} => irq = "none" /\ \A k \in Kthreads : kthread[k] = "none"
  /\ phase = "bound" =>
       Range(LoadSteps \o ProbeSteps) \ (Unchecked \cup Folders \cup {"gpio", "sysfs", "axsys", "mask"})
         \subseteq held

\* Nothing is given back twice or before it was taken, but the class:
\* class_destroy unregisters it after class_unregister did.
ReleasedOnce ==
  Undoing /\ undo # <<>> /\ ~(Untested(Head(undo)) \subseteq held) => Head(undo) = "class_destroy"

\* The goto labels of every error path and the removal give back exactly what was
\* taken: no leak, and no second release.
Balanced == NothingLeaked /\ ReleasedOnce

\* A probe or a removal ends, although kthread_stop, free_irq and the removal of sysfs
\* files wait for others, if the network falls silent: the workers read until their
\* FIFO is empty and do not look at kthread_should_stop.
LoaderEnds ==
  <>[][~Network]_life_vars
    => (phase \in {"load", "probe"} \/ Undoing ~> phase \in {"out", "loaded", "bound", "oops"})
=============================================================================
