------------------------------ MODULE UserMsg -------------------------------
(***************************************************************************)
(* The message calls of the user library, axiom_send and axiom_recv over   *)
(* RAW and LONG messages, down to the driver's poll and ioctl handlers:    *)
(* one process that sends to a port and the threads that receive from it.  *)
(*                                                                         *)
(* What happens below an ioctl is in RawTx, RawRx, LongTx and LongRx; here *)
(* a message that was sent is in the queue of its kind at the receiver,    *)
(* and a sender waits while that queue is full.  The variants that take an *)
(* iovec only differ in how the payload is copied and are the same calls.  *)
(* The threads have a bound port; they share one axiom_dev_t, or each has  *)
(* its own copy after a fork, and in both cases share the open files.      *)
(***************************************************************************)
EXTENDS Integers, Sequences, FiniteSets

CONSTANTS
  Threads,        \* threads that receive
  Devs,           \* axiom_dev_t structures
  Setters,        \* the threads that change flags
  Flushers,       \* the threads that flush
  SendOps,        \* the calls the sender uses: "send", "send_raw", "send_long"
  Sizes,          \* sizes of messages
  Caps,           \* sizes of receive buffers
  QLen            \* bound: messages queued per kind

\* Flags are changed from one thread: |= on dev->flags is not atomic.
ASSUME UserMsgAssumption ==
  /\ Setters \subseteq Threads /\ Cardinality(Setters) <= 1
  /\ Flushers \subseteq Threads
  /\ SendOps \subseteq {"send", "send_raw", "send_long"}
  /\ Sizes \subseteq Nat /\ Caps \subseteq Nat /\ QLen \in Nat \ {0}

Kinds == {"RAW", "LONG"}
AXIOM_RAW_PAYLOAD_MAX_SIZE == 248
AXIOM_LONG_PAYLOAD_MAX_SIZE == 65528
MaxSize(k) == IF k = "RAW" THEN AXIOM_RAW_PAYLOAD_MAX_SIZE ELSE AXIOM_LONG_PAYLOAD_MAX_SIZE
\* axiom_raw_payload_size_t and axiom_long_payload_size_t
Width(k) == IF k = "RAW" THEN 256 ELSE 65536

VARIABLES
  q,              \* q[k]: the port's queue of kind k, as payload sizes
  nonblk,         \* the kinds whose file has O_NONBLOCK
  \* axiom_dev_t
  dev,            \* dev[t]: the structure thread t uses
  flags,          \* flags[d]: the NOBLOCK flags of d, as kinds
  revents,        \* revents[d]: the kinds with POLLIN in d's recv_fds
  \* receiving threads
  pc, op,         \* place, and "recv", "recv_raw", "recv_long" or "flags"
  kind, cap,      \* the file in use; the caller's buffer
  psize,          \* payload_size handed to the driver
  tmo,            \* poll has timeout 0
  rdy,            \* files poll has found readable
  reg, trig,      \* wait queues poll is on; whether one of them was woken
  upd,            \* files whose O_NONBLOCK is still to be changed
  ret, why,       \* result of the last call, and the errno behind it
  got,            \* size of the message that the call took, or -1
  \* the sender
  snd,            \* its last call, and what became of it
  \* history
  nb              \* nb[t]: t's call began with NOBLOCK set, and it still is

device == <<nonblk, dev, flags>>
polling == <<tmo, rdy, reg>>
result == <<ret, why, got>>
vars == <<q, nonblk, dev, flags, revents, pc, op, kind, cap, psize, tmo, rdy, reg, trig,
          upd, ret, why, got, snd, nb>>

Recvs == {"recv", "recv_raw", "recv_long"}
Errnos == {"none", "EAGAIN", "EINTR", "ENXIO", "EFBIG", "EFAULT"}
Places == {"idle", "fcntl", "poll_raw", "poll_long", "polled", "scan_raw", "scan_long",
           "ioctl", "sleep"}
Sending == {"none", "ioctl", "sent", "refused", "failed"}

Init ==
  /\ q = [k \in Kinds |-> <<>>]
  /\ nonblk = {}
  /\ dev \in [Threads -> Devs]
  /\ flags = [d \in Devs |-> {}] /\ revents = [d \in Devs |-> {}]
  /\ pc = [t \in Threads |-> "idle"] /\ op = [t \in Threads |-> "recv"]
  /\ kind = [t \in Threads |-> "RAW"]
  /\ cap = [t \in Threads |-> 0] /\ psize = [t \in Threads |-> 0]
  /\ tmo = [t \in Threads |-> FALSE] /\ rdy = [t \in Threads |-> {}]
  /\ reg = [t \in Threads |-> {}] /\ trig = [t \in Threads |-> FALSE]
  /\ upd = [t \in Threads |-> {}]
  /\ ret = [t \in Threads |-> "OK"] /\ why = [t \in Threads |-> "none"]
  /\ got = [t \in Threads |-> -1]
  /\ snd = [op |-> "send", asked |-> 0, kind |-> "RAW", size |-> 0, st |-> "none"]
  /\ nb = [t \in Threads |-> FALSE]
-----------------------------------------------------------------------------
(* Sending *)

\* axiom_send chooses the kind and converts the size to the kind's type; the
\* other two calls have that type in their signature.
axiom_send(o, n) ==
  LET k == IF o = "send_raw" \/ (o = "send" /\ n <= AXIOM_RAW_PAYLOAD_MAX_SIZE)
             THEN "RAW" ELSE "LONG"
  IN [op |-> o, asked |-> n, kind |-> k, size |-> n % Width(k), st |-> "ioctl"]

axiom_send_raw_prepare(req) == req.kind = "RAW" /\ req.size <= AXIOM_RAW_PAYLOAD_MAX_SIZE
axiom_send_long_prepare(req) == req.kind = "LONG" /\ req.size <= AXIOM_LONG_PAYLOAD_MAX_SIZE

\* A call of the sender, up to the ioctl if its size is accepted.
SendCall(o, n) ==
  /\ snd.st # "ioctl"
  /\ o = "send_raw" => n < Width("RAW")
  /\ o = "send_long" => n < Width("LONG")
  /\ LET req == axiom_send(o, n)
         ok == axiom_send_raw_prepare(req) \/ axiom_send_long_prepare(req)
     IN snd' = IF ok THEN req ELSE [req EXCEPT !.st = "refused"]
  /\ UNCHANGED <<q, device, revents, pc, op, kind, cap, psize, polling, trig, upd, result, nb>>

\* The driver sends the message, and it reaches the queue of the port.  The
\* receiver's kthread wakes the wait queue of the port if that queue was empty;
\* RawRx and LongRx have the wake-up as a step of its own, after the unlock.
SendDone ==
  /\ snd.st = "ioctl" /\ Len(q[snd.kind]) < QLen
  /\ q' = [q EXCEPT ![snd.kind] = Append(@, snd.size)]
  /\ trig' = [t \in Threads |-> trig[t] \/ (q[snd.kind] = <<>> /\ snd.kind \in reg[t])]
  /\ snd' = [snd EXCEPT !.st = "sent"]
  /\ UNCHANGED <<device, revents, pc, op, kind, cap, psize, polling, upd, result, nb>>

\* The driver refuses, with nothing sent: no route, or a full FIFO and a
\* non-blocking file or a signal.
SendFail ==
  /\ snd.st = "ioctl"
  /\ snd' = [snd EXCEPT !.st = "failed"]
  /\ UNCHANGED <<q, device, revents, pc, op, kind, cap, psize, polling, trig, upd, result, nb>>
-----------------------------------------------------------------------------
(* Receiving *)

\* How the library reports an errno of a receive ioctl.
RetOf(e) == CASE e = "none" -> "OK" [] e = "EAGAIN" -> "NOTAVAIL"
              [] e = "EINTR" -> "INTR" [] e = "ENXIO" -> "NOTREACH" [] OTHER -> "ERROR"

\* The call ends; its locals are reset, its result stays until the next call.
Return(t, r, e) ==
  /\ pc' = [pc EXCEPT ![t] = "idle"]
  /\ ret' = [ret EXCEPT ![t] = r] /\ why' = [why EXCEPT ![t] = e]
  /\ kind' = [kind EXCEPT ![t] = "RAW"] /\ psize' = [psize EXCEPT ![t] = 0]
  /\ tmo' = [tmo EXCEPT ![t] = FALSE] /\ rdy' = [rdy EXCEPT ![t] = {}]
  /\ reg' = [reg EXCEPT ![t] = {}] /\ trig' = [trig EXCEPT ![t] = FALSE]
  /\ nb' = [nb EXCEPT ![t] = FALSE]

\* A call begins.
Enter(t, o, c, place) ==
  /\ pc[t] = "idle"
  /\ pc' = [pc EXCEPT ![t] = place]
  /\ op' = [op EXCEPT ![t] = o] /\ cap' = [cap EXCEPT ![t] = c]
  /\ ret' = [ret EXCEPT ![t] = "OK"] /\ why' = [why EXCEPT ![t] = "none"]
  /\ got' = [got EXCEPT ![t] = -1]

NoBlock(d) == flags[d] = Kinds /\ nonblk = Kinds /\ \A t \in Threads : pc[t] # "fcntl"

\* The timeout axiom_recv gives to poll is 0, and not -1.
TimesOut(d) == flags[d] # {}

BufferOfWidth(k, c) == c % Width(k)
\* axiom_recv: the size of the buffer, limited to what the kind can carry.
Psize(k, c) == IF c < MaxSize(k) THEN c ELSE MaxSize(k)

\* axiom_recv reads dev->flags and enters poll.
RecvCall(t, c) ==
  /\ Enter(t, "recv", c, "poll_raw")
  /\ tmo' = [tmo EXCEPT ![t] = TimesOut(dev[t])]
  /\ nb' = [nb EXCEPT ![t] = NoBlock(dev[t])]
  /\ UNCHANGED <<q, device, revents, kind, psize, rdy, reg, trig, upd, snd>>

\* A receive call of one kind; the caller's size has the kind's type.  A size
\* that is too large is refused at once, and nothing changes.
RecvKind(t, o, k, c) ==
  /\ c < Width(k) /\ c <= MaxSize(k)
  /\ Enter(t, o, c, "ioctl")
  /\ kind' = [kind EXCEPT ![t] = k]
  /\ psize' = [psize EXCEPT ![t] = c]
  /\ nb' = [nb EXCEPT ![t] = NoBlock(dev[t])]
  /\ UNCHANGED <<q, device, revents, tmo, rdy, reg, trig, upd, snd>>

axiom_recv_raw(t, c) == RecvKind(t, "recv_raw", "RAW", c)
axiom_recv_long(t, c) == RecvKind(t, "recv_long", "LONG", c)

PollUnregistered(t, k, here, next) ==
  /\ pc[t] = here
  /\ reg' = reg
  /\ rdy' = [rdy EXCEPT ![t] = IF q[k] # <<>> THEN @ \cup {k} ELSE @]
  /\ pc' = [pc EXCEPT ![t] = next]
\* poll_wait puts the caller on the wait queue, then the queue is read.
PollFile(t, k, here, next) ==
  /\ pc[t] = here
  /\ reg' = [reg EXCEPT ![t] = @ \cup {k}]
  /\ rdy' = [rdy EXCEPT ![t] = IF q[k] # <<>> THEN @ \cup {k} ELSE @]
  /\ pc' = [pc EXCEPT ![t] = next]

axiomnet_poll_raw(t) ==
  /\ PollFile(t, "RAW", "poll_raw", "poll_long")
  /\ UNCHANGED <<q, device, revents, op, kind, cap, psize, tmo, trig, upd, result, snd, nb>>

axiomnet_poll_long(t) ==
  /\ PollFile(t, "LONG", "poll_long", "polled")
  /\ UNCHANGED <<q, device, revents, op, kind, cap, psize, tmo, trig, upd, result, snd, nb>>

\* poll has seen both files.  When it returns, the kernel writes all revents.
PollReady(t) ==
  /\ pc[t] = "polled" /\ rdy[t] # {}
  /\ revents' = [revents EXCEPT ![dev[t]] = rdy[t]]
  /\ pc' = [pc EXCEPT ![t] = "scan_raw"]
  /\ reg' = [reg EXCEPT ![t] = {}]
  /\ UNCHANGED <<q, device, op, kind, cap, psize, tmo, rdy, trig, upd, result, snd, nb>>

TimeoutScans(t) ==
  /\ pc[t] = "polled" /\ rdy[t] = {} /\ tmo[t]
  /\ revents' = [revents EXCEPT ![dev[t]] = {}]
  /\ pc' = [pc EXCEPT ![t] = "scan_raw"]
  /\ UNCHANGED <<q, device, op, kind, cap, psize, polling, trig, upd, result, snd, nb>>
\* fds_ready = 0
PollTimeout(t) ==
  /\ pc[t] = "polled" /\ rdy[t] = {} /\ tmo[t]
  /\ revents' = [revents EXCEPT ![dev[t]] = {}]
  /\ Return(t, "NOTAVAIL", "none")
  /\ UNCHANGED <<q, device, op, cap, upd, got, snd>>

PollAgain(t) ==
  /\ pc[t] = "polled" /\ rdy[t] = {} /\ ~tmo[t] /\ trig[t]
  /\ trig' = [trig EXCEPT ![t] = FALSE]
  /\ pc' = [pc EXCEPT ![t] = "poll_raw"]
  /\ UNCHANGED <<q, device, revents, op, kind, cap, psize, polling, upd, result, snd, nb>>

\* fds_ready < 0: a signal.
PollInterrupted(t) ==
  /\ pc[t] = "polled" /\ rdy[t] = {}
  /\ revents' = [revents EXCEPT ![dev[t]] = {}]
  /\ Return(t, "ERROR", "EINTR")
  /\ UNCHANGED <<q, device, op, cap, upd, got, snd>>

\* The loop over recv_fds, one entry at a time; dev may be shared.
ScanFile(t, k) ==
  /\ pc' = [pc EXCEPT ![t] = "ioctl"]
  /\ kind' = [kind EXCEPT ![t] = k]
  /\ psize' = [psize EXCEPT ![t] = Psize(k, cap[t])]
  /\ UNCHANGED <<polling, trig, ret, why, nb>>

ScanRaw(t) ==
  /\ pc[t] = "scan_raw"
  /\ IF "RAW" \in revents[dev[t]]
       THEN ScanFile(t, "RAW")
       ELSE /\ pc' = [pc EXCEPT ![t] = "scan_long"]
            /\ UNCHANGED <<kind, psize, polling, trig, ret, why, nb>>
  /\ UNCHANGED <<q, device, revents, op, cap, upd, got, snd>>

ScanLong(t) ==
  /\ pc[t] = "scan_long"
  /\ IF "LONG" \in revents[dev[t]] THEN ScanFile(t, "LONG") ELSE Return(t, "ERROR", "none")
  /\ UNCHANGED <<q, device, revents, op, cap, upd, got, snd>>

\* axiomnet_raw_recv and axiomnet_long_recv take the first message; it is lost
\* if it does not fit or its copy faults.
RecvTake(t) ==
  /\ pc[t] = "ioctl" /\ q[kind[t]] # <<>>
  /\ LET n == Head(q[kind[t]])
     IN /\ \E e \in IF psize[t] < n THEN {"EFBIG"} ELSE {"none", "EFAULT"} : Return(t, RetOf(e), e)
        /\ got' = [got EXCEPT ![t] = n]
  /\ q' = [q EXCEPT ![kind[t]] = Tail(@)]
  /\ UNCHANGED <<device, revents, op, cap, upd, snd>>

\* Nothing to read: O_NONBLOCK of the file decides.
RecvEmpty(t) ==
  /\ pc[t] = "ioctl" /\ q[kind[t]] = <<>>
  /\ IF kind[t] \in nonblk
       THEN Return(t, RetOf("EAGAIN"), "EAGAIN")
       ELSE /\ pc' = [pc EXCEPT ![t] = "sleep"]
            /\ UNCHANGED <<kind, psize, polling, trig, ret, why, nb>>
  /\ UNCHANGED <<q, device, revents, op, cap, upd, got, snd>>

RecvWoken(t) ==
  /\ pc[t] = "sleep" /\ q[kind[t]] # <<>>
  /\ pc' = [pc EXCEPT ![t] = "ioctl"]
  /\ UNCHANGED <<q, device, revents, op, kind, cap, psize, polling, trig, upd, result, snd, nb>>

RecvInterrupted(t) ==
  /\ pc[t] = "sleep"
  /\ Return(t, RetOf("EINTR"), "EINTR")
  /\ UNCHANGED <<q, device, revents, op, cap, upd, got, snd>>

Flush(t, k) ==
  /\ pc[t] = "idle" /\ q[k] # <<>>
  /\ q' = [q EXCEPT ![k] = <<>>]
  /\ UNCHANGED <<device, revents, pc, op, kind, cap, psize, polling, trig, upd, result, snd, nb>>

axiom_flush_raw(t) == Flush(t, "RAW")
axiom_flush_long(t) == Flush(t, "LONG")
-----------------------------------------------------------------------------
(* Flags *)

\* axiom_set_flags and axiom_unset_flags change dev->flags first ...
ChangeFlags(t, ks, set) ==
  /\ Enter(t, "flags", 0, "fcntl")
  /\ flags' = [flags EXCEPT ![dev[t]] = IF set THEN @ \cup ks ELSE @ \ ks]
  /\ upd' = [upd EXCEPT ![t] = ks]
  /\ nb' = IF set THEN nb ELSE [u \in Threads |-> FALSE]
  /\ UNCHANGED <<q, nonblk, dev, revents, kind, psize, polling, trig, snd>>

\* ... and axiom_update_flags then changes the files, RAW before LONG.
NextFile(t) == IF "RAW" \in upd[t] THEN "RAW" ELSE "LONG"

axiom_update_flags(t) ==
  /\ pc[t] = "fcntl" /\ upd[t] # {}
  /\ LET k == NextFile(t)
     IN /\ nonblk' = IF k \in flags[dev[t]] THEN nonblk \cup {k} ELSE nonblk \ {k}
        /\ upd' = [upd EXCEPT ![t] = @ \ {k}]
        /\ pc' = [pc EXCEPT ![t] = IF upd[t] = {k} THEN "idle" ELSE "fcntl"]
  /\ UNCHANGED <<q, dev, flags, revents, op, kind, cap, psize, polling, trig, result, snd, nb>>
-----------------------------------------------------------------------------
Call(t) ==
  \/ \E c \in Caps : RecvCall(t, c) \/ axiom_recv_raw(t, c) \/ axiom_recv_long(t, c)
  \/ t \in Flushers /\ (axiom_flush_raw(t) \/ axiom_flush_long(t))
  \/ t \in Setters /\ \E ks \in SUBSET Kinds \ {{}}, set \in BOOLEAN : ChangeFlags(t, ks, set)

Continue(t) ==
  \/ axiomnet_poll_raw(t) \/ axiomnet_poll_long(t)
  \/ PollReady(t) \/ PollTimeout(t) \/ PollAgain(t)
  \/ ScanRaw(t) \/ ScanLong(t)
  \/ RecvTake(t) \/ RecvEmpty(t) \/ RecvWoken(t)
  \/ axiom_update_flags(t)

Signal(t) == PollInterrupted(t) \/ RecvInterrupted(t)

Sender ==
  \/ \E o \in SendOps, n \in Sizes : SendCall(o, n)
  \/ SendDone \/ SendFail

Next == Sender \/ \E t \in Threads : Call(t) \/ Continue(t) \/ Signal(t)

Spec == Init /\ [][Next]_vars

\* The scheduler runs a thread that can run.  Nobody has to make a call.
FairSpec == Spec /\ \A t \in Threads : WF_vars(Continue(t))
-----------------------------------------------------------------------------
(* Properties *)

\* Types of the library's and the driver's state as this module keeps it.
TypeOK ==
  /\ q \in [Kinds -> Seq(Nat)] /\ \A k \in Kinds : Len(q[k]) <= QLen
  /\ nonblk \subseteq Kinds /\ dev \in [Threads -> Devs]
  /\ flags \in [Devs -> SUBSET Kinds] /\ revents \in [Devs -> SUBSET Kinds]
  /\ pc \in [Threads -> Places] /\ op \in [Threads -> Recvs \cup {"flags"}]
  /\ kind \in [Threads -> Kinds] /\ upd \in [Threads -> SUBSET Kinds]
  /\ \A t \in Threads : pc[t] \in {"ioctl", "sleep"} => psize[t] <= MaxSize(kind[t])
  /\ cap \in [Threads -> Nat]
  /\ tmo \in [Threads -> BOOLEAN] /\ rdy \in [Threads -> SUBSET Kinds]
  /\ reg \in [Threads -> SUBSET Kinds] /\ trig \in [Threads -> BOOLEAN]
  /\ ret \in [Threads -> {"OK", "NOTAVAIL", "INTR", "NOTREACH", "ERROR"}]
  /\ why \in [Threads -> Errnos] /\ nb \in [Threads -> BOOLEAN]
  /\ snd.kind \in Kinds /\ snd.st \in Sending
  /\ snd.st # "refused" => snd.size <= MaxSize(snd.kind)
  /\ got \in [Threads -> Nat \cup {-1}]

\* The call of thread t ends in this step.
Returns(t) == pc[t] # "idle" /\ pc'[t] = "idle"

\* The library refuses to send only what no message of the call's kinds can
\* carry: the choice of the kind in axiom_send and the limits of the two prepare
\* functions leave no gap between RAW and LONG, whatever the size was cut to.
RefusedTooBig ==
  snd'.st = "refused" =>
    snd'.asked > MaxSize(IF snd'.op = "send_raw" THEN "RAW" ELSE "LONG")

\* A message that left a queue was received if it fits the buffer given to
\* axiom_recv, axiom_recv_raw or axiom_recv_long, unless its copy faulted, and
\* was dropped as too big only if it does not.
JudgedBySize ==
  \A t \in Threads : (Returns(t) /\ got'[t] >= 0) =>
    /\ ret'[t] = "OK" => got'[t] <= cap[t]
    /\ why'[t] = "EFBIG" => got'[t] > cap[t]

\* The sizes of messages and buffers decide what is refused at the sender and what
\* is dropped at the receiver, and the limits and widths of the fields on the way
\* to the driver do not.  What axiom_send does accept it may cut: see SentWhole.
SizeVerdict == [][RefusedTooBig /\ JudgedBySize]_vars

Asleep(t) ==
  \/ pc[t] = "sleep"
  \/ pc[t] = "polled" /\ rdy[t] = {} /\ ~tmo[t] /\ ~trig[t]

\* A receive call that begins after axiom_set_flags has set both NOBLOCK flags
\* of its device never waits, in poll or in the driver, until they are unset.
NonBlocking == \A t \in Threads : nb[t] => ~Asleep(t)

\* A thread that poll has put to sleep for good misses no message: both queues
\* are empty.  (A message may arrive after the first file was found empty and
\* before poll has looked at the second, and another thread may take one.)
NoMissedMessage ==
  \A t \in Threads : (pc[t] = "polled" /\ Asleep(t)) => \A k \in Kinds : q[k] = <<>>

\* A thread in a receive call sleeps only with a reason.
SleepJustified == NonBlocking /\ NoMissedMessage

\* A thread whose axiom_dev_t nobody else uses gets AXIOM_RET_ERROR from
\* axiom_recv only with a reason: a message that was too big, a fault or a
\* signal.  (If poll found a file readable, the loop over recv_fds finds it.)
ErrorHasReason ==
  [][\A t \in Threads :
       ( /\ Returns(t) /\ op[t] = "recv" /\ ret'[t] = "ERROR"
         /\ \A u \in Threads \ {t} : dev[u] # dev[t] )
       => why'[t] \in {"EFBIG", "EFAULT", "EINTR"}]_vars
-----------------------------------------------------------------------------
(* What the code does not do.  The README gives the instances that show it.  *)

\* A message that was sent has the size the caller asked for ("payload_size  size of
\* data to be sent").  axiom_send cuts a size of more than 65535 to 16 bits without
\* looking at it, and succeeds if the rest is small enough.
SentWhole == [][snd'.st = "sent" => snd'.size = snd'.asked]_vars

\* A receive call that a signal ended reports AXIOM_RET_INTR.  In poll, it reports
\* AXIOM_RET_ERROR.
InterruptReported == \A t \in Threads : why[t] = "EINTR" => ret[t] = "INTR"

\* While a message of either kind waits in the port's queues, a call of
\* axiom_recv does not wait forever.  It holds of one thread; of two, one may wait
\* in the receive of the kind that poll reported and the other thread took.
Responsive ==
  \A t \in Threads, k \in Kinds :
    (pc[t] # "idle" /\ op[t] = "recv" /\ q[k] # <<>>) ~> (pc[t] = "idle" \/ q[k] = <<>>)
=============================================================================
