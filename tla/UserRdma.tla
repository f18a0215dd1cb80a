------------------------------ MODULE UserRdma ------------------------------
(***************************************************************************)
(* The RDMA calls of the user library: axiom_rdma_write and                *)
(* axiom_rdma_read, which are the same to this model, their synchronous    *)
(* variants, and axiom_rdma_check and axiom_rdma_wait on arrays of tokens, *)
(* down to the driver's ioctl handlers.                                    *)
(*                                                                         *)
(* The driver below them is in RdmaTx.  What the tokens need of it is the  *)
(* counter of every slot, which it increments when the request in the slot *)
(* is answered, and that a free slot may then carry another request.       *)
(***************************************************************************)
EXTENDS Naturals, FiniteSets

CONSTANTS
  Threads,        \* threads, each with an array of tokens
  Slots,          \* message ids of the driver's RDMA queue
  N,              \* entries of an array of tokens
  Sizes,          \* payload sizes that callers ask for
  MaxCount,       \* bound: requests that each slot carries
  None            \* no request

ASSUME UserRdmaAssumption ==
  /\ N \in Nat \ {0} /\ MaxCount \in Nat /\ Sizes \subseteq Nat
  /\ None \notin Threads \X (0 .. N)

Entries == 1 .. N
AXIOM_RDMA_PAYLOAD_MAX_SIZE == 524280
Unit == 8                       \* 1 << AXIOM_RDMA_PAYLOAD_SIZE_ORDER

VARIABLES
  \* driver
  counter,        \* counter[s]: msg_id_counter
  busy,           \* busy[s]: thread and entry of the request in s, entry 0 if the
                  \* caller gave up, or None
  \* threads
  tokens,         \* tokens[t][i]: slot, value and status
  pc, op,         \* place, and "write", "sync", "check" or "wait"
  at,             \* entry in use: of a write, of the check loop, or waited for
  acked,          \* result of axiom_rdma_check so far
  ret,            \* result of the last call
  \* history
  done,           \* done[t]: entries whose request was answered
  before,         \* before[t]: done[t] at the beginning of the check
  sig             \* sig[t]: a signal ended the last call

driver == <<counter, busy>>
vars == <<counter, busy, tokens, pc, op, at, acked, ret, done, before, sig>>

NoToken == [slot |-> None, value |-> 0, status |-> "INVALID"]

Init ==
  /\ counter = [s \in Slots |-> 0] /\ busy = [s \in Slots |-> None]
  /\ tokens = [t \in Threads |-> [i \in Entries |-> NoToken]]
  /\ pc = [t \in Threads |-> "idle"] /\ op = [t \in Threads |-> "write"]
  /\ at = [t \in Threads |-> 0] /\ acked = [t \in Threads |-> 0]
  /\ ret = [t \in Threads |-> "OK"]
  /\ done = [t \in Threads |-> {}] /\ before = [t \in Threads |-> {}]
  /\ sig = [t \in Threads |-> FALSE]

\* The call ends; its locals are reset.
Return(t, r) ==
  /\ pc' = [pc EXCEPT ![t] = "idle"]
  /\ ret' = [ret EXCEPT ![t] = r]
  /\ at' = [at EXCEPT ![t] = 0]
  /\ acked' = [acked EXCEPT ![t] = 0]
  /\ before' = [before EXCEPT ![t] = {}]

Goto(t, place, i) ==
  /\ pc' = [pc EXCEPT ![t] = place]
  /\ at' = [at EXCEPT ![t] = i]
  /\ UNCHANGED <<ret, acked, before>>
-----------------------------------------------------------------------------
(* The driver *)

\* The request in a slot is answered: the kthread counts it, frees the slot and
\* wakes the threads that wait for it.
Answer(s) ==
  /\ busy[s] # None
  /\ counter' = [counter EXCEPT ![s] = @ + 1]
  /\ busy' = [busy EXCEPT ![s] = None]
  /\ done' = [done EXCEPT ![busy[s][1]] = @ \cup ({busy[s][2]} \ {0})]
  /\ UNCHANGED <<tokens, pc, op, at, acked, ret, before, sig>>
-----------------------------------------------------------------------------
(* axiom_rdma_write, axiom_rdma_read *)

SizeOK(n) == n % Unit = 0 /\ n <= AXIOM_RDMA_PAYLOAD_MAX_SIZE

\* Checks of the library.  The caller gives a token that no request uses.
Write(t, i, o, n) ==
  /\ pc[t] = "idle" /\ tokens[t][i].status # "PENDING"
  /\ op' = [op EXCEPT ![t] = o]
  /\ sig' = [sig EXCEPT ![t] = FALSE]
  /\ IF SizeOK(n)
       THEN Goto(t, "tx", i)
       ELSE Return(t, "ERROR")
  /\ UNCHANGED <<driver, tokens, done>>

\* axiomnet_rdma_tx takes a free slot and sets up the token.
WriteTx(t) ==
  /\ pc[t] = "tx"
  /\ \E s \in Slots :
       /\ busy[s] = None /\ counter[s] < MaxCount
       /\ busy' = [busy EXCEPT ![s] = <<t, at[t]>>]
       /\ tokens' = [tokens EXCEPT ![t][at[t]] =
                       [slot |-> s, value |-> counter[s], status |-> "PENDING"]]
  /\ done' = [done EXCEPT ![t] = @ \ {at[t]}]
  /\ IF op[t] = "sync" THEN Goto(t, "ack", at[t]) ELSE Return(t, "OK")
  /\ UNCHANGED <<counter, op, sig>>

\* No free slot on a non-blocking file, no route, a bad address, or a signal:
\* AXIOM_RET_NOTAVAIL, NOTREACH, ERROR or INTR.
WriteFails(t) ==
  /\ pc[t] = "tx"
  /\ Return(t, "ERROR")
  /\ UNCHANGED <<driver, tokens, op, done, sig>>

\* The synchronous variants wait for the answer.  The ioctl copies the token
\* to the caller at its end; the model has it from the start.
SyncDone(t) ==
  /\ pc[t] = "ack" /\ counter[tokens[t][at[t]].slot] # tokens[t][at[t]].value
  /\ Return(t, "OK")
  /\ UNCHANGED <<driver, tokens, op, done, sig>>

\* A signal: the caller gets no token, and the answer comes for nobody.  (What the
\* caller had in that place of its array belongs to an earlier request; the model
\* forgets it.)
SyncInterrupted(t) ==
  /\ pc[t] = "ack"
  /\ tokens' = [tokens EXCEPT ![t][at[t]] = NoToken]
  /\ busy' = [s \in Slots |-> IF busy[s] = <<t, at[t]>> THEN <<t, 0>> ELSE busy[s]]
  /\ done' = [done EXCEPT ![t] = @ \ {at[t]}]
  /\ Return(t, "ERROR")
  /\ UNCHANGED <<counter, op, sig>>
-----------------------------------------------------------------------------
(* axiom_rdma_check and axiom_rdma_wait *)

BeginCheck(t) ==
  /\ pc' = [pc EXCEPT ![t] = "check"] /\ at' = [at EXCEPT ![t] = 1]
  /\ acked' = [acked EXCEPT ![t] = 0]
  /\ before' = [before EXCEPT ![t] = done[t]]
  /\ UNCHANGED ret

\* The calls.  A caller waits for tokens that writes and reads have returned.
CheckOrWait(t, o) ==
  /\ pc[t] = "idle"
  /\ o = "wait" => \A i \in Entries : tokens[t][i].status # "INVALID"
  /\ op' = [op EXCEPT ![t] = o]
  /\ BeginCheck(t)
  /\ sig' = [sig EXCEPT ![t] = FALSE]
  /\ UNCHANGED <<driver, tokens, done>>

AnsweredAtOnce(k) == counter[k.slot] >= k.value
\* The counter of the slot has moved on since the token was set up.
Answered(k) == counter[k.slot] # k.value

\* Whether axiomnet_rdma_check counts the token at its place in the loop.
Counts(t) ==
  LET k == tokens[t][at[t]]
  IN k.status = "ACKED" \/ (k.status = "PENDING" /\ Answered(k))

FirstEntry(t) == 1
\* The loop of axiom_rdma_wait from the last token to the first.
PendingEntry(t) == CHOOSE i \in Entries : tokens[t][i].status = "PENDING"
                     /\ \A j \in Entries : j > i => tokens[t][j].status # "PENDING"

\* One turn of the loop of axiomnet_rdma_check.
CheckToken(t) ==
  /\ pc[t] = "check" /\ at[t] \in Entries
  /\ IF Counts(t)
       THEN /\ tokens' = [tokens EXCEPT ![t][at[t]].status = "ACKED"]
            /\ acked' = [acked EXCEPT ![t] = @ + 1]
       ELSE UNCHANGED <<tokens, acked>>
  /\ at' = [at EXCEPT ![t] = @ + 1]
  /\ UNCHANGED <<driver, pc, op, ret, done, before, sig>>

WaitForOne(t) == acked[t] > 0
\* The loop condition of axiom_rdma_wait.
AllAcked(t) == acked[t] = N

\* The check returns: to the caller, or into axiom_rdma_wait, which waits for
\* the last token that is pending.
CheckDone(t) ==
  /\ pc[t] = "check" /\ at[t] = N + 1
  /\ IF op[t] = "check" \/ AllAcked(t) THEN Return(t, "OK") ELSE Goto(t, "wait", PendingEntry(t))
  /\ UNCHANGED <<driver, tokens, op, done, sig>>

\* The check ioctl fails before it has changed a token: no memory, or a fault.
CheckFails(t) ==
  /\ pc[t] = "check" /\ at[t] = 1
  /\ Return(t, "ERROR")
  /\ UNCHANGED <<driver, tokens, op, done, sig>>

axiomnet_rdma_wait(t) ==
  /\ pc[t] = "wait" /\ Answered(tokens[t][at[t]])
  /\ tokens' = [tokens EXCEPT ![t][at[t]].status = "ACKED"]
  /\ BeginCheck(t)
  /\ UNCHANGED <<driver, op, done, sig>>

\* A signal ends the wait ioctl.  axiom_rdma_wait leaves its loop with an error
\* in ret, and the statement after the loop sets ret to AXIOM_RET_OK.
WaitInterrupted(t) ==
  /\ pc[t] = "wait"
  /\ sig' = [sig EXCEPT ![t] = TRUE]
  /\ Return(t, "OK")
  /\ UNCHANGED <<driver, tokens, op, done>>
-----------------------------------------------------------------------------
Call(t) ==
  \/ \E i \in Entries, o \in {"write", "sync"}, n \in Sizes : Write(t, i, o, n)
  \/ \E o \in {"check", "wait"} : CheckOrWait(t, o)

Continue(t) ==
  \/ WriteTx(t) \/ SyncDone(t)
  \/ CheckToken(t) \/ CheckDone(t) \/ axiomnet_rdma_wait(t)

Fail(t) == WriteFails(t) \/ SyncInterrupted(t) \/ CheckFails(t) \/ WaitInterrupted(t)

Next == (\E s \in Slots : Answer(s)) \/ \E t \in Threads : Call(t) \/ Continue(t) \/ Fail(t)

Spec == Init /\ [][Next]_vars
-----------------------------------------------------------------------------
(* Properties *)

Acked(t) == {i \in Entries : tokens[t][i].status = "ACKED"}

\* A token is acked only after the answer to its own request, although the
\* slot it names carries the requests of other threads afterwards.
AckedIsDone == \A t \in Threads : Acked(t) \subseteq done[t]

\* axiom_rdma_check returns the number of acked tokens, and misses none whose
\* request was answered before the call.
CheckCounts ==
  \A t \in Threads : (pc[t] = "check" /\ at[t] = N + 1) =>
    /\ acked[t] = Cardinality(Acked(t))
    /\ {i \in before[t] : tokens[t][i].status # "INVALID"} \subseteq Acked(t)

\* Tokens are exact in both directions.
TokensExact == AckedIsDone /\ CheckCounts

\* axiom_rdma_wait returns success only when all requests of its tokens are
\* answered, unless a signal ended it.
WaitCompletes ==
  \A t \in Threads :
    (pc[t] = "idle" /\ op[t] = "wait" /\ ret[t] = "OK" /\ ~sig[t]) => done[t] = Entries

\* A thread never waits for an answer that has come and gone: whoever waits, in
\* axiom_rdma_wait or in a synchronous call, sees the counter changed or has its
\* request still in the slot, whatever else the slot carries afterwards.
WaitNotInVain ==
  \A t \in Threads : pc[t] \in {"wait", "ack"} =>
    LET k == tokens[t][at[t]]
    IN k.status = "PENDING" /\ (Answered(k) \/ busy[k.slot] = <<t, at[t]>>)
-----------------------------------------------------------------------------
(* What the code does not do.  The README gives the instance that shows it.  *)

\* axiom_rdma_wait returns success only when all requests of its tokens are
\* answered.  A signal makes it return success without.
WaitMeansDone ==
  \A t \in Threads : (pc[t] = "idle" /\ op[t] = "wait" /\ ret[t] = "OK") => done[t] = Entries
=============================================================================
