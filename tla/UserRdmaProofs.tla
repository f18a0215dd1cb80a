--------------------------- MODULE UserRdmaProofs ---------------------------
(***************************************************************************)
(* Proofs about UserRdma for any number of threads, slots, tokens and      *)
(* requests.                                                               *)
(***************************************************************************)
EXTENDS UserRdma, FiniteSetTheorems, WellFoundedInduction, TLAPS

TokenStates == {"INVALID", "PENDING", "ACKED"}
Tokens == [slot : Slots \cup {None}, value : Nat, status : TokenStates]

Types ==
  /\ counter \in [Slots -> Nat]
  /\ busy \in [Slots -> (Threads \X (0 .. N)) \cup {None}]
  /\ tokens \in [Threads -> [Entries -> Tokens]]
  /\ pc \in [Threads -> {"idle", "tx", "ack", "check", "wait"}]
  /\ op \in [Threads -> {"write", "sync", "check", "wait"}]
  /\ at \in [Threads -> 0 .. N + 1] /\ acked \in [Threads -> Nat]
  /\ ret \in [Threads -> {"OK", "ERROR"}] /\ sig \in [Threads -> BOOLEAN]
  /\ done \in [Threads -> SUBSET Entries] /\ before \in [Threads -> SUBSET Entries]

\* A request that is not answered is the one its token tells of.
Requests ==
  \A s \in Slots, t \in Threads, i \in Entries : busy[s] = <<t, i>> =>
    /\ tokens[t][i].slot = s /\ tokens[t][i].value = counter[s]
    /\ tokens[t][i].status = "PENDING" /\ i \notin done[t]

\* A pending token has its request in the slot, or its answer was counted; an acked
\* one was answered.
Known(t, i) ==
  LET k == tokens[t][i] IN
  /\ k.status = "PENDING" =>
       /\ k.slot \in Slots
       /\ busy[k.slot] = <<t, i>> \/ (counter[k.slot] > k.value /\ i \in done[t])
  /\ k.status = "ACKED" => i \in done[t]

AllKnown == \A t \in Threads, i \in Entries : Known(t, i)

\* The entries that the check loop has passed and found acked.
Seen(t, n) == {i \in Entries : i < n /\ tokens[t][i].status = "ACKED"}

\* Where a thread is in its call.
Place(t) ==
  /\ pc[t] = "tx" => /\ at[t] \in Entries /\ tokens[t][at[t]].status # "PENDING"
                     /\ op[t] \in {"write", "sync"}
  /\ pc[t] = "ack" => /\ at[t] \in Entries /\ tokens[t][at[t]].status = "PENDING"
                      /\ op[t] = "sync"
  /\ pc[t] = "wait" => /\ at[t] \in Entries /\ tokens[t][at[t]].status = "PENDING"
                       /\ op[t] = "wait"
  /\ pc[t] = "check" =>
       /\ at[t] \in 1 .. N + 1 /\ op[t] \in {"check", "wait"}
       /\ before[t] \subseteq done[t]
       /\ acked[t] = Cardinality(Seen(t, at[t]))
       /\ \A i \in before[t] :
            i < at[t] /\ tokens[t][i].status # "INVALID" => tokens[t][i].status = "ACKED"
  /\ pc[t] \in {"check", "wait"} /\ op[t] = "wait" =>
       \A i \in Entries : tokens[t][i].status # "INVALID"
  /\ pc[t] = "idle" /\ op[t] = "wait" /\ ret[t] = "OK" /\ ~sig[t] => done[t] = Entries

Places == \A t \in Threads : Place(t)

IInv == Types /\ Requests /\ AllKnown /\ Places
-----------------------------------------------------------------------------
USE UserRdmaAssumption

\* A set of entries is finite, and has its largest entry.
LEMMA EntriesFinite ==
  ASSUME NEW S \in SUBSET Entries
  PROVE  /\ IsFiniteSet(S) /\ Cardinality(S) \in Nat
         /\ Cardinality(S) = N => S = Entries
  <1>1. IsFiniteSet(Entries) /\ Cardinality(Entries) = N
    BY FS_Interval DEF Entries
  <1> QED BY <1>1, FS_Subset, FS_CardinalityType

LEMMA LastEntry ==
  ASSUME NEW S \in SUBSET Entries, S # {}
  PROVE  \E i \in S : \A j \in Entries : j > i => j \notin S
  <1> DEFINE R == OpToRel(<, Nat)
             T == {n \in Nat : N - n \in S}
  <1>1. PICK i \in S : TRUE
    OBVIOUS
  <1>2. i \in Nat /\ N - i \in Nat /\ N - (N - i) = i
    BY DEF Entries
  <1>3. T # {} /\ T \subseteq Nat
    BY <1>2
  <1>4. PICK x \in T : \A y \in T : <<y, x>> \notin R
    <2> HIDE DEF T, R
    <2>1. IsWellFoundedOn(R, Nat)
      BY NatLessThanWellFounded DEF R
    <2> QED BY <1>3, <2>1, WFMin
  <1>5. \A y \in T : ~(y < x)
    BY <1>3, <1>4 DEF OpToRel
  <1>6. ASSUME NEW j \in S PROVE ~(j > N - x)
    <2>1. j \in Nat /\ N - j \in Nat /\ N - (N - j) = j
      BY DEF Entries
    <2>2. ~(N - j < x)
      BY <1>5, <2>1
    <2> QED BY <1>3, <2>1, <2>2
  <1> QED BY <1>6

\* The initial state satisfies the invariant.
LEMMA InitInv == Init => IInv
  <1> SUFFICES ASSUME Init PROVE IInv
    OBVIOUS
  <1>1. Types
    BY DEF Init, Types, Tokens, NoToken, TokenStates, Entries
  <1>2. Requests
    BY DEF Init, Requests, Entries
  <1>3. AllKnown
    BY DEF Init, AllKnown, Known, NoToken
  <1>4. Places
    BY DEF Init, Places, Place
  <1> QED BY <1>1, <1>2, <1>3, <1>4 DEF IInv

\* All steps of one thread.
Steps(t) ==
  \/ \E i \in Entries, o \in {"write", "sync"}, n \in Sizes : Write(t, i, o, n)
  \/ \E o \in {"check", "wait"} : CheckOrWait(t, o)
  \/ WriteTx(t) \/ WriteFails(t) \/ SyncDone(t) \/ SyncInterrupted(t)
  \/ CheckToken(t) \/ CheckDone(t) \/ CheckFails(t)
  \/ axiomnet_rdma_wait(t) \/ WaitInterrupted(t)

LEMMA NextSplit ==
  ASSUME [Next]_vars
  PROVE  UNCHANGED vars \/ (\E s \in Slots : Answer(s)) \/ \E t \in Threads : Steps(t)
  BY DEF Next, Call, Continue, Fail, Steps

\* When the check has not counted all tokens, one is pending, and the loop of
\* axiom_rdma_wait finds the last such token.
LEMMA PendingFound ==
  ASSUME IInv, NEW t \in Threads, pc[t] = "check", at[t] = N + 1, op[t] = "wait", ~AllAcked(t)
  PROVE  PendingEntry(t) \in Entries /\ tokens[t][PendingEntry(t)].status = "PENDING"
  <1> DEFINE S == {i \in Entries : tokens[t][i].status = "PENDING"}
  <1>1. Seen(t, N + 1) = Acked(t)
    BY DEF Seen, Acked, Entries
  <1>2. Acked(t) # Entries
    <2>1. Cardinality(Acked(t)) # N
      BY <1>1 DEF IInv, Places, Place, AllAcked
    <2>2. Cardinality(Entries) = N
      BY FS_Interval DEF Entries
    <2> QED BY <2>1, <2>2
  <1>3. PICK i \in Entries : i \notin Acked(t)
    BY <1>2 DEF Acked
  <1>4. tokens[t][i].status = "PENDING"
    BY <1>3 DEF IInv, Places, Place, Types, Tokens, TokenStates, Acked
  <1>5. \E n \in S : \A j \in Entries : j > n => j \notin S
    BY <1>4, LastEntry
  <1>6. \E n \in Entries : /\ tokens[t][n].status = "PENDING"
                          /\ \A j \in Entries : j > n => tokens[t][j].status # "PENDING"
    BY <1>5
  <1> QED BY <1>6 DEF PendingEntry

\* The variables of a thread's place in its call.
PlaceTypes ==
  /\ pc \in [Threads -> {"idle", "tx", "ack", "check", "wait"}]
  /\ at \in [Threads -> 0 .. N + 1] /\ acked \in [Threads -> Nat]
  /\ ret \in [Threads -> {"OK", "ERROR"}] /\ before \in [Threads -> SUBSET Entries]

LEMMA ReturnTypes ==
  ASSUME Types, NEW t \in Threads, NEW r \in {"OK", "ERROR"}, Return(t, r)
  PROVE  PlaceTypes'
  <1>1. {} \in SUBSET Entries /\ 0 \in 0 .. N + 1
    OBVIOUS
  <1> QED BY <1>1 DEF Types, Return, PlaceTypes

LEMMA GotoTypes ==
  ASSUME Types, NEW t \in Threads, NEW p \in {"tx", "ack", "wait"}, NEW i \in Entries,
         Goto(t, p, i)
  PROVE  PlaceTypes'
  <1>1. i \in 0 .. N + 1
    BY DEF Entries
  <1> QED BY <1>1 DEF Types, Goto, PlaceTypes

LEMMA BeginTypes ==
  ASSUME Types, NEW t \in Threads, BeginCheck(t)
  PROVE  PlaceTypes'
  <1>1. 1 \in 0 .. N + 1
    OBVIOUS
  <1> QED BY <1>1 DEF Types, BeginCheck, PlaceTypes

\* A token that is acked is still a token.
LEMMA AckedType ==
  ASSUME Types, NEW t \in Threads, NEW i \in Entries
  PROVE  [tokens EXCEPT ![t][i].status = "ACKED"] \in [Threads -> [Entries -> Tokens]]
  <1>1. tokens[t][i] \in Tokens /\ tokens[t] \in [Entries -> Tokens]
    BY DEF Types
  <1>2. [tokens[t][i] EXCEPT !.status = "ACKED"] \in Tokens
    BY <1>1 DEF Tokens, TokenStates
  <1>3. [tokens[t] EXCEPT ![i] = [@ EXCEPT !.status = "ACKED"]] \in [Entries -> Tokens]
    BY <1>1, <1>2
  <1>4. \A f \in [Entries -> Tokens] : [tokens EXCEPT ![t] = f] \in [Threads -> [Entries -> Tokens]]
    BY DEF Types
  <1>5. [tokens EXCEPT ![t] = [tokens[t] EXCEPT ![i] = [@ EXCEPT !.status = "ACKED"]]]
          \in [Threads -> [Entries -> Tokens]]
    BY <1>3, <1>4
  <1>6. [tokens EXCEPT ![t][i].status = "ACKED"]
          = [tokens EXCEPT ![t] = [tokens[t] EXCEPT ![i] = [@ EXCEPT !.status = "ACKED"]]]
    OBVIOUS
  <1> QED BY <1>5, <1>6

\* A step preserves the types.
LEMMA TypesStep == IInv /\ [Next]_vars => Types'
  <1> SUFFICES ASSUME IInv, [Next]_vars PROVE Types'
    OBVIOUS
  <1>0. Types /\ Requests /\ AllKnown /\ \A t \in Threads : Place(t)
    BY DEF IInv, Places
  <1>1. CASE UNCHANGED vars
    BY <1>0, <1>1 DEF vars, Types
  <1>2. ASSUME NEW s \in Slots, Answer(s) PROVE Types'
    <2>1. busy[s] \in Threads \X (0 .. N)
      BY <1>0, <1>2 DEF Answer, Types
    <2>2. busy[s][1] \in Threads /\ {busy[s][2]} \ {0} \subseteq Entries
      BY <2>1 DEF Entries
    <2>3. counter' \in [Slots -> Nat] /\ busy' \in [Slots -> (Threads \X (0 .. N)) \cup {None}]
      BY <1>0, <1>2 DEF Answer, Types
    <2>4. done' \in [Threads -> SUBSET Entries]
      BY <1>0, <1>2, <2>2 DEF Answer, Types
    <2> QED BY <1>0, <1>2, <2>3, <2>4 DEF Answer, Types
  <1>3. ASSUME NEW t \in Threads, NEW i \in Entries, NEW o \in {"write", "sync"},
               NEW n \in Sizes, Write(t, i, o, n)
        PROVE  Types'
    <2>1. PlaceTypes'
      BY <1>0, <1>3, GotoTypes, ReturnTypes DEF Write
    <2> QED BY <1>0, <1>3, <2>1 DEF Write, driver, Types, PlaceTypes
  <1>4. ASSUME NEW t \in Threads, NEW o \in {"check", "wait"}, CheckOrWait(t, o) PROVE Types'
    <2>1. PlaceTypes'
      BY <1>0, <1>4, BeginTypes DEF CheckOrWait
    <2> QED BY <1>0, <1>4, <2>1 DEF CheckOrWait, driver, Types, PlaceTypes
  <1>5. ASSUME NEW t \in Threads, WriteTx(t) PROVE Types'
    <2>1. at[t] \in Entries /\ at[t] \in 0 .. N
      BY <1>0, <1>5 DEF WriteTx, Place, Entries
    <2>2. busy' \in [Slots -> (Threads \X (0 .. N)) \cup {None}]
      BY <1>0, <1>5, <2>1 DEF WriteTx, Types
    <2>3. tokens' \in [Threads -> [Entries -> Tokens]]
      BY <1>0, <1>5, <2>1 DEF WriteTx, Types, Tokens, TokenStates
    <2>4. PlaceTypes'
      BY <1>0, <1>5, <2>1, GotoTypes, ReturnTypes DEF WriteTx
    <2>5. done' \in [Threads -> SUBSET Entries]
      BY <1>0, <1>5 DEF WriteTx, Types
    <2> QED BY <1>0, <1>5, <2>2, <2>3, <2>4, <2>5 DEF WriteTx, Types, PlaceTypes
  <1>6. ASSUME NEW t \in Threads, WriteFails(t) \/ SyncDone(t) \/ CheckFails(t) \/ WaitInterrupted(t)
        PROVE  Types'
    <2>1. PlaceTypes'
      BY <1>0, <1>6, ReturnTypes DEF WriteFails, SyncDone, CheckFails, WaitInterrupted
    <2>2. sig' \in [Threads -> BOOLEAN] /\ UNCHANGED <<counter, busy, tokens, op, done>>
      BY <1>0, <1>6 DEF WriteFails, SyncDone, CheckFails, WaitInterrupted, driver, Types
    <2> QED BY <1>0, <2>1, <2>2 DEF Types, PlaceTypes
  <1>7. ASSUME NEW t \in Threads, SyncInterrupted(t) PROVE Types'
    <2>1. tokens' \in [Threads -> [Entries -> Tokens]]
      BY <1>0, <1>7 DEF SyncInterrupted, NoToken, Types, Tokens, TokenStates
    <2>2. busy' \in [Slots -> (Threads \X (0 .. N)) \cup {None}]
      BY <1>0, <1>7 DEF SyncInterrupted, Types
    <2>3. PlaceTypes'
      BY <1>0, <1>7, ReturnTypes DEF SyncInterrupted
    <2>4. done' \in [Threads -> SUBSET Entries]
      BY <1>0, <1>7 DEF SyncInterrupted, Types
    <2> QED BY <1>0, <1>7, <2>1, <2>2, <2>3, <2>4 DEF SyncInterrupted, Types, PlaceTypes
  <1>8. ASSUME NEW t \in Threads, CheckToken(t) PROVE Types'
    <2>0. at[t] \in Entries
      BY <1>8 DEF CheckToken
    <2>1. tokens' \in [Threads -> [Entries -> Tokens]]
      <3>1. CASE tokens' = tokens
        BY <1>0, <3>1 DEF Types
      <3>2. CASE tokens' = [tokens EXCEPT ![t][at[t]].status = "ACKED"]
        BY <1>0, <2>0, <3>2, AckedType
      <3> QED BY <1>8, <3>1, <3>2 DEF CheckToken
    <2>3. acked' \in [Threads -> Nat]
      <3>1. acked' = acked \/ acked' = [acked EXCEPT ![t] = @ + 1]
        BY <1>8 DEF CheckToken
      <3>2. acked[t] + 1 \in Nat /\ acked \in [Threads -> Nat]
        BY <1>0 DEF Types
      <3> HIDE DEF Types
      <3> QED BY <3>1, <3>2
    <2>2. at' \in [Threads -> 0 .. N + 1]
      BY <1>0, <1>8 DEF CheckToken, Entries, Types
    <2> QED BY <1>0, <1>8, <2>1, <2>2, <2>3 DEF CheckToken, driver, Types
  <1>9. ASSUME NEW t \in Threads, CheckDone(t) PROVE Types'
    <2>1. PlaceTypes'
      <3>1. CASE op[t] = "check" \/ AllAcked(t)
        BY <1>0, <1>9, <3>1, ReturnTypes DEF CheckDone
      <3>2. CASE ~(op[t] = "check" \/ AllAcked(t))
        <4>1. op[t] = "wait"
          BY <1>0, <1>9, <3>2 DEF CheckDone, Place
        <4>2. PendingEntry(t) \in Entries
          BY <1>9, <3>2, <4>1, PendingFound DEF CheckDone
        <4> QED BY <1>0, <1>9, <3>2, <4>2, GotoTypes DEF CheckDone
      <3> QED BY <3>1, <3>2
    <2> QED BY <1>0, <1>9, <2>1 DEF CheckDone, driver, Types, PlaceTypes
  <1>10. ASSUME NEW t \in Threads, axiomnet_rdma_wait(t) PROVE Types'
    <2>1. PlaceTypes'
      BY <1>0, <1>10, BeginTypes DEF axiomnet_rdma_wait
    <2>2. at[t] \in Entries
      BY <1>0, <1>10 DEF axiomnet_rdma_wait, Place
    <2>3. tokens' \in [Threads -> [Entries -> Tokens]]
      BY <1>0, <1>10, <2>2, AckedType DEF axiomnet_rdma_wait
    <2> QED BY <1>0, <1>10, <2>1, <2>3 DEF axiomnet_rdma_wait, driver, Types, PlaceTypes
  <1> QED BY <1>1, <1>2, <1>3, <1>4, <1>5, <1>6, <1>7, <1>8, <1>9, <1>10, NextSplit DEF Steps

\* The tokens after one of them is acked.
LEMMA AckedForm ==
  ASSUME Types, NEW t \in Threads, NEW i \in Entries,
         tokens' = [tokens EXCEPT ![t][i].status = "ACKED"]
  PROVE  /\ tokens'[t][i].status = "ACKED"
         /\ \A u \in Threads, j \in Entries : u # t \/ j # i => tokens'[u][j] = tokens[u][j]
  BY DEF Types, Tokens

\* Acking a token that is acked already, or whose counter has moved on, is right.
LEMMA AckStep ==
  ASSUME Types, Requests, AllKnown, NEW t \in Threads, NEW i \in Entries,
         \/ tokens[t][i].status = "ACKED"
         \/ tokens[t][i].status = "PENDING" /\ Answered(tokens[t][i]),
         tokens' = [tokens EXCEPT ![t][i].status = "ACKED"],
         UNCHANGED <<counter, busy, done>>
  PROVE  Requests' /\ AllKnown'
  <1>1. i \in done[t] /\ \A s \in Slots : busy[s] # <<t, i>>
    <2>1. \A s \in Slots : busy[s] = <<t, i>> =>
            tokens[t][i].slot = s /\ tokens[t][i].value = counter[s] /\ tokens[t][i].status = "PENDING"
      BY DEF Requests
    <2>2. \A s \in Slots : busy[s] # <<t, i>>
      BY <2>1 DEF Answered
    <2> QED BY <2>2 DEF AllKnown, Known
  <1>2. /\ tokens'[t][i].status = "ACKED"
        /\ \A u \in Threads, j \in Entries : u # t \/ j # i => tokens'[u][j] = tokens[u][j]
    BY AckedForm
  <1>3. Requests'
    BY <1>1, <1>2 DEF Requests
  <1>4. ASSUME NEW u \in Threads, NEW j \in Entries PROVE Known(u, j)'
    <2>1. CASE u = t /\ j = i
      BY <1>1, <1>2, <2>1 DEF Known
    <2>2. CASE u # t \/ j # i
      BY <1>2, <2>2 DEF AllKnown, Known
    <2> QED BY <2>1, <2>2
  <1> QED BY <1>3, <1>4 DEF AllKnown

\* A step keeps tokens, requests and answers together.
LEMMA DataStep == IInv /\ [Next]_vars => Requests' /\ AllKnown'
  <1> SUFFICES ASSUME IInv, [Next]_vars PROVE Requests' /\ AllKnown'
    OBVIOUS
  <1>0. Types /\ Requests /\ AllKnown /\ \A t \in Threads : Place(t)
    BY DEF IInv, Places
  <1>a. ASSUME UNCHANGED <<counter, busy, tokens, done>> PROVE Requests' /\ AllKnown'
    BY <1>0, <1>a DEF Requests, AllKnown, Known
  <1>1. CASE UNCHANGED vars
    BY <1>a, <1>1 DEF vars
  <1>2. ASSUME NEW s \in Slots, Answer(s) PROVE Requests' /\ AllKnown'
    <2>1. PICK t \in Threads, i \in 0 .. N : busy[s] = <<t, i>>
      BY <1>0, <1>2 DEF Answer, Types
    <2>2. /\ counter'[s] = counter[s] + 1 /\ busy'[s] = None
          /\ \A r \in Slots \ {s} : counter'[r] = counter[r] /\ busy'[r] = busy[r]
          /\ done'[t] = done[t] \cup ({i} \ {0})
          /\ \A u \in Threads \ {t} : done'[u] = done[u]
          /\ tokens' = tokens
      BY <1>0, <1>2, <2>1 DEF Answer, Types
    <2>3. \A u \in Threads, j \in Entries : None # <<u, j>>
      BY DEF Entries
    <2>4. Requests'
      <3> SUFFICES ASSUME NEW r \in Slots, NEW u \in Threads, NEW j \in Entries, busy'[r] = <<u, j>>
                   PROVE  /\ tokens[u][j].slot = r /\ tokens[u][j].value = counter'[r]
                          /\ tokens[u][j].status = "PENDING" /\ j \notin done'[u]
        BY <2>2 DEF Requests
      <3>1. r # s /\ busy[r] = <<u, j>>
        BY <2>2, <2>3
      <3>2. /\ tokens[u][j].slot = r /\ tokens[u][j].value = counter'[r]
            /\ tokens[u][j].status = "PENDING" /\ j \notin done[u]
        BY <1>0, <2>2, <3>1 DEF Requests
      <3>3. ~(u = t /\ j = i)
        BY <1>0, <2>1, <3>1, <3>2 DEF Requests
      <3> QED BY <2>2, <3>2, <3>3
    <2>5. ASSUME NEW u \in Threads, NEW j \in Entries PROVE Known(u, j)'
      <3>1. Known(u, j) /\ done[u] \subseteq done'[u]
        BY <1>0, <2>2 DEF AllKnown
      <3>2. CASE tokens[u][j].status = "PENDING" /\ tokens[u][j].slot = s /\ busy[s] = <<u, j>>
        <4>1. u = t /\ j = i /\ i # 0
          BY <2>1, <3>2 DEF Entries
        <4>2. tokens[u][j].value = counter[s]
          BY <1>0, <3>2 DEF Requests
        <4> QED BY <1>0, <2>2, <3>2, <4>1, <4>2 DEF Known, Types
      <3>3. CASE tokens[u][j].status = "PENDING" /\ tokens[u][j].slot = s /\ busy[s] # <<u, j>>
        <4>1. counter[s] > tokens[u][j].value /\ j \in done'[u]
          BY <3>1, <3>3 DEF Known
        <4>2. counter[s] \in Nat /\ tokens[u][j].value \in Nat
          BY <1>0 DEF Types, Tokens
        <4>3. counter'[s] > tokens[u][j].value
          BY <2>2, <4>1, <4>2
        <4> QED BY <2>2, <3>3, <4>1, <4>3 DEF Known
      <3>4. CASE tokens[u][j].status = "PENDING" => tokens[u][j].slot # s
        BY <2>2, <3>1, <3>4 DEF Known
      <3> QED BY <3>2, <3>3, <3>4
    <2> QED BY <2>4, <2>5 DEF AllKnown
  <1>3. ASSUME NEW t \in Threads, NEW i \in Entries, NEW o \in {"write", "sync"},
               NEW n \in Sizes, Write(t, i, o, n)
        PROVE  Requests' /\ AllKnown'
    BY <1>a, <1>3 DEF Write, driver
  <1>4. ASSUME NEW t \in Threads, NEW o \in {"check", "wait"}, CheckOrWait(t, o)
        PROVE  Requests' /\ AllKnown'
    BY <1>a, <1>4 DEF CheckOrWait, driver
  <1>5. ASSUME NEW t \in Threads, WriteTx(t) PROVE Requests' /\ AllKnown'
    <2> DEFINE i == at[t]
    <2>1. i \in Entries /\ tokens[t][i].status # "PENDING"
      BY <1>0, <1>5 DEF WriteTx, Place
    <2>2. PICK s \in Slots :
            /\ busy[s] = None /\ busy' = [busy EXCEPT ![s] = <<t, i>>]
            /\ tokens' = [tokens EXCEPT ![t][i] =
                            [slot |-> s, value |-> counter[s], status |-> "PENDING"]]
      BY <1>5 DEF WriteTx
    <2>3. counter' = counter /\ done' = [done EXCEPT ![t] = @ \ {i}]
      BY <1>5 DEF WriteTx
    <2> HIDE DEF i
    <2>4. /\ busy'[s] = <<t, i>> /\ \A r \in Slots \ {s} : busy'[r] = busy[r]
          /\ tokens'[t][i] = [slot |-> s, value |-> counter[s], status |-> "PENDING"]
          /\ \A u \in Threads, j \in Entries : u # t \/ j # i => tokens'[u][j] = tokens[u][j]
          /\ i \notin done'[t]
          /\ \A u \in Threads, j \in Entries : u # t \/ j # i => (j \in done'[u] <=> j \in done[u])
      BY <1>0, <2>1, <2>2, <2>3 DEF Types
    <2>5. \A r \in Slots : busy[r] # <<t, i>>
      BY <1>0, <2>1 DEF Requests
    <2>6. \A u \in Threads, j \in Entries : busy[s] # <<u, j>>
      BY <2>2 DEF Entries
    <2>7. Requests'
      <3> SUFFICES ASSUME NEW r \in Slots, NEW u \in Threads, NEW j \in Entries, busy'[r] = <<u, j>>
                   PROVE  /\ tokens'[u][j].slot = r /\ tokens'[u][j].value = counter[r]
                          /\ tokens'[u][j].status = "PENDING" /\ j \notin done'[u]
        BY <2>3 DEF Requests
      <3>1. CASE r = s
        BY <2>4, <3>1
      <3>2. CASE r # s
        <4>1. busy[r] = <<u, j>> /\ (u # t \/ j # i)
          BY <2>4, <2>5, <3>2
        <4> QED BY <1>0, <2>4, <4>1 DEF Requests
      <3> QED BY <3>1, <3>2
    <2>8. ASSUME NEW u \in Threads, NEW j \in Entries PROVE Known(u, j)'
      <3>1. CASE u = t /\ j = i
        BY <2>4, <3>1 DEF Known
      <3>2. CASE u # t \/ j # i
        <4>1. Known(u, j) /\ tokens'[u][j] = tokens[u][j] /\ (j \in done'[u] <=> j \in done[u])
          BY <1>0, <2>4, <3>2 DEF AllKnown
        <4>2. \A r \in Slots : busy[r] = <<u, j>> => busy'[r] = <<u, j>>
          BY <2>4, <2>6
        <4> QED BY <2>3, <4>1, <4>2 DEF Known
      <3> QED BY <3>1, <3>2
    <2> QED BY <2>7, <2>8 DEF AllKnown
  <1>6. ASSUME NEW t \in Threads, WriteFails(t) \/ SyncDone(t) \/ CheckFails(t) \/ WaitInterrupted(t)
        PROVE  Requests' /\ AllKnown'
    BY <1>a, <1>6 DEF WriteFails, SyncDone, CheckFails, WaitInterrupted, driver
  <1>7. ASSUME NEW t \in Threads, SyncInterrupted(t) PROVE Requests' /\ AllKnown'
    <2> DEFINE i == at[t]
    <2>1. i \in Entries
      BY <1>0, <1>7 DEF SyncInterrupted, Place
    <2>2. /\ tokens' = [tokens EXCEPT ![t][i] = NoToken]
          /\ busy' = [s \in Slots |-> IF busy[s] = <<t, i>> THEN <<t, 0>> ELSE busy[s]]
          /\ done' = [done EXCEPT ![t] = @ \ {i}] /\ counter' = counter
      BY <1>7 DEF SyncInterrupted
    <2> HIDE DEF i
    <2>3. /\ tokens'[t][i] = NoToken
          /\ \A u \in Threads, j \in Entries : u # t \/ j # i => tokens'[u][j] = tokens[u][j]
          /\ \A u \in Threads, j \in Entries : u # t \/ j # i => (j \in done'[u] <=> j \in done[u])
      BY <1>0, <2>1, <2>2 DEF Types
    <2>4. \A r \in Slots, u \in Threads, j \in Entries :
            busy'[r] = <<u, j>> <=> busy[r] = <<u, j>> /\ (u # t \/ j # i)
      <3>1. \A u \in Threads, j \in Entries : <<t, 0>> # <<u, j>>
        BY DEF Entries
      <3> QED BY <2>2, <3>1
    <2>5. Requests'
      BY <1>0, <2>2, <2>3, <2>4 DEF Requests
    <2>6. ASSUME NEW u \in Threads, NEW j \in Entries PROVE Known(u, j)'
      <3>1. CASE u = t /\ j = i
        BY <2>3, <3>1 DEF Known, NoToken
      <3>2. CASE u # t \/ j # i
        BY <1>0, <2>2, <2>3, <2>4, <3>2 DEF AllKnown, Known
      <3> QED BY <3>1, <3>2
    <2> QED BY <2>5, <2>6 DEF AllKnown
  <1>8. ASSUME NEW t \in Threads, CheckToken(t) PROVE Requests' /\ AllKnown'
    <2>1. at[t] \in Entries /\ UNCHANGED <<counter, busy, done>>
      BY <1>8 DEF CheckToken, driver
    <2>2. CASE Counts(t)
      BY <1>0, <1>8, <2>1, <2>2, AckStep DEF CheckToken, Counts
    <2>3. CASE ~Counts(t)
      BY <1>a, <1>8, <2>1, <2>3 DEF CheckToken
    <2> QED BY <2>2, <2>3
  <1>9. ASSUME NEW t \in Threads, CheckDone(t) PROVE Requests' /\ AllKnown'
    BY <1>a, <1>9 DEF CheckDone, driver
  <1>10. ASSUME NEW t \in Threads, axiomnet_rdma_wait(t) PROVE Requests' /\ AllKnown'
    <2>1. /\ at[t] \in Entries /\ tokens[t][at[t]].status = "PENDING"
          /\ UNCHANGED <<counter, busy, done>>
      BY <1>0, <1>10 DEF axiomnet_rdma_wait, Place, driver
    <2> QED BY <1>0, <1>10, <2>1, AckStep DEF axiomnet_rdma_wait
  <1> QED BY <1>1, <1>2, <1>3, <1>4, <1>5, <1>6, <1>7, <1>8, <1>9, <1>10, NextSplit DEF Steps

\* What a step of a thread leaves alone.
OthersKept(t) ==
  \A u \in Threads \ {t} :
    /\ pc'[u] = pc[u] /\ op'[u] = op[u] /\ at'[u] = at[u] /\ acked'[u] = acked[u]
    /\ ret'[u] = ret[u] /\ sig'[u] = sig[u] /\ done'[u] = done[u] /\ before'[u] = before[u]
    /\ tokens'[u] = tokens[u]

LEMMA StepsAreLocal ==
  ASSUME Types, NEW t \in Threads, Steps(t)
  PROVE  OthersKept(t)
  <1> USE DEF Types, OthersKept
  <1>1. CASE \E i \in Entries, o \in {"write", "sync"}, n \in Sizes : Write(t, i, o, n)
    BY <1>1 DEF Write, Goto, Return
  <1>2. CASE \E o \in {"check", "wait"} : CheckOrWait(t, o)
    BY <1>2 DEF CheckOrWait, BeginCheck
  <1>3. CASE WriteTx(t)
    BY <1>3 DEF WriteTx, Goto, Return
  <1>4. CASE WriteFails(t) \/ SyncDone(t) \/ CheckFails(t) \/ WaitInterrupted(t)
    BY <1>4 DEF WriteFails, SyncDone, CheckFails, WaitInterrupted, Return
  <1>5. CASE SyncInterrupted(t)
    BY <1>5 DEF SyncInterrupted, Return
  <1>6. CASE CheckToken(t)
    BY <1>6 DEF CheckToken
  <1>7. CASE CheckDone(t)
    BY <1>7 DEF CheckDone, Goto, Return
  <1>8. CASE axiomnet_rdma_wait(t)
    BY <1>8 DEF axiomnet_rdma_wait, BeginCheck
  <1> QED BY <1>1, <1>2, <1>3, <1>4, <1>5, <1>6, <1>7, <1>8 DEF Steps

\* A call that returns anything but success needs nothing of its tokens.
LEMMA AtReturn ==
  ASSUME Types, NEW t \in Threads, NEW r, Return(t, r), op'[t] # "wait" \/ r = "ERROR" \/ sig'[t]
  PROVE  Place(t)'
  <1>1. pc'[t] = "idle" /\ ret'[t] = r
    BY DEF Types, Return
  <1> QED BY <1>1 DEF Place

\* The beginning of a check: nothing is counted.
LEMMA AtBegin ==
  ASSUME Types, NEW t \in Threads, BeginCheck(t), done' = done,
         op'[t] \in {"check", "wait"},
         op'[t] = "wait" => \A i \in Entries : tokens'[t][i].status # "INVALID"
  PROVE  Place(t)'
  <1>1. /\ pc'[t] = "check" /\ at'[t] = 1 /\ acked'[t] = 0 /\ before'[t] = done[t]
    BY DEF Types, BeginCheck
  <1>2. Seen(t, 1)' = {} /\ \A i \in Entries : ~(i < 1) /\ 1 \in 1 .. N + 1
    BY DEF Seen, Entries
  <1>3. before'[t] \subseteq Entries
    BY <1>1 DEF Types
  <1>4. Seen(t, at[t])' = {}
    BY <1>1, <1>2 DEF Seen
  <1>5. /\ at'[t] \in 1 .. N + 1 /\ before'[t] \subseteq done'[t]
        /\ acked'[t] = Cardinality(Seen(t, at[t])')
        /\ \A i \in before'[t] : ~(i < at'[t])
    <2>1. acked'[t] = Cardinality(Seen(t, at[t])')
      BY <1>1, <1>4, FS_EmptySet
    <2>2. at'[t] \in 1 .. N + 1 /\ before'[t] \subseteq done'[t]
      BY <1>1
    <2>3. \A i \in before'[t] : ~(i < at'[t])
      BY <1>1, <1>2, <1>3
    <2> QED BY <2>1, <2>2, <2>3
  <1> QED BY <1>1, <1>5 DEF Place

\* A step keeps the place of every thread.
LEMMA PlacesStep == IInv /\ [Next]_vars => Places'
  <1> SUFFICES ASSUME IInv, [Next]_vars, NEW u \in Threads PROVE Place(u)'
    BY DEF Places
  <1>0. Types /\ Requests /\ AllKnown /\ \A t \in Threads : Place(t)
    BY DEF IInv, Places
  <1>a. ASSUME pc'[u] = pc[u], op'[u] = op[u], at'[u] = at[u], acked'[u] = acked[u],
               ret'[u] = ret[u], sig'[u] = sig[u], done'[u] = done[u], before'[u] = before[u],
               tokens'[u] = tokens[u]
        PROVE  Place(u)'
    <2>1. Seen(u, at[u])' = Seen(u, at[u])
      BY <1>a DEF Seen
    <2> QED BY <1>0, <1>a, <2>1 DEF Place
  <1>1. CASE UNCHANGED vars
    BY <1>a, <1>1 DEF vars
  <1>2. ASSUME NEW s \in Slots, Answer(s) PROVE Place(u)'
    <2>1. UNCHANGED <<tokens, pc, op, at, acked, ret, before, sig>> /\ done[u] \subseteq done'[u]
      BY <1>0, <1>2 DEF Answer, Types
    <2>2. done'[u] \subseteq Entries
      BY TypesStep DEF Types
    <2>3. Seen(u, at[u])' = Seen(u, at[u])
      BY <2>1 DEF Seen
    <2> QED BY <1>0, <2>1, <2>2, <2>3 DEF Place
  <1>3. ASSUME NEW t \in Threads, Steps(t), t # u PROVE Place(u)'
    BY <1>0, <1>a, <1>3, StepsAreLocal DEF OthersKept
  <1>4. ASSUME NEW i \in Entries, NEW o \in {"write", "sync"}, NEW n \in Sizes, Write(u, i, o, n)
        PROVE  Place(u)'
    <2>1. op'[u] = o /\ tokens' = tokens
      BY <1>0, <1>4 DEF Write, Types
    <2>2. CASE SizeOK(n)
      <3>1. pc'[u] = "tx" /\ at'[u] = i /\ tokens[u][i].status # "PENDING"
        BY <1>0, <1>4, <2>2 DEF Write, Goto, Types
      <3> QED BY <2>1, <3>1 DEF Place
    <2>3. CASE ~SizeOK(n)
      BY <1>0, <1>4, <2>1, <2>3, AtReturn DEF Write
    <2> QED BY <2>2, <2>3
  <1>5. ASSUME NEW o \in {"check", "wait"}, CheckOrWait(u, o) PROVE Place(u)'
    <2>1. /\ op'[u] = o /\ tokens' = tokens /\ done' = done /\ BeginCheck(u)
          /\ o = "wait" => \A i \in Entries : tokens[u][i].status # "INVALID"
      BY <1>0, <1>5 DEF CheckOrWait, Types
    <2> QED BY <1>0, <2>1, AtBegin
  <1>6. CASE WriteTx(u)
    <2>1. at[u] \in Entries /\ op[u] \in {"write", "sync"} /\ op' = op
      BY <1>0, <1>6 DEF WriteTx, Place
    <2>2. CASE op[u] = "sync"
      <3>1. pc'[u] = "ack" /\ at'[u] = at[u] /\ tokens'[u][at[u]].status = "PENDING"
        BY <1>0, <1>6, <2>1, <2>2 DEF WriteTx, Goto, Types
      <3> QED BY <2>1, <2>2, <3>1 DEF Place
    <2>3. CASE op[u] # "sync"
      BY <1>0, <1>6, <2>1, <2>3, AtReturn DEF WriteTx
    <2> QED BY <2>2, <2>3
  <1>7. CASE WriteFails(u) \/ CheckFails(u)
    BY <1>0, <1>7, AtReturn DEF WriteFails, CheckFails
  <1>8. CASE SyncDone(u) \/ SyncInterrupted(u)
    <2>1. op'[u] = "sync"
      BY <1>0, <1>8 DEF SyncDone, SyncInterrupted, Place
    <2> QED BY <1>0, <1>8, <2>1, AtReturn DEF SyncDone, SyncInterrupted
  <1>9. CASE WaitInterrupted(u)
    <2>1. sig'[u]
      BY <1>0, <1>9 DEF WaitInterrupted, Types
    <2> QED BY <1>0, <1>9, <2>1, AtReturn DEF WaitInterrupted
  <1>10. CASE CheckDone(u)
    <2>1. /\ pc[u] = "check" /\ at[u] = N + 1 /\ op[u] \in {"check", "wait"}
          /\ UNCHANGED <<tokens, op, done, sig>>
      BY <1>0, <1>10 DEF CheckDone, Place
    <2>2. CASE op[u] = "check"
      BY <1>0, <1>10, <2>1, <2>2, AtReturn DEF CheckDone
    <2>3. CASE op[u] = "wait" /\ AllAcked(u)
      <3>1. Cardinality(Seen(u, at[u])) = N
        BY <1>0, <2>1, <2>3 DEF Place, AllAcked
      <3>2. Seen(u, at[u]) = Entries
        BY <3>1, EntriesFinite DEF Seen
      <3>3. done[u] = Entries
        BY <1>0, <3>2 DEF Seen, AllKnown, Known, Types
      <3>4. pc'[u] = "idle"
        BY <1>0, <1>10, <2>3 DEF CheckDone, Return, Types
      <3> QED BY <2>1, <3>3, <3>4 DEF Place
    <2>4. CASE op[u] = "wait" /\ ~AllAcked(u)
      <3>1. PendingEntry(u) \in Entries /\ tokens[u][PendingEntry(u)].status = "PENDING"
        BY <2>1, <2>4, PendingFound
      <3>2. pc'[u] = "wait" /\ at'[u] = PendingEntry(u)
        BY <1>0, <1>10, <2>4 DEF CheckDone, Goto, Types
      <3>3. \A i \in Entries : tokens[u][i].status # "INVALID"
        BY <1>0, <2>1, <2>4 DEF Place
      <3> QED BY <2>1, <2>4, <3>1, <3>2, <3>3 DEF Place
    <2> QED BY <2>1, <2>2, <2>3, <2>4
  <1>11. CASE axiomnet_rdma_wait(u)
    <2>1. /\ at[u] \in Entries /\ op'[u] = "wait" /\ BeginCheck(u) /\ done' = done
          /\ tokens' = [tokens EXCEPT ![u][at[u]].status = "ACKED"]
          /\ \A i \in Entries : tokens[u][i].status # "INVALID"
      BY <1>0, <1>11 DEF axiomnet_rdma_wait, Place
    <2>2. \A i \in Entries : tokens'[u][i].status # "INVALID"
      <3>1. /\ tokens'[u][at[u]].status = "ACKED"
            /\ \A j \in Entries : j # at[u] => tokens'[u][j] = tokens[u][j]
        <4>1. /\ tokens'[u][at[u]].status = "ACKED"
              /\ \A v \in Threads, j \in Entries :
                   v # u \/ j # at[u] => tokens'[v][j] = tokens[v][j]
          BY <1>0, <2>1, AckedForm
        <4> QED BY <4>1
      <3> QED BY <2>1, <3>1
    <2> QED BY <1>0, <2>1, <2>2, AtBegin
  <1>12. CASE CheckToken(u)
    <2>0. PICK n : n = at[u]
      OBVIOUS
    <2>1. /\ pc[u] = "check" /\ pc' = pc /\ n \in Entries /\ at'[u] = n + 1
          /\ op' = op /\ before' = before /\ done' = done
      BY <2>0, <1>0, <1>12 DEF CheckToken, Types
    <2>2. IF Counts(u) THEN tokens'[u][n].status = "ACKED" /\ acked'[u] = acked[u] + 1
                       ELSE tokens'[u][n] = tokens[u][n] /\ acked'[u] = acked[u]
      BY <2>0, <1>0, <1>12, <2>1, AckedForm DEF CheckToken, Types
    <2>3. \A j \in Entries : j # n => tokens'[u][j] = tokens[u][j]
      BY <2>0, <1>0, <1>12, <2>1, AckedForm DEF CheckToken, Types
    <2>4. Place(u) /\ op[u] \in {"check", "wait"} /\ n \in Nat
      BY <2>0, <1>0, <2>1 DEF Place, Entries
    <2>5. Seen(u, n + 1)' = IF Counts(u) THEN Seen(u, n) \cup {n} ELSE Seen(u, n)
      <3>1. \A j \in Entries : j < n + 1 <=> (j < n \/ j = n)
        BY <2>0, <2>4 DEF Entries
      <3>2. tokens'[u][n].status = "ACKED" <=> Counts(u)
        BY <2>0, <2>2 DEF Counts
      <3>3. n \notin Seen(u, n) /\ n \in Entries
        BY <2>0, <2>1, <2>4 DEF Seen
      <3>4. CASE Counts(u)
        <4>1. tokens'[u][n].status = "ACKED"
          BY <3>2, <3>4
        <4>2. Seen(u, n + 1)' = Seen(u, n) \cup {n}
          BY <2>3, <3>1, <3>3, <4>1 DEF Seen
        <4> QED BY <3>4, <4>2
      <3>5. CASE ~Counts(u)
        <4>1. tokens'[u][n].status # "ACKED"
          BY <3>2, <3>5
        <4>2. Seen(u, n + 1)' = Seen(u, n)
          BY <2>3, <3>1, <3>3, <4>1 DEF Seen
        <4> QED BY <3>5, <4>2
      <3> QED BY <3>4, <3>5
    <2>6. acked'[u] = Cardinality(Seen(u, n + 1)')
      <3>1. IsFiniteSet(Seen(u, n)) /\ n \notin Seen(u, n)
        BY <2>0, <2>4, EntriesFinite DEF Seen
      <3>2. acked[u] = Cardinality(Seen(u, n))
        BY <2>0, <2>1, <2>4 DEF Place
      <3>3. Cardinality(Seen(u, n) \cup {n}) = Cardinality(Seen(u, n)) + 1
        BY <2>0, <3>1, FS_AddElement
      <3> QED BY <2>0, <2>2, <2>5, <3>2, <3>3
    <2>7. ASSUME NEW i \in before[u], i < n + 1, tokens'[u][i].status # "INVALID"
          PROVE  tokens'[u][i].status = "ACKED"
      <3>1. i \in Entries /\ i \in done[u] /\ i \in Nat
        BY <2>0, <1>0, <2>1, <2>4 DEF Types, Place, Entries
      <3>2. CASE i # n
        <4>1. i < n
          BY <2>0, <2>4, <2>7, <3>1, <3>2
        <4> QED BY <2>0, <2>1, <2>3, <2>4, <2>7, <3>1, <3>2, <4>1 DEF Place
      <3>3. CASE i = n
        <4>1. SUFFICES ASSUME tokens[u][n].status = "PENDING" PROVE Counts(u)
          BY <2>0, <1>0, <2>2, <2>7, <3>1, <3>3 DEF Counts, Types, Tokens, TokenStates
        <4>2. tokens[u][n].slot \in Slots /\ counter[tokens[u][n].slot] > tokens[u][n].value
          <5>1. Known(u, n)
            BY <1>0, <3>1, <3>3 DEF AllKnown
          <5>2. \A s \in Slots : busy[s] # <<u, n>>
            BY <1>0, <3>1, <3>3 DEF Requests
          <5> QED BY <4>1, <5>1, <5>2 DEF Known
        <4>3. counter[tokens[u][n].slot] \in Nat /\ tokens[u][n].value \in Nat
          BY <2>0, <1>0, <2>1, <4>2 DEF Types, Tokens
        <4> QED BY <2>0, <4>1, <4>2, <4>3 DEF Counts, Answered
      <3> QED BY <2>0, <3>2, <3>3
    <2>8. op[u] = "wait" => \A i \in Entries : tokens'[u][i].status # "INVALID"
      BY <2>0, <2>1, <2>2, <2>3, <2>4 DEF Place
    <2>9. n + 1 \in 1 .. N + 1 /\ before[u] \subseteq done[u] /\ Seen(u, at[u])' = Seen(u, n + 1)'
      BY <2>0, <2>1, <2>4 DEF Place, Entries, Seen
    <2> QED BY <2>0, <2>1, <2>4, <2>6, <2>7, <2>8, <2>9 DEF Place
  <1> QED BY <1>1, <1>2, <1>3, <1>4, <1>5, <1>6, <1>7, <1>8, <1>9, <1>10, <1>11, <1>12, NextSplit DEF Steps

\* Every reachable state satisfies the invariant.
THEOREM Invariance == Spec => []IInv
  <1>1. IInv /\ [Next]_vars => IInv'
    BY TypesStep, DataStep, PlacesStep DEF IInv
  <1> QED BY <1>1, InitInv, PTL DEF Spec

\* A token that axiom_rdma_check reports as acked is one whose own request was
\* answered, and the number it returns misses no request answered before the call:
\* for any number of threads that reuse each other's slots in any order.
THEOREM TokensAreExact == Spec => []TokensExact
  <1>1. ASSUME IInv PROVE TokensExact
    <2>1. AckedIsDone
      BY <1>1 DEF IInv, AllKnown, Known, AckedIsDone, Acked
    <2>2. ASSUME NEW t \in Threads, pc[t] = "check", at[t] = N + 1
          PROVE  /\ acked[t] = Cardinality(Acked(t))
                 /\ {i \in before[t] : tokens[t][i].status # "INVALID"} \subseteq Acked(t)
      <3>1. Seen(t, at[t]) = Acked(t)
        BY <2>2 DEF Seen, Acked, Entries
      <3>2. /\ acked[t] = Cardinality(Seen(t, at[t])) /\ before[t] \subseteq Entries
            /\ \A i \in before[t] :
                 i < at[t] /\ tokens[t][i].status # "INVALID" => tokens[t][i].status = "ACKED"
        BY <1>1, <2>2 DEF IInv, Places, Place, Types
      <3>3. \A i \in Entries : i < at[t]
        BY <2>2 DEF Entries
      <3>4. {i \in before[t] : tokens[t][i].status # "INVALID"} \subseteq Acked(t)
        BY <3>2, <3>3 DEF Acked
      <3> QED BY <3>1, <3>2, <3>4
    <2> QED BY <2>1, <2>2 DEF TokensExact, CheckCounts
  <1> QED BY <1>1, Invariance, PTL

\* axiom_rdma_wait that was not interrupted returns success only when every request
\* of its array was answered.
THEOREM WaitsComplete == Spec => []WaitCompletes
  <1>1. IInv => WaitCompletes
    BY DEF IInv, Places, Place, WaitCompletes
  <1> QED BY <1>1, Invariance, PTL

\* axiom_rdma_wait and the synchronous calls wait only for a request that is still in
\* its slot or whose answer they will see: no answer passes them by.
THEOREM WaitsNotInVain == Spec => []WaitNotInVain
  <1>1. ASSUME IInv, NEW t \in Threads, pc[t] \in {"wait", "ack"}
        PROVE  LET k == tokens[t][at[t]]
               IN  k.status = "PENDING" /\ (Answered(k) \/ busy[k.slot] = <<t, at[t]>>)
    <2>1. at[t] \in Entries /\ tokens[t][at[t]].status = "PENDING"
      BY <1>1 DEF IInv, Places, Place
    <2>2. Known(t, at[t])
      BY <1>1, <2>1 DEF IInv, AllKnown
    <2>3. tokens[t][at[t]].value \in Nat /\ \A s \in Slots : counter[s] \in Nat
      BY <1>1, <2>1 DEF IInv, Types, Tokens
    <2> QED BY <2>1, <2>2, <2>3 DEF Known, Answered
  <1>2. IInv => WaitNotInVain
    BY <1>1 DEF WaitNotInVain
  <1> QED BY <1>2, Invariance, PTL
=============================================================================
