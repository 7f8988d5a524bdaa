------------------------- MODULE ItemPipeline_proofs -------------------------
(***************************************************************************)
(* Proofs about ItemPipeline, for every list length and any number of lost  *)
(* connections and restarts.                                                *)
(***************************************************************************)
EXTENDS ItemPipeline, TLAPS

(* The entries on_package queues: consecutive positions of the packet that
   start at the packet's first position or at the cursor. *)
LEMMA EntriesShape ==
    ASSUME PipeTypeOK, NEW m \in Packets
    PROVE  /\ Entries(m) \in Seq(0..MaxSent-1)
           /\ Len(Entries(m)) = Max2(0, m.upto - Max2(m.from, index))
           /\ \A k \in 1..Len(Entries(m)) : Entries(m)[k] = Max2(m.from, index) + k - 1
  <1>1. m.from \in 0..MaxSent /\ m.upto \in 0..MaxSent /\ index \in 0..MaxSent /\ MaxSent \in Nat
    BY PipelineAssumption DEF Packets, PipeTypeOK
  <1>2. Max2(m.from, index) \in 0..MaxSent
    BY <1>1 DEF Max2
  <1>3. Max2(0, m.upto - Max2(m.from, index)) \in Nat
    BY <1>1, <1>2 DEF Max2
  <1>4. \A k \in 1..Max2(0, m.upto - Max2(m.from, index)) :
            Max2(m.from, index) + k - 1 \in 0..MaxSent-1
    BY <1>1, <1>2 DEF Max2
  <1> QED
    BY <1>1, <1>2, <1>3, <1>4 DEF Entries

(* Every step keeps the types of the pipeline. *)
LEMMA PipeStepKeepsTypes ==
    ASSUME PipeTypeOK, [PipeNext]_pipeVars
    PROVE  PipeTypeOK'
  <1> USE PipelineAssumption DEF PipelineAssumption
  <1>1. ASSUME NEW p \in Payloads, Grant(p) PROVE PipeTypeOK'
    <2>1. [from |-> Len(sent), upto |-> Len(sent) + 1] \in Packets
      BY <1>1 DEF Grant, PipeTypeOK, Packets
    <2>2. net' \in Seq(Packets)
      BY <1>1, <2>1 DEF Grant, PipeTypeOK
    <2>3. sent' \in Seq(Payloads) /\ Len(sent') <= MaxSent
      BY <1>1 DEF Grant, PipeTypeOK
    <2> QED
      BY <1>1, <2>2, <2>3 DEF Grant, PipeTypeOK
  <1>2. CASE Connect
    <2>1. [from |-> 0, upto |-> Len(sent)] \in Packets
      BY DEF PipeTypeOK, Packets
    <2>2. net' \in Seq(Packets)
      BY <1>2, <2>1 DEF Connect
    <2> QED
      BY <1>2, <2>2 DEF Connect, PipeTypeOK
  <1>3. CASE LoseConnection
    BY <1>3 DEF LoseConnection, PipeTypeOK
  <1>4. CASE RestartClient
    BY <1>4 DEF RestartClient, PipeTypeOK
  <1>5. CASE OnReceivedItems
    <2>1. Head(net) \in Packets /\ Tail(net) \in Seq(Packets)
      BY <1>5 DEF OnReceivedItems, PipeTypeOK
    <2>2. Entries(Head(net)) \in Seq(0..MaxSent-1)
      BY <2>1, EntriesShape
    <2> QED
      BY <1>5, <2>1, <2>2 DEF OnReceivedItems, PipeTypeOK, Packets
  <1>6. CASE TakeItem
    BY <1>6 DEF TakeItem, PipeTypeOK
  <1>7. CASE FinishItem
    BY <1>7 DEF FinishItem, PipeTypeOK, Max2, Idle
  <1>8. CASE UNCHANGED pipeVars
    BY <1>8 DEF pipeVars, PipeTypeOK
  <1> QED
    BY <1>1, <1>2, <1>3, <1>4, <1>5, <1>6, <1>7, <1>8 DEF PipeNext

(* Every variable of the pipeline keeps its type. *)
THEOREM PipeTypeCorrect == PipeSpec => []PipeTypeOK
  <1>1. PipeInit => PipeTypeOK
    BY PipelineAssumption DEF PipeInit, PipeTypeOK, Idle
  <1>2. PipeTypeOK /\ [PipeNext]_pipeVars => PipeTypeOK'
    BY PipeStepKeepsTypes
  <1> QED
    BY <1>1, <1>2, PTL DEF PipeSpec

-----------------------------------------------------------------------------
(* Types of what the queue and the ledger come to. *)
LEMMA PositionTypes ==
    ASSUME PipeTypeOK
    PROVE  /\ Frontier \in Nat /\ Reach \in Nat /\ index \in Nat /\ index <= Frontier
           /\ Len(queue) \in Nat /\ DOMAIN queue = 1..Len(queue)
           /\ Len(received) \in Nat /\ DOMAIN received = 1..Len(received)
           /\ Len(net) \in Nat /\ DOMAIN net = 1..Len(net) /\ Len(sent) \in Nat
  BY PipelineAssumption DEF PipeTypeOK, Frontier, Reach, Max2, Idle

(* An entry of the list is an item. *)
LEMMA EntryIsPayload ==
    ASSUME PipeTypeOK, NEW i \in Nat, i < Len(sent)
    PROVE  i + 1 \in 1..Len(sent) /\ sent[i + 1] \in Payloads
  <1>1. sent \in Seq(Payloads) /\ Len(sent) \in Nat
    BY DEF PipeTypeOK
  <1>2. i + 1 \in 1..Len(sent)
    BY <1>1
  <1> QED
    BY <1>1, <1>2

(* The entry at the head of the queue is in the list, at most at the frontier. *)
LEMMA HeadIsEntry ==
    ASSUME PipeTypeOK, PipeInv, queue # <<>>
    PROVE  /\ Head(queue) = queue[1] /\ queue[1] \in Nat
           /\ queue[1] < Len(sent) /\ queue[1] <= Frontier
           /\ queue[1] + 1 \in 1..Len(sent) /\ sent[queue[1] + 1] \in Payloads
  <1>1. Head(queue) = queue[1] /\ 1 \in DOMAIN queue
    BY DEF PipeTypeOK
  <1>2. queue[1] \in Nat
    BY <1>1, PipelineAssumption DEF PipeTypeOK
  <1>3. queue[1] < Reach /\ Reach <= Len(sent) /\ queue[1] <= Frontier
    BY <1>1 DEF PipeInv, QueueReach
  <1>4. queue[1] < Len(sent)
    BY <1>2, <1>3, PositionTypes
  <1> QED
    BY <1>1, <1>2, <1>3, <1>4, EntryIsPayload

(* An entry of the ledger is a list position below the frontier. *)
LEMMA LedgerEntryType ==
    ASSUME PipeTypeOK, PipeInv, NEW n \in 1..Len(received)
    PROVE  /\ n \in DOMAIN received /\ received[n] \in Nat
           /\ received[n] < Frontier /\ received[n] < Len(sent)
           /\ received[n] + 1 \in 1..Len(sent) /\ sent[received[n] + 1] \in Payloads
  <1>1. n \in DOMAIN received /\ received[n] \in Nat
    BY PipelineAssumption DEF PipeTypeOK
  <1>2. received[n] < Frontier /\ Frontier <= Reach /\ Reach <= Len(sent)
    BY <1>1 DEF PipeInv, LedgerFull, QueueReach
  <1>3. received[n] < Len(sent)
    BY <1>1, <1>2, PositionTypes
  <1> QED
    BY <1>1, <1>2, <1>3, EntryIsPayload

(* Adding a granted item to the list and, when connected, a packet for it. *)
LEMMA GrantKeepsInv ==
    ASSUME PipeTypeOK, PipeInv, NEW p \in Payloads, Grant(p)
    PROVE  PipeInv'
  <1>1. Frontier' = Frontier /\ Reach' = Reach
    BY DEF Grant, Frontier, Reach
  <1>2. Len(sent) \in Nat /\ Len(sent') = Len(sent) + 1
    BY DEF Grant, PipeTypeOK
  <1>3. Frontier \in Nat /\ Reach \in Nat
    BY PipelineAssumption DEF PipeTypeOK, Frontier, Reach, Max2, Idle
  <1>4. QueueSteps' /\ LedgerFull'
    BY <1>1 DEF Grant, PipeInv, QueueSteps, LedgerFull
  <1>5. QueueReach'
    BY <1>1, <1>2, <1>3 DEF Grant, PipeInv, QueueReach
  <1>6. PacketsChain' /\ TailKnown'
    <2>1. CASE link = "down"
      BY <2>1, <1>1, <1>2, <1>3 DEF Grant, PipeInv, PacketsChain, TailKnown, PipeTypeOK
    <2>2. CASE link = "up"
      <3> DEFINE m == [from |-> Len(sent), upto |-> Len(sent) + 1]
      <3>1. net' = Append(net, m) /\ link' = "up"
        BY <2>2 DEF Grant
      <3>2. /\ Len(net) \in Nat /\ Len(net') = Len(net) + 1
            /\ net'[Len(net) + 1] = m
            /\ \A j \in 1..Len(net) : net'[j] = net[j]
        BY <3>1 DEF PipeTypeOK
      <3>3. m.from = Len(sent) /\ m.upto = Len(sent) + 1
        OBVIOUS
      <3>4. \A j \in 1..Len(net) : net[j].from \in Nat /\ net[j].upto \in Nat
        <4> SUFFICES ASSUME NEW j \in 1..Len(net)
                     PROVE  net[j].from \in Nat /\ net[j].upto \in Nat
          OBVIOUS
        <4>1. net[j] \in Packets
          BY DEF PipeTypeOK
        <4> QED
          BY <4>1, PipelineAssumption DEF Packets
      <3> HIDE DEF m
      <3>5. Len(net) > 0 => net[Len(net)].upto = Len(sent)
        BY <2>2, <3>2 DEF PipeInv, TailKnown, PipeTypeOK
      <3>6. Len(net) = 0 => Reach = Len(sent)
        BY <2>2 DEF PipeInv, TailKnown, PipeTypeOK
      <3>7. TailKnown'
        <4>1. net' # <<>> /\ net'[Len(net')].upto = Len(sent')
          BY <3>2, <3>3, <1>2
        <4> QED
          BY <4>1, <3>1 DEF TailKnown
      <3>8. net'[1].from <= Reach'
        <4>1. CASE Len(net) = 0
          BY <4>1, <3>2, <3>3, <3>6, <1>1, <1>2
        <4>2. CASE Len(net) > 0
          <5>1. net # <<>> /\ net'[1] = net[1]
            BY <4>2, <3>2
          <5>2. net[1].from <= Reach
            BY <5>1 DEF PipeInv, PacketsChain
          <5> QED
            BY <5>1, <5>2, <1>1
        <4> QED
          BY <4>1, <4>2, <3>2
      <3>9. ASSUME NEW j \in 1..Len(net) + 1
            PROVE  net'[j].from <= net'[j].upto /\ Reach' <= net'[j].upto
                   /\ net'[j].upto <= Len(sent')
        <4>1. CASE j = Len(net) + 1
          BY <4>1, <3>2, <3>3, <1>1, <1>2, <1>3 DEF PipeInv, QueueReach
        <4>2. CASE j \in 1..Len(net)
          <5>1. j \in DOMAIN net /\ net'[j] = net[j]
            BY <4>2, <3>2 DEF PipeTypeOK
          <5> QED
            BY <5>1, <4>2, <3>4, <1>1, <1>2, <1>3 DEF PipeInv, PacketsChain
        <4> QED
          BY <4>1, <4>2, <3>2
      <3>10. ASSUME NEW j \in 1..Len(net)
             PROVE  net'[j+1].from <= net'[j].upto
        <4>1. CASE j = Len(net)
          BY <4>1, <3>2, <3>3, <3>5, <1>2
        <4>2. CASE j \in 1..Len(net)-1
          <5>1. j + 1 \in 1..Len(net)
            BY <4>2, <3>2
          <5> QED
            BY <4>2, <5>1, <3>2, <3>4 DEF PipeInv, PacketsChain
        <4> QED
          BY <4>1, <4>2, <3>2
      <3>11. DOMAIN net' = 1..Len(net) + 1 /\ Len(net') - 1 = Len(net)
        BY <3>1, <3>2 DEF PipeTypeOK
      <3>12. ASSUME NEW j \in 1..Len(net) + 1, NEW k \in 1..Len(net) + 1, j <= k
             PROVE  net'[j].upto <= net'[k].upto
        <4>1. CASE k = Len(net) + 1
          <5>1. net'[k].upto = Len(sent')
            BY <4>1, <3>2, <3>3, <1>2
          <5> QED
            BY <5>1, <3>9
        <4>2. CASE k \in 1..Len(net)
          <5>1. /\ j \in 1..Len(net) /\ DOMAIN net = 1..Len(net)
                /\ net'[j] = net[j] /\ net'[k] = net[k]
            BY <4>2, <3>12, <3>2 DEF PipeTypeOK
          <5> QED
            BY <5>1, <4>2, <3>12 DEF PipeInv, PacketsChain
        <4> QED
          BY <4>1, <4>2, <3>2
      <3>13. PacketsChain'
        BY <3>8, <3>9, <3>10, <3>11, <3>12 DEF PacketsChain
      <3> QED
        BY <3>7, <3>13
    <2> QED
      BY <2>1, <2>2 DEF PipeTypeOK
  <1> QED
    BY <1>4, <1>5, <1>6 DEF PipeInv

(* A new connection starts the channel with the whole list. *)
LEMMA ConnectKeepsInv ==
    ASSUME PipeTypeOK, PipeInv, Connect
    PROVE  PipeInv'
  <1>1. Frontier' = Frontier /\ Reach' = Reach
    BY DEF Connect, Frontier, Reach
  <1>2. Len(sent) \in Nat /\ Reach \in Nat /\ Reach <= Len(sent)
    BY PipelineAssumption DEF PipeTypeOK, Reach, Frontier, Max2, Idle, PipeInv, QueueReach
  <1>3. QueueSteps' /\ LedgerFull' /\ QueueReach'
    BY <1>1 DEF Connect, PipeInv, QueueSteps, LedgerFull, QueueReach
  <1>4. PacketsChain' /\ TailKnown'
    <2>1. CASE sent = <<>>
      <3>1. net' = <<>> /\ Reach = Len(sent)
        BY <2>1, <1>2 DEF Connect
      <3> QED
        BY <3>1, <1>1 DEF Connect, PacketsChain, TailKnown
    <2>2. CASE sent # <<>>
      <3> DEFINE m == [from |-> 0, upto |-> Len(sent)]
      <3>1. net' = <<m>> /\ Len(net') = 1 /\ DOMAIN net' = {1} /\ net'[1] = m
        BY <2>2 DEF Connect
      <3>2. m.from = 0 /\ m.upto = Len(sent)
        OBVIOUS
      <3> HIDE DEF m
      <3>3. TailKnown'
        <4>1. net' # <<>> /\ net'[Len(net')].upto = Len(sent)
          BY <3>1, <3>2
        <4> QED
          BY <4>1 DEF Connect, TailKnown
      <3>4. PacketsChain'
        BY <3>1, <3>2, <1>1, <1>2 DEF Connect, PacketsChain
      <3> QED
        BY <3>3, <3>4
    <2> QED
      BY <2>1, <2>2
  <1> QED
    BY <1>3, <1>4 DEF PipeInv

(* A lost connection forgets the packets, never the queue or the ledger. *)
LEMMA LossKeepsInv ==
    ASSUME PipeTypeOK, PipeInv, LoseConnection
    PROVE  PipeInv'
  <1>1. Frontier' = Frontier /\ Reach' = Reach
    BY DEF LoseConnection, Frontier, Reach
  <1> QED
    BY <1>1 DEF LoseConnection, PipeInv, QueueSteps, LedgerFull, QueueReach,
                PacketsChain, TailKnown

(* A restarted client holds nothing, which is a consistent beginning. *)
LEMMA RestartKeepsInv ==
    ASSUME PipeTypeOK, PipeInv, RestartClient
    PROVE  PipeInv'
  <1>1. Frontier' = 0 /\ Reach' = 0
    BY DEF RestartClient, Frontier, Reach
  <1>2. Len(sent) \in Nat
    BY DEF PipeTypeOK
  <1> QED
    BY <1>1, <1>2 DEF RestartClient, PipeInv, QueueSteps, LedgerFull, QueueReach,
                PacketsChain, TailKnown, Idle

(* Taking an item moves the frontier past it and no further, and leaves the
   reach of the queue alone. *)
LEMMA TakeMovesFrontier ==
    ASSUME PipeTypeOK, PipeInv, TakeItem
    PROVE  /\ Frontier' = IF queue[1] = Frontier THEN Frontier + 1 ELSE Frontier
           /\ Reach' = Reach
           /\ received' = Append(received, queue[1])
           /\ Len(received') = Len(received) + 1
           /\ received'[Len(received) + 1] = queue[1]
           /\ \A j \in 1..Len(received) : received'[j] = received[j]
  <1> DEFINE i == queue[1]
  <1>1. /\ Len(queue) \in Nat /\ Len(queue) > 0 /\ i \in Nat
        /\ \A j \in 1..Len(queue) : queue[j] \in Nat
        /\ working = Idle /\ index \in Nat
    BY PipelineAssumption DEF TakeItem, PipeTypeOK
  <1>2. /\ Len(queue') = Len(queue) - 1
        /\ DOMAIN queue' = 1..Len(queue) - 1
        /\ \A j \in 1..Len(queue) - 1 : queue'[j] = queue[j+1]
        /\ working' = i /\ index' = index
    BY <1>1 DEF TakeItem, PipeTypeOK
  <1>3. /\ received' = Append(received, i) /\ Len(received') = Len(received) + 1
        /\ received'[Len(received) + 1] = i
        /\ \A j \in 1..Len(received) : received'[j] = received[j]
    BY DEF TakeItem, PipeTypeOK
  <1> HIDE DEF i
  <1>4. Frontier = index /\ i <= index /\ i # Idle
    BY <1>1 DEF PipeInv, QueueReach, Frontier, Idle, i
  <1>5. Frontier' = Max2(index, i + 1) /\ Frontier' \in Nat /\ Frontier <= Frontier'
    BY <1>1, <1>2, <1>4 DEF Frontier, Max2
  <1>6. Reach' = Reach
    <2>1. CASE Len(queue) = 1
      <3>1. Reach = i + 1 /\ queue' = <<>>
        BY <2>1, <1>1, <1>2 DEF Reach, i, TakeItem, PipeTypeOK
      <3>2. index <= i + 1
        BY <3>1, <1>4 DEF PipeInv, QueueReach
      <3> QED
        BY <3>1, <3>2, <1>1, <1>4, <1>5 DEF Reach, Max2
    <2>2. CASE Len(queue) > 1
      <3>1. queue # <<>> /\ queue' # <<>>
        BY <2>2, <1>1, <1>2
      <3>2. queue'[Len(queue')] = queue[Len(queue)]
        BY <2>2, <1>1, <1>2
      <3> QED
        BY <3>1, <3>2 DEF Reach
    <2>3. Len(queue) = 1 \/ Len(queue) > 1
      BY <1>1
    <2> QED
      BY <2>1, <2>2, <2>3
  <1>7. Frontier' = IF i = Frontier THEN Frontier + 1 ELSE Frontier
    BY <1>1, <1>4, <1>5 DEF Max2
  <1> QED
    BY <1>3, <1>6, <1>7 DEF i

(* Taking an entry moves the frontier past it, and the next one may follow. *)
LEMMA TakeKeepsInv ==
    ASSUME PipeTypeOK, PipeInv, TakeItem
    PROVE  PipeInv'
  <1> DEFINE i == queue[1]
  <1>1. /\ Len(queue) \in Nat /\ Len(queue) > 0 /\ i \in Nat
        /\ \A j \in 1..Len(queue) : queue[j] \in Nat
        /\ working = Idle /\ index \in Nat
    BY PipelineAssumption DEF TakeItem, PipeTypeOK
  <1>2. /\ Len(queue') = Len(queue) - 1
        /\ DOMAIN queue' = 1..Len(queue) - 1
        /\ \A j \in 1..Len(queue) - 1 : queue'[j] = queue[j+1]
        /\ working' = i /\ index' = index
    BY <1>1 DEF TakeItem, PipeTypeOK
  <1>3. /\ Len(received) \in Nat /\ DOMAIN received' = 1..Len(received) + 1
        /\ received'[Len(received) + 1] = i
        /\ \A j \in 1..Len(received) : received'[j] = received[j]
    BY DEF TakeItem, PipeTypeOK
  <1> HIDE DEF i
  <1>4. Frontier = index /\ i <= index /\ i # Idle
    BY <1>1 DEF PipeInv, QueueReach, Frontier, Idle, i
  <1>5. Frontier' = Max2(index, i + 1) /\ Frontier' \in Nat /\ Frontier <= Frontier'
    BY <1>1, <1>2, <1>4 DEF Frontier, Max2
  <1>6. Reach' = Reach
    BY TakeMovesFrontier
  <1>7. QueueSteps'
    <2> SUFFICES ASSUME NEW j \in 1..Len(queue) - 2 PROVE queue'[j+1] <= queue'[j] + 1
      BY <1>1, <1>2 DEF QueueSteps
    <2>1. j \in 1..Len(queue) - 1 /\ j + 1 \in 1..Len(queue) - 1
      BY <1>1
    <2>2. queue'[j] = queue[j+1] /\ queue'[j+1] = queue[(j+1)+1]
      BY <2>1, <1>2
    <2> QED
      BY <2>1, <2>2 DEF PipeInv, QueueSteps
  <1>8. QueueReach'
    <2>1. queue' # <<>> => queue'[1] <= Frontier'
      <3> SUFFICES ASSUME Len(queue) > 1 PROVE queue'[1] <= Frontier'
        BY <1>1, <1>2
      <3>1. queue'[1] = queue[2] /\ queue[2] <= i + 1 /\ queue[2] \in Nat
        BY <1>1, <1>2 DEF PipeInv, QueueSteps, i
      <3> QED
        BY <3>1, <1>1, <1>5 DEF Max2
    <2>2. \A j \in DOMAIN queue' : queue'[j] < Reach'
      <3> SUFFICES ASSUME NEW j \in 1..Len(queue) - 1 PROVE queue'[j] < Reach'
        BY <1>2
      <3>1. j + 1 \in 1..Len(queue) /\ DOMAIN queue = 1..Len(queue)
        BY <1>1 DEF PipeTypeOK
      <3> QED
        BY <3>1, <1>2, <1>6 DEF PipeInv, QueueReach
    <2>3. i < Reach /\ index <= Reach /\ Reach \in Int /\ Reach <= Len(sent)
      <3>1. 1 \in DOMAIN queue
        BY <1>1 DEF PipeTypeOK
      <3>2. Reach \in Int
        BY <1>1 DEF Reach
      <3> QED
        BY <3>1, <3>2, <1>4 DEF PipeInv, QueueReach, i
    <2> QED
      BY <2>1, <2>2, <2>3, <1>1, <1>2, <1>4, <1>5, <1>6 DEF QueueReach, Max2, TakeItem
  <1>9. PacketsChain' /\ TailKnown'
    BY <1>6 DEF TakeItem, PipeInv, PacketsChain, TailKnown
  <1>10. LedgerFull'
    <2>0. \A j \in DOMAIN received' : received'[j] < Frontier'
      <3> SUFFICES ASSUME NEW j \in 1..Len(received) + 1 PROVE received'[j] < Frontier'
        BY <1>3
      <3>1. CASE j \in 1..Len(received)
        <4>1. j \in DOMAIN received /\ received[j] \in Nat
          BY <3>1, PipelineAssumption DEF PipeTypeOK
        <4>2. received'[j] = received[j] /\ received[j] < Frontier
          BY <3>1, <4>1, <1>3 DEF PipeInv, LedgerFull
        <4> QED
          BY <4>1, <4>2, <1>1, <1>4, <1>5
      <3>2. CASE j = Len(received) + 1
        BY <3>2, <1>1, <1>3, <1>4, <1>5 DEF Max2
      <3> QED
        BY <3>1, <3>2, <1>3
    <2> SUFFICES ASSUME NEW k \in 0..Frontier'-1
                 PROVE  \E j \in DOMAIN received' : received'[j] = k
      BY <2>0 DEF LedgerFull
    <2>1. CASE k \in 0..Frontier-1
      <3>1. PICK j \in DOMAIN received : received[j] = k
        BY <2>1 DEF PipeInv, LedgerFull
      <3>2. j \in 1..Len(received)
        BY DEF PipeTypeOK
      <3>3. j \in DOMAIN received' /\ received'[j] = k
        BY <3>1, <3>2, <1>3
      <3> QED
        BY <3>3
    <2>2. CASE k = i
      BY <2>2, <1>3
    <2>3. k \in 0..Frontier-1 \/ k = i
      BY <1>1, <1>4, <1>5 DEF Max2
    <2> QED
      BY <2>1, <2>2, <2>3
  <1> QED
    BY <1>7, <1>8, <1>9, <1>10 DEF PipeInv

(* Advancing the cursor does not move the frontier: it was already past. *)
LEMMA FinishKeepsInv ==
    ASSUME PipeTypeOK, PipeInv, FinishItem
    PROVE  PipeInv'
  <1>1. Frontier' = Frontier
    BY PipelineAssumption DEF FinishItem, Frontier, Max2, Idle, PipeTypeOK
  <1>2. Reach' = Reach
    BY <1>1 DEF FinishItem, Reach
  <1> QED
    BY <1>1, <1>2 DEF FinishItem, PipeInv, QueueSteps, LedgerFull, QueueReach,
                      PacketsChain, TailKnown

(* The entries of the next packet that will be queued: the first, the end, how many. *)
FirstNew == Max2(net[1].from, index)
LastNew == net[1].upto
Fresh == Max2(0, LastNew - FirstNew)

(* A packet extends the queue: its entries at or above the cursor are put
   behind those that wait, and the queue then ends where the packet does. *)
LEMMA PacketExtendsQueue ==
    ASSUME PipeTypeOK, PipeInv, OnReceivedItems
    PROVE  /\ FirstNew \in Nat /\ LastNew \in Nat /\ Fresh \in Nat
           /\ net[1].from <= Reach /\ FirstNew <= Reach /\ Reach <= LastNew /\ LastNew <= Len(sent)
           /\ Fresh = LastNew - FirstNew
           /\ Len(queue') = Len(queue) + Fresh
           /\ DOMAIN queue' = 1..Len(queue) + Fresh
           /\ \A j \in 1..Len(queue) : queue'[j] = queue[j]
           /\ \A k \in 1..Fresh : queue'[Len(queue) + k] = FirstNew + k - 1
           /\ Frontier' = Frontier /\ Reach' = LastNew
  <1> DEFINE m == net[1]
             q == Len(queue)
  <1>0. m \in Packets /\ net # <<>>
    BY DEF OnReceivedItems, PipeTypeOK
  <1>1. /\ Len(net) \in Nat /\ Len(net) > 0 /\ LastNew \in Nat
        /\ FirstNew \in Nat /\ Fresh \in Nat /\ q \in Nat /\ index \in Nat /\ Len(sent) \in Nat
    <2>1. net \in Seq(Packets) /\ net # <<>>
      BY DEF PipeTypeOK, OnReceivedItems
    <2>2. m \in Packets /\ Len(net) \in Nat /\ Len(net) > 0
      BY <2>1
    <2>3. m.from \in Nat /\ LastNew \in Nat
      BY <2>2, PipelineAssumption DEF Packets, LastNew
    <2>4. index \in Nat /\ q \in Nat /\ Len(sent) \in Nat
      BY PipelineAssumption DEF PipeTypeOK
    <2> QED
      BY <2>1, <2>2, <2>3, <2>4 DEF Max2, FirstNew, LastNew, Fresh
  <1>2. /\ Frontier \in Nat /\ Reach \in Nat /\ index <= Frontier
        /\ \A j \in 1..q : queue[j] \in Nat
    BY PipelineAssumption DEF PipeTypeOK, Frontier, Reach, Max2, Idle
  <1>3. m.from <= Reach /\ FirstNew <= Reach /\ Reach <= LastNew /\ LastNew <= Len(sent)
    <2>1. m.from <= Reach /\ index <= Reach
      BY <1>0, <1>1, <1>2 DEF PipeInv, PacketsChain, QueueReach
    <2>2. 1 \in DOMAIN net
      BY <1>1 DEF PipeTypeOK
    <2> QED
      BY <2>1, <2>2, <1>1 DEF PipeInv, PacketsChain, Max2, FirstNew, LastNew
  <1>4. /\ Len(queue') = q + Fresh
        /\ \A j \in 1..q : queue'[j] = queue[j]
        /\ \A k \in 1..Fresh : queue'[q + k] = FirstNew + k - 1
    <2>1. /\ Entries(m) \in Seq(0..MaxSent-1) /\ Len(Entries(m)) = Fresh
          /\ \A k \in 1..Fresh : Entries(m)[k] = FirstNew + k - 1
      BY <1>0, EntriesShape DEF FirstNew, LastNew, Fresh
    <2>2. queue' = queue \o Entries(m) /\ queue \in Seq(0..MaxSent-1)
      BY DEF OnReceivedItems, PipeTypeOK
    <2> HIDE DEF m
    <2>3. Len(queue') = q + Fresh
      <3>1. Len(queue \o Entries(m)) = Len(queue) + Len(Entries(m))
        BY <2>1, <2>2
      <3> QED
        BY <2>1, <2>2, <3>1
    <2>5. \A j \in 1..q : queue'[j] = queue[j]
      <3> SUFFICES ASSUME NEW j \in 1..q PROVE queue'[j] = queue[j]
        OBVIOUS
      <3>1. j \in 1..Len(queue) + Len(Entries(m)) /\ j <= Len(queue)
        BY <2>1, <1>1
      <3> QED
        BY <2>1, <2>2, <3>1
    <2>4. \A k \in 1..Fresh : queue'[q + k] = Entries(m)[k]
      <3> SUFFICES ASSUME NEW k \in 1..Fresh PROVE queue'[q + k] = Entries(m)[k]
        OBVIOUS
      <3>1. q + k \in 1..Len(queue) + Len(Entries(m)) /\ q + k > Len(queue) /\ (q + k) - Len(queue) = k
        BY <2>1, <1>1
      <3> QED
        BY <2>1, <2>2, <3>1
    <2> QED
      BY <2>1, <2>3, <2>4, <2>5
  <1>5. Fresh = LastNew - FirstNew /\ Frontier' = Frontier
    <2>1. Frontier' = Frontier
      BY DEF OnReceivedItems, Frontier
    <2>2. FirstNew <= LastNew
      BY <1>1, <1>2, <1>3
    <2>3. FirstNew \in Nat /\ LastNew \in Nat
      BY <1>1
    <2> HIDE DEF m
    <2>4. Fresh = LastNew - FirstNew
      BY <2>2, <2>3 DEF Max2, Fresh
    <2> QED
      BY <2>1, <2>4
  <1>6. /\ DOMAIN queue' = 1..q + Fresh /\ (queue' # <<>> <=> q + Fresh > 0)
        /\ (queue # <<>> <=> q > 0) /\ DOMAIN queue = 1..q
    <2>1. queue' \in Seq(0..MaxSent-1)
      <3>1. Entries(m) \in Seq(0..MaxSent-1)
        BY <1>0, EntriesShape
      <3> QED
        BY <3>1 DEF OnReceivedItems, PipeTypeOK
    <2> QED
      BY <2>1, <1>1, <1>4 DEF PipeTypeOK
  <1> HIDE DEF m, q
  <1>7. Reach' = LastNew
    <2>1. CASE Fresh > 0
      <3>1. queue' # <<>> /\ queue'[q + Fresh] = FirstNew + Fresh - 1
        BY <2>1, <1>1, <1>4, <1>6
      <3> QED
        <4>1. Reach' = queue'[Len(queue')] + 1
          BY <3>1 DEF Reach
        <4>2. Len(queue') = q + Fresh
          BY <1>4
        <4> QED
          BY <4>1, <4>2, <3>1, <1>1, <1>5
    <2>2. CASE Fresh = 0 /\ q = 0
      BY <2>2, <1>1, <1>2, <1>3, <1>5, <1>6 DEF Reach
    <2>3. CASE Fresh = 0 /\ q > 0
      <3>1. queue' # <<>> /\ queue # <<>> /\ queue'[Len(queue')] = queue[Len(queue)]
        BY <2>3, <1>1, <1>4, <1>6 DEF q
      <3> QED
        BY <3>1, <2>3, <1>1, <1>2, <1>3, <1>5 DEF Reach
    <2> QED
      BY <2>1, <2>2, <2>3, <1>1
  <1> QED
    BY <1>1, <1>3, <1>4, <1>5, <1>6, <1>7 DEF q, m

(* A packet extends the queue from at or below its end up to the packet's. *)
LEMMA ReceiveKeepsInv ==
    ASSUME PipeTypeOK, PipeInv, OnReceivedItems
    PROVE  PipeInv'
  <1> DEFINE m == net[1]
             q == Len(queue)
  <1>0. m \in Packets /\ net # <<>>
    BY DEF OnReceivedItems, PipeTypeOK
  <1>1. /\ Len(net) \in Nat /\ Len(net) > 0 /\ LastNew \in Nat
        /\ FirstNew \in Nat /\ Fresh \in Nat /\ q \in Nat /\ index \in Nat /\ Len(sent) \in Nat
    <2>1. Len(net) \in Nat /\ Len(net) > 0
      BY <1>0 DEF PipeTypeOK
    <2>2. index \in Nat /\ q \in Nat /\ Len(sent) \in Nat
      BY PipelineAssumption DEF PipeTypeOK
    <2> QED
      BY <2>1, <2>2, PacketExtendsQueue
  <1>2. /\ Frontier \in Nat /\ Reach \in Nat /\ index <= Frontier
        /\ \A j \in 1..q : queue[j] \in Nat
    BY PipelineAssumption DEF PipeTypeOK, Frontier, Reach, Max2, Idle
  <1>3. m.from <= Reach /\ FirstNew <= Reach /\ Reach <= LastNew /\ LastNew <= Len(sent) /\ Fresh \in Nat
    BY <1>1, <1>2, PacketExtendsQueue
  <1>4. /\ Len(queue') = q + Fresh
        /\ \A j \in 1..q : queue'[j] = queue[j]
        /\ \A k \in 1..Fresh : queue'[q + k] = FirstNew + k - 1
    BY PacketExtendsQueue
  <1>5. Fresh = LastNew - FirstNew /\ Frontier' = Frontier
    BY PacketExtendsQueue
  <1>6. /\ DOMAIN queue' = 1..q + Fresh /\ (queue' # <<>> <=> q + Fresh > 0)
        /\ (queue # <<>> <=> q > 0) /\ DOMAIN queue = 1..q
    <2>1. queue' \in Seq(0..MaxSent-1)
      <3>1. Entries(m) \in Seq(0..MaxSent-1)
        BY <1>0, EntriesShape
      <3> QED
        BY <3>1 DEF OnReceivedItems, PipeTypeOK
    <2> QED
      BY <2>1, <1>1, <1>3, <1>4 DEF PipeTypeOK
  <1>7. Reach' = LastNew
    BY PacketExtendsQueue
  <1> HIDE DEF m, q
  <1>8. QueueSteps'
    <2> SUFFICES ASSUME NEW j \in 1..Len(queue')-1 PROVE queue'[j+1] <= queue'[j] + 1
      BY DEF QueueSteps
    <2>0. j \in 1..q + Fresh - 1
      BY <1>1, <1>4
    <2>1. CASE j \in 1..q-1
      <3>1. j \in 1..q /\ j + 1 \in 1..q /\ j \in 1..Len(queue)-1
        BY <2>1, <1>1 DEF q
      <3> QED
        BY <3>1, <1>4 DEF PipeInv, QueueSteps
    <2>2. CASE j = q
      <3>1. queue # <<>> /\ queue[q] + 1 = Reach
        BY <2>2, <1>1, <1>6 DEF Reach, q
      <3>2. queue'[j+1] = FirstNew /\ queue'[j] = queue[q]
        <4>1. 1 \in 1..Fresh /\ q \in 1..q
          BY <2>0, <2>2, <1>1
        <4> QED
          BY <4>1, <2>2, <1>1, <1>4
      <3> QED
        BY <3>1, <3>2, <1>3
    <2>3. CASE j \in q+1..q+Fresh-1
      <3>1. /\ j - q \in 1..Fresh /\ j - q + 1 \in 1..Fresh
            /\ j = q + (j - q) /\ j + 1 = q + (j - q + 1)
        BY <2>3, <1>1
      <3>2. queue'[j] = FirstNew + (j - q) - 1 /\ queue'[j+1] = FirstNew + (j - q + 1) - 1
        BY <3>1, <1>4
      <3> QED
        BY <3>2, <1>1, <2>3
    <2> QED
      BY <2>0, <2>1, <2>2, <2>3, <1>1
  <1>9. QueueReach'
    <2>1. queue' # <<>> => queue'[1] <= Frontier'
      <3>1. CASE q > 0
        <4>1. 1 \in 1..q /\ queue # <<>>
          BY <3>1, <1>1, <1>6
        <4> QED
          BY <4>1, <1>4, <1>5 DEF PipeInv, QueueReach
      <3>2. CASE q = 0 /\ Fresh > 0
        <4>1. 1 \in 1..Fresh /\ q + 1 = 1 /\ queue = <<>>
          BY <3>2, <1>1, <1>6
        <4>2. queue'[1] = FirstNew /\ Reach = Frontier
          BY <4>1, <1>1, <1>4 DEF Reach
        <4> QED
          BY <4>2, <1>3, <1>5
      <3>3. CASE q = 0 /\ Fresh = 0
        BY <3>3, <1>6
      <3> QED
        BY <3>1, <3>2, <3>3, <1>1
    <2>2. \A j \in DOMAIN queue' : queue'[j] < Reach'
      <3> SUFFICES ASSUME NEW j \in 1..q+Fresh PROVE queue'[j] < Reach'
        BY <1>6
      <3>1. CASE j \in 1..q
        <4>1. queue'[j] = queue[j] /\ queue[j] < Reach /\ queue[j] \in Nat
          BY <3>1, <1>2, <1>4, <1>6 DEF PipeInv, QueueReach
        <4> QED
          BY <4>1, <1>1, <1>2, <1>3, <1>7
      <3>2. CASE j \in q+1..q+Fresh
        <4>1. j - q \in 1..Fresh /\ j = q + (j - q)
          BY <3>2, <1>1
        <4>2. queue'[j] = FirstNew + (j - q) - 1
          BY <4>1, <1>4
        <4> QED
          BY <4>1, <4>2, <1>1, <1>5, <1>7
      <3> QED
        BY <3>1, <3>2, <1>1
    <2>3. working' # Idle => working' <= index'
      BY DEF OnReceivedItems, PipeInv, QueueReach
    <2>4. Frontier' <= Reach' /\ Reach' <= Len(sent')
      <3>1. Frontier <= Reach /\ sent' = sent
        BY DEF OnReceivedItems, PipeInv, QueueReach
      <3> QED
        BY <3>1, <1>1, <1>2, <1>3, <1>5, <1>7
    <2> QED
      BY <2>1, <2>2, <2>3, <2>4 DEF QueueReach
  <1>10. /\ Len(net') = Len(net) - 1 /\ DOMAIN net' = 1..Len(net)-1
         /\ \A j \in 1..Len(net)-1 : net'[j] = net[j+1]
         /\ DOMAIN net = 1..Len(net)
    BY <1>0, <1>1 DEF OnReceivedItems, PipeTypeOK
  <1>11. PacketsChain'
    <2>1. \A j \in 1..Len(net) : net[j].from \in Nat /\ net[j].upto \in Nat
      <3> SUFFICES ASSUME NEW j \in 1..Len(net)
                   PROVE  net[j].from \in Nat /\ net[j].upto \in Nat
        OBVIOUS
      <3>1. net[j] \in Packets
        BY DEF PipeTypeOK
      <3> QED
        BY <3>1, PipelineAssumption DEF Packets
    <2>2. \A j \in 1..Len(net) : LastNew <= net[j].upto
      <3>1. 1 \in 1..Len(net)
        BY <1>1
      <3> QED
        BY <3>1, <1>10 DEF PipeInv, PacketsChain, LastNew
    <2>3. \A j \in 1..Len(net)-1 : j \in 1..Len(net) /\ j + 1 \in 1..Len(net)
      BY <1>1
    <2>4. net' # <<>> => net'[1].from <= Reach'
      <3> SUFFICES ASSUME net' # <<>> PROVE net'[1].from <= Reach'
        OBVIOUS
      <3>1. 1 \in 1..Len(net)-1
        <4>1. net' \in Seq(Packets)
          BY <1>0, <1>1 DEF OnReceivedItems, PipeTypeOK
        <4> QED
          BY <4>1, <1>1, <1>10
      <3>2. net'[1] = net[1+1] /\ net[1+1].from <= net[1].upto
        BY <3>1, <1>10 DEF PipeInv, PacketsChain
      <3> QED
        BY <3>2, <1>7 DEF LastNew
    <2>5. \A j \in DOMAIN net' : net'[j].from <= net'[j].upto
                               /\ Reach' <= net'[j].upto /\ net'[j].upto <= Len(sent')
      BY <2>2, <2>3, <1>7, <1>10 DEF OnReceivedItems, PipeInv, PacketsChain
    <2>6. \A j \in 1..Len(net')-1 : net'[j+1].from <= net'[j].upto
      <3> SUFFICES ASSUME NEW j \in 1..Len(net)-2
                   PROVE  net'[j+1].from <= net'[j].upto
        BY <1>1, <1>10
      <3>1. j \in 1..Len(net)-1 /\ j + 1 \in 1..Len(net)-1
        BY <1>1
      <3>2. net'[j] = net[j+1] /\ net'[j+1] = net[(j+1)+1]
        BY <3>1, <1>10
      <3> QED
        BY <3>1, <3>2 DEF PipeInv, PacketsChain
    <2>7. \A j, k \in DOMAIN net' : j <= k => net'[j].upto <= net'[k].upto
      <3> SUFFICES ASSUME NEW j \in 1..Len(net)-1, NEW k \in 1..Len(net)-1, j <= k
                   PROVE  net'[j].upto <= net'[k].upto
        BY <1>10
      <3>1. j + 1 \in DOMAIN net /\ k + 1 \in DOMAIN net /\ j + 1 <= k + 1
        BY <1>1, <1>10
      <3> QED
        BY <3>1, <1>10 DEF PipeInv, PacketsChain
    <2> QED
      BY <2>4, <2>5, <2>6, <2>7 DEF PacketsChain
  <1>12. TailKnown'
    <2>1. link' = link /\ sent' = sent /\ link = "up"
      BY <1>0 DEF OnReceivedItems, PipeInv, TailKnown, PipeTypeOK
    <2>2. net[Len(net)].upto = Len(sent)
      BY <2>1, <1>0 DEF PipeInv, TailKnown
    <2>3. net' \in Seq(Packets)
      BY <1>0, <1>1 DEF OnReceivedItems, PipeTypeOK
    <2>4. CASE Len(net) < 2
      <3>1. net' = <<>>
        BY <2>3, <2>4, <1>10
      <3>2. net[Len(net)] = m
        BY <2>4, <1>1 DEF m
      <3>3. Reach' = Len(sent)
        BY <2>2, <3>2, <1>7 DEF m, LastNew
      <3> QED
        BY <3>1, <3>3, <2>1 DEF TailKnown
    <2>5. CASE Len(net) > 1
      <3>1. /\ Len(net) - 1 \in 1..Len(net)-1 /\ (Len(net) - 1) + 1 = Len(net)
            /\ net' # <<>>
        BY <2>5, <1>1, <1>10
      <3>2. net'[Len(net')] = net[Len(net)]
        BY <3>1, <1>10
      <3> QED
        BY <3>1, <3>2, <2>1, <2>2 DEF TailKnown
    <2>6. Len(net) < 2 \/ Len(net) > 1
      BY <1>1
    <2> QED
      BY <2>4, <2>5, <2>6
  <1>13. LedgerFull'
    BY <1>5 DEF OnReceivedItems, PipeInv, LedgerFull
  <1> QED
    BY <1>8, <1>9, <1>11, <1>12, <1>13 DEF PipeInv

(* No connection loss, restart or reconnect, at any moment, breaks the chain
   from the server's list through the packets and the queue to the ledger. *)
THEOREM PipeInvariant == PipeSpec => []PipeInv
  <1>1. PipeInit => PipeInv
    BY DEF PipeInit, PipeInv, QueueSteps, QueueReach, PacketsChain, TailKnown,
           LedgerFull, Frontier, Reach, Idle
  <1>2. PipeTypeOK /\ PipeInv /\ [PipeNext]_pipeVars => PipeInv'
    <2> SUFFICES ASSUME PipeTypeOK, PipeInv, [PipeNext]_pipeVars PROVE PipeInv'
      OBVIOUS
    <2>1. CASE UNCHANGED pipeVars
      BY <2>1 DEF pipeVars, PipeInv, QueueSteps, QueueReach, PacketsChain, TailKnown,
                  LedgerFull, Frontier, Reach
    <2> QED
      BY <2>1, GrantKeepsInv, ConnectKeepsInv, LossKeepsInv, RestartKeepsInv,
         ReceiveKeepsInv, TakeKeepsInv, FinishKeepsInv DEF PipeNext
  <1> QED
    BY <1>1, <1>2, PipeTypeCorrect, PTL DEF PipeSpec

(* Every item below items_received_index went through _inject_item and is in
   _received_items, the ledger a replay uses. *)
THEOREM NothingIsSkipped == PipeSpec => []NothingSkipped
  <1>1. PipeTypeOK /\ PipeInv => NothingSkipped
    <2> SUFFICES ASSUME PipeTypeOK, PipeInv, NEW i \in 0..index-1
                 PROVE  \E j \in DOMAIN received : received[j] = i
      BY DEF NothingSkipped, Seen
    <2>1. i \in 0..Frontier-1
      BY PipelineAssumption DEF PipeTypeOK, Frontier, Max2, Idle
    <2> QED
      BY <2>1 DEF PipeInv, LedgerFull
  <1> QED
    BY <1>1, PipeTypeCorrect, PipeInvariant, PTL

(* A connected client with nothing left to do has handled the whole list. *)
THEOREM DrainedMeansCaughtUp == PipeSpec => []CaughtUp
  <1>1. PipeInv => CaughtUp
    BY DEF PipeInv, TailKnown, CaughtUp, Reach, Frontier
  <1> QED
    BY <1>1, PipeInvariant, PTL

(* The ledger is in list order up to repetition. *)
THEOREM ItemsHandledInOrder == PipeSpec => []HandledInOrder
  <1>1. PipeInit => HandledInOrder
    BY DEF PipeInit, HandledInOrder
  <1>2. PipeTypeOK /\ PipeInv /\ HandledInOrder /\ [PipeNext]_pipeVars => HandledInOrder'
    <2> SUFFICES ASSUME PipeTypeOK, PipeInv, HandledInOrder, [PipeNext]_pipeVars
                 PROVE  HandledInOrder'
      OBVIOUS
    <2>1. CASE TakeItem
      <3> DEFINE n == Len(received)
      <3>1. /\ n \in Nat /\ DOMAIN received = 1..n /\ DOMAIN received' = 1..n+1
            /\ \A j \in 1..n : received'[j] = received[j]
            /\ received'[n+1] = queue[1]
        BY <2>1 DEF TakeItem, PipeTypeOK
      <3>2. queue[1] \in Nat /\ queue[1] <= index /\ Frontier = index /\ index \in Nat
        BY <2>1, PipelineAssumption DEF TakeItem, PipeTypeOK, PipeInv, QueueReach, Frontier
      <3> HIDE DEF n
      <3> SUFFICES ASSUME NEW j \in 1..n+1, NEW i \in 0..received'[j]-1
                   PROVE  \E k \in 1..j-1 : received'[k] = i
        BY <3>1 DEF HandledInOrder
      <3>3. CASE j \in 1..n
        <4>1. PICK k \in 1..j-1 : received[k] = i
          BY <3>1, <3>3 DEF HandledInOrder
        <4>2. k \in 1..n
          BY <3>1, <3>3
        <4> QED
          BY <3>1, <4>1, <4>2
      <3>4. CASE j = n + 1
        <4>1. i \in 0..Frontier-1
          BY <3>1, <3>2, <3>4
        <4>2. PICK k \in 1..n : received[k] = i
          BY <4>1, <3>1 DEF PipeInv, LedgerFull
        <4>3. k \in 1..j-1
          BY <3>1, <3>4
        <4> QED
          BY <3>1, <4>2, <4>3
      <3> QED
        BY <3>1, <3>3, <3>4
    <2>2. CASE RestartClient
      BY <2>2 DEF RestartClient, HandledInOrder
    <2>3. CASE UNCHANGED received
      BY <2>3 DEF HandledInOrder
    <2> QED
      BY <2>1, <2>2, <2>3 DEF PipeNext, pipeVars, Grant, Connect, LoseConnection,
                              OnReceivedItems, FinishItem
  <1> QED
    BY <1>1, <1>2, PipeTypeCorrect, PipeInvariant, PTL DEF PipeSpec

(* The pipeline implements in-order delivery: taking an item is the abstract
   step that handles it, everything the network does is a stutter. *)
THEOREM PipelineDeliversInOrder == PipeSpec => DeliversInOrder
  <1>1. PipeInit => InOrder!Init
    BY DEF PipeInit, InOrder!Init, Frontier, Idle
  <1>2. PipeTypeOK /\ PipeInv /\ [PipeNext]_pipeVars => [InOrder!Next]_(InOrder!vars)
    <2> SUFFICES ASSUME PipeTypeOK, PipeInv, [PipeNext]_pipeVars
                 PROVE  [InOrder!Next]_(InOrder!vars)
      OBVIOUS
    <2> USE DEF InOrder!Next, InOrder!vars
    <2>1. ASSUME NEW p \in Payloads, Grant(p) PROVE InOrder!Publish
      BY <2>1 DEF Grant, InOrder!Publish, Frontier, PipeTypeOK
    <2>2. CASE TakeItem
      <3>1. /\ queue[1] \in Nat /\ working = Idle /\ working' = queue[1] /\ index' = index
            /\ sent' = sent /\ index \in Nat
        BY <2>2, PipelineAssumption DEF TakeItem, PipeTypeOK
      <3>2. queue[1] <= Frontier /\ queue[1] < Len(sent) /\ Frontier = index
        <4>1. queue[1] < Reach /\ Reach <= Len(sent) /\ queue[1] <= Frontier
          BY <2>2 DEF TakeItem, PipeInv, QueueReach, PipeTypeOK
        <4>2. Reach \in Int /\ Len(sent) \in Int
          BY <2>2, PipelineAssumption DEF TakeItem, PipeTypeOK, Reach
        <4> QED
          BY <4>1, <4>2, <3>1 DEF Frontier
      <3>3. Frontier' = Max2(index, queue[1] + 1)
        BY <3>1 DEF Frontier, Idle
      <3>4. Frontier' = IF queue[1] = Frontier THEN queue[1] + 1 ELSE Frontier
        BY <3>1, <3>2, <3>3 DEF Max2
      <3>5. queue[1] \in 0..Frontier /\ InOrder!Handle(queue[1])
        BY <3>1, <3>2, <3>4 DEF InOrder!Handle
      <3> QED
        BY <3>5
    <2>3. CASE RestartClient
      BY <2>3 DEF RestartClient, InOrder!Forget, Frontier
    <2>4. CASE FinishItem
      BY <2>4, PipelineAssumption DEF FinishItem, Frontier, Max2, Idle, PipeTypeOK
    <2>5. CASE UNCHANGED <<sent, working, index>>
      BY <2>5 DEF Frontier
    <2> QED
      BY <2>1, <2>2, <2>3, <2>4, <2>5 DEF PipeNext, pipeVars, Connect, LoseConnection,
                                          OnReceivedItems
  <1> QED
    BY <1>1, <1>2, PipeTypeCorrect, PipeInvariant, PTL
       DEF PipeSpec, DeliversInOrder, InOrder!Spec
-----------------------------------------------------------------------------
(* Before anything is lost nothing overlaps: the ledger is the list up to the
   frontier, the queue continues it, the packets under way continue the queue,
   and a client that was never connected holds nothing. *)
LedgerExact == Len(received) = Frontier /\ \A j \in DOMAIN received : received[j] = j - 1
QueueExact == \A j \in DOMAIN queue : queue[j] = Frontier + j - 1
PacketsExact ==
    /\ net # <<>> => net[1].from = Reach
    /\ \A j \in 1..Len(net)-1 : net[j+1].from = net[j].upto
NothingYet == link = "down" => Reach = 0
Straight == drops = 0 => LedgerExact /\ QueueExact /\ PacketsExact /\ NothingYet

(* A queue without overlap reaches as far as it is long. *)
LEMMA ExactReach ==
    ASSUME PipeTypeOK, QueueExact
    PROVE  Reach = Frontier + Len(queue)
  <1>1. CASE queue = <<>>
    BY <1>1, PositionTypes DEF Reach
  <1>2. CASE queue # <<>>
    <2>1. Len(queue) > 0
      BY <1>2 DEF PipeTypeOK
    <2>2. queue[Len(queue)] = Frontier + Len(queue) - 1
      BY <2>1, PositionTypes DEF QueueExact
    <2> QED
      BY <1>2, <2>2, PositionTypes DEF Reach
  <1> QED
    BY <1>1, <1>2

(* No step overlaps what it adds with what is there, unless something was lost. *)
LEMMA StepKeepsStraight ==
    ASSUME PipeTypeOK, PipeInv, Straight, [PipeNext]_pipeVars
    PROVE  Straight'
  <1> USE DEF Straight
  <1>1. ASSUME NEW p \in Payloads, Grant(p), drops' = 0 PROVE Straight'
    <2>1. Frontier' = Frontier /\ Reach' = Reach /\ drops = 0
      BY <1>1 DEF Grant, Frontier, Reach
    <2>2. LedgerExact' /\ QueueExact' /\ NothingYet'
      BY <1>1, <2>1 DEF Grant, LedgerExact, QueueExact, NothingYet
    <2>3. CASE link # "up"
      <3>1. net' = net /\ PacketsExact
        BY <1>1, <2>1, <2>3 DEF Grant
      <3>2. PacketsExact'
        BY <2>1, <3>1 DEF PacketsExact
      <3> QED
        BY <2>2, <3>2
    <2>4. CASE link = "up"
      <3> DEFINE m == [from |-> Len(sent), upto |-> Len(sent) + 1]
      <3>1. /\ Len(net') = Len(net) + 1 /\ net'[Len(net) + 1] = m
            /\ \A j \in 1..Len(net) : net'[j] = net[j]
        BY <1>1, <2>4 DEF Grant, PipeTypeOK
      <3>2. m.from = Len(sent)
        OBVIOUS
      <3> HIDE DEF m
      <3>3. net = <<>> => Reach = Len(sent)
        BY <2>4 DEF PipeInv, TailKnown
      <3>4. net # <<>> => Len(net) > 0 /\ net[Len(net)].upto = Len(sent)
        BY <2>4 DEF PipeInv, TailKnown, PipeTypeOK
      <3>5. net'[1].from = Reach
        <4>1. CASE net = <<>>
          BY <4>1, <3>1, <3>2, <3>3
        <4>2. CASE net # <<>>
          BY <4>2, <2>1, <3>1, <3>4, PositionTypes DEF PacketsExact
        <4> QED
          BY <4>1, <4>2
      <3>6. ASSUME NEW j \in 1..Len(net) PROVE net'[j+1].from = net'[j].upto
        <4>1. CASE j = Len(net)
          <5>1. net # <<>>
            BY PositionTypes
          <5> QED
            BY <4>1, <5>1, <3>1, <3>2, <3>4, PositionTypes
        <4>2. CASE j # Len(net)
          <5>1. Len(net) \in Nat
            BY PositionTypes
          <5>2. j \in 1..Len(net)-1 /\ j + 1 \in 1..Len(net)
            BY <4>2, <5>1
          <5>3. net[j+1].from = net[j].upto
            BY <5>2, <2>1 DEF PacketsExact
          <5> QED
            BY <5>2, <5>3, <3>1
        <4> QED
          BY <4>1, <4>2
      <3>7. Len(net') - 1 = Len(net)
        BY <3>1, PositionTypes
      <3>8. PacketsExact'
        BY <2>1, <3>5, <3>6, <3>7 DEF PacketsExact
      <3> QED
        BY <2>2, <3>8
    <2> QED
      BY <2>2, <2>3, <2>4 DEF PacketsExact
  <1>2. ASSUME Connect, drops' = 0 PROVE Straight'
    <2>1. Frontier' = Frontier /\ Reach' = Reach /\ drops = 0 /\ link = "down" /\ link' = "up"
      BY <1>2 DEF Connect, Frontier, Reach
    <2>2. LedgerExact' /\ QueueExact' /\ NothingYet' /\ Reach = 0
      BY <1>2, <2>1 DEF Connect, LedgerExact, QueueExact, NothingYet
    <2>3. \/ net' = <<>>
          \/ net' = <<[from |-> 0, upto |-> Len(sent)]>>
      BY <1>2 DEF Connect
    <2>4. PacketsExact'
      BY <2>1, <2>2, <2>3 DEF PacketsExact
    <2> QED
      BY <2>2, <2>4
  <1>3. ASSUME OnReceivedItems, drops' = 0 PROVE Straight'
    <2>1. /\ drops = 0 /\ net # <<>> /\ net' = Tail(net)
          /\ UNCHANGED <<received, link>>
      BY <1>3 DEF OnReceivedItems
    <2>2. Frontier' = Frontier /\ Reach' = LastNew
      BY <1>3, PacketExtendsQueue
    <2>3. FirstNew = Reach
      BY <2>1, PositionTypes DEF FirstNew, Max2, PacketsExact, PipeInv, QueueReach
    <2>4. LedgerExact'
      BY <2>1, <2>2 DEF LedgerExact
    <2>5. NothingYet'
      BY <2>1 DEF NothingYet, PipeInv, TailKnown
    <2>6. QueueExact'
      <3>1. Reach = Frontier + Len(queue)
        BY <2>1, ExactReach
      <3> SUFFICES ASSUME NEW j \in 1..Len(queue) + Fresh
                   PROVE  queue'[j] = Frontier + j - 1
        BY <1>3, <2>2, PacketExtendsQueue DEF QueueExact
      <3>2. CASE j \in 1..Len(queue)
        BY <1>3, <2>1, <3>2, PacketExtendsQueue, PositionTypes DEF QueueExact
      <3>3. CASE j > Len(queue)
        <4>1. j - Len(queue) \in 1..Fresh /\ Len(queue) + (j - Len(queue)) = j
          BY <1>3, <3>3, PacketExtendsQueue, PositionTypes
        <4>2. queue'[j] = FirstNew + (j - Len(queue)) - 1
          BY <1>3, <4>1, PacketExtendsQueue
        <4> QED
          BY <2>3, <3>1, <4>2, PositionTypes
      <3> QED
        BY <1>3, <3>2, <3>3, PacketExtendsQueue, PositionTypes
    <2>7. PacketsExact'
      <3>1. /\ Len(net) > 0 /\ Len(net') = Len(net) - 1
            /\ \A j \in 1..Len(net)-1 : net'[j] = net[j+1]
            /\ net' # <<>> => Len(net) > 1
        BY <2>1 DEF PipeTypeOK
      <3>2. net' # <<>> => net'[1].from = Reach'
        <4> SUFFICES ASSUME net' # <<>> PROVE net'[1].from = LastNew
          BY <2>2
        <4>1. 1 \in 1..Len(net)-1
          BY <3>1, PositionTypes
        <4> QED
          BY <2>1, <3>1, <4>1 DEF PacketsExact, LastNew
      <3>3. ASSUME NEW j \in 1..Len(net)-2 PROVE net'[j+1].from = net'[j].upto
        <4>1. j \in 1..Len(net)-1 /\ j + 1 \in 1..Len(net)-1
          BY PositionTypes
        <4> QED
          BY <2>1, <3>1, <4>1 DEF PacketsExact
      <3>4. Len(net') - 1 = Len(net) - 2
        BY <3>1, PositionTypes
      <3> QED
        BY <3>2, <3>3, <3>4 DEF PacketsExact
    <2> QED
      BY <2>4, <2>5, <2>6, <2>7
  <1>4. ASSUME TakeItem, drops' = 0 PROVE Straight'
    <2>1. /\ drops = 0 /\ queue # <<>> /\ working = Idle /\ Len(queue) > 0
          /\ working' = queue[1] /\ queue' = Tail(queue)
          /\ received' = Append(received, queue[1])
          /\ UNCHANGED <<sent, link, net, rcvd, index, drops>>
      BY <1>4 DEF TakeItem, PipeTypeOK
    <2>2. queue[1] = Frontier /\ Frontier = index /\ Frontier # Idle
      BY <2>1, PositionTypes DEF QueueExact, Frontier, Idle
    <2>3. Frontier' = Frontier + 1
      BY <2>1, <2>2, PositionTypes DEF Frontier, Max2
    <2>4. /\ DOMAIN queue' = 1..Len(queue) - 1 /\ Len(queue') = Len(queue) - 1
          /\ \A j \in 1..Len(queue) - 1 : queue'[j] = queue[j+1]
      BY <2>1 DEF PipeTypeOK
    <2>5. QueueExact'
      <3> SUFFICES ASSUME NEW j \in 1..Len(queue) - 1 PROVE queue[j+1] = Frontier + 1 + j - 1
        BY <2>3, <2>4 DEF QueueExact
      <3>1. Len(queue) \in Nat /\ Frontier \in Nat /\ j \in Nat
        BY PositionTypes
      <3>2. j + 1 \in DOMAIN queue
        BY <3>1, PositionTypes
      <3>3. queue[j+1] = Frontier + (j + 1) - 1
        BY <2>1, <3>2 DEF QueueExact
      <3> QED
        BY <3>1, <3>3
    <2>6. Reach' = Reach
      BY <1>4, TakeMovesFrontier
    <2>7. LedgerExact'
      <3>1. /\ Len(received') = Len(received) + 1 /\ DOMAIN received' = 1..Len(received) + 1
            /\ received'[Len(received) + 1] = queue[1]
            /\ \A j \in 1..Len(received) : received'[j] = received[j]
        BY <2>1 DEF PipeTypeOK
      <3>2. ASSUME NEW j \in 1..Len(received) + 1 PROVE received'[j] = j - 1
        BY <2>1, <2>2, <3>1, PositionTypes DEF LedgerExact
      <3> QED
        BY <2>1, <2>3, <3>1, <3>2 DEF LedgerExact
    <2>8. PacketsExact' /\ NothingYet'
      BY <2>1, <2>6 DEF PacketsExact, NothingYet
    <2> QED
      BY <2>5, <2>7, <2>8
  <1>5. ASSUME FinishItem, drops' = 0 PROVE Straight'
    <2>1. Frontier' = Frontier
      BY <1>5, PipelineAssumption DEF FinishItem, Frontier, Max2, Idle, PipeTypeOK
    <2>2. Reach' = Reach
      BY <1>5, <2>1 DEF FinishItem, Reach
    <2> QED
      BY <1>5, <2>1, <2>2 DEF FinishItem, LedgerExact, QueueExact, PacketsExact, NothingYet
  <1>6. ASSUME LoseConnection \/ RestartClient PROVE drops' # 0
    BY <1>6, PipelineAssumption DEF LoseConnection, RestartClient, PipeTypeOK
  <1>7. ASSUME UNCHANGED pipeVars PROVE Straight'
    BY <1>7 DEF pipeVars, LedgerExact, QueueExact, PacketsExact, NothingYet, Reach, Frontier
  <1> QED
    BY <1>1, <1>2, <1>3, <1>4, <1>5, <1>6, <1>7 DEF PipeNext

(* Without a lost connection or a restart no item is handled twice. *)
THEOREM HandledOnceUnlessDropped == PipeSpec => []OnceUnlessDropped
  <1>1. PipeInit => Straight
    BY DEF PipeInit, Straight, LedgerExact, QueueExact, PacketsExact, NothingYet,
           Reach, Frontier, Idle
  <1>2. PipeTypeOK /\ PipeInv /\ Straight /\ [PipeNext]_pipeVars => Straight'
    BY StepKeepsStraight
  <1>3. PipeTypeOK /\ Straight => OnceUnlessDropped
    BY PositionTypes DEF Straight, LedgerExact, OnceUnlessDropped
  <1> QED
    BY <1>1, <1>2, <1>3, PipeTypeCorrect, PipeInvariant, PTL DEF PipeSpec
-----------------------------------------------------------------------------
(* The library's own list, which the counting injections read. *)

(* It is a prefix of the server's. *)
Known == rcvd <= Len(sent)

(* It is empty from a loss of the connection to the resend, and holds exactly
   what was ever queued otherwise. *)
Whole ==
    /\ rcvd = 0 \/ rcvd = Reach
    /\ link = "down" => rcvd = 0
    /\ link = "up" /\ net = <<>> => rcvd = Len(sent)

(* The library never knows of more than the server has sent. *)
THEOREM KnownIsSent == PipeSpec => []Known
  <1>1. PipeInit => Known
    BY DEF PipeInit, Known
  <1>2. PipeTypeOK /\ PipeInv /\ Known /\ [PipeNext]_pipeVars => Known'
    <2> SUFFICES ASSUME PipeTypeOK, PipeInv, Known, [PipeNext]_pipeVars PROVE Known'
      OBVIOUS
    <2> USE DEF Known
    <2>1. rcvd \in Nat /\ Len(sent) \in Nat
      BY PipelineAssumption DEF PipeTypeOK
    <2>2. ASSUME NEW p \in Payloads, Grant(p) PROVE Known'
      <3>1. Len(sent') = Len(sent) + 1 /\ rcvd' = rcvd
        BY <2>2 DEF Grant, PipeTypeOK
      <3> QED
        BY <2>1, <3>1
    <2>3. CASE OnReceivedItems
      <3>1. rcvd' = net[1].upto /\ 1 \in DOMAIN net /\ sent' = sent
        BY <2>3 DEF OnReceivedItems, PipeTypeOK
      <3> QED
        BY <3>1 DEF PipeInv, PacketsChain
    <2>4. CASE LoseConnection \/ RestartClient
      BY <2>1, <2>4 DEF LoseConnection, RestartClient
    <2>5. CASE UNCHANGED <<sent, rcvd>>
      BY <2>5
    <2> QED
      BY <2>2, <2>3, <2>4, <2>5 DEF PipeNext, pipeVars, Connect, TakeItem, FinishItem
  <1> QED
    BY <1>1, <1>2, PipeTypeCorrect, PipeInvariant, PTL DEF PipeSpec

(* A connected client with nothing under way has the server's whole list, however
   often the connection was lost and the list emptied; before that the counting
   injections read either an empty list or everything that was ever queued. *)
THEOREM KnownIsWhole == PipeSpec => []Whole
  <1>1. PipeInit => Whole
    BY DEF PipeInit, Whole, Reach, Frontier, Idle
  <1>2. PipeTypeOK /\ PipeInv /\ Whole /\ [PipeNext]_pipeVars => Whole'
    <2> SUFFICES ASSUME PipeTypeOK, PipeInv, Whole, [PipeNext]_pipeVars PROVE Whole'
      OBVIOUS
    <2> USE DEF Whole
    <2>0. /\ link \in {"down", "up"} /\ Len(sent) \in Nat
          /\ (sent = <<>> => Len(sent) = 0)
      BY DEF PipeTypeOK
    <2>1. ASSUME NEW p \in Payloads, Grant(p) PROVE Whole'
      <3>1. Reach' = Reach /\ rcvd' = rcvd /\ link' = link
        BY <2>1 DEF Grant, Reach, Frontier
      <3>2. link = "up" => net' # <<>>
        <4> SUFFICES ASSUME link = "up" PROVE net' # <<>>
          OBVIOUS
        <4>1. PICK m : m \in Packets /\ net' = Append(net, m)
          <5>1. Len(sent) \in 0..MaxSent /\ Len(sent) + 1 \in 0..MaxSent
            BY <2>0, <2>1, PipelineAssumption DEF Grant
          <5> QED
            BY <2>1, <5>1 DEF Grant, Packets
        <4>2. Len(net') = Len(net) + 1 /\ Len(net) \in Nat
          BY <4>1 DEF PipeTypeOK
        <4> QED
          BY <4>2
      <3> QED
        BY <3>1, <3>2
    <2>2. CASE OnReceivedItems
      <3>1. /\ rcvd' = net[1].upto /\ net # <<>> /\ net' = Tail(net)
            /\ sent' = sent /\ link' = link
        BY <2>2 DEF OnReceivedItems, PipeTypeOK
      <3>2. Reach' = LastNew
        BY <2>2, PacketExtendsQueue
      <3>3. link = "up"
        BY <2>0, <3>1 DEF PipeInv, TailKnown
      <3>4. net' = <<>> => rcvd' = Len(sent)
        <4> SUFFICES ASSUME Tail(net) = <<>> PROVE net[1].upto = Len(sent)
          BY <3>1
        <4>1. Len(net) = 1
          <5>1. Len(Tail(net)) = Len(net) - 1 /\ Len(net) \in Nat
            BY <3>1 DEF PipeTypeOK
          <5>2. \A t \in Seq(Packets) : t = <<>> => Len(t) = 0
            OBVIOUS
          <5>3. Tail(net) \in Seq(Packets)
            BY <3>1 DEF PipeTypeOK
          <5>4. Len(Tail(net)) = 0
            BY <5>2, <5>3
          <5> QED
            BY <5>1, <5>4
        <4> QED
          BY <3>1, <3>3, <4>1 DEF PipeInv, TailKnown
      <3> QED
        BY <3>1, <3>2, <3>3, <3>4 DEF LastNew
    <2>3. CASE RestartClient
      BY <2>3 DEF RestartClient
    <2>4. CASE TakeItem
      <3>1. Reach' = Reach
        BY <2>4, TakeMovesFrontier
      <3> QED
        BY <2>4, <3>1 DEF TakeItem
    <2>5. CASE FinishItem
      <3>1. Frontier' = Frontier
        BY <2>5, PipelineAssumption DEF FinishItem, Frontier, Max2, Idle, PipeTypeOK
      <3> QED
        BY <2>5, <3>1 DEF FinishItem, Reach
    <2>6. CASE LoseConnection
      BY <2>6 DEF LoseConnection
    <2>7. CASE Connect
      BY <2>0, <2>7 DEF Connect, Reach, Frontier
    <2>8. CASE UNCHANGED pipeVars
      BY <2>8 DEF pipeVars, Reach, Frontier
    <2> QED
      BY <2>1, <2>2, <2>3, <2>4, <2>5, <2>6, <2>7, <2>8 DEF PipeNext
  <1> QED
    BY <1>1, <1>2, PipeTypeCorrect, PipeInvariant, PTL DEF PipeSpec
=============================================================================
