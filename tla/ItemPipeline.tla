---------------------------- MODULE ItemPipeline ----------------------------
(***************************************************************************)
(* How a received item reaches the injection code of apworld/client.py: the *)
(* server's list for the slot, the connection that carries it and is lost   *)
(* and made again, on_package which queues the entries at or above          *)
(* items_received_index, and _item_inject_loop which takes one entry at a   *)
(* time, records it in _received_items, handles it, sleeps, and only then   *)
(* advances the cursor.  Only the position of an item in the server's list  *)
(* matters here; ItemDelivery says what handling one does to the game.      *)
(***************************************************************************)
EXTENDS Integers, Sequences, FiniteSets

CONSTANTS Payloads,      \* what an item is: anything, here
          MaxSent,       \* bound: items the server assigns to the slot
          MaxDrops       \* bound: connection losses and client restarts

ASSUME PipelineAssumption ==
    /\ MaxSent \in Nat
    /\ MaxDrops \in Nat

VARIABLES
    sent,      \* the server's list of items for the slot
    link,      \* "up" while the client is connected
    net,       \* ReceivedItems packets under way: items from .. upto-1 of sent
    rcvd,      \* length of items_received, always a prefix of sent
    queue,     \* _item_queue, the list positions in it
    working,   \* the position _item_inject_loop is pacing on, or Idle
    index,     \* items_received_index
    received,  \* _received_items, the list positions in it
    drops      \* connection losses and restarts so far

pipeVars == <<sent, link, net, rcvd, queue, working, index, received, drops>>

Idle == -1

Max2(a, b) == IF a >= b THEN a ELSE b
Seen(s) == {s[j] : j \in DOMAIN s}

Packets == [from : 0..MaxSent, upto : 0..MaxSent]

PipeTypeOK ==
    /\ sent \in Seq(Payloads) /\ Len(sent) <= MaxSent
    /\ link \in {"down", "up"}
    /\ net \in Seq(Packets)
    /\ rcvd \in 0..MaxSent
    /\ queue \in Seq(0..MaxSent-1)
    /\ working \in {Idle} \cup 0..MaxSent-1
    /\ index \in 0..MaxSent
    /\ received \in Seq(0..MaxSent-1)
    /\ drops \in 0..MaxDrops

PipeInit ==
    /\ sent = <<>> /\ link = "down" /\ net = <<>> /\ drops = 0
    /\ rcvd = 0 /\ queue = <<>> /\ working = Idle /\ index = 0 /\ received = <<>>

-----------------------------------------------------------------------------
(* The server and the connection (the Archipelago library, outside src/). *)

(* An item is assigned to the slot; a connected client is told at once. *)
Grant(p) ==
    /\ Len(sent) < MaxSent
    /\ sent' = Append(sent, p)
    /\ net' = IF link = "up"
              THEN Append(net, [from |-> Len(sent), upto |-> Len(sent) + 1])
              ELSE net
    /\ UNCHANGED <<link, rcvd, queue, working, index, received, drops>>

(* A new connection begins with the whole list again, from position 0. *)
Connect ==
    /\ link = "down"
    /\ link' = "up"
    /\ net' = IF sent = <<>> THEN <<>> ELSE <<[from |-> 0, upto |-> Len(sent)]>>
    /\ UNCHANGED <<sent, rcvd, queue, working, index, received, drops>>

(* Packets under way are lost, and connection_closed has the library empty its
   items_received; the queue, the cursor and the ledger survive. *)
LoseConnection ==
    /\ link = "up" /\ drops < MaxDrops
    /\ link' = "down"
    /\ net' = <<>>
    /\ rcvd' = 0
    /\ drops' = drops + 1
    /\ UNCHANGED <<sent, queue, working, index, received>>

(* The client process ends and is started again: all of its state is new. *)
RestartClient ==
    /\ drops < MaxDrops
    /\ link' = "down" /\ net' = <<>> /\ drops' = drops + 1
    /\ rcvd' = 0 /\ queue' = <<>> /\ working' = Idle /\ index' = 0 /\ received' = <<>>
    /\ UNCHANGED sent

-----------------------------------------------------------------------------
(* The client. *)

(* The entries of a packet that on_package queues: those at or above the cursor. *)
MEntriesAbove(m) ==
    LET first == Max2(m.from, index + 1)
    IN [k \in 1..Max2(0, m.upto - first) |-> first + k - 1]
Entries(m) ==
    LET first == Max2(m.from, index)
    IN [k \in 1..Max2(0, m.upto - first) |-> first + k - 1]

(* ReceivedItems: the library updates items_received, then on_package queues. *)
OnReceivedItems ==
    /\ net # <<>>
    /\ rcvd' = Head(net).upto
    /\ queue' = queue \o Entries(Head(net))
    /\ net' = Tail(net)
    /\ UNCHANGED <<sent, link, working, index, received, drops>>

MTakeItemPeeks ==
    /\ working = Idle /\ queue # <<>>
    /\ received' = Append(received, Head(queue))
    /\ working' = Head(queue)
    /\ UNCHANGED <<sent, link, net, rcvd, queue, index, drops>>

(* The loop gets an entry, records it and handles it without yielding. *)
TakeItem ==
    /\ working = Idle /\ queue # <<>>
    /\ received' = Append(received, Head(queue))
    /\ queue' = Tail(queue)
    /\ working' = Head(queue)
    /\ UNCHANGED <<sent, link, net, rcvd, index, drops>>

(* After the pacing sleep the cursor moves past the item, and never back. *)
MFinishItemSkips ==
    /\ working # Idle
    /\ index' = Max2(index, working + 2)
    /\ working' = Idle
    /\ UNCHANGED <<sent, link, net, rcvd, queue, received, drops>>
MFinishItemBack ==
    /\ working # Idle
    /\ index' = working
    /\ working' = Idle
    /\ UNCHANGED <<sent, link, net, rcvd, queue, received, drops>>
FinishItem ==
    /\ working # Idle
    /\ index' = Max2(index, working + 1)
    /\ working' = Idle
    /\ UNCHANGED <<sent, link, net, rcvd, queue, received, drops>>

PipeNext ==
    \/ \E p \in Payloads : Grant(p)
    \/ Connect \/ LoseConnection \/ RestartClient
    \/ OnReceivedItems \/ TakeItem \/ FinishItem

PipeSpec == PipeInit /\ [][PipeNext]_pipeVars

(* The library reconnects by itself, the event loop runs what is ready.  The *)
(* server is free not to grant, the connection is free not to fail.          *)
PipeFairness ==
    WF_pipeVars(Connect) /\ WF_pipeVars(OnReceivedItems)
    /\ WF_pipeVars(TakeItem) /\ WF_pipeVars(FinishItem)

PipeFairSpec == PipeSpec /\ PipeFairness

-----------------------------------------------------------------------------
(* What the pipeline guarantees. *)

(* Items handled or being handled: one more than the highest position so far. *)
Frontier == IF working = Idle THEN index ELSE Max2(index, working + 1)

(* Where the queue ends: the next position that has still to be queued. *)
Reach == IF queue = <<>> THEN Frontier ELSE queue[Len(queue)] + 1

(* Every item the cursor has passed really went through _inject_item and is
   in the ledger that a replay uses, whatever connections were lost on the
   way: a reconnect filters the resent list by items_received_index and must
   not filter out an item that was never handled. *)
NothingSkipped == \A i \in 0..index-1 : i \in Seen(received)

(* _item_inject_loop works in list order: an item is first handled only after
   all earlier ones were.  The counters that an injection recomputes from the
   received list rely on this. *)
HandledInOrder ==
    \A j \in DOMAIN received : \A i \in 0..received[j]-1 :
        \E k \in 1..j-1 : received[k] = i

(* A connected client with nothing under way, nothing queued and nothing in
   hand has handled the whole list of the server: no interleaving of losses,
   reconnects and pacing sleeps leaves an item behind. *)
CaughtUp ==
    link = "up" /\ net = <<>> /\ queue = <<>> /\ working = Idle => index = Len(sent)

(* Repeated handling comes from reconnects only.  Entries wait in the queue
   across a reconnect while the cursor has not passed them, so on_package
   queues them a second time; without a loss or restart that cannot happen. *)
OnceUnlessDropped ==
    drops = 0 => \A j, k \in DOMAIN received : received[j] = received[k] => j = k

(* Every item the server assigns is eventually handled, if connections are
   lost only finitely often. *)
EverythingHandled == \A n \in 1..MaxSent : Len(sent) >= n ~> index >= n

(* The pipeline implements in-order delivery. *)
InOrder == INSTANCE InOrderDelivery WITH published <- Len(sent), handled <- Frontier
DeliversInOrder == InOrder!Spec

-----------------------------------------------------------------------------
(* The inductive invariant behind NothingSkipped and CaughtUp. *)

(* Neighbours in the queue never jump forward by more than one. *)
QueueSteps == \A j \in 1..Len(queue)-1 : queue[j+1] <= queue[j] + 1

(* The queue starts at or below the frontier and ends at its maximum. *)
QueueReach ==
    /\ queue # <<>> => queue[1] <= Frontier
    /\ \A j \in DOMAIN queue : queue[j] < Reach
    /\ working # Idle => working <= index
    /\ Frontier <= Reach
    /\ Reach <= Len(sent)

(* The packets under way continue the queue and one another. *)
PacketsChain ==
    /\ net # <<>> => net[1].from <= Reach
    /\ \A j \in DOMAIN net : net[j].from <= net[j].upto
                             /\ Reach <= net[j].upto /\ net[j].upto <= Len(sent)
    /\ \A j \in 1..Len(net)-1 : net[j+1].from <= net[j].upto
    /\ \A j, k \in DOMAIN net : j <= k => net[j].upto <= net[k].upto

(* While connected, what is queued and under way ends where the list ends. *)
TailKnown ==
    /\ link = "down" => net = <<>>
    /\ link = "up" => IF net = <<>> THEN Reach = Len(sent) ELSE net[Len(net)].upto = Len(sent)

(* The ledger holds the positions below the frontier and no other. *)
LedgerFull ==
    /\ \A i \in 0..Frontier-1 : \E j \in DOMAIN received : received[j] = i
    /\ \A j \in DOMAIN received : received[j] < Frontier

PipeInv == QueueSteps /\ QueueReach /\ PacketsChain /\ TailKnown /\ LedgerFull
=============================================================================
