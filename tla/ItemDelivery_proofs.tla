------------------------ MODULE ItemDelivery_proofs ------------------------
(***************************************************************************)
(* Proofs about the client and the game together.  The composed system is   *)
(* shown to implement the pipeline, so everything proved in                 *)
(* ItemPipeline_proofs holds of it, whatever the player and the replays do. *)
(***************************************************************************)
EXTENDS ItemDelivery, ItemPipeline_proofs, FiniteSetTheorems

(* Counting received items of a kind gives a natural number. *)
LEMMA GrantedFinite ==
    ASSUME NEW k, NEW n \in Nat
    PROVE  IsFiniteSet(Granted(k, n)) /\ Cardinality(Granted(k, n)) \in Nat
  <1>1. IsFiniteSet(1..n) /\ Granted(k, n) \subseteq 1..n
    BY FS_Interval DEF Granted
  <1> QED
    BY <1>1, FS_Subset, FS_CardinalityType

(* Dispatching an item keeps a count per kind. *)
LEMMA DispatchedType ==
    ASSUME TypeOK, NEW k \in Kinds
    PROVE  Dispatched(k) \in [Kinds -> Nat]
  <1>1. k \in AllKinds /\ Worth[k] \in Nat /\ Cap[k] \in Nat
    BY GameAssumption, DeliveryAssumption
  <1>2. rcvd \in Nat /\ live \in [Kinds -> Nat]
    BY PipelineAssumption DEF TypeOK, PipeTypeOK, GameTypeOK
  <1>3. Cardinality(Granted(k, rcvd)) \in Nat
    BY <1>2, GrantedFinite
  <1>4. Target(k) \in Nat /\ Clamped(k, Target(k)) \in Nat
    BY <1>1, <1>3 DEF Target, Clamped
  <1>5. CASE k \in {"soul", "cadeaux"}
    BY <1>5, <1>2, <1>4 DEF Dispatched
  <1>6. CASE k = "stack"
    BY <1>6, <1>2 DEF Dispatched
  <1>7. CASE k = "flag"
    BY <1>7, <1>2 DEF Dispatched
  <1> QED
    BY <1>1, <1>5, <1>6, <1>7 DEF AllKinds

(* Every step of the composed system is a step of the pipeline or leaves it
   alone. *)
LEMMA StepIsPipelineStep ==
    ASSUME [Next]_vars PROVE [PipeNext]_pipeVars
  <1>1. ASSUME NEW k \in Kinds, SendForeign(k) PROVE PipeNext
    <2>1. [kind |-> k, own |-> FALSE] \in Payloads
      BY DeliveryAssumption
    <2> QED
      BY <1>1, <2>1 DEF SendForeign, PipeNext
  <1>2. ASSUME NEW l \in Locs, ReportCheck(l) PROVE [PipeNext]_pipeVars
    <2>1. [kind |-> KindOf[l], own |-> TRUE] \in Payloads
      BY DeliveryAssumption, GameAssumption
    <2> QED
      BY <1>2, <2>1 DEF ReportCheck, PipeNext
  <1>3. ASSUME NEW l \in Locs, PickUp(l) PROVE UNCHANGED pipeVars
    BY <1>3 DEF PickUp
  <1>4. CASE Transport
    BY <1>4 DEF Transport, PipeNext
  <1>5. CASE Restart
    BY <1>5 DEF Restart, PipeNext
  <1>6. CASE PlayerMoves
    BY <1>6 DEF PlayerMoves
  <1>7. CASE HandleItem
    BY <1>7 DEF HandleItem, PipeNext
  <1>8. CASE PollTitle
    BY <1>8 DEF PollTitle
  <1>9. CASE Catchup
    BY <1>9 DEF Catchup
  <1>10. ASSUME NEW r \in Replays, ReplayTurn(r) PROVE UNCHANGED pipeVars
    BY <1>10 DEF ReplayTurn
  <1>11. CASE UNCHANGED vars
    BY <1>11 DEF vars
  <1> QED
    BY <1>1, <1>2, <1>3, <1>4, <1>5, <1>6, <1>7, <1>8, <1>9, <1>10, <1>11 DEF Next

(* The composed system implements the pipeline. *)
THEOREM DeliveryImplementsPipeline == Spec => PipeSpec
  <1>1. Init => PipeInit
    BY DEF Init
  <1> QED
    BY <1>1, StepIsPipelineStep, PTL DEF Spec, PipeSpec

(* With the game, its menus, crashes and replays around it, the client still
   skips no item, ends caught up, and handles items in list order. *)
THEOREM DeliverySkipsNothing == Spec => [](NothingSkipped /\ CaughtUp /\ HandledInOrder)
  BY DeliveryImplementsPipeline, NothingIsSkipped, DrainedMeansCaughtUp,
     ItemsHandledInOrder, PTL

(* Every variable of the composed system keeps its type. *)
THEOREM TypeCorrect == Spec => []TypeOK
  <1>1. Init => TypeOK
    <2> SUFFICES ASSUME Init PROVE TypeOK
      OBVIOUS
    <2>1. PipeTypeOK
      BY PipelineAssumption DEF Init, PipeInit, PipeTypeOK, Idle
    <2>2. GameTypeOK
      BY GameAssumption DEF Init, GameInit, GameTypeOK, Empty
    <2> QED
      BY <2>1, <2>2 DEF Init, TypeOK, NoReplay
  <1>2. TypeOK /\ PipeInv /\ PipeTypeOK' /\ [Next]_vars => TypeOK'
    <2> SUFFICES ASSUME TypeOK, PipeInv, PipeTypeOK', [Next]_vars PROVE TypeOK'
      OBVIOUS
    <2> USE DEF TypeOK
    <2>1. ASSUME NEW k \in Kinds, SendForeign(k) PROVE TypeOK'
      BY <2>1 DEF SendForeign, gameVars, deliveryVars, GameTypeOK
    <2>2. ASSUME NEW l \in Locs, ReportCheck(l) PROVE TypeOK'
      BY <2>2 DEF ReportCheck, gameVars, GameTypeOK
    <2>3. ASSUME NEW l \in Locs, PickUp(l) PROVE TypeOK'
      <3>1. KindOf[l] \in Kinds
        BY GameAssumption
      <3>2. GameTypeOK'
        BY <2>3, <3>1 DEF PickUp, NativePickup, GameTypeOK
      <3> QED
        BY <2>3, <3>2 DEF PickUp
    <2>4. CASE Transport
      BY <2>4 DEF Transport, gameVars, deliveryVars, GameTypeOK
    <2>5. CASE Restart
      BY <2>5 DEF Restart, gameVars, GameTypeOK, NoReplay
    <2>6. CASE PlayerMoves
      <3> USE <2>6, GameAssumption DEF PlayerMoves, GameTypeOK, Moved, Unload, Empty
      <3>1. GameTypeOK'
        <4>1. CASE Launch
          BY <4>1 DEF Launch
        <4>2. CASE EnterLevel
          BY <4>2 DEF EnterLevel
        <4>3. CASE Warp
          BY <4>3 DEF Warp
        <4>4. CASE QuitToTitle
          BY <4>4 DEF QuitToTitle
        <4>5. CASE Close
          BY <4>5 DEF Close
        <4>6. CASE Save
          BY <4>6 DEF Save
        <4>7. CASE LoadSave
          BY <4>7 DEF LoadSave
        <4> QED
          BY <4>1, <4>2, <4>3, <4>4, <4>5, <4>6, <4>7
      <3>2. amiss' \in BOOLEAN
        BY DEF LeftOut
      <3> QED
        BY <3>1, <3>2
    <2>7. CASE HandleItem
      <3>1. sent[Head(queue) + 1] \in Payloads
        <4>1. queue # <<>>
          BY <2>7 DEF HandleItem, TakeItem
        <4> QED
          BY <4>1, HeadIsEntry
      <3>2. live' \in [Kinds -> Nat]
        <4>1. sent[Head(queue) + 1].kind \in Kinds
          BY <3>1, DeliveryAssumption
        <4> QED
          BY <2>7, <4>1, DispatchedType DEF HandleItem, Inject, GameTypeOK
      <3>3. amiss' \in BOOLEAN
        BY <2>7 DEF HandleItem, Wrote, LeftOut
      <3> QED
        BY <2>7, <3>2, <3>3 DEF HandleItem, GameTypeOK
    <2>8. CASE PollTitle
      <3>1. GameTypeOK' /\ checked' = checked /\ owed' = owed
        BY <2>8 DEF PollTitle, gameVars, GameTypeOK
      <3>2. confirmed' \in BOOLEAN
        BY <2>8 DEF PollTitle
      <3>3. replay' \in [Replays -> Nat]
        BY <2>8 DEF PollTitle, Spawn
      <3>4. amiss' \in BOOLEAN
        BY <2>8 DEF PollTitle, Spawn
      <3> QED
        BY <3>1, <3>2, <3>3, <3>4
    <2>9. CASE Catchup
      <3>1. GameTypeOK' /\ checked' = checked /\ owed' = owed /\ confirmed' = confirmed
        BY <2>9 DEF Catchup, gameVars, GameTypeOK
      <3>2. replay' \in [Replays -> Nat]
        BY <2>9 DEF Catchup, Spawn
      <3>3. amiss' \in BOOLEAN
        BY <2>9 DEF Catchup, Spawn
      <3> QED
        BY <3>1, <3>2, <3>3
    <2>10. ASSUME NEW r \in Replays, ReplayTurn(r) PROVE TypeOK'
      <3> DEFINE next == replay[r]
                 item == sent[received[next] + 1]
      <3>1. next \in Nat /\ next # 0
        BY <2>10 DEF ReplayTurn
      <3>5. amiss' \in BOOLEAN
        BY <2>10 DEF ReplayTurn, Wrote, LeftOut
      <3>2. CASE next > Len(received)
        <4>1. replay' = [replay EXCEPT ![r] = 0] /\ live' = live
          BY <2>10, <3>2 DEF ReplayTurn, PastLedger
        <4>2. UNCHANGED <<game, taken, saved, moves, checked, owed, confirmed>>
          BY <2>10 DEF ReplayTurn
        <4> QED
          BY <3>5, <4>1, <4>2 DEF GameTypeOK
      <3>3. CASE next <= Len(received)
        <4>1. next \in 1..Len(received)
          BY <3>1, <3>3 DEF PipeTypeOK
        <4>4. item \in Payloads
          <5> HIDE DEF next
          <5> QED
            BY <4>1, LedgerEntryType
        <4>5. Dispatched(item.kind) \in [Kinds -> Nat]
          BY <4>4, DeliveryAssumption, DispatchedType
        <4>6. live' \in [Kinds -> Nat]
          BY <2>10, <4>5 DEF ReplayTurn, GameTypeOK
        <4>7. replay' \in [Replays -> Nat]
          BY <2>10, <3>1 DEF ReplayTurn
        <4> QED
          BY <2>10, <3>5, <4>6, <4>7 DEF ReplayTurn, GameTypeOK
      <3>4. Len(received) \in Nat
        BY DEF PipeTypeOK
      <3> QED
        BY <3>1, <3>2, <3>3, <3>4
    <2>11. CASE UNCHANGED vars
      BY <2>11 DEF vars, gameVars, deliveryVars, GameTypeOK
    <2> QED
      BY <2>1, <2>2, <2>3, <2>4, <2>5, <2>6, <2>7, <2>8, <2>9, <2>10, <2>11 DEF Next
  <1>3. Spec => []PipeTypeOK /\ []PipeInv
    BY DeliveryImplementsPipeline, PipeTypeCorrect, PipeInvariant, PTL
  <1> QED
    BY <1>1, <1>2, <1>3, PTL DEF Spec
-----------------------------------------------------------------------------
(* Nobody has more than was granted: the argument. *)

(* What is granted of a kind and what was picked up of it in a game state. *)
Allowed(k, emptied) ==
    Worth[k] * Cardinality(Granted(k, Len(sent)))
        + Cardinality({l \in emptied \ checked : KindOf[l] = k})

(* Both the live inventory and the save are covered by it. *)
Covered ==
    \A k \in Counters : live[k] <= Allowed(k, taken) /\ saved.live[k] <= Allowed(k, saved.taken)

(* A location that was checked, or is owed, cannot be picked up again. *)
ChecksHold ==
    checked \cup owed \subseteq (IF game \in {"moving", "level"} THEN taken ELSE saved.taken)

FinitelyTaken == IsFiniteSet(taken) /\ IsFiniteSet(saved.taken)

Backed == Covered /\ ChecksHold /\ FinitelyTaken

-----------------------------------------------------------------------------
(* What was handled is there: the argument. *)

(* A replay that has still to do a cadeaux entry. *)
Owes(r) ==
    /\ replay[r] # 0
    /\ \E j \in DOMAIN received : j >= replay[r] /\ sent[received[j] + 1].kind = "cadeaux"
Debt == \E r \in Replays : Owes(r)

Playing == game \in {"moving", "level"} /\ confirmed
HadCadeaux == Worth["cadeaux"] * Cardinality(Granted("cadeaux", Frontier))
CadeauxThere == Playing /\ ~Debt /\ ~amiss => HadCadeaux <= live["cadeaux"]
-----------------------------------------------------------------------------
(* Counting. *)

LEMMA GrantedGrows ==
    ASSUME NEW k, NEW n \in Nat, NEW m \in Nat, n <= m
    PROVE  Cardinality(Granted(k, n)) <= Cardinality(Granted(k, m))
  <1>1. Granted(k, n) \subseteq Granted(k, m)
    BY DEF Granted
  <1> QED
    BY <1>1, GrantedFinite, FS_Subset

LEMMA GrantedHas ==
    ASSUME NEW k, NEW n \in Nat
    PROVE  Cardinality(Granted(k, n)) = 0 <=> \A i \in 1..n : sent[i].kind # k
  <1>1. Cardinality(Granted(k, n)) = 0 <=> Granted(k, n) = {}
    BY GrantedFinite, FS_EmptySet
  <1> QED
    BY <1>1 DEF Granted

LEMMA GrantedOther ==
    ASSUME NEW k, NEW n \in Nat, sent[n+1].kind # k
    PROVE  Granted(k, n + 1) = Granted(k, n)
  BY DEF Granted

(* A grant adds one to its kind and changes no shorter prefix. *)
LEMMA GrantCounts ==
    ASSUME PipeTypeOK, NEW p \in Payloads, Grant(p)
    PROVE  /\ Len(sent') = Len(sent) + 1
           /\ \A i \in 1..Len(sent) : sent'[i] = sent[i]
           /\ \A k : \A n \in 0..Len(sent) : Granted(k, n)' = Granted(k, n)
           /\ \A k : Cardinality(Granted(k, Len(sent)))'
                        = Cardinality(Granted(k, Len(sent))) + IF p.kind = k THEN 1 ELSE 0
  <1>1. /\ Len(sent) \in Nat /\ Len(sent') = Len(sent) + 1
        /\ sent'[Len(sent) + 1] = p
        /\ \A i \in 1..Len(sent) : sent'[i] = sent[i]
    BY DEF Grant, PipeTypeOK
  <1>2. ASSUME NEW k, NEW n \in 0..Len(sent)
        PROVE  Granted(k, n)' = Granted(k, n)
    BY <1>1 DEF Granted
  <1>3. ASSUME NEW k
        PROVE  Cardinality(Granted(k, Len(sent)))'
                  = Cardinality(Granted(k, Len(sent))) + IF p.kind = k THEN 1 ELSE 0
    <2> DEFINE Old == Granted(k, Len(sent))
               New == {i \in 1..Len(sent) + 1 : sent'[i].kind = k}
    <2>1. IsFiniteSet(Old) /\ Len(sent) + 1 \notin Old /\ Cardinality(Old) \in Nat
      <3>1. IsFiniteSet(Old) /\ Cardinality(Old) \in Nat
        BY <1>1, GrantedFinite
      <3>2. Len(sent) + 1 \notin 1..Len(sent) /\ Old \subseteq 1..Len(sent)
        BY <1>1 DEF Granted
      <3> QED
        BY <3>1, <3>2
    <2>2. New = IF p.kind = k THEN Old \cup {Len(sent) + 1} ELSE Old
      BY <1>1 DEF Granted
    <2>3. Cardinality(Old \cup {Len(sent) + 1}) = Cardinality(Old) + 1
      <3> HIDE DEF Old
      <3> QED
        BY <2>1, FS_AddElement
    <2>4. Cardinality(Granted(k, Len(sent)))' = Cardinality(New)
      BY <1>1 DEF Granted
    <2> HIDE DEF Old, New
    <2> QED
      BY <2>1, <2>2, <2>3, <2>4 DEF Old
  <1> QED
    BY <1>1, <1>2, <1>3

(* What was picked up of a kind, and how it changes. *)
Picked(k, emptied) == {l \in emptied \ checked : KindOf[l] = k}

LEMMA PickedFinite ==
    ASSUME NEW k, NEW S, IsFiniteSet(S)
    PROVE  IsFiniteSet(Picked(k, S)) /\ Cardinality(Picked(k, S)) \in Nat
  BY FS_Subset, FS_CardinalityType, Picked(k, S) \subseteq S DEF Picked

LEMMA AllowedNumber ==
    ASSUME TypeOK, NEW k \in Kinds, NEW S, IsFiniteSet(S)
    PROVE  /\ Allowed(k, S) \in Nat /\ Worth[k] \in Nat /\ Worth[k] >= 1
           /\ Cardinality(Granted(k, Len(sent))) \in Nat
           /\ Worth[k] * Cardinality(Granted(k, Len(sent))) \in Nat
           /\ Worth[k] * Cardinality(Granted(k, Len(sent))) <= Allowed(k, S)
  <1>1. Worth[k] \in Nat /\ Worth[k] >= 1
    BY DeliveryAssumption
  <1>2. Cardinality(Granted(k, Len(sent))) \in Nat /\ Cardinality(Picked(k, S)) \in Nat
    BY GrantedFinite, PickedFinite, PositionTypes DEF TypeOK
  <1>3. \A a, b, c \in Nat : a * b \in Nat /\ a * b + c \in Nat /\ a * b <= a * b + c
    OBVIOUS
  <1> QED
    BY <1>1, <1>2, <1>3 DEF Allowed, Picked

(* Products of a worth. *)
LEMMA WorthGrows ==
    ASSUME NEW w \in Nat, w >= 1, NEW a \in Nat, NEW b \in Nat
    PROVE  /\ a <= b => w * a <= w * b
           /\ w * (a + 1) = w * a + w /\ w * a + 1 <= w * (a + 1)
           /\ w * a \in Nat
  <1>1. w * (a + 1) = w * a + w /\ w * a \in Nat
    OBVIOUS
  <1>2. a <= b => w * a <= w * b
    OBVIOUS
  <1> QED
    BY <1>1, <1>2

(* A write of the client never goes over what the list justifies. *)
LEMMA DispatchedBound ==
    ASSUME TypeOK, Known, NEW k \in Kinds, NEW c \in Counters
    PROVE  \/ Dispatched(k)[c] = live[c]
           \/ Dispatched(k)[c] <= Worth[c] * Cardinality(Granted(c, Len(sent)))
  <1>1. /\ rcvd \in Nat /\ Len(sent) \in Nat /\ rcvd <= Len(sent) /\ live \in [Kinds -> Nat]
        /\ c \in Kinds /\ c # "flag" /\ Worth[c] \in Nat /\ Worth[c] >= 1 /\ Cap[c] \in Nat
    <2>1. rcvd \in Nat /\ Len(sent) \in Nat /\ rcvd <= Len(sent)
      BY PipelineAssumption DEF TypeOK, PipeTypeOK, Known
    <2>2. live \in [Kinds -> Nat] /\ c \in Kinds /\ c # "flag"
      BY DEF TypeOK, GameTypeOK, Counters
    <2>3. Worth[c] \in Nat /\ Worth[c] >= 1 /\ Cap[c] \in Nat
      BY <2>2, DeliveryAssumption
    <2> QED
      BY <2>1, <2>2, <2>3
  <1>2. /\ Cardinality(Granted(c, rcvd)) \in Nat /\ Cardinality(Granted(c, Len(sent))) \in Nat
        /\ Cardinality(Granted(c, rcvd)) <= Cardinality(Granted(c, Len(sent)))
    BY <1>1, GrantedFinite, GrantedGrows
  <1>3. Target(c) <= Worth[c] * Cardinality(Granted(c, Len(sent))) /\ Target(c) \in Nat
    BY <1>1, <1>2, WorthGrows DEF Target
  <1>4. Worth[c] * Cardinality(Granted(c, Len(sent))) \in Nat
    BY <1>1, <1>2, WorthGrows
  <1>5. Clamped(c, Target(c)) \in Nat /\ Clamped(c, Target(c)) <= Target(c)
    BY <1>1, <1>3 DEF Clamped
  <1>6. CASE k # c
    BY <1>1, <1>6, GameAssumption DEF Dispatched, AllKinds
  <1>7. CASE k = c /\ k \in {"soul", "cadeaux"}
    <2>1. Dispatched(k)[c] = Clamped(c, Target(c))
      BY <1>1, <1>7 DEF Dispatched
    <2> QED
      BY <1>3, <1>4, <1>5, <2>1
  <1>8. CASE k = c /\ k = "stack"
    <2>1. Dispatched(k)[c] = (IF live[c] < Target(c) THEN live[c] + 1 ELSE live[c])
      BY <1>1, <1>8 DEF Dispatched
    <2>2. live[c] \in Nat
      BY <1>1
    <2> HIDE DEF Target
    <2> QED
      BY <1>3, <1>4, <2>1, <2>2
  <1> QED
    BY <1>1, <1>6, <1>7, <1>8, GameAssumption DEF AllKinds
-----------------------------------------------------------------------------
(* Nobody has more than was granted: the steps. *)

(* Grants and checks only make room. *)
LEMMA RoomGrows ==
    ASSUME TypeOK, NEW k \in Kinds, NEW S, IsFiniteSet(S), NEW p \in Payloads, Grant(p),
           \/ checked' = checked
           \/ \E l \in Locs : checked' = checked \cup {l} /\ p.kind = KindOf[l]
    PROVE  /\ Worth[k] * Cardinality(Granted(k, Len(sent)))'
                 + Cardinality({l \in S \ checked' : KindOf[l] = k}) \in Nat
           /\ Allowed(k, S) <= Worth[k] * Cardinality(Granted(k, Len(sent)))'
                                 + Cardinality({l \in S \ checked' : KindOf[l] = k})
  <1> DEFINE g == Cardinality(Granted(k, Len(sent)))
             h == Cardinality(Granted(k, Len(sent)))'
             New == {l \in S \ checked' : KindOf[l] = k}
  <1>1. h = g + (IF p.kind = k THEN 1 ELSE 0) /\ g \in Nat /\ Worth[k] \in Nat /\ Worth[k] >= 1
    BY GrantCounts, AllowedNumber DEF TypeOK
  <1>2. Cardinality(Picked(k, S)) \in Nat /\ IsFiniteSet(Picked(k, S))
    BY PickedFinite
  <1>3. IsFiniteSet(New) /\ Cardinality(New) \in Nat
    <2>1. New \subseteq S
      OBVIOUS
    <2> QED
      BY <2>1, FS_Subset, FS_CardinalityType
  <1>4. Allowed(k, S) = Worth[k] * g + Cardinality(Picked(k, S))
    BY DEF Allowed, Picked
  <1>5. \/ Cardinality(New) = Cardinality(Picked(k, S))
        \/ Cardinality(New) = Cardinality(Picked(k, S)) - 1 /\ p.kind = k
    <2>1. CASE New = Picked(k, S)
      BY <2>1
    <2>2. CASE New # Picked(k, S)
      <3>1. PICK l \in Picked(k, S) : New = Picked(k, S) \ {l} /\ p.kind = k
        BY <2>2 DEF Picked
      <3> HIDE DEF New
      <3> QED
        BY <1>2, <3>1, FS_RemoveElement
    <2> QED
      BY <2>1, <2>2
  <1> HIDE DEF g, h, New
  <1>6. Worth[k] * g \in Nat /\ Worth[k] * g + 1 <= Worth[k] * (g + 1) /\ Worth[k] * (g + 1) \in Nat
    BY <1>1, WorthGrows
  <1>7. Worth[k] * h + Cardinality(New) \in Nat /\ Allowed(k, S) <= Worth[k] * h + Cardinality(New)
    <2>1. CASE p.kind = k
      <3>1. Worth[k] * h = Worth[k] * (g + 1)
        BY <1>1, <2>1
      <3> QED
        BY <1>2, <1>3, <1>4, <1>5, <1>6, <3>1
    <2>2. CASE p.kind # k
      <3>1. Worth[k] * h = Worth[k] * g /\ Cardinality(New) = Cardinality(Picked(k, S))
        BY <1>1, <1>5, <2>2
      <3> QED
        BY <1>2, <1>4, <1>6, <3>1
    <2> QED
      BY <2>1, <2>2
  <1> QED
    BY <1>7 DEF h, New

LEMMA GrantKeepsBacked ==
    ASSUME TypeOK, Backed, NEW p \in Payloads, Grant(p), UNCHANGED gameVars,
           owed' \cup checked' = owed \cup checked,
           \/ checked' = checked
           \/ \E l \in Locs : checked' = checked \cup {l} /\ p.kind = KindOf[l]
    PROVE  Backed'
  <1> USE DEF Backed
  <1>1. UNCHANGED <<game, live, taken, saved>>
    BY DEF gameVars
  <1>2. ASSUME NEW k \in Counters PROVE (live[k] <= Allowed(k, taken) /\ saved.live[k] <= Allowed(k, saved.taken))'
    <2>1. k \in Kinds /\ IsFiniteSet(taken) /\ IsFiniteSet(saved.taken)
      BY DEF Counters, FinitelyTaken
    <2>2. live[k] \in Nat /\ saved.live[k] \in Nat
      BY <2>1 DEF TypeOK, GameTypeOK
    <2>3. Allowed(k, taken) \in Nat /\ Allowed(k, saved.taken) \in Nat
      BY <2>1, AllowedNumber
    <2>4. Allowed(k, taken) <= Allowed(k, taken)' /\ Allowed(k, taken)' \in Nat
      BY <1>1, <2>1, RoomGrows DEF Allowed
    <2>5. Allowed(k, saved.taken) <= Allowed(k, saved.taken)' /\ Allowed(k, saved.taken)' \in Nat
      BY <1>1, <2>1, RoomGrows DEF Allowed
    <2> QED
      BY <1>1, <2>2, <2>3, <2>4, <2>5 DEF Covered
  <1>3. Covered'
    BY <1>2 DEF Covered
  <1>4. ChecksHold' /\ FinitelyTaken'
    BY <1>1 DEF ChecksHold, FinitelyTaken
  <1> QED
    BY <1>3, <1>4

LEMMA PickUpKeepsBacked ==
    ASSUME TypeOK, Backed, NEW l \in Locs, PickUp(l)
    PROVE  Backed'
  <1> USE DEF Backed
  <1>1. /\ game = "level" /\ l \notin taken /\ taken' = taken \cup {l}
        /\ live' = [live EXCEPT ![KindOf[l]] = IF KindOf[l] = "flag" THEN 1 ELSE @ + 1]
        /\ UNCHANGED <<game, saved, checked, sent>>
        /\ owed' = owed \cup ({l} \ checked)
    BY DEF PickUp, NativePickup, pipeVars
  <1>2. l \notin checked
    BY <1>1 DEF ChecksHold
  <1>3. ChecksHold' /\ FinitelyTaken'
    <2>1. IsFiniteSet(taken')
      BY <1>1, FS_AddElement DEF FinitelyTaken
    <2> QED
      BY <1>1, <2>1 DEF ChecksHold, FinitelyTaken
  <1>4. ASSUME NEW k \in Counters
        PROVE  live'[k] <= Allowed(k, taken)' /\ saved'.live[k] <= Allowed(k, saved.taken)'
    <2>1. k \in Kinds /\ IsFiniteSet(taken) /\ k # "flag"
      BY DEF Counters, FinitelyTaken
    <2>2. Allowed(k, saved.taken)' = Allowed(k, saved.taken)
      BY <1>1 DEF Allowed, Granted
    <2>3. Allowed(k, taken)' = Worth[k] * Cardinality(Granted(k, Len(sent)))
                                 + Cardinality(Picked(k, taken \cup {l}))
      BY <1>1 DEF Allowed, Granted, Picked
    <2>4. live'[k] = live[k] + IF KindOf[l] = k THEN 1 ELSE 0
      <3>1. live \in [Kinds -> Nat]
        BY DEF TypeOK, GameTypeOK
      <3>2. CASE KindOf[l] = k
        BY <1>1, <2>1, <3>1, <3>2
      <3>3. CASE KindOf[l] # k
        BY <1>1, <2>1, <3>1, <3>3
      <3> QED
        BY <3>2, <3>3
    <2>5. Cardinality(Picked(k, taken \cup {l}))
            = Cardinality(Picked(k, taken)) + IF KindOf[l] = k THEN 1 ELSE 0
      <3>1. CASE KindOf[l] = k
        <4>1. Picked(k, taken \cup {l}) = Picked(k, taken) \cup {l} /\ l \notin Picked(k, taken)
          BY <1>1, <1>2, <3>1 DEF Picked
        <4> QED
          BY <2>1, <3>1, <4>1, PickedFinite, FS_AddElement
      <3>2. CASE KindOf[l] # k
        <4>1. Picked(k, taken \cup {l}) = Picked(k, taken)
          BY <3>2 DEF Picked
        <4> QED
          BY <2>1, <3>2, <4>1, PickedFinite
      <3> QED
        BY <3>1, <3>2
    <2>6. live[k] <= Worth[k] * Cardinality(Granted(k, Len(sent))) + Cardinality(Picked(k, taken))
      BY DEF Covered, Allowed, Picked
    <2>7. /\ live[k] \in Nat /\ Cardinality(Picked(k, taken)) \in Nat
          /\ Worth[k] * Cardinality(Granted(k, Len(sent))) \in Nat
      BY <2>1, PickedFinite, AllowedNumber DEF TypeOK, GameTypeOK
    <2>8. \A a, b, c, d \in Nat : a <= b + c => a + d <= b + (c + d)
      OBVIOUS
    <2>9. live'[k] <= Allowed(k, taken)'
      BY <2>3, <2>4, <2>5, <2>6, <2>7, <2>8
    <2> QED
      BY <1>1, <2>2, <2>9 DEF Covered
  <1> QED
    BY <1>3, <1>4 DEF Covered

(* The game is left with everything saved, so what comes back is covered. *)
LEMMA MoveKeepsBacked ==
    ASSUME SavesBeforeLeaving, TypeOK, Backed, PlayerMoves
    PROVE  Backed'
  <1> USE DEF Backed
  <1>1. UNCHANGED <<sent, checked, owed>>
    BY DEF PlayerMoves, pipeVars, deliveryVars
  <1>2. \/ UNCHANGED <<live, taken>>
        \/ live' = Empty /\ taken' = {}
        \/ live' = saved.live /\ taken' = saved.taken
    BY DEF PlayerMoves, Launch, EnterLevel, Warp, QuitToTitle, Close, Save, LoadSave, Unload
  <1>3. \/ UNCHANGED saved
        \/ saved' = [live |-> live, taken |-> taken]
    BY DEF PlayerMoves, Launch, EnterLevel, Warp, QuitToTitle, Close, Save, LoadSave
  <1>4. FinitelyTaken'
    BY <1>2, <1>3, FS_EmptySet DEF FinitelyTaken
  <1>5. ChecksHold'
    <2>1. CASE Launch \/ EnterLevel \/ Warp \/ Save \/ LoadSave
      BY <1>1, <2>1 DEF ChecksHold, Launch, EnterLevel, Warp, Save, LoadSave
    <2>2. CASE QuitToTitle \/ Close
      <3>1. game \in {"moving", "level"} => saved.taken = taken
        BY <2>2 DEF QuitToTitle, Close, MayLeave
      <3>2. game' \in {"title", "closed"} /\ saved' = saved
        BY <2>2 DEF QuitToTitle, Close
      <3> QED
        BY <1>1, <3>1, <3>2 DEF ChecksHold
    <2> QED
      BY <2>1, <2>2 DEF PlayerMoves
  <1>6. ASSUME NEW k \in Counters
        PROVE  live'[k] <= Allowed(k, taken)' /\ saved'.live[k] <= Allowed(k, saved.taken)'
    <2>1. k \in Kinds
      BY DEF Counters
    <2>2. live[k] <= Allowed(k, taken) /\ saved.live[k] <= Allowed(k, saved.taken)
      BY DEF Covered
    <2>3. saved'.live[k] <= Allowed(k, saved.taken)'
      <3>1. CASE UNCHANGED saved
        BY <1>1, <2>2, <3>1 DEF Allowed, Granted
      <3>2. CASE saved' = [live |-> live, taken |-> taken]
        BY <1>1, <2>2, <3>2 DEF Allowed, Granted
      <3> QED
        BY <1>3, <3>1, <3>2
    <2>4. live'[k] <= Allowed(k, taken)'
      <3>1. CASE UNCHANGED <<live, taken>>
        BY <1>1, <2>2, <3>1 DEF Allowed, Granted
      <3>2. CASE live' = saved.live /\ taken' = saved.taken
        BY <1>1, <2>2, <3>2 DEF Allowed, Granted
      <3>3. CASE live' = Empty /\ taken' = {}
        <4>1. Allowed(k, {}) \in Nat
          BY <2>1, FS_EmptySet, AllowedNumber
        <4>2. Allowed(k, taken)' = Allowed(k, {})
          BY <1>1, <3>3 DEF Allowed, Granted
        <4> QED
          BY <2>1, <3>3, <4>1, <4>2 DEF Empty
      <3> QED
        BY <1>2, <3>1, <3>2, <3>3
    <2> QED
      BY <2>3, <2>4
  <1> QED
    BY <1>4, <1>5, <1>6 DEF Covered

(* A turn of the client writes what some kind's dispatch writes, or nothing. *)
LEMMA WriteKeepsBacked ==
    ASSUME TypeOK, Known, Backed, UNCHANGED <<sent, game, taken, saved, checked>>, owed' \subseteq owed,
           live' = live \/ \E k \in Kinds : live' = Dispatched(k)
    PROVE  Backed'
  <1> USE DEF Backed
  <1>1. ASSUME NEW c \in Counters
        PROVE  live'[c] <= Allowed(c, taken)' /\ saved'.live[c] <= Allowed(c, saved.taken)'
    <2>1. c \in Kinds /\ IsFiniteSet(taken)
      BY DEF Counters, FinitelyTaken
    <2>2. /\ Allowed(c, taken)' = Allowed(c, taken)
          /\ Allowed(c, saved.taken)' = Allowed(c, saved.taken)
      BY DEF Allowed, Granted
    <2>3. live'[c] <= Allowed(c, taken)
      <3>1. CASE live'[c] = live[c]
        BY <3>1 DEF Covered
      <3>2. ASSUME NEW k \in Kinds, live' = Dispatched(k),
                   Dispatched(k)[c] <= Worth[c] * Cardinality(Granted(c, Len(sent)))
            PROVE  live'[c] <= Allowed(c, taken)
        <4>1. Dispatched(k)[c] \in Nat
          BY <2>1, DispatchedType
        <4> QED
          BY <2>1, <3>2, <4>1, AllowedNumber
      <3> QED
        BY <3>1, <3>2, DispatchedBound
    <2> QED
      BY <2>2, <2>3 DEF Covered
  <1>2. ChecksHold' /\ FinitelyTaken'
    BY DEF ChecksHold, FinitelyTaken
  <1> QED
    BY <1>1, <1>2 DEF Covered

(* What a turn of the item loop or of a replay writes. *)
LEMMA HandleShape ==
    ASSUME TypeOK, PipeInv, HandleItem
    PROVE  /\ TakeItem /\ sent' = sent
           /\ UNCHANGED <<game, taken, saved, moves, checked, owed, confirmed, replay>>
           /\ sent[queue[1] + 1] \in Payloads
           /\ live' = IF ~NativeOnly(sent[queue[1] + 1]) /\ game = "level"
                      THEN Dispatched(sent[queue[1] + 1].kind) ELSE live
           /\ IF sent[queue[1] + 1].kind # "cadeaux" THEN amiss' = amiss
              ELSE IF game = "level" THEN Wrote ELSE LeftOut
  <1>1. queue # <<>> /\ PipeTypeOK
    BY DEF HandleItem, TakeItem, TypeOK
  <1>2. Head(queue) = queue[1] /\ sent[queue[1] + 1] \in Payloads
    BY <1>1, HeadIsEntry
  <1> QED
    BY <1>2 DEF HandleItem, TakeItem, Inject

(* A replay's turn ends it, or does its entry. *)
Ends(r) ==
    /\ \/ replay[r] = 1 /\ ReplayRefused
       \/ PastLedger(replay[r])
       \/ game = "closed"
    /\ replay' = [replay EXCEPT ![r] = 0] /\ live' = live
    /\ IF PastLedger(replay[r]) THEN amiss' = amiss ELSE LeftOut
Does(r, p) ==
    /\ p \in Payloads
    /\ replay[r] \in 1..Len(received) /\ p = sent[received[replay[r]] + 1]
    /\ replay' = [replay EXCEPT ![r] = replay[r] + 1]
    /\ live' = IF NativeOnly(p) THEN live ELSE Dispatched(p.kind)
    /\ IF p.kind = "cadeaux" THEN Wrote ELSE amiss' = amiss

LEMMA TurnShape ==
    ASSUME TypeOK, PipeInv, NEW r \in Replays, ReplayTurn(r)
    PROVE  /\ replay[r] \in Nat /\ replay[r] # 0
           /\ UNCHANGED <<pipeVars, game, taken, saved, moves, checked, owed, confirmed>>
           /\ Ends(r) \/ \E p \in Payloads : Does(r, p)
  <1> DEFINE item == sent[received[replay[r]] + 1]
  <1>1. /\ replay[r] \in Nat /\ replay[r] # 0 /\ Len(received) \in Nat
        /\ UNCHANGED <<pipeVars, game, taken, saved, moves, checked, owed, confirmed>>
    BY PositionTypes DEF ReplayTurn, TypeOK
  <1>2. \/ Ends(r)
        \/ /\ replay[r] <= Len(received)
           /\ replay' = [replay EXCEPT ![r] = replay[r] + 1]
           /\ live' = IF NativeOnly(item) THEN live ELSE Dispatched(item.kind)
           /\ IF item.kind = "cadeaux" THEN Wrote ELSE amiss' = amiss
    BY <1>1 DEF ReplayTurn, Ends, PastLedger
  <1>3. ASSUME replay[r] <= Len(received) PROVE replay[r] \in 1..Len(received) /\ item \in Payloads
    <2>1. replay[r] \in 1..Len(received)
      BY <1>1, <1>3
    <2>2. PipeTypeOK
      BY DEF TypeOK
    <2> QED
      BY <2>1, <2>2, LedgerEntryType
  <1> QED
    BY <1>1, <1>2, <1>3 DEF Does

LEMMA StepKeepsBacked ==
    ASSUME SavesBeforeLeaving, TypeOK, PipeInv, Known, Backed, [Next]_vars
    PROVE  Backed'
  <1>1. ASSUME NEW k \in Kinds, SendForeign(k) PROVE Backed'
    <2>1. [kind |-> k, own |-> FALSE] \in Payloads
      BY DeliveryAssumption
    <2> QED
      BY <1>1, <2>1, GrantKeepsBacked DEF SendForeign, deliveryVars
  <1>2. ASSUME NEW l \in Locs, ReportCheck(l) PROVE Backed'
    <2>1. /\ l \in owed /\ owed' = owed \ {l} /\ checked' = checked \cup {l}
          /\ UNCHANGED <<gameVars, confirmed, replay>>
      BY <1>2 DEF ReportCheck
    <2>2. CASE l \in checked
      <3>1. UNCHANGED <<pipeVars, gameVars>> /\ checked' = checked
        BY <1>2, <2>1, <2>2 DEF ReportCheck
      <3> QED
        BY <2>1, <3>1 DEF pipeVars, gameVars, Backed, Covered, ChecksHold, FinitelyTaken,
                          Allowed, Granted
    <2>3. CASE l \notin checked
      <3>1. Grant([kind |-> KindOf[l], own |-> TRUE])
        BY <1>2, <2>3 DEF ReportCheck
      <3>2. [kind |-> KindOf[l], own |-> TRUE] \in Payloads
        BY DeliveryAssumption, GameAssumption
      <3>3. owed' \cup checked' = owed \cup checked
        BY <2>1
      <3> QED
        BY <2>1, <3>1, <3>2, <3>3, GrantKeepsBacked
    <2> QED
      BY <2>2, <2>3
  <1>3. ASSUME NEW l \in Locs, PickUp(l) PROVE Backed'
    BY <1>3, PickUpKeepsBacked
  <1>4. CASE PlayerMoves
    BY <1>4, MoveKeepsBacked
  <1>5. CASE Transport \/ Restart \/ PollTitle \/ Catchup \/ UNCHANGED vars
    <2>1. UNCHANGED <<sent, game, taken, saved, checked, live>> /\ owed' \subseteq owed
      BY <1>5 DEF Transport, Restart, PollTitle, Catchup, vars, Connect, LoseConnection,
                  OnReceivedItems, FinishItem, RestartClient, pipeVars, gameVars, deliveryVars
    <2> QED
      BY <2>1, WriteKeepsBacked
  <1>6. CASE HandleItem
    <2>1. UNCHANGED <<sent, game, taken, saved, checked, owed>>
      BY <1>6, HandleShape DEF deliveryVars
    <2>2. live' = live \/ \E k \in Kinds : live' = Dispatched(k)
      BY <1>6, HandleShape, DeliveryAssumption
    <2> QED
      BY <2>1, <2>2, WriteKeepsBacked
  <1>7. ASSUME NEW r \in Replays, ReplayTurn(r) PROVE Backed'
    <2>1. UNCHANGED <<sent, game, taken, saved, checked, owed>>
      BY <1>7, TurnShape DEF pipeVars
    <2>2. live' = live \/ \E k \in Kinds : live' = Dispatched(k)
      BY <1>7, TurnShape, DeliveryAssumption DEF Ends, Does
    <2> QED
      BY <2>1, <2>2, WriteKeepsBacked
  <1> QED
    BY <1>1, <1>2, <1>3, <1>4, <1>5, <1>6, <1>7 DEF Next

LEMMA InitBacked ==
    ASSUME Init PROVE Backed
  <1>1. /\ live = Empty /\ taken = {} /\ saved = [live |-> Empty, taken |-> {}]
        /\ checked = {} /\ owed = {}
    BY DEF Init, GameInit
  <1>2. ASSUME NEW k \in Counters PROVE Allowed(k, {}) \in Nat /\ Empty[k] = 0
    <2>1. k \in Kinds /\ Worth[k] \in Nat /\ Worth[k] >= 1
      BY DeliveryAssumption DEF Counters
    <2>2. Cardinality(Granted(k, Len(sent))) \in Nat
      BY GrantedFinite DEF Init, PipeInit
    <2>3. Cardinality({l \in {} \ checked : KindOf[l] = k}) = 0
      <3>1. {l \in {} \ checked : KindOf[l] = k} = {}
        OBVIOUS
      <3> QED
        BY <3>1, FS_EmptySet
    <2>4. \A a, b \in Nat : a * b + 0 \in Nat
      OBVIOUS
    <2> QED
      BY <2>1, <2>2, <2>3, <2>4 DEF Allowed, Empty
  <1>3. Covered
    BY <1>1, <1>2 DEF Covered
  <1> QED
    BY <1>1, <1>3, FS_EmptySet DEF Backed, ChecksHold, FinitelyTaken

(* A player who saves before leaving never has more of a counter item than the
   server granted plus what was picked up and is still to be granted, for any
   number of locations, items, replays, losses and restarts. *)
THEOREM NothingIsOverGranted ==
    ASSUME SavesBeforeLeaving
    PROVE  Spec => []NothingOverGranted
  <1>1. Init => Backed
    BY InitBacked
  <1>2. TypeOK /\ PipeInv /\ Known /\ Backed /\ [Next]_vars => Backed'
    BY StepKeepsBacked
  <1>3. Backed => NothingOverGranted
    BY DEF Backed, Covered, NothingOverGranted, Allowed, Pending
  <1>4. Spec => []PipeInv /\ []Known
    BY DeliveryImplementsPipeline, PipeInvariant, KnownIsSent, PTL
  <1> QED
    BY <1>1, <1>2, <1>3, <1>4, TypeCorrect, PTL DEF Spec
-----------------------------------------------------------------------------
(* What was handled is there, unless a replay is still to bring it. *)

(* The counter holds as many cadeaux as the list can carry. *)
CounterFits == "cadeaux" \in Kinds /\ Worth["cadeaux"] * MaxSent <= Cap["cadeaux"]

LEMMA HadNumbers ==
    ASSUME TypeOK, PipeInv, CounterFits, Whole
    PROVE  /\ Frontier \in Nat /\ Reach \in Nat /\ Frontier <= Reach /\ Len(sent) \in Nat
           /\ HadCadeaux \in Nat /\ (rcvd # 0 => HadCadeaux <= Target("cadeaux"))
           /\ Target("cadeaux") \in Nat
           /\ Clamped("cadeaux", Target("cadeaux")) = Target("cadeaux")
           /\ live["cadeaux"] \in Nat
  <1>1. /\ Frontier \in Nat /\ Reach \in Nat /\ Frontier <= Reach /\ Len(sent) \in Nat
        /\ (rcvd # 0 => rcvd = Reach) /\ rcvd \in 0..MaxSent /\ MaxSent \in Nat
    BY PositionTypes, PipelineAssumption DEF TypeOK, PipeTypeOK, PipeInv, QueueReach, Whole
  <1>2. /\ Worth["cadeaux"] \in Nat /\ Worth["cadeaux"] >= 1 /\ Cap["cadeaux"] \in Nat
        /\ live["cadeaux"] \in Nat
    BY DeliveryAssumption DEF CounterFits, TypeOK, GameTypeOK
  <1>3. /\ Cardinality(Granted("cadeaux", Frontier)) \in Nat
        /\ Cardinality(Granted("cadeaux", rcvd)) \in Nat
        /\ rcvd # 0 => Cardinality(Granted("cadeaux", Frontier)) <= Cardinality(Granted("cadeaux", rcvd))
    BY <1>1, GrantedFinite, GrantedGrows
  <1>4. Cardinality(Granted("cadeaux", rcvd)) <= MaxSent
    <2>1. Granted("cadeaux", rcvd) \subseteq 1..rcvd /\ IsFiniteSet(1..rcvd)
          /\ Cardinality(1..rcvd) = rcvd
      BY <1>1, FS_Interval DEF Granted
    <2>2. Cardinality(Granted("cadeaux", rcvd)) <= rcvd
      BY <2>1, FS_Subset
    <2> QED
      BY <1>1, <1>3, <2>2
  <1>5. /\ Target("cadeaux") \in Nat /\ HadCadeaux \in Nat
        /\ (rcvd # 0 => HadCadeaux <= Target("cadeaux"))
        /\ Target("cadeaux") <= Worth["cadeaux"] * MaxSent
        /\ Worth["cadeaux"] * MaxSent \in Nat
    BY <1>1, <1>2, <1>3, <1>4, WorthGrows DEF Target, HadCadeaux
  <1>6. Clamped("cadeaux", Target("cadeaux")) = Target("cadeaux")
    <2> HIDE DEF Target
    <2> QED
      BY <1>2, <1>5 DEF Clamped, CounterFits
  <1> QED
    BY <1>1, <1>2, <1>5, <1>6

(* A dispatch writes the cadeaux counter in full, or does not touch it. *)
LEMMA DispatchedCadeaux ==
    ASSUME TypeOK, PipeInv, CounterFits, Whole, NEW k \in Kinds
    PROVE  Dispatched(k)["cadeaux"] = IF k = "cadeaux" THEN Target("cadeaux") ELSE live["cadeaux"]
  <1>1. live \in [Kinds -> Nat] /\ "cadeaux" \in Kinds
    BY DEF TypeOK, GameTypeOK, CounterFits
  <1>2. CASE k = "cadeaux"
    BY <1>1, <1>2, HadNumbers DEF Dispatched
  <1>3. CASE k # "cadeaux"
    BY <1>1, <1>3, GameAssumption DEF Dispatched, AllKinds
  <1> QED
    BY <1>2, <1>3

LEMMA LedgerHas ==
    ASSUME TypeOK, PipeInv, Cardinality(Granted("cadeaux", Frontier)) # 0
    PROVE  \E j \in 1..Len(received) : sent[received[j] + 1].kind = "cadeaux"
  <1>1. Frontier \in Nat /\ DOMAIN received = 1..Len(received)
    BY PositionTypes DEF TypeOK
  <1>2. PICK i \in 1..Frontier : sent[i].kind = "cadeaux"
    BY <1>1, GrantedHas
  <1>3. i - 1 \in 0..Frontier-1 /\ (i - 1) + 1 = i
    BY <1>1
  <1>4. PICK j \in DOMAIN received : received[j] = i - 1
    BY <1>3 DEF PipeInv, LedgerFull
  <1> QED
    BY <1>1, <1>2, <1>3, <1>4

(* So a replay that is woken owes the cadeaux there are. *)
LEMMA SpawnOwes ==
    ASSUME TypeOK, PipeInv, CounterFits, Spawn, UNCHANGED pipeVars
    PROVE  /\ Debt => Debt'
           /\ HadCadeaux # 0 => Debt'
  <1>1. PICK r \in Replays : replay[r] = 0 /\ replay' = [replay EXCEPT ![r] = 1]
    BY DEF Spawn
  <1>2. replay'[r] = 1 /\ \A q \in Replays : q # r => replay'[q] = replay[q]
    BY <1>1 DEF TypeOK
  <1>3. received' = received /\ sent' = sent
    BY DEF pipeVars
  <1>4. Debt => Debt'
    BY <1>1, <1>2, <1>3 DEF Debt, Owes
  <1>5. ASSUME HadCadeaux # 0 PROVE Owes(r)'
    <2>1. Cardinality(Granted("cadeaux", Frontier)) # 0
      <3>1. Worth["cadeaux"] \in Nat /\ \A w \in Nat : w * 0 = 0
        BY DeliveryAssumption DEF CounterFits
      <3> QED
        BY <1>5, <3>1 DEF HadCadeaux
    <2>2. PICK j \in 1..Len(received) : sent[received[j] + 1].kind = "cadeaux"
      BY <2>1, LedgerHas
    <2>3. j >= 1 /\ j \in DOMAIN received
      BY PositionTypes DEF TypeOK
    <2> QED
      BY <1>2, <1>3, <2>2, <2>3 DEF Owes
  <1> QED
    BY <1>4, <1>5 DEF Debt

(* Items that arrive or are recorded cancel no debt. *)
LEMMA PipeKeepsDebt ==
    ASSUME TypeOK, PipeInv, replay' = replay,
           \/ UNCHANGED <<sent, received>>
           \/ TakeItem
           \/ received' = received /\ \E p \in Payloads : Grant(p)
    PROVE  Debt => Debt'
  <1>1. ASSUME NEW r \in Replays, Owes(r) PROVE Owes(r)'
    <2>1. PICK j \in 1..Len(received) : j >= replay[r] /\ sent[received[j] + 1].kind = "cadeaux"
      BY <1>1, PositionTypes DEF Owes, TypeOK
    <2>2. CASE UNCHANGED <<sent, received>>
      BY <1>1, <2>2 DEF Owes
    <2>3. CASE TakeItem
      <3>1. j \in DOMAIN received' /\ received'[j] = received[j] /\ sent' = sent
        BY <2>3, PositionTypes DEF TakeItem, TypeOK, PipeTypeOK
      <3> QED
        BY <1>1, <2>1, <3>1 DEF Owes
    <2>4. ASSUME received' = received, NEW p \in Payloads, Grant(p) PROVE Owes(r)'
      <3>1. sent'[received[j] + 1] = sent[received[j] + 1]
        BY <2>4, LedgerEntryType, GrantCounts DEF TypeOK
      <3>2. j \in DOMAIN received'
        BY <2>4, PositionTypes DEF TypeOK
      <3> QED
        BY <1>1, <2>1, <2>4, <3>1, <3>2 DEF Owes
    <2> QED
      BY <2>2, <2>3, <2>4
  <1> QED
    BY <1>1 DEF Debt

(* A replay that ends past the ledger owed nothing, and one that does an entry of
   another kind owes what it owed. *)
LEMMA TurnKeepsDebt ==
    ASSUME TypeOK, NEW r \in Replays, UNCHANGED pipeVars,
           (Ends(r) /\ PastLedger(replay[r])) \/ \E p : Does(r, p) /\ p.kind # "cadeaux"
    PROVE  Debt => Debt'
  <1>1. received' = received /\ sent' = sent /\ replay[r] \in Nat
    BY DEF pipeVars, TypeOK
  <1>2. ASSUME NEW q \in Replays, Owes(q) PROVE Owes(q)'
    <2>1. CASE q # r
      <3>1. replay'[q] = replay[q]
        BY <2>1 DEF Ends, Does, TypeOK
      <3> QED
        BY <1>1, <1>2, <3>1 DEF Owes
    <2>2. CASE q = r
      <3>1. PICK j \in 1..Len(received) : j >= replay[r] /\ sent[received[j] + 1].kind = "cadeaux"
        BY <1>2, <2>2, PositionTypes DEF Owes, TypeOK
      <3>2. ~PastLedger(replay[r])
        <4>1. Len(received) \in Nat
          BY DEF TypeOK, PipeTypeOK
        <4> QED
          BY <1>1, <3>1, <4>1 DEF PastLedger
      <3>3. PICK p : Does(r, p) /\ p.kind # "cadeaux"
        BY <3>2
      <3>4. j # replay[r] /\ replay'[r] = replay[r] + 1
        BY <3>1, <3>3 DEF Does, TypeOK
      <3>5. j \in DOMAIN received /\ j \in Nat
        BY PositionTypes DEF TypeOK
      <3>6. j >= replay'[r] /\ replay'[r] # 0
        BY <1>1, <3>1, <3>4, <3>5
      <3> QED
        BY <1>1, <2>2, <3>1, <3>5, <3>6 DEF Owes
    <2> QED
      BY <2>1, <2>2
  <1> QED
    BY <1>2 DEF Debt

(* How much was handled, over a step. *)
LEMMA SameHad ==
    ASSUME sent' = sent, Frontier' = Frontier
    PROVE  HadCadeaux' = HadCadeaux
  BY DEF HadCadeaux, Granted

LEMMA GrantHad ==
    ASSUME TypeOK, PipeInv, NEW p \in Payloads, Grant(p)
    PROVE  HadCadeaux' = HadCadeaux
  <1>1. Frontier' = Frontier
    BY DEF Grant, Frontier
  <1>2. Frontier \in Nat /\ Frontier <= Reach /\ Reach <= Len(sent) /\ Reach \in Nat
        /\ Len(sent) \in Nat
    BY PositionTypes DEF TypeOK, PipeInv, QueueReach
  <1>3. Frontier \in 0..Len(sent)
    BY <1>2
  <1>4. Granted("cadeaux", Frontier)' = Granted("cadeaux", Frontier)
    BY <1>1, <1>3, GrantCounts DEF Granted, TypeOK
  <1> QED
    BY <1>4 DEF HadCadeaux

LEMMA TakeHad ==
    ASSUME TypeOK, PipeInv, CounterFits, Whole, TakeItem
    PROVE  /\ HadCadeaux' \in Nat /\ (rcvd # 0 => HadCadeaux' <= Target("cadeaux"))
           /\ sent[queue[1] + 1].kind # "cadeaux" => HadCadeaux' = HadCadeaux
  <1>1. /\ queue[1] \in Nat /\ queue[1] < Reach /\ sent' = sent
        /\ Frontier \in Nat /\ Reach \in Nat /\ Frontier <= Reach
    <2>1. queue # <<>> /\ sent' = sent /\ 1 \in DOMAIN queue
      BY DEF TakeItem, TypeOK, PipeTypeOK
    <2> QED
      BY <2>1, HeadIsEntry, PositionTypes DEF TypeOK, PipeInv, QueueReach
  <1>2. Frontier' = IF queue[1] = Frontier THEN Frontier + 1 ELSE Frontier
    BY TakeMovesFrontier DEF TypeOK
  <1>3. Frontier' \in Nat /\ Frontier' <= Reach /\ rcvd \in Nat /\ (rcvd # 0 => rcvd = Reach)
    BY <1>1, <1>2, PipelineAssumption DEF Whole, TypeOK, PipeTypeOK
  <1>4. HadCadeaux' = Worth["cadeaux"] * Cardinality(Granted("cadeaux", Frontier'))
    BY <1>1 DEF HadCadeaux, Granted
  <1>5. /\ Cardinality(Granted("cadeaux", Frontier')) \in Nat
        /\ Cardinality(Granted("cadeaux", rcvd)) \in Nat
        /\ rcvd # 0 => Cardinality(Granted("cadeaux", Frontier')) <= Cardinality(Granted("cadeaux", rcvd))
    BY <1>1, <1>3, GrantedFinite, GrantedGrows
  <1>6. Worth["cadeaux"] \in Nat /\ Worth["cadeaux"] >= 1
    BY DeliveryAssumption DEF CounterFits
  <1>7. HadCadeaux' \in Nat /\ (rcvd # 0 => HadCadeaux' <= Target("cadeaux"))
    BY <1>4, <1>5, <1>6, WorthGrows DEF Target
  <1>8. ASSUME sent[queue[1] + 1].kind # "cadeaux" PROVE HadCadeaux' = HadCadeaux
    <2>1. Granted("cadeaux", Frontier') = Granted("cadeaux", Frontier)
      BY <1>1, <1>2, <1>8, GrantedOther
    <2> QED
      BY <1>4, <2>1 DEF HadCadeaux
  <1> QED
    BY <1>7, <1>8

(* Steps that cancel no debt and take nothing away. *)
LEMMA QuietKeepsThere ==
    ASSUME CadeauxThere, HadCadeaux' = HadCadeaux, Playing' => Playing, Debt => Debt', ~amiss' => ~amiss,
           live'["cadeaux"] >= live["cadeaux"],
           live["cadeaux"] \in Nat, live'["cadeaux"] \in Nat, HadCadeaux \in Nat
    PROVE  CadeauxThere'
  BY DEF CadeauxThere

LEMMA StepKeepsThere ==
    ASSUME CounterFits, TypeOK, TypeOK', PipeInv, Whole, CadeauxThere, [Next]_vars
    PROVE  CadeauxThere'
  <1>0. /\ HadCadeaux \in Nat /\ Target("cadeaux") \in Nat
        /\ rcvd # 0 => HadCadeaux <= Target("cadeaux")
        /\ live["cadeaux"] \in Nat /\ live'["cadeaux"] \in Nat
    BY HadNumbers DEF TypeOK, GameTypeOK, CounterFits
  <1>1. ASSUME NEW p \in Payloads, Grant(p), UNCHANGED <<gameVars, confirmed, replay, amiss>>
        PROVE  CadeauxThere'
    <2>1. HadCadeaux' = HadCadeaux
      BY <1>1, GrantHad
    <2>2. received' = received /\ UNCHANGED <<game, live>>
      BY <1>1 DEF Grant, gameVars
    <2>3. (Debt => Debt') /\ (Playing' => Playing)
      BY <1>1, <2>2, PipeKeepsDebt DEF Playing
    <2> QED
      BY <1>0, <1>1, <2>1, <2>2, <2>3, QuietKeepsThere
  <1>2. ASSUME NEW k \in Kinds, SendForeign(k) PROVE CadeauxThere'
    <2>1. [kind |-> k, own |-> FALSE] \in Payloads
      BY DeliveryAssumption
    <2> QED
      BY <1>1, <1>2, <2>1 DEF SendForeign, deliveryVars
  <1>3. ASSUME UNCHANGED <<pipeVars, game, live, confirmed, replay, amiss>>
        PROVE  CadeauxThere'
    <2>1. HadCadeaux' = HadCadeaux
      BY <1>3, SameHad DEF Frontier, pipeVars
    <2>2. (Debt => Debt') /\ (Playing' => Playing)
      BY <1>3 DEF Playing, Debt, Owes, pipeVars
    <2> QED
      BY <1>0, <1>3, <2>1, <2>2, QuietKeepsThere
  <1>4. ASSUME NEW l \in Locs, ReportCheck(l) PROVE CadeauxThere'
    <2>1. UNCHANGED <<gameVars, confirmed, replay, amiss>>
      BY <1>4 DEF ReportCheck
    <2>2. UNCHANGED pipeVars \/ Grant([kind |-> KindOf[l], own |-> TRUE])
      BY <1>4 DEF ReportCheck
    <2>3. [kind |-> KindOf[l], own |-> TRUE] \in Payloads
      BY DeliveryAssumption, GameAssumption
    <2> QED
      BY <1>1, <1>3, <2>1, <2>2, <2>3 DEF gameVars
  <1>5. ASSUME NEW l \in Locs, PickUp(l) PROVE CadeauxThere'
    <2>1. /\ UNCHANGED <<pipeVars, game, confirmed, replay, amiss>>
          /\ live' = [live EXCEPT ![KindOf[l]] = IF KindOf[l] = "flag" THEN 1 ELSE @ + 1]
      BY <1>5 DEF PickUp, NativePickup
    <2>2. live'["cadeaux"] >= live["cadeaux"]
      <3>1. live \in [Kinds -> Nat] /\ "cadeaux" \in Kinds
        BY DEF TypeOK, GameTypeOK, CounterFits
      <3>2. CASE KindOf[l] = "cadeaux"
        BY <1>0, <2>1, <3>1, <3>2
      <3>3. CASE KindOf[l] # "cadeaux"
        BY <1>0, <2>1, <3>1, <3>3
      <3> QED
        BY <3>2, <3>3
    <2>3. HadCadeaux' = HadCadeaux
      BY <2>1, SameHad DEF Frontier, pipeVars
    <2>4. (Debt => Debt') /\ (Playing' => Playing)
      BY <2>1 DEF Playing, Debt, Owes, pipeVars
    <2> QED
      BY <1>0, <2>1, <2>2, <2>3, <2>4, QuietKeepsThere
  <1>6. CASE Transport
    <2>1. UNCHANGED <<sent, received, replay, game, confirmed, live, amiss>>
      BY <1>6 DEF Transport, Connect, LoseConnection, OnReceivedItems, FinishItem,
                  gameVars, deliveryVars
    <2>2. Frontier' = Frontier
      <3>1. CASE FinishItem
        BY <3>1, PipelineAssumption DEF FinishItem, Frontier, Max2, Idle, TypeOK, PipeTypeOK
      <3>2. CASE UNCHANGED <<working, index>>
        BY <3>2 DEF Frontier
      <3> QED
        BY <1>6, <3>1, <3>2 DEF Transport, Connect, LoseConnection, OnReceivedItems
    <2>3. (Debt => Debt') /\ (Playing' => Playing)
      BY <2>1 DEF Playing, Debt, Owes
    <2> QED
      BY <1>0, <2>1, <2>2, <2>3, SameHad, QuietKeepsThere
  <1>7. CASE Restart
    BY <1>7 DEF Restart, CadeauxThere, Playing
  <1>8. CASE PlayerMoves
    <2>1. CASE Launch \/ QuitToTitle \/ Close
      BY <2>1 DEF Launch, QuitToTitle, Close, CadeauxThere, Playing
    <2>2. CASE EnterLevel \/ Warp
      <3>1. /\ UNCHANGED <<pipeVars, live, confirmed, replay, amiss>>
            /\ Playing' => Playing
        BY <1>8, <2>2 DEF PlayerMoves, EnterLevel, Warp, Launch, QuitToTitle, Close, Save, LoadSave,
                          Playing
      <3>2. HadCadeaux' = HadCadeaux
        BY <3>1, SameHad DEF Frontier, pipeVars
      <3>3. Debt => Debt'
        BY <3>1 DEF Debt, Owes, pipeVars
      <3> QED
        BY <1>0, <3>1, <3>2, <3>3, QuietKeepsThere
    <2>3. CASE Save
      BY <1>3, <1>8, <2>3 DEF PlayerMoves, Save, LoadSave
    <2>4. CASE LoadSave
      <3>1. LeftOut /\ confirmed' = confirmed
        BY <1>8, <2>4 DEF PlayerMoves, LoadSave, EnterLevel, Warp, Launch, QuitToTitle, Close, Save
      <3> QED
        BY <3>1 DEF LeftOut, CadeauxThere, Playing
    <2> QED
      BY <1>8, <2>1, <2>2, <2>3, <2>4 DEF PlayerMoves
  <1>9. CASE HandleItem
    <2> DEFINE p == sent[queue[1] + 1]
    <2>1. /\ TakeItem /\ UNCHANGED <<game, confirmed, replay>> /\ p \in Payloads
          /\ live' = IF ~NativeOnly(p) /\ game = "level" THEN Dispatched(p.kind) ELSE live
          /\ IF p.kind # "cadeaux" THEN amiss' = amiss
             ELSE IF game = "level" THEN Wrote ELSE LeftOut
      BY <1>9, HandleShape
    <2>2. p.kind \in Kinds
      BY <2>1, DeliveryAssumption
    <2> HIDE DEF p
    <2>3. (Debt => Debt') /\ (Playing' => Playing)
      BY <2>1, PipeKeepsDebt DEF Playing
    <2>4. HadCadeaux' \in Nat /\ (rcvd # 0 => HadCadeaux' <= Target("cadeaux"))
          /\ (p.kind # "cadeaux" => HadCadeaux' = HadCadeaux)
      BY <2>1, TakeHad DEF p
    <2>5. CASE game # "level" /\ p.kind = "cadeaux"
      BY <2>1, <2>5 DEF LeftOut, CadeauxThere, Playing
    <2>6. CASE game = "level" /\ p.kind = "cadeaux"
      <3>1. live'["cadeaux"] = Target("cadeaux")
        BY <2>1, <2>2, <2>6, DispatchedCadeaux DEF NativeOnly
      <3> QED
        BY <2>1, <2>4, <2>6, <3>1 DEF Wrote, CadeauxThere
    <2>7. CASE p.kind # "cadeaux"
      <3>1. live'["cadeaux"] = live["cadeaux"]
        BY <2>1, <2>2, <2>7, DispatchedCadeaux
      <3> QED
        BY <1>0, <2>1, <2>3, <2>4, <2>7, <3>1, QuietKeepsThere
    <2> QED
      BY <2>5, <2>6, <2>7
  <1>10. CASE PollTitle
    <2>1. UNCHANGED <<pipeVars, game, live>>
      BY <1>10 DEF PollTitle, gameVars
    <2>2. HadCadeaux' = HadCadeaux
      BY <2>1, SameHad DEF Frontier, pipeVars
    <2>3. CASE game = "level" /\ Spawn
      <3>1. HadCadeaux # 0 => Debt'
        BY <2>1, <2>3, SpawnOwes
      <3> QED
        BY <1>0, <2>1, <2>2, <3>1 DEF CadeauxThere
    <2>4. CASE game = "title"
      BY <2>1, <2>4 DEF CadeauxThere, Playing
    <2> QED
      BY <1>10, <2>3, <2>4 DEF PollTitle
  <1>11. CASE Catchup
    <2>1. Spawn /\ UNCHANGED <<pipeVars, game, live, confirmed>>
      BY <1>11 DEF Catchup, gameVars
    <2>2. HadCadeaux' = HadCadeaux
      BY <2>1, SameHad DEF Frontier, pipeVars
    <2>3. HadCadeaux # 0 => Debt'
      BY <2>1, SpawnOwes
    <2> QED
      BY <1>0, <2>1, <2>2, <2>3 DEF CadeauxThere
  <1>12. ASSUME NEW r \in Replays, ReplayTurn(r) PROVE CadeauxThere'
    <2>1. /\ UNCHANGED <<pipeVars, game, confirmed>>
          /\ Ends(r) \/ \E p \in Payloads : Does(r, p)
      BY <1>12, TurnShape
    <2>2. HadCadeaux' = HadCadeaux /\ (Playing' => Playing)
      BY <2>1, SameHad DEF Frontier, pipeVars, Playing
    <2>3. CASE Ends(r) /\ ~PastLedger(replay[r])
      BY <2>1, <2>3 DEF Ends, LeftOut, CadeauxThere, Playing
    <2>4. CASE Ends(r) /\ PastLedger(replay[r])
      <3>1. Debt => Debt'
        BY <2>1, <2>4, TurnKeepsDebt
      <3> QED
        BY <1>0, <2>2, <2>4, <3>1, QuietKeepsThere DEF Ends
    <2>5. ASSUME NEW p \in Payloads, Does(r, p) PROVE CadeauxThere'
      <3>1. p.kind \in Kinds
        BY DeliveryAssumption
      <3>2. CASE p.kind = "cadeaux"
        <4>1. live'["cadeaux"] = Target("cadeaux")
          BY <2>5, <3>1, <3>2, DispatchedCadeaux DEF Does, NativeOnly
        <4> QED
          BY <1>0, <2>2, <2>5, <3>2, <4>1 DEF Does, Wrote, CadeauxThere
      <3>3. CASE p.kind # "cadeaux"
        <4>1. live'["cadeaux"] = live["cadeaux"]
          BY <2>5, <3>1, <3>3, DispatchedCadeaux DEF Does
        <4>2. Debt => Debt'
          BY <2>1, <2>5, <3>3, TurnKeepsDebt
        <4> QED
          BY <1>0, <2>2, <2>5, <3>3, <4>1, <4>2, QuietKeepsThere DEF Does
      <3> QED
        BY <3>2, <3>3
    <2> QED
      BY <2>1, <2>3, <2>4, <2>5
  <1>13. CASE UNCHANGED vars
    BY <1>3, <1>13 DEF vars, gameVars, deliveryVars
  <1> QED
    BY <1>2, <1>4, <1>5, <1>6, <1>7, <1>8, <1>9, <1>10, <1>11, <1>12, <1>13 DEF Next

(* For a player who saves before leaving and a total that fits the counter:
   once everything is done the cadeaux are exactly those received, whatever was
   found, sent, lost, resent and replayed on the way, unless the counter's last
   write was lost or came while the client's list was empty. *)
THEOREM CadeauxHaveSettled ==
    ASSUME SavesBeforeLeaving, CounterFits
    PROVE  Spec => []CadeauxSettle
  <1>1. Init => CadeauxThere /\ Backed
    BY InitBacked DEF Init, GameInit, CadeauxThere, Playing
  <1>2. /\ TypeOK /\ TypeOK' /\ PipeInv /\ Known /\ Whole
        /\ CadeauxThere /\ Backed /\ [Next]_vars
        => CadeauxThere' /\ Backed'
    BY StepKeepsThere, StepKeepsBacked
  <1>3. /\ TypeOK /\ PipeInv /\ CaughtUp /\ Whole /\ CadeauxThere /\ Backed
        => CadeauxSettle
    <2> SUFFICES ASSUME TypeOK, PipeInv, CaughtUp, Whole, CadeauxThere, Backed, Settled,
                        ~amiss
                 PROVE  live["cadeaux"] = Clamped("cadeaux", Target("cadeaux"))
      BY DEF CadeauxSettle, CadeauxExact
    <2>1. Frontier = Len(sent) /\ rcvd = Len(sent)
      BY DEF Settled, CaughtUp, Frontier, Whole
    <2>2. HadCadeaux = Target("cadeaux")
      BY <2>1 DEF HadCadeaux, Target
    <2>3. Playing /\ ~Debt /\ ~amiss
      BY DEF Settled, Playing, Debt, Owes, NoReplay
    <2>4. Picked("cadeaux", taken) = {}
      BY DEF Settled, Picked
    <2>5. live["cadeaux"] <= Allowed("cadeaux", taken)
      BY DEF Backed, Covered, Counters, CounterFits
    <2>6. Allowed("cadeaux", taken) = Target("cadeaux") + 0
      <3>1. Cardinality({l \in taken \ checked : KindOf[l] = "cadeaux"}) = 0
        BY <2>4, FS_EmptySet DEF Picked
      <3> QED
        BY <2>1, <3>1 DEF Allowed, Target
    <2>7. Target("cadeaux") <= live["cadeaux"]
      BY <2>2, <2>3 DEF CadeauxThere
    <2> HIDE DEF Target
    <2>8. live["cadeaux"] = Target("cadeaux")
      BY <2>5, <2>6, <2>7, HadNumbers
    <2> QED
      BY <2>8, HadNumbers
  <1>4. Spec => []PipeInv /\ []Known /\ []Whole /\ []CaughtUp
    BY DeliveryImplementsPipeline, PipeInvariant, KnownIsSent, KnownIsWhole,
       DrainedMeansCaughtUp, PTL
  <1> QED
    BY <1>1, <1>2, <1>3, <1>4, TypeCorrect, PTL DEF Spec
=============================================================================
