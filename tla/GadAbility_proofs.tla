------------------------- MODULE GadAbility_proofs -------------------------
(***************************************************************************)
(* Proofs about the gad temples and Poigne: the composed system implements  *)
(* the pipeline, no step takes a temple away in the game, and once          *)
(* everything is done the flags are what was received, for any number of    *)
(* levels, replays, items, moves and losses.                                *)
(***************************************************************************)
EXTENDS GadAbility, ItemPipeline_proofs, FiniteSetTheorems

(* Gad Powers granted so far, and the one picked up and not yet granted. *)
Granted == Listed("gad", Len(sent))
Owing == IF here = "gad" /\ check = "owed" THEN 1 ELSE 0
Sent(k) == IF here = k /\ check = "sent" THEN 1 ELSE 0

(* No flag, count or saved flag is ahead of what was granted or picked up. *)
TiersEarned ==
    /\ live.tier <= Granted + Owing /\ saved.live.tier <= Granted + Owing
    /\ counted <= Granted /\ \A r \in Replays : replay[r].kept <= Granted

(* At most the foreign Gad Powers and our own are granted. *)
GrantsBounded == Granted <= ForeignGads + Sent("gad")

(* A location whose check exists is empty in the save that matters. *)
CheckMeansTaken ==
    check # "none" => IF game \in {"moving", "level"} THEN taken ELSE saved.taken

Earned == TiersEarned /\ GrantsBounded /\ CheckMeansTaken

(* What a replay task has still to do of a kind. *)
Owes(r, k) ==
    /\ replay[r].next # 0
    /\ \E j \in DOMAIN received : j >= replay[r].next /\ sent[received[j] + 1] = k
Debt(k) == \E r \in Replays : Owes(r, k)

(* In a game that was confirmed and not left since, what was handled is there,
   unless a replay has still to bring it or its last write was lost. *)
Playing == game \in {"moving", "level"} /\ confirmed
Had == AtMost(Listed("gad", Frontier), TopTier)
HadPoigne == Listed("poigne", Frontier) > 0
TiersThere ==
    Playing /\ ~Debt("gad") /\ ~amiss["gad"] =>
        live.tier >= Had /\ counted >= Had
PoigneThere ==
    Playing /\ ~Debt("poigne") /\ ~amiss["poigne"] /\ HadPoigne => live.poigne /\ owned

(* A Poigne in the game or in the save was received, or picked up and is owed. *)
PoigneEarned ==
    LET has == Listed("poigne", Len(sent)) > 0
    IN /\ live.poigne \/ saved.live.poigne => has \/ (here = "poigne" /\ check = "owed")
       /\ owned \/ Sent("poigne") = 1 => has

Restored == Whole /\ TiersThere /\ PoigneThere /\ PoigneEarned
-----------------------------------------------------------------------------
(* Counting. *)

(* How many items of a kind are among the first n: a number, more for a longer
   prefix, and positive exactly when there is one. *)
LEMMA ListedType ==
    ASSUME NEW k, NEW n \in Nat
    PROVE  IsFiniteSet({i \in 1..n : sent[i] = k}) /\ Listed(k, n) \in Nat
  <1>1. IsFiniteSet(1..n) /\ {i \in 1..n : sent[i] = k} \subseteq 1..n
    BY FS_Interval
  <1> QED
    BY <1>1, FS_Subset, FS_CardinalityType DEF Listed

LEMMA ListedGrows ==
    ASSUME NEW k, NEW n \in Nat, NEW m \in Nat, n <= m
    PROVE  Listed(k, n) <= Listed(k, m)
  <1>1. {i \in 1..n : sent[i] = k} \subseteq {i \in 1..m : sent[i] = k}
    OBVIOUS
  <1> QED
    BY <1>1, ListedType, FS_Subset DEF Listed

LEMMA ListedHas ==
    ASSUME NEW k, NEW n \in Nat
    PROVE  Listed(k, n) > 0 <=> \E i \in 1..n : sent[i] = k
  <1> DEFINE S == {i \in 1..n : sent[i] = k}
  <1>1. Listed(k, n) = 0 <=> S = {}
    BY ListedType, FS_EmptySet DEF Listed
  <1>2. S # {} <=> \E i \in 1..n : sent[i] = k
    OBVIOUS
  <1>3. Listed(k, n) \in Nat
    BY ListedType
  <1> HIDE DEF S
  <1> QED
    BY <1>1, <1>2, <1>3

(* A grant adds one to the count of its kind, and changes no shorter prefix. *)
LEMMA GrantCounts ==
    ASSUME PipeTypeOK, NEW p \in Payloads, Grant(p)
    PROVE  /\ Len(sent') = Len(sent) + 1
           /\ \A i \in 1..Len(sent) : sent'[i] = sent[i]
           /\ \A k : \A n \in 0..Len(sent) : Listed(k, n)' = Listed(k, n)
           /\ \A k : Listed(k, Len(sent))' = Listed(k, Len(sent)) + IF p = k THEN 1 ELSE 0
  <1>1. /\ Len(sent) \in Nat /\ Len(sent') = Len(sent) + 1
        /\ sent'[Len(sent) + 1] = p
        /\ \A i \in 1..Len(sent) : sent'[i] = sent[i]
    BY DEF Grant, PipeTypeOK
  <1>2. ASSUME NEW k, NEW n \in 0..Len(sent)
        PROVE  Listed(k, n)' = Listed(k, n)
    <2>1. {i \in 1..n : sent'[i] = k} = {i \in 1..n : sent[i] = k}
      BY <1>1
    <2> QED
      BY <2>1 DEF Listed
  <1>3. ASSUME NEW k
        PROVE  Listed(k, Len(sent))' = Listed(k, Len(sent)) + IF p = k THEN 1 ELSE 0
    <2> DEFINE Old == {i \in 1..Len(sent) : sent[i] = k}
               New == {i \in 1..Len(sent) + 1 : sent'[i] = k}
    <2>1. IsFiniteSet(Old) /\ Len(sent) + 1 \notin Old
      <3>1. IsFiniteSet(Old)
        BY <1>1, ListedType
      <3>2. Len(sent) + 1 \notin 1..Len(sent)
        BY <1>1
      <3> QED
        BY <3>1, <3>2
    <2>2. New = IF p = k THEN Old \cup {Len(sent) + 1} ELSE Old
      BY <1>1
    <2>3. Cardinality(Old \cup {Len(sent) + 1}) = Cardinality(Old) + 1
      <3> HIDE DEF Old
      <3> QED
        BY <2>1, FS_AddElement
    <2>4. Listed(k, Len(sent)) = Cardinality(Old) /\ Listed(k, Len(sent))' = Cardinality(New)
      BY <1>1 DEF Listed
    <2>5. Cardinality(Old) \in Nat
      BY <1>1, <2>4, ListedType
    <2> HIDE DEF Old, New
    <2> QED
      BY <2>2, <2>3, <2>4, <2>5
  <1> QED
    BY <1>1, <1>2, <1>3

(* The count the client writes is a tier, and none that was not granted. *)
LEMMA ReceivedIsTier ==
    ASSUME PipeTypeOK, Known
    PROVE  Received \in Tiers /\ Received <= Granted /\ Granted \in Nat
  <1>1. rcvd \in Nat /\ Len(sent) \in Nat /\ rcvd <= Len(sent)
    BY PipelineAssumption DEF PipeTypeOK, Known
  <1>2. Listed("gad", rcvd) \in Nat /\ Granted \in Nat /\ Listed("gad", rcvd) <= Granted
    BY <1>1, ListedType, ListedGrows DEF Granted
  <1> QED
    BY <1>2 DEF Received, AtMost, Tiers, TopTier

-----------------------------------------------------------------------------
(* Writing. *)

LEMMA RaisedFlags ==
    ASSUME NEW g \in Flags, NEW n \in Tiers
    PROVE  /\ Raised(g, n) \in Flags /\ Raised(g, n).poigne = g.poigne
           /\ Raised(g, n).tier = Max2(n, g.tier)
  BY DEF Flags, Tiers, TopTier, Raised, Max2

LEMMA SweptFlags ==
    ASSUME NEW g \in Flags, NEW n \in Tiers
    PROVE  /\ Swept(g, n) \in Flags /\ Swept(g, n).tier = Max2(n, g.tier)
           /\ Swept(g, n).poigne => g.poigne \/ owned
           /\ owned => Swept(g, n).poigne
  <1> DEFINE up == IF n > 0 THEN Raised(g, n) ELSE g
  <1>1. up \in Flags /\ up.poigne = g.poigne /\ up.tier = Max2(n, g.tier)
    BY RaisedFlags DEF Flags, Tiers, TopTier, Max2
  <1> HIDE DEF up
  <1>2. Swept(g, n) = IF owned THEN [up EXCEPT !.poigne = TRUE]
                      ELSE IF grace = "over" THEN [up EXCEPT !.poigne = FALSE] ELSE up
    BY DEF Swept, up
  <1> QED
    BY <1>1, <1>2 DEF Flags

(* What the encoding of "givegad" means. *)
LEMMA DecodeFlags == ASSUME NEW n \in 0..11
  PROVE /\ Decode(n) \in Flags /\ (Decode(n).poigne <=> n >= 4)
        /\ Decode(n).tier = IF n < 4 THEN n ELSE IF n < 8 THEN n - 4 ELSE n - 8
  <1>1. Decode(n).tier = n % 4 /\ Decode(n).poigne = (n >= 4)
    BY Zenon DEF Decode
  <1>2. n % 4 \in Tiers /\ (n >= 4) \in BOOLEAN
    BY DEF Tiers, TopTier
  <1>3. Decode(n) \in Flags
    BY <1>2, Zenon DEF Decode, Flags
  <1>4. n % 4 = IF n < 4 THEN n ELSE IF n < 8 THEN n - 4 ELSE n - 8
    OBVIOUS
  <1> QED
    BY <1>1, <1>3, <1>4

(* A Poigne written by an item: set, with the tier that was there or the count. *)
LEMMA PoigneFlags ==
    ASSUME NEW g \in Flags, counted \in Tiers, NEW now \in BOOLEAN,
           NEW h \in PoigneWritten(g, now)
    PROVE  h \in Flags /\ h.poigne /\ h.tier \in {g.tier, counted}
  <1> DEFINE set == [g EXCEPT !.poigne = TRUE]
  <1>1. set \in Flags /\ set.poigne /\ set.tier = g.tier
    BY DEF Flags
  <1>2. Decode(5) \in Flags /\ Decode(5).poigne
    BY DecodeFlags
  <1>3. \A f \in Applied(set) : f \in Flags /\ f.poigne
    BY <1>1, <1>2 DEF Applied
  <1> HIDE DEF set
  <1>4. CASE now
    <2>1. PICK f \in Applied(set) : h = [f EXCEPT !.tier = counted]
      BY <1>4 DEF PoigneWritten, set
    <2> QED
      BY <1>3, <2>1 DEF Flags
  <1>5. CASE ~now
    <2>1. h = set
      BY <1>5 DEF PoigneWritten, set
    <2> QED
      BY <1>1, <2>1
  <1> QED
    BY <1>4, <1>5

(* The native stubs: 4 sets Poigne, 1 goes up a tier while there is one. *)
LEMMA PickupFlags ==
    ASSUME NEW g \in Flags
    PROVE  /\ \A n \in {1, 4} : Decode(Encode(g) + n) \in Flags
           /\ Decode(Encode(g) + 4).tier = g.tier /\ Decode(Encode(g) + 4).poigne
           /\ g.tier < TopTier => /\ Decode(Encode(g) + 1).tier = g.tier + 1
                                  /\ Decode(Encode(g) + 1).poigne = g.poigne
  <1>1. g.tier \in 0..3 /\ g.poigne \in BOOLEAN
    BY DEF Flags, Tiers, TopTier
  <1>2. Encode(g) = (IF g.poigne THEN g.tier + 4 ELSE g.tier)
    BY <1>1 DEF Encode
  <1>3. Encode(g) + 1 \in 0..11 /\ Encode(g) + 4 \in 0..11
    BY <1>1, <1>2
  <1>4. /\ Decode(Encode(g) + 1) \in Flags /\ Decode(Encode(g) + 4) \in Flags
        /\ Decode(Encode(g) + 4).tier = g.tier /\ Decode(Encode(g) + 4).poigne
    BY <1>1, <1>2, <1>3, DecodeFlags
  <1>5. ASSUME g.tier < TopTier
        PROVE  /\ Decode(Encode(g) + 1).tier = g.tier + 1
               /\ (Decode(Encode(g) + 1).poigne <=> g.poigne)
    BY <1>1, <1>2, <1>3, <1>5, DecodeFlags DEF TopTier
  <1>6. Decode(Encode(g) + 1).poigne \in BOOLEAN
    BY <1>4 DEF Flags
  <1> QED
    BY <1>1, <1>4, <1>5, <1>6
-----------------------------------------------------------------------------
Placed == here \in Payloads

(* Every step of the composed system is a step of the pipeline or leaves it
   alone. *)
LEMMA StepIsPipelineStep ==
    ASSUME Placed, [Next]_vars PROVE [PipeNext]_pipeVars
  <1>1. CASE World
    <2>1. CASE Launch \/ LoadSave \/ EnterLevel \/ Warp \/ Save \/ Leave
      BY <2>1 DEF Launch, LoadSave, EnterLevel, Warp, Save, Leave, Outside
    <2>2. CASE NativePickup
      BY <2>2 DEF NativePickup
    <2>3. CASE ReportCheck
      BY <2>3 DEF ReportCheck, PipeNext, Placed
    <2>4. ASSUME NEW k \in Payloads, SendForeign(k) PROVE PipeNext
      BY <2>4 DEF SendForeign, PipeNext
    <2> QED
      BY <1>1, <2>1, <2>2, <2>3, <2>4 DEF World
  <1>2. CASE Connected
    BY <1>2 DEF Connected, PipeNext
  <1>3. CASE GraceEnds
    BY <1>3 DEF GraceEnds
  <1>4. CASE Transport
    BY <1>4 DEF Transport, PipeNext
  <1>5. CASE Restart
    BY <1>5 DEF Restart, PipeNext
  <1>6. CASE HandleItem
    BY <1>6 DEF HandleItem, PipeNext
  <1>7. CASE Poll
    BY <1>7 DEF Poll
  <1>8. CASE Catchup
    BY <1>8 DEF Catchup
  <1>9. ASSUME NEW r \in Replays, ReplayTurn(r) PROVE UNCHANGED pipeVars
    BY <1>9 DEF ReplayTurn
  <1>10. CASE UNCHANGED vars
    BY <1>10 DEF vars
  <1> QED
    BY <1>1, <1>2, <1>3, <1>4, <1>5, <1>6, <1>7, <1>8, <1>9, <1>10 DEF Next

(* What our location holds is settled by the seed. *)
LEMMA HereStays == Spec => []Placed
  <1>1. Init => Placed
    BY DEF Init, Placed
  <1>2. [Next]_vars => here' = here
    BY DEF Next, World, vars, worldVars, Launch, LoadSave, EnterLevel, Warp, Save, Leave, Outside,
           NativePickup, ReportCheck, SendForeign, Connected, GraceEnds, Transport, Restart,
           HandleItem, Poll, Catchup, ReplayTurn
  <1>3. Placed /\ [Next]_vars => Placed'
    BY <1>2 DEF Placed
  <1> QED
    BY <1>1, <1>3, PTL DEF Spec

(* The composed system implements the pipeline. *)
THEOREM AbilityImplementsPipeline == Spec => PipeSpec
  <1>1. Init => PipeInit
    BY DEF Init
  <1> QED
    BY <1>1, HereStays, StepIsPipelineStep, PTL DEF Spec, PipeSpec

-----------------------------------------------------------------------------
LEMMA StartValues ==
    NoGad \in Flags /\ Done \in [next : Nat, kept : Tiers] /\ 0 \in Tiers
  BY DEF NoGad, Done, Flags, Tiers, TopTier

(* A replay task that is woken, or turns, keeps its shape. *)
LEMMA SpawnType ==
    ASSUME TypeOK, Spawn
    PROVE  replay' \in [Replays -> [next : Nat, kept : Tiers]]
  <1>1. PICK r \in Replays : replay' = [replay EXCEPT ![r].next = 1]
    BY DEF Spawn
  <1> QED
    BY <1>1 DEF TypeOK

(* A turn of a replay, told apart by how it ends: it stops and changes no flag,
   it stops with the game closed, or it does one entry of the ledger. *)
Stops(r) ==
    /\ (Begins(r) /\ Refused) \/ replay[r].next > Len(received)
    /\ replay' = [replay EXCEPT ![r] = Done]
    /\ UNCHANGED <<live, counted, owned>>
    /\ LeftOut(IF replay[r].next > Len(received) THEN {} ELSE Payloads)
Aborts(r) ==
    /\ game = "closed" /\ counted' \in {counted, replay[r].kept}
    /\ replay' = [replay EXCEPT ![r] = Done]
    /\ UNCHANGED <<live, owned, amiss>>
Done1(r, k) ==
    /\ game # "closed" /\ ~(Begins(r) /\ Refused)
    /\ replay[r].next \in DOMAIN received /\ sent[received[replay[r].next] + 1] = k
    /\ \E t \in {counted, replay[r].kept} :
           replay' = [replay EXCEPT ![r] = [next |-> replay[r].next + 1, kept |-> t]]
DoesGad(r) ==
    /\ Done1(r, "gad") /\ WroteGad
    /\ counted' = Received /\ live' = Raised(live, Received) /\ owned' = owned
DoesPoigne(r) ==
    /\ Done1(r, "poigne") /\ WrotePoigne
    /\ owned' = TRUE /\ live' = [live EXCEPT !.poigne = TRUE]
    /\ counted' = IF Begins(r) THEN 0 ELSE counted

LEMMA TurnShape ==
    ASSUME TypeOK, NEW r \in Replays, ReplayTurn(r)
    PROVE  /\ replay[r].next \in Nat /\ replay[r].next # 0 /\ replay[r].kept \in Tiers
           /\ UNCHANGED <<pipeVars, here, game, where, taken, saved, moves, check>>
           /\ UNCHANGED <<confirmed, entered, grace>>
           /\ Stops(r) \/ Aborts(r) \/ DoesGad(r) \/ DoesPoigne(r)
  <1>1. replay[r].next \in Nat /\ replay[r].next # 0 /\ replay[r].kept \in Tiers
    BY DEF TypeOK, ReplayTurn
  <1>2. /\ UNCHANGED <<pipeVars, here, game, where, taken, saved, moves, check>>
        /\ UNCHANGED <<confirmed, entered, grace>>
    BY DEF ReplayTurn
  <1>3. replay[r].next <= Len(received) => replay[r].next \in DOMAIN received
    BY <1>1 DEF TypeOK, PipeTypeOK
  <1>4. Stops(r) \/ Aborts(r) \/ DoesGad(r) \/ DoesPoigne(r)
    BY <1>1, <1>3 DEF ReplayTurn, Stops, Aborts, DoesGad, DoesPoigne, Done1
  <1> QED
    BY <1>1, <1>2, <1>4

LEMMA StepKeepsTypes ==
    ASSUME TypeOK, PipeTypeOK', PipeInv, Known, [Next]_vars
    PROVE  TypeOK'
  <1> USE DEF TypeOK
  <1>0. Received \in Tiers
    BY ReceivedIsTier
  <1>1. CASE Launch \/ LoadSave \/ EnterLevel \/ Warp \/ Save \/ Leave
    <2>1. NoGad \in Flags
      BY StartValues
    <2>2. saved.live \in Flags /\ saved.taken \in BOOLEAN
      OBVIOUS
    <2>3. moves' \in 0..MaxMoves
      BY <1>1, GadAssumption DEF Launch, LoadSave, EnterLevel, Warp, Save, Leave, Moved
    <2>4. UNCHANGED <<pipeVars, confirmed, replay, counted, owned, entered, grace, here, check>>
      BY <1>1 DEF Launch, LoadSave, EnterLevel, Warp, Save, Leave, Outside
    <2>8. amiss' \in [Payloads -> BOOLEAN]
      BY <1>1 DEF Launch, LoadSave, EnterLevel, Warp, Save, Leave, LeftOut
    <2>5. live' \in Flags /\ taken' \in BOOLEAN
      BY <1>1, <2>1, <2>2 DEF Launch, LoadSave, EnterLevel, Warp, Save, Leave
    <2>6. where' \in Levels /\ game' \in {"closed", "title", "moving", "level"}
      BY <1>1 DEF Launch, LoadSave, EnterLevel, Warp, Save, Leave
    <2>7. saved' \in [live : Flags, taken : BOOLEAN]
      BY <1>1 DEF Launch, LoadSave, EnterLevel, Warp, Save, Leave
    <2> QED
      BY <2>3, <2>4, <2>5, <2>6, <2>7, <2>8
  <1>2. CASE NativePickup
    <2>1. live' \in Flags
      BY <1>2, PickupFlags DEF NativePickup
    <2> QED
      BY <1>2, <2>1 DEF NativePickup, clientVars
  <1>3. CASE ReportCheck
    BY <1>3 DEF ReportCheck, clientVars
  <1>4. ASSUME NEW k \in Payloads, SendForeign(k) PROVE TypeOK'
    BY <1>4 DEF SendForeign, worldVars, clientVars
  <1>5. CASE Connected \/ GraceEnds \/ Transport
    BY <1>5 DEF Connected, GraceEnds, Transport, worldVars, clientVars
  <1>6. CASE Restart
    <2>1. replay' \in [Replays -> [next : Nat, kept : Tiers]] /\ counted' \in Tiers
      BY <1>6, StartValues DEF Restart
    <2>2. amiss' \in [Payloads -> BOOLEAN]
      BY <1>6 DEF Restart, NoneAmiss
    <2> QED
      BY <1>6, <2>1, <2>2 DEF Restart, worldVars
  <1>7. CASE HandleItem
    <2>1. /\ live' \in Flags /\ counted' \in Tiers /\ owned' \in BOOLEAN
      <3>1. CASE UNCHANGED <<live, counted, owned>>
        BY <3>1
      <3>2. CASE counted' = Received /\ live' = Raised(live, counted') /\ owned' = owned
        BY <1>0, <3>2, RaisedFlags
      <3>3. CASE owned' = TRUE /\ live' \in PoigneWritten(live, grace = "over") /\ counted' = counted
        BY <3>3, PoigneFlags
      <3> QED
        BY <1>7, <3>1, <3>2, <3>3 DEF HandleItem
    <2>2. amiss' \in [Payloads -> BOOLEAN]
      BY <1>7 DEF HandleItem, WroteGad, WrotePoigne, LeftOut
    <2> QED
      BY <1>7, <2>1, <2>2 DEF HandleItem
  <1>8. CASE Poll
    <2>1. /\ live' \in Flags /\ counted' \in Tiers /\ entered' \in Levels \cup {NoLevel}
      BY <1>0, <1>8, SweptFlags DEF Poll, Sweep
    <2>2. confirmed' \in BOOLEAN
      BY <1>8 DEF Poll
    <2>3. replay' \in [Replays -> [next : Nat, kept : Tiers]]
      BY <1>8, SpawnType DEF Poll
    <2>4. amiss' \in [Payloads -> BOOLEAN]
      BY <1>8 DEF Poll, Looked, NoneAmiss
    <2> QED
      BY <1>8, <2>1, <2>2, <2>3, <2>4 DEF Poll
  <1>9. CASE Catchup
    <2>1. amiss' \in [Payloads -> BOOLEAN]
      BY <1>9 DEF Catchup, NoneAmiss
    <2> QED
      BY <1>9, <2>1, SpawnType DEF Catchup, worldVars
  <1>10. ASSUME NEW r \in Replays, ReplayTurn(r) PROVE TypeOK'
    <2>1. /\ replay[r].next \in Nat /\ replay[r].kept \in Tiers
          /\ UNCHANGED <<here, game, where, taken, saved, moves, check>>
          /\ UNCHANGED <<confirmed, entered, grace>>
          /\ Stops(r) \/ Aborts(r) \/ DoesGad(r) \/ DoesPoigne(r)
      BY <1>10, TurnShape
    <2>2. replay' \in [Replays -> [next : Nat, kept : Tiers]]
      <3>1. (Stops(r) \/ Aborts(r)) => replay' = [replay EXCEPT ![r] = Done]
        BY DEF Stops, Aborts
      <3>2. (DoesGad(r) \/ DoesPoigne(r)) => \E k : Done1(r, k)
        BY DEF DoesGad, DoesPoigne
      <3>3. counted \in Tiers /\ replay[r].kept \in Tiers /\ replay[r].next + 1 \in Nat
        BY <2>1
      <3>4. (\E k : Done1(r, k)) => replay' \in [Replays -> [next : Nat, kept : Tiers]]
        BY <3>3 DEF Done1
      <3> QED
        BY <2>1, <3>1, <3>2, <3>4, StartValues
    <2>3. 0 \in Tiers /\ [live EXCEPT !.poigne = TRUE] \in Flags
      <3>1. live \in Flags
        OBVIOUS
      <3> QED
        BY <3>1, StartValues DEF Flags
    <2>4. /\ live' \in Flags /\ counted' \in Tiers /\ owned' \in BOOLEAN
      BY <1>0, <2>1, <2>3, RaisedFlags DEF Stops, Aborts, DoesGad, DoesPoigne
    <2>5. amiss' \in [Payloads -> BOOLEAN]
      BY <2>1 DEF Stops, Aborts, DoesGad, DoesPoigne, LeftOut, WroteGad, WrotePoigne
    <2> QED
      BY <2>1, <2>2, <2>4, <2>5
  <1>11. CASE UNCHANGED vars
    BY <1>11 DEF vars, worldVars, clientVars
  <1> QED
    BY <1>1, <1>2, <1>3, <1>4, <1>5, <1>6, <1>7, <1>8, <1>9, <1>10, <1>11 DEF Next, World

(* Every variable of the composed system keeps its type. *)
THEOREM TypeCorrect == Spec => []TypeOK
  <1>1. Init => TypeOK
    <2> SUFFICES ASSUME Init PROVE TypeOK
      OBVIOUS
    <2>1. PipeTypeOK
      BY PipelineAssumption DEF Init, PipeInit, PipeTypeOK, Idle
    <2>2. replay \in [Replays -> [next : Nat, kept : Tiers]] /\ counted \in Tiers
      BY StartValues DEF Init
    <2>3. live \in Flags /\ saved \in [live : Flags, taken : BOOLEAN] /\ moves \in 0..MaxMoves
      BY StartValues, GadAssumption DEF Init
    <2>4. amiss \in [Payloads -> BOOLEAN]
      BY DEF Init, NoneAmiss
    <2> QED
      BY <2>1, <2>2, <2>3, <2>4 DEF Init, TypeOK
  <1>2. TypeOK /\ PipeTypeOK' /\ PipeInv /\ Known /\ [Next]_vars => TypeOK'
    BY StepKeepsTypes
  <1>3. Spec => []PipeTypeOK /\ []PipeInv /\ []Known
    BY AbilityImplementsPipeline, PipeTypeCorrect, PipeInvariant, KnownIsSent, PTL
  <1> QED
    BY <1>1, <1>2, <1>3, PTL DEF Spec
-----------------------------------------------------------------------------
(* Nothing gets ahead of what was granted or picked up. *)

LEMMA EarnedNumbers ==
    ASSUME TypeOK
    PROVE  /\ Granted \in Nat /\ Owing \in 0..1 /\ ForeignGads \in 0..2 /\ Sent("gad") \in 0..1
           /\ live.tier \in 0..3 /\ saved.live.tier \in 0..3 /\ counted \in 0..3
           /\ \A r \in Replays : replay[r].kept \in 0..3
  <1>1. Len(sent) \in Nat
    BY DEF TypeOK, PipeTypeOK
  <1>2. Granted \in Nat
    BY <1>1, ListedType DEF Granted
  <1>3. live \in Flags /\ saved.live \in Flags
    BY DEF TypeOK
  <1> QED
    BY <1>2, <1>3, GadAssumption DEF TypeOK, Owing, Sent, Flags, Tiers, TopTier

(* Changes of the game and its save. *)
LEMMA GameKeepsEarned ==
    ASSUME TypeOK, Earned, Launch \/ LoadSave \/ EnterLevel \/ Warp \/ Save \/ Leave
    PROVE  Earned'
  <1> USE DEF Earned
  <1>1. UNCHANGED <<pipeVars, replay, counted, here, check>>
    BY DEF Launch, LoadSave, EnterLevel, Warp, Save, Leave, Outside
  <1>2. Granted' = Granted /\ Owing' = Owing /\ GrantsBounded'
    BY <1>1 DEF Granted, Listed, Owing, GrantsBounded, Sent, pipeVars
  <1>3. live'.tier \in {live.tier, 0, saved.live.tier} /\ saved'.live \in {saved.live, live}
    BY DEF Launch, LoadSave, EnterLevel, Warp, Save, Leave, NoGad
  <1>4. TiersEarned'
    BY <1>1, <1>2, <1>3, EarnedNumbers DEF TiersEarned
  <1>5. CheckMeansTaken'
    BY <1>1 DEF CheckMeansTaken, Launch, LoadSave, EnterLevel, Warp, Save, Leave
  <1> QED
    BY <1>2, <1>4, <1>5

(* A pickup, at a tier below the top, and its check. *)
LEMMA PickupKeepsEarned ==
    ASSUME TypeOK, Earned, NativePickup
    PROVE  /\ Earned'
           /\ check = "none" /\ check' = "owed"
           /\ here = "gad" => live.tier < TopTier /\ live'.tier = live.tier + 1
                              /\ live'.poigne = live.poigne
           /\ here # "gad" => live'.tier = live.tier /\ live'.poigne /\ here = "poigne"
  <1> USE DEF Earned
  <1>1. /\ game = "level" /\ ~taken /\ taken'
        /\ UNCHANGED <<pipeVars, clientVars, here, game, saved>>
        /\ live' = Decode(Encode(live) + IF here = "gad" THEN 1 ELSE 4)
        /\ check = "none" => check' = "owed"
    BY DEF NativePickup
  <1>2. check = "none" /\ Owing = 0 /\ Sent("gad") = 0
    BY <1>1 DEF CheckMeansTaken, Owing, Sent
  <1>3. Granted <= 2 /\ live.tier <= Granted
    BY <1>2, EarnedNumbers DEF GrantsBounded, TiersEarned
  <1>4. live.tier < TopTier
    BY <1>3, EarnedNumbers DEF TopTier
  <1>5. live \in Flags /\ here \in {"gad", "poigne"}
    BY GadAssumption DEF TypeOK
  <1>6. /\ here = "gad" => live'.tier = live.tier + 1 /\ live'.poigne = live.poigne
        /\ here # "gad" => live'.tier = live.tier /\ live'.poigne
    BY <1>1, <1>4, <1>5, PickupFlags
  <1>7. Granted' = Granted /\ Sent("gad")' = 0 /\ Owing' = IF here = "gad" THEN 1 ELSE 0
    BY <1>1, <1>2 DEF Granted, Listed, Owing, Sent, pipeVars
  <1>8. GrantsBounded' /\ CheckMeansTaken'
    BY <1>1, <1>2, <1>7 DEF GrantsBounded, CheckMeansTaken
  <1>9. TiersEarned'
    BY <1>1, <1>2, <1>3, <1>6, <1>7, EarnedNumbers DEF TiersEarned, clientVars
  <1> QED
    BY <1>1, <1>2, <1>4, <1>5, <1>6, <1>8, <1>9

(* A grant: our own check, or another world's item. *)
LEMMA GrantKeepsEarned ==
    ASSUME TypeOK, Earned, ReportCheck \/ \E k \in Payloads : SendForeign(k)
    PROVE  Earned'
  <1> USE DEF Earned
  <1>1. UNCHANGED <<here, game, live, taken, saved, counted, replay>>
    BY DEF ReportCheck, SendForeign, worldVars, clientVars
  <1>2. CASE ReportCheck
    <2>1. check = "owed" /\ check' = "sent" /\ here \in Payloads
      BY <1>2 DEF ReportCheck, TypeOK
    <2>2. Granted' = Granted + IF here = "gad" THEN 1 ELSE 0
      BY <1>2, <2>1, GrantCounts DEF ReportCheck, Granted, TypeOK
    <2>3. Owing' = 0 /\ Owing = (IF here = "gad" THEN 1 ELSE 0)
          /\ Sent("gad") = 0 /\ Sent("gad")' = (IF here = "gad" THEN 1 ELSE 0)
      BY <1>1, <2>1 DEF Owing, Sent
    <2>4. TiersEarned' /\ GrantsBounded'
      BY <1>1, <2>2, <2>3, EarnedNumbers DEF TiersEarned, GrantsBounded
    <2>5. CheckMeansTaken'
      BY <1>1, <2>1 DEF CheckMeansTaken
    <2> QED
      BY <2>4, <2>5
  <1>3. ASSUME NEW k \in Payloads, SendForeign(k) PROVE Earned'
    <2>1. Granted' = Granted + (IF k = "gad" THEN 1 ELSE 0) /\ check' = check
      BY <1>3, GrantCounts DEF SendForeign, Granted, TypeOK, worldVars
    <2>2. Owing' = Owing /\ Sent("gad")' = Sent("gad")
      BY <1>1, <2>1 DEF Owing, Sent
    <2>3. k = "gad" => Granted < ForeignGads + Sent("gad")
      BY <1>3 DEF SendForeign, ForeignLimit, Sent, Granted
    <2>4. TiersEarned' /\ GrantsBounded'
      BY <1>1, <2>1, <2>2, <2>3, EarnedNumbers DEF TiersEarned, GrantsBounded
    <2>5. CheckMeansTaken'
      BY <1>1, <2>1 DEF CheckMeansTaken
    <2> QED
      BY <2>4, <2>5
  <1> QED
    BY <1>2, <1>3

(* What the client writes. *)
LEMMA HandleShape ==
    ASSUME TypeOK, PipeInv, Known, HandleItem
    PROVE  /\ TakeItem /\ UNCHANGED <<here, game, where, taken, saved, moves, check>>
           /\ UNCHANGED <<confirmed, replay, entered, grace>>
           /\ Head(queue) = queue[1] /\ sent' = sent
           /\ \/ /\ game # "level" /\ UNCHANGED <<live, counted, owned>>
                 /\ LeftOut({sent[queue[1] + 1]})
              \/ /\ game = "level" /\ sent[queue[1] + 1] = "gad" /\ WroteGad
                 /\ counted' = Received /\ live' = Raised(live, Received) /\ owned' = owned
              \/ /\ game = "level" /\ sent[queue[1] + 1] = "poigne" /\ WrotePoigne
                 /\ counted' = counted /\ owned' = TRUE
                 /\ live' \in Flags /\ live'.poigne /\ live'.tier \in {live.tier, counted}
  <1>1. Head(queue) = queue[1] /\ sent' = sent
    BY HeadIsEntry DEF HandleItem, TakeItem, TypeOK
  <1>2. ASSUME NEW h \in PoigneWritten(live, grace = "over")
        PROVE  h \in Flags /\ h.poigne /\ h.tier \in {live.tier, counted}
    BY PoigneFlags DEF TypeOK
  <1> QED
    BY <1>1, <1>2 DEF HandleItem

LEMMA ClientKeepsEarned ==
    ASSUME TypeOK, PipeInv, Known, Earned,
           HandleItem \/ Poll \/ Catchup \/ Restart \/ (\E r \in Replays : ReplayTurn(r))
           \/ Connected \/ GraceEnds \/ Transport
    PROVE  Earned'
  <1> USE DEF Earned
  <1>1. UNCHANGED <<sent, here, game, taken, saved, check>>
    BY DEF HandleItem, Poll, Catchup, Restart, ReplayTurn, Connected, GraceEnds, Transport,
           TakeItem, RestartClient, Connect, LoseConnection, OnReceivedItems, FinishItem,
           worldVars, pipeVars
  <1>2. /\ Granted' = Granted /\ Owing' = Owing /\ GrantsBounded' /\ CheckMeansTaken'
    BY <1>1 DEF Granted, Listed, Owing, GrantsBounded, Sent, CheckMeansTaken
  <1>3. Received \in Tiers /\ Received <= Granted /\ Received \in Nat
    BY ReceivedIsTier DEF TypeOK, Tiers, TopTier
  <1>4. live \in Flags
    BY DEF TypeOK
  <1>5. CASE HandleItem
    <2>1. /\ replay' = replay /\ live'.tier \in {live.tier, counted, Max2(Received, live.tier)}
          /\ counted' \in {counted, Received}
      BY <1>3, <1>4, <1>5, HandleShape, RaisedFlags
    <2> QED
      BY <1>1, <1>2, <1>3, <2>1, EarnedNumbers DEF TiersEarned, Max2
  <1>6. CASE Poll
    <2>1. /\ live'.tier \in {live.tier, Max2(Received, live.tier)}
          /\ counted' \in {counted, Received}
      BY <1>3, <1>4, <1>6, SweptFlags DEF Poll, Sweep
    <2>2. \A r \in Replays : replay'[r].kept = replay[r].kept
      BY <1>6 DEF Poll, Spawn, TypeOK
    <2> QED
      BY <1>1, <1>2, <1>3, <2>1, <2>2, EarnedNumbers DEF TiersEarned, Max2
  <1>7. CASE Catchup
    <2>1. \A r \in Replays : replay'[r].kept = replay[r].kept
      BY <1>7 DEF Catchup, Spawn, TypeOK
    <2> QED
      BY <1>1, <1>2, <1>7, <2>1 DEF TiersEarned, Catchup, worldVars
  <1>8. CASE Restart
    <2>1. counted' = 0 /\ live' = live /\ \A r \in Replays : replay'[r].kept = 0
      BY <1>8 DEF Restart, worldVars, Done
    <2> QED
      BY <1>1, <1>2, <2>1, EarnedNumbers DEF TiersEarned
  <1>9. ASSUME NEW r \in Replays, ReplayTurn(r) PROVE Earned'
    <2>1. Stops(r) \/ Aborts(r) \/ DoesGad(r) \/ DoesPoigne(r)
      BY <1>9, TurnShape
    <2>2. /\ live'.tier \in {live.tier, Max2(Received, live.tier)}
          /\ counted' \in {0, counted, Received, replay[r].kept}
      BY <1>3, <1>4, <2>1, RaisedFlags DEF Stops, Aborts, DoesGad, DoesPoigne, Flags
    <2>3. \A q \in Replays : replay'[q].kept \in {0, counted, replay[r].kept, replay[q].kept}
      <3>1. (Stops(r) \/ Aborts(r)) => replay' = [replay EXCEPT ![r] = Done]
        BY DEF Stops, Aborts
      <3>2. (DoesGad(r) \/ DoesPoigne(r)) => \E k : Done1(r, k)
        BY DEF DoesGad, DoesPoigne
      <3> QED
        BY <2>1, <3>1, <3>2 DEF Done1, Done, TypeOK
    <2> QED
      BY <1>1, <1>2, <1>3, <2>2, <2>3, EarnedNumbers DEF TiersEarned, Max2
  <1>10. CASE Connected \/ GraceEnds \/ Transport
    <2>1. UNCHANGED <<live, counted, replay>>
      BY <1>10 DEF Connected, GraceEnds, Transport, worldVars, clientVars
    <2> QED
      BY <1>1, <1>2, <2>1 DEF TiersEarned
  <1> QED
    BY <1>5, <1>6, <1>7, <1>8, <1>9, <1>10

(* Everything the flags show was granted or picked up. *)
THEOREM NothingUnearned == Spec => []Earned
  <1>1. Init => Earned
    <2> SUFFICES ASSUME Init PROVE Earned
      OBVIOUS
    <2>1. sent = <<>> /\ Len(sent) = 0 /\ check = "none"
      BY DEF Init, PipeInit
    <2>2. Granted = 0
      <3>1. {i \in 1..0 : sent[i] = "gad"} = {}
        OBVIOUS
      <3> QED
        BY <2>1, <3>1, FS_EmptySet DEF Granted, Listed
    <2> QED
      BY <2>1, <2>2, GadAssumption
         DEF Init, Earned, TiersEarned, GrantsBounded, CheckMeansTaken, Owing, Sent, NoGad, Done
  <1>2. TypeOK /\ PipeInv /\ Known /\ Earned /\ [Next]_vars => Earned'
    <2> SUFFICES ASSUME TypeOK, PipeInv, Known, Earned, [Next]_vars PROVE Earned'
      OBVIOUS
    <2>1. CASE UNCHANGED vars
      BY <2>1 DEF vars, worldVars, clientVars, pipeVars, Earned, TiersEarned, GrantsBounded,
                  CheckMeansTaken, Granted, Listed, Owing, Sent
    <2> QED
      BY <2>1, GameKeepsEarned, PickupKeepsEarned, GrantKeepsEarned, ClientKeepsEarned
         DEF Next, World
  <1>3. Spec => []PipeInv /\ []Known
    BY AbilityImplementsPipeline, PipeInvariant, KnownIsSent, PTL
  <1> QED
    BY <1>1, <1>2, <1>3, TypeCorrect, PTL DEF Spec

(* inject_gad_power "NEVER WRITES BACKWARD", and neither do the sweep, the
   replay and the native stubs; only the Poigne correction may. *)
THEOREM TemplesStay == Spec => NeverBackward
  <1>1. TypeOK /\ PipeInv /\ Known /\ Earned /\ [Next]_vars => [LowersInGame => Corrects]_vars
    <2> SUFFICES ASSUME TypeOK, PipeInv, Known, Earned, Next, LowersInGame PROVE Corrects
      OBVIOUS
    <2>1. /\ game \in {"moving", "level"} /\ game' = game /\ live'.tier < live.tier
          /\ live \in Flags /\ live.tier \in Nat /\ Received \in Tiers /\ Received \in Nat
      BY EarnedNumbers, ReceivedIsTier DEF LowersInGame, TypeOK, Tiers, TopTier
    <2>2. CASE World
      <3>1. CASE Launch \/ LoadSave \/ EnterLevel \/ Warp \/ Leave
        BY <2>1, <3>1 DEF Launch, LoadSave, EnterLevel, Warp, Leave
      <3>2. CASE Save \/ ReportCheck \/ \E k \in Payloads : SendForeign(k)
        BY <2>1, <3>2 DEF Save, ReportCheck, SendForeign, worldVars
      <3>3. CASE NativePickup
        BY <2>1, <3>3, PickupKeepsEarned
      <3> QED
        BY <2>2, <3>1, <3>2, <3>3 DEF World
    <2>3. CASE HandleItem
      <3>1. CASE live'.tier = Max2(Received, live.tier) \/ live' = live
        BY <2>1, <3>1 DEF Max2
      <3>2. CASE sent[queue[1] + 1] = "poigne"
        BY <2>3, <3>2, HandleShape DEF Corrects, TakeItem
      <3> QED
        BY <2>1, <2>3, <3>1, <3>2, HandleShape, RaisedFlags
    <2>4. CASE Poll
      BY <2>1, <2>4, SweptFlags DEF Poll, Sweep, Max2
    <2>5. ASSUME NEW r \in Replays, ReplayTurn(r) PROVE FALSE
      <3>1. Stops(r) \/ Aborts(r) \/ DoesGad(r) \/ DoesPoigne(r)
        BY <2>5, TurnShape
      <3>2. live'.tier \in {live.tier, Max2(Received, live.tier)}
        BY <2>1, <3>1, RaisedFlags DEF Stops, Aborts, DoesGad, DoesPoigne, Flags
      <3> QED
        BY <2>1, <3>2 DEF Max2
    <2>6. CASE Connected \/ GraceEnds \/ Transport \/ Restart \/ Catchup
      BY <2>1, <2>6 DEF Connected, GraceEnds, Transport, Restart, Catchup, worldVars
    <2> QED
      BY <2>2, <2>3, <2>4, <2>5, <2>6 DEF Next
  <1>2. Spec => []PipeInv /\ []Known
    BY AbilityImplementsPipeline, PipeInvariant, KnownIsSent, PTL
  <1> QED
    BY <1>1, <1>2, TypeCorrect, NothingUnearned, PTL DEF Spec, NeverBackward
-----------------------------------------------------------------------------
(* What was handled is there, or a replay is still to bring it. *)

LEMMA HadNumbers ==
    ASSUME TypeOK, PipeInv, Whole
    PROVE  /\ Frontier \in Nat /\ Frontier <= Reach /\ Reach <= Len(sent) /\ Len(sent) \in Nat
           /\ Reach \in Nat /\ Listed("gad", Frontier) \in Nat
           /\ Had \in 0..3 /\ (rcvd # 0 => Had <= Received) /\ Had <= Granted
           /\ HadPoigne => Listed("poigne", Len(sent)) > 0
  <1>1. /\ Frontier \in Nat /\ Reach \in Nat /\ Len(sent) \in Nat
        /\ Frontier <= Reach /\ Reach <= Len(sent)
    BY PositionTypes DEF TypeOK, PipeInv, QueueReach
  <1>2. /\ Listed("gad", Frontier) \in Nat /\ Listed("gad", Reach) \in Nat /\ Granted \in Nat
        /\ Listed("gad", Frontier) <= Listed("gad", Reach)
        /\ Listed("gad", Reach) <= Granted
    BY <1>1, ListedType, ListedGrows DEF Granted
  <1>3. /\ Listed("poigne", Frontier) \in Nat /\ Listed("poigne", Len(sent)) \in Nat
        /\ Listed("poigne", Frontier) <= Listed("poigne", Len(sent))
    <2>1. Frontier <= Len(sent)
      BY <1>1
    <2> QED
      BY <1>1, <2>1, ListedType, ListedGrows
  <1>4. rcvd # 0 => Received = AtMost(Listed("gad", Reach), 3)
    BY DEF Received, Whole, TopTier
  <1> QED
    BY <1>1, <1>2, <1>3, <1>4 DEF Had, HadPoigne, AtMost, TopTier

(* A kind that was handled is in the ledger. *)
LEMMA LedgerHas ==
    ASSUME TypeOK, PipeInv, NEW k, Listed(k, Frontier) > 0
    PROVE  \E j \in 1..Len(received) : sent[received[j] + 1] = k
  <1>1. Frontier \in Nat /\ DOMAIN received = 1..Len(received)
    BY PositionTypes DEF TypeOK
  <1>2. PICK i \in 1..Frontier : sent[i] = k
    BY <1>1, ListedHas
  <1>3. i - 1 \in 0..Frontier-1 /\ (i - 1) + 1 = i
    BY <1>1
  <1>4. PICK j \in DOMAIN received : received[j] = i - 1
    BY <1>3 DEF PipeInv, LedgerFull
  <1> QED
    BY <1>1, <1>2, <1>3, <1>4

(* So a replay that is woken owes it. *)
LEMMA SpawnOwes ==
    ASSUME TypeOK, PipeInv, Spawn, UNCHANGED pipeVars, NEW k
    PROVE  /\ Debt(k) => Debt(k)'
           /\ Listed(k, Frontier) > 0 => Debt(k)'
  <1>1. PICK r \in Replays : /\ replay[r].next = 0
                             /\ replay' = [replay EXCEPT ![r].next = 1]
    BY DEF Spawn
  <1>2. /\ replay'[r].next = 1
        /\ \A q \in Replays : q # r => replay'[q] = replay[q]
    BY <1>1 DEF TypeOK
  <1>3. received' = received /\ sent' = sent
    BY DEF pipeVars
  <1>4. Debt(k) => Debt(k)'
    BY <1>1, <1>2, <1>3 DEF Debt, Owes
  <1>5. ASSUME Listed(k, Frontier) > 0 PROVE Owes(r, k)'
    <2>1. PICK j \in 1..Len(received) : sent[received[j] + 1] = k
      BY <1>5, LedgerHas
    <2>2. j >= 1 /\ j \in DOMAIN received
      BY PositionTypes DEF TypeOK
    <2> QED
      BY <1>2, <1>3, <2>1, <2>2 DEF Owes
  <1> QED
    BY <1>4, <1>5 DEF Debt

(* Items that arrive or are recorded cancel no debt. *)
LEMMA PipeKeepsDebt ==
    ASSUME TypeOK, PipeInv, NEW k, replay' = replay,
           \/ UNCHANGED <<sent, received>>
           \/ TakeItem
           \/ received' = received /\ \E p \in Payloads : Grant(p)
    PROVE  Debt(k) => Debt(k)'
  <1>1. ASSUME NEW r \in Replays, Owes(r, k) PROVE Owes(r, k)'
    <2>1. PICK j \in 1..Len(received) : j >= replay[r].next /\ sent[received[j] + 1] = k
      BY <1>1, PositionTypes DEF Owes, TypeOK
    <2>2. CASE UNCHANGED <<sent, received>>
      BY <1>1, <2>2 DEF Owes
    <2>3. CASE TakeItem
      <3>1. j \in DOMAIN received' /\ received'[j] = received[j] /\ sent' = sent
        BY <2>3, PositionTypes DEF TakeItem, TypeOK, PipeTypeOK
      <3> QED
        BY <1>1, <2>1, <3>1 DEF Owes
    <2>4. ASSUME received' = received, NEW p \in Payloads, Grant(p) PROVE Owes(r, k)'
      <3>1. sent'[received[j] + 1] = sent[received[j] + 1]
        BY <2>4, LedgerEntryType, GrantCounts DEF TypeOK
      <3>2. j \in DOMAIN received'
        BY <2>4, PositionTypes DEF TypeOK
      <3> QED
        BY <1>1, <2>1, <2>4, <3>1, <3>2 DEF Owes
    <2> QED
      BY <2>2, <2>3, <2>4
  <1> QED
    BY <1>1 DEF Debt

(* A replay that does an entry of one kind still owes the other, and one that
   stops past the ledger owed nothing. *)
LEMMA TurnKeepsDebt ==
    ASSUME TypeOK, NEW r \in Replays, NEW k, UNCHANGED pipeVars,
           replay[r].next \in Nat,
           (Stops(r) /\ replay[r].next > Len(received)) \/ \E m : m # k /\ Done1(r, m)
    PROVE  Debt(k) => Debt(k)'
  <1>1. received' = received /\ sent' = sent
    BY DEF pipeVars
  <1>2. ASSUME NEW q \in Replays, Owes(q, k) PROVE Owes(q, k)'
    <2>1. CASE q # r
      <3>1. replay'[q] = replay[q]
        BY <2>1 DEF Stops, Done1, TypeOK
      <3> QED
        BY <1>1, <1>2, <3>1 DEF Owes
    <2>2. CASE q = r
      <3>1. PICK j \in 1..Len(received) : j >= replay[r].next /\ sent[received[j] + 1] = k
        BY <1>2, <2>2, PositionTypes DEF Owes, TypeOK
      <3>2. ~(replay[r].next > Len(received))
        <4>1. Len(received) \in Nat
          BY DEF TypeOK, PipeTypeOK
        <4> QED
          BY <3>1, <4>1
      <3>3. PICK m : m # k /\ Done1(r, m)
        BY <3>2
      <3>4. j # replay[r].next
        BY <3>1, <3>3 DEF Done1
      <3>5. replay'[r].next = replay[r].next + 1
        BY <3>3 DEF Done1, TypeOK
      <3>6. j >= replay'[r].next /\ replay'[r].next # 0
        BY <3>1, <3>4, <3>5, PositionTypes DEF TypeOK
      <3>7. j \in DOMAIN received
        BY PositionTypes DEF TypeOK
      <3> QED
        BY <1>1, <2>2, <3>1, <3>6, <3>7 DEF Owes
    <2> QED
      BY <2>1, <2>2
  <1> QED
    BY <1>2 DEF Debt

(* What was handled, over a step. *)
LEMMA SameHad ==
    ASSUME sent' = sent, Frontier' = Frontier
    PROVE  Had' = Had /\ HadPoigne' = HadPoigne
  BY DEF Had, HadPoigne, Listed

LEMMA ListedOther ==
    ASSUME NEW k, NEW n \in Nat, sent[n+1] # k
    PROVE  Listed(k, n + 1) = Listed(k, n)
  <1>1. {i \in 1..n+1 : sent[i] = k} = {i \in 1..n : sent[i] = k}
    OBVIOUS
  <1> QED
    BY <1>1 DEF Listed

LEMMA TakeHad ==
    ASSUME TypeOK, PipeInv, Whole, TakeItem
    PROVE  /\ Had' \in Nat /\ (rcvd # 0 => Had' <= Received)
           /\ sent[queue[1] + 1] # "gad" => Had' = Had
           /\ sent[queue[1] + 1] # "poigne" => HadPoigne' = HadPoigne
  <1>1. /\ queue[1] \in Nat /\ queue[1] < Reach /\ sent' = sent
        /\ Frontier \in Nat /\ Reach \in Nat /\ Frontier <= Reach
    <2>1. queue # <<>> /\ sent' = sent /\ 1 \in DOMAIN queue
      BY DEF TakeItem, TypeOK, PipeTypeOK
    <2> QED
      BY <2>1, HeadIsEntry, PositionTypes DEF TypeOK, PipeInv, QueueReach
  <1>2. Frontier' = IF queue[1] = Frontier THEN Frontier + 1 ELSE Frontier
    BY TakeMovesFrontier DEF TypeOK
  <1>3. Frontier' \in Nat /\ Frontier' <= Reach
    BY <1>1, <1>2
  <1>4. /\ Listed("gad", Frontier)' = Listed("gad", Frontier')
        /\ rcvd \in Nat /\ (rcvd # 0 => rcvd = Reach)
    BY <1>1, PipelineAssumption DEF Listed, Whole, TypeOK, PipeTypeOK
  <1>5. /\ Listed("gad", Frontier') \in Nat /\ Listed("gad", rcvd) \in Nat
        /\ rcvd # 0 => Listed("gad", Frontier') <= Listed("gad", rcvd)
    BY <1>1, <1>3, <1>4, ListedType, ListedGrows
  <1>6. Had' \in Nat /\ (rcvd # 0 => Had' <= Received)
    BY <1>4, <1>5 DEF Had, Received, AtMost, TopTier
  <1>7. ASSUME NEW k, sent[queue[1] + 1] # k
        PROVE  Listed(k, Frontier)' = Listed(k, Frontier)
    <2>1. Listed(k, Frontier)' = Listed(k, Frontier')
      BY <1>1 DEF Listed
    <2> QED
      BY <1>1, <1>2, <1>7, <2>1, ListedOther
  <1> QED
    BY <1>6, <1>7 DEF Had, HadPoigne

LEMMA GrantHad ==
    ASSUME TypeOK, PipeInv, NEW p \in Payloads, Grant(p)
    PROVE  Had' = Had /\ HadPoigne' = HadPoigne
  <1>1. Frontier' = Frontier /\ Frontier \in 0..Len(sent)
    <2>1. Frontier' = Frontier
      BY DEF Grant, Frontier
    <2>2. Frontier \in Nat /\ Frontier <= Reach /\ Reach <= Len(sent) /\ Reach \in Nat
      BY PositionTypes DEF TypeOK, PipeInv, QueueReach
    <2>3. Len(sent) \in Nat
      BY PositionTypes DEF TypeOK
    <2> QED
      BY <2>1, <2>2, <2>3
  <1>2. ASSUME NEW k PROVE Listed(k, Frontier)' = Listed(k, Frontier)
    BY <1>1, GrantCounts DEF Listed, TypeOK
  <1> QED
    BY <1>2 DEF Had, HadPoigne

-----------------------------------------------------------------------------
(* The flags are restored, step by step. *)

There == TiersThere /\ PoigneThere

(* Steps that leave the player outside a confirmed level, or change nothing that
   the two invariants look at. *)
LEMMA QuietKeepsThere ==
    ASSUME There, Had' = Had, HadPoigne' = HadPoigne,
           Playing' => Playing, \A k : Debt(k) => Debt(k)',
           live'.tier >= live.tier \/ live' = live,
           live.poigne => live'.poigne,
           counted' = counted, owned' = owned,
           ~amiss'["gad"] => ~amiss["gad"], ~amiss'["poigne"] => ~amiss["poigne"],
           live.tier \in Nat, live'.tier \in Nat, Had \in Nat
    PROVE  There'
  BY DEF There, TiersThere, PoigneThere

LEMMA StepKeepsThere ==
    ASSUME TypeOK, TypeOK', PipeInv, Known, Whole, Earned, There, [Next]_vars
    PROVE  There'
  <1>0. /\ Had \in Nat /\ (rcvd # 0 => Had <= Received) /\ Received \in Nat /\ Received \in Tiers
        /\ live \in Flags /\ live.tier \in Nat /\ live'.tier \in Nat /\ counted \in Nat
        /\ counted' \in Nat /\ Payloads = {"gad", "poigne"}
        /\ amiss \in [Payloads -> BOOLEAN] /\ amiss' \in [Payloads -> BOOLEAN]
    <2>1. Had \in Nat /\ (rcvd # 0 => Had <= Received)
      BY HadNumbers
    <2>2. Received \in Tiers
      BY <2>1, ReceivedIsTier DEF TypeOK
    <2>3. live \in Flags /\ live' \in Flags /\ counted \in Tiers /\ counted' \in Tiers
      BY DEF TypeOK
    <2> QED
      BY <2>1, <2>2, <2>3, GadAssumption DEF TypeOK, Flags, Tiers, TopTier
  <1>1. CASE World
    <2>1. CASE Launch \/ Leave
      <3>1. game' \notin {"moving", "level"}
        BY <2>1 DEF Launch, Leave
      <3> QED
        BY <3>1 DEF There, TiersThere, PoigneThere, Playing
    <2>2. CASE LoadSave
      <3>1. LeftOut(Payloads) /\ confirmed' = confirmed
        BY <2>2 DEF LoadSave, Outside
      <3> QED
        BY <1>0, <3>1 DEF LeftOut, There, TiersThere, PoigneThere, Playing
    <2>3. CASE EnterLevel \/ Warp \/ Save \/ NativePickup
      <3>1. /\ UNCHANGED <<pipeVars, confirmed, replay, counted, owned, amiss>>
            /\ Playing' => Playing
            /\ live'.tier >= live.tier /\ (live.poigne => live'.poigne)
        <4>1. CASE EnterLevel \/ Warp \/ Save
          BY <1>0, <4>1 DEF EnterLevel, Warp, Save, Outside, Playing
        <4>2. CASE NativePickup
          <5>1. UNCHANGED <<pipeVars, game, confirmed, replay, counted, owned, amiss>>
            BY <4>2 DEF NativePickup, clientVars
          <5>2. live'.tier >= live.tier /\ (live.poigne => live'.poigne)
            BY <1>0, <4>2, PickupKeepsEarned
          <5> QED
            BY <5>1, <5>2 DEF Playing
        <4> QED
          BY <2>3, <4>1, <4>2
      <3>2. Had' = Had /\ HadPoigne' = HadPoigne
        BY <3>1, SameHad DEF Frontier, pipeVars
      <3>3. \A k : Debt(k) => Debt(k)'
        BY <3>1 DEF Debt, Owes, pipeVars
      <3> QED
        BY <1>0, <3>1, <3>2, <3>3, QuietKeepsThere
    <2>4. ASSUME NEW p \in Payloads, Grant(p), UNCHANGED <<clientVars, game, live>>
          PROVE  There'
      <3>1. Had' = Had /\ HadPoigne' = HadPoigne
        BY <2>4, GrantHad
      <3>2. received' = received /\ replay' = replay
        BY <2>4 DEF Grant, clientVars
      <3>3. \A k : Debt(k) => Debt(k)'
        BY <2>4, <3>2, PipeKeepsDebt
      <3>4. (Playing' => Playing) /\ UNCHANGED <<live, counted, owned, amiss>>
        BY <2>4 DEF Playing, clientVars
      <3> QED
        BY <1>0, <3>1, <3>3, <3>4, QuietKeepsThere
    <2>5. CASE ReportCheck
      BY <2>4, <2>5 DEF ReportCheck, TypeOK
    <2>6. ASSUME NEW k \in Payloads, SendForeign(k) PROVE There'
      BY <2>4, <2>6 DEF SendForeign, worldVars
    <2> QED
      BY <1>1, <2>1, <2>2, <2>3, <2>5, <2>6 DEF World
  <1>2. CASE Connected \/ GraceEnds \/ Transport
    <2>1. UNCHANGED <<sent, received, replay, game, confirmed, live, counted, owned, amiss>>
      BY <1>2 DEF Connected, GraceEnds, Transport, Connect, LoseConnection, OnReceivedItems,
                  FinishItem, pipeVars, worldVars, clientVars
    <2>2. Frontier' = Frontier
      <3>1. CASE FinishItem
        BY <3>1, PipelineAssumption DEF FinishItem, Frontier, Max2, Idle, TypeOK, PipeTypeOK
      <3>2. CASE UNCHANGED <<working, index>>
        BY <3>2 DEF Frontier
      <3> QED
        BY <1>2, <3>1, <3>2 DEF Connected, GraceEnds, Transport, Connect, LoseConnection,
                                OnReceivedItems, pipeVars
    <2>3. Had' = Had /\ HadPoigne' = HadPoigne
      BY <2>1, <2>2, SameHad
    <2>4. (Playing' => Playing) /\ \A k : Debt(k) => Debt(k)'
      BY <2>1 DEF Playing, Debt, Owes
    <2> QED
      BY <1>0, <2>1, <2>3, <2>4, QuietKeepsThere
  <1>3. CASE Restart
    BY <1>3 DEF Restart, There, TiersThere, PoigneThere, Playing
  <1>4. CASE HandleItem
    <2>1. /\ TakeItem /\ UNCHANGED <<game, confirmed, replay>>
          /\ \/ /\ UNCHANGED <<live, counted, owned>> /\ LeftOut({sent[queue[1] + 1]})
             \/ /\ sent[queue[1] + 1] = "gad" /\ owned' = owned /\ WroteGad
                /\ counted' = Received /\ live' = Raised(live, Received)
             \/ /\ sent[queue[1] + 1] = "poigne" /\ counted' = counted /\ owned' = TRUE
                /\ live'.poigne /\ live'.tier \in {live.tier, counted} /\ WrotePoigne
      BY <1>4, HandleShape
    <2>2. \A k : Debt(k) => Debt(k)'
      BY <2>1, PipeKeepsDebt
    <2>3. Playing' => Playing
      BY <2>1 DEF Playing
    <2>4. CASE UNCHANGED <<live, counted, owned>> /\ LeftOut({sent[queue[1] + 1]})
      <3> DEFINE p == sent[queue[1] + 1]
      <3>1. p # "gad" => Had' = Had
        BY <2>1, TakeHad
      <3>2. p # "poigne" => HadPoigne' = HadPoigne
        BY <2>1, TakeHad
      <3> HIDE DEF p
      <3>3. \A k \in Payloads : amiss'[k] = (amiss[k] \/ (k = p /\ confirmed))
        BY <2>4 DEF LeftOut, p
      <3>4. TiersThere'
        <4>1. CASE p = "gad"
          BY <1>0, <2>1, <3>3, <4>1 DEF TiersThere, Playing
        <4>2. CASE p # "gad"
          BY <1>0, <2>2, <2>3, <2>4, <3>1, <3>3, <4>2 DEF TiersThere, There
        <4> QED
          BY <4>1, <4>2
      <3>5. PoigneThere'
        <4>1. CASE p = "poigne"
          BY <1>0, <2>1, <3>3, <4>1 DEF PoigneThere, Playing
        <4>2. CASE p # "poigne"
          BY <1>0, <2>2, <2>3, <2>4, <3>2, <3>3, <4>2 DEF PoigneThere, There
        <4> QED
          BY <4>1, <4>2
      <3> QED
        BY <3>4, <3>5 DEF There
    <2>5. CASE sent[queue[1] + 1] = "gad" /\ owned' = owned /\ counted' = Received
               /\ live' = Raised(live, Received) /\ WroteGad
      <3>0. amiss'["poigne"] = amiss["poigne"] /\ amiss'["gad"] = (confirmed /\ rcvd = 0)
        BY <1>0, <2>5 DEF WroteGad
      <3>1. /\ counted' <= live'.tier /\ Had' \in Nat /\ live'.poigne = live.poigne
            /\ rcvd # 0 => Had' <= counted'
        BY <1>0, <2>1, <2>5, TakeHad, RaisedFlags DEF Max2
      <3>2. HadPoigne' = HadPoigne
        BY <2>1, <2>5, TakeHad
      <3>3. TiersThere'
        BY <1>0, <2>1, <3>0, <3>1 DEF TiersThere, Playing
      <3>4. PoigneThere'
        BY <2>2, <2>3, <2>5, <3>0, <3>1, <3>2 DEF PoigneThere, There
      <3> QED
        BY <3>3, <3>4 DEF There
    <2>6. CASE sent[queue[1] + 1] = "poigne" /\ counted' = counted /\ owned' = TRUE
               /\ live'.poigne /\ live'.tier \in {live.tier, counted} /\ WrotePoigne
      <3>0. amiss'["gad"] = amiss["gad"]
        BY <1>0, <2>6 DEF WrotePoigne
      <3>1. Had' = Had
        BY <2>1, <2>6, TakeHad
      <3>2. TiersThere'
        BY <1>0, <2>2, <2>3, <2>6, <3>0, <3>1 DEF TiersThere, There
      <3>3. PoigneThere'
        BY <2>6 DEF PoigneThere
      <3> QED
        BY <3>2, <3>3 DEF There
    <2> QED
      BY <2>1, <2>4, <2>5, <2>6
  <1>5. CASE Poll
    <2>1. /\ UNCHANGED pipeVars /\ game' = game /\ owned' = owned
          /\ \/ /\ live' = live /\ counted' = counted
                /\ confirmed /\ confirmed' => amiss' = amiss
             \/ /\ live' = Swept(live, Received) /\ counted' = Received
                /\ confirmed /\ confirmed' => /\ amiss'["gad"] = (rcvd = 0)
                                              /\ amiss'["poigne"] = (amiss["poigne"] /\ ~owned)
      BY <1>0, <1>5 DEF Poll, Sweep, Looked
    <2>2. Had' = Had /\ HadPoigne' = HadPoigne
      BY <2>1, SameHad DEF Frontier, pipeVars
    <2>3. \/ /\ live' = live /\ counted' = counted
             /\ confirmed /\ confirmed' => amiss' = amiss
          \/ /\ live'.tier >= counted' /\ counted' = Received
             /\ owned => live'.poigne
             /\ confirmed /\ confirmed' => /\ amiss'["gad"] = (rcvd = 0)
                                           /\ amiss'["poigne"] = (amiss["poigne"] /\ ~owned)
      BY <1>0, <2>1, SweptFlags DEF Max2
    <2>4. CASE game = "level" /\ ~confirmed
      <3>1. Spawn
        BY <1>5, <2>4 DEF Poll
      <3>2. Listed("gad", Frontier) > 0 => Debt("gad")'
        BY <2>1, <3>1, SpawnOwes
      <3>3. HadPoigne => Debt("poigne")'
        BY <2>1, <3>1, SpawnOwes DEF HadPoigne
      <3>4. Listed("gad", Frontier) = 0 => Had = 0
        BY DEF Had, AtMost, TopTier
      <3>5. ~Debt("gad")' => Had = 0
        BY <3>2, <3>4, HadNumbers
      <3> QED
        BY <1>0, <2>2, <3>3, <3>5 DEF There, TiersThere, PoigneThere
    <2>5. CASE ~(game = "level" /\ ~confirmed)
      <3>1. replay' = replay /\ (Playing' => Playing /\ confirmed /\ confirmed')
        BY <1>5, <2>1, <2>5 DEF Poll, Playing
      <3>2. \A k : Debt(k) => Debt(k)'
        BY <2>1, <3>1 DEF Debt, Owes, pipeVars
      <3>3. CASE live' = live /\ counted' = counted /\ (confirmed /\ confirmed' => amiss' = amiss)
        BY <1>0, <2>1, <2>2, <3>1, <3>2, <3>3 DEF There, TiersThere, PoigneThere
      <3>4. CASE /\ live'.tier >= counted' /\ counted' = Received
                 /\ owned => live'.poigne
                 /\ confirmed /\ confirmed' => /\ amiss'["gad"] = (rcvd = 0)
                                               /\ amiss'["poigne"] = (amiss["poigne"] /\ ~owned)
        <4>1. TiersThere'
          BY <1>0, <2>2, <3>1, <3>4 DEF TiersThere
        <4>2. PoigneThere'
          BY <1>0, <2>1, <2>2, <3>1, <3>2, <3>4 DEF There, PoigneThere
        <4> QED
          BY <4>1, <4>2 DEF There
      <3> QED
        BY <2>3, <3>3, <3>4
    <2> QED
      BY <2>4, <2>5
  <1>6. CASE Catchup
    <2>1. Spawn /\ UNCHANGED <<pipeVars, game, live, confirmed, counted, owned>>
      BY <1>6 DEF Catchup, worldVars
    <2>2. Had' = Had /\ HadPoigne' = HadPoigne
      BY <2>1, SameHad DEF Frontier, pipeVars
    <2>3. Listed("gad", Frontier) > 0 => Debt("gad")'
      BY <2>1, SpawnOwes
    <2>4. HadPoigne => Debt("poigne")'
      BY <2>1, SpawnOwes DEF HadPoigne
    <2>5. Listed("gad", Frontier) = 0 => Had = 0
      BY DEF Had, AtMost, TopTier
    <2>6. ~Debt("gad")' => Had = 0
      BY <2>3, <2>5, HadNumbers
    <2> QED
      BY <1>0, <2>2, <2>4, <2>6 DEF There, TiersThere, PoigneThere
  <1>7. ASSUME NEW r \in Replays, ReplayTurn(r) PROVE There'
    <2>1. /\ replay[r].next \in Nat /\ replay[r].next # 0
          /\ UNCHANGED <<pipeVars, game, confirmed>>
          /\ Stops(r) \/ Aborts(r) \/ DoesGad(r) \/ DoesPoigne(r)
      BY <1>7, TurnShape
    <2>2. Had' = Had /\ HadPoigne' = HadPoigne
      BY <2>1, SameHad DEF Frontier, pipeVars
    <2>3. Playing' = Playing
      BY <2>1 DEF Playing
    <2>4. CASE Stops(r) /\ ~(replay[r].next > Len(received))
      <3>1. \A k \in Payloads : amiss'[k] = (amiss[k] \/ confirmed)
        BY <2>4 DEF Stops, LeftOut
      <3> QED
        BY <1>0, <2>1, <3>1 DEF There, TiersThere, PoigneThere, Playing
    <2>5. CASE Stops(r) /\ replay[r].next > Len(received)
      <3>0. \A k \in Payloads : amiss'[k] = amiss[k]
        BY <1>0, <2>5 DEF Stops, LeftOut
      <3>1. \A k : Debt(k) => Debt(k)'
        BY <2>1, <2>5, TurnKeepsDebt
      <3> QED
        BY <1>0, <2>2, <2>3, <2>5, <3>0, <3>1, QuietKeepsThere DEF Stops
    <2>6. CASE DoesGad(r)
      <3>0. amiss'["poigne"] = amiss["poigne"] /\ amiss'["gad"] = (confirmed /\ rcvd = 0)
        BY <1>0, <2>6 DEF DoesGad, WroteGad
      <3>1. live'.poigne = live.poigne /\ owned' = owned
            /\ counted' = Received /\ counted' <= live'.tier
        BY <1>0, <2>6, RaisedFlags DEF DoesGad, Max2
      <3>2. Debt("poigne") => Debt("poigne")'
        BY <2>1, <2>6, TurnKeepsDebt DEF DoesGad
      <3>3. TiersThere'
        BY <1>0, <2>1, <2>2, <3>0, <3>1 DEF TiersThere, Playing
      <3>4. PoigneThere'
        BY <2>2, <2>3, <3>0, <3>1, <3>2 DEF There, PoigneThere
      <3> QED
        BY <3>3, <3>4 DEF There
    <2>7. CASE DoesPoigne(r)
      <3>0. amiss'["gad"] = amiss["gad"]
        BY <1>0, <2>7 DEF DoesPoigne, WrotePoigne
      <3>1. live'.tier = live.tier /\ live'.poigne /\ owned'
            /\ counted' = IF Begins(r) THEN 0 ELSE counted
        BY <1>0, <2>7 DEF DoesPoigne, Flags
      <3>2. Debt("gad") => Debt("gad")'
        BY <2>1, <2>7, TurnKeepsDebt DEF DoesPoigne
      <3>3. PoigneThere'
        BY <3>1 DEF PoigneThere
      <3>4. ASSUME Playing', ~Debt("gad")', ~amiss'["gad"] PROVE live'.tier >= Had' /\ counted' >= Had'
        <4>1. live.tier >= Had /\ counted >= Had
          BY <2>3, <3>0, <3>2, <3>4 DEF There, TiersThere
        <4>2. CASE ~Begins(r)
          BY <2>2, <3>1, <4>1, <4>2
        <4>3. CASE Begins(r)
          <5>1. ~Owes(r, "gad")
            BY <3>2, <3>4 DEF Debt
          <5>2. \A j \in 1..Len(received) : sent[received[j] + 1] # "gad"
            BY <2>1, <4>3, <5>1, PositionTypes DEF Owes, Begins, TypeOK
          <5>3. ~(Listed("gad", Frontier) > 0)
            BY <5>2, LedgerHas
          <5>4. Had = 0
            BY <5>3, HadNumbers DEF Had, AtMost, TopTier
          <5> QED
            BY <1>0, <2>2, <5>4
        <4> QED
          BY <4>2, <4>3
      <3> QED
        BY <3>3, <3>4 DEF There, TiersThere
    <2>8. CASE Aborts(r)
      BY <2>1, <2>8 DEF Aborts, There, TiersThere, PoigneThere, Playing
    <2> QED
      BY <2>1, <2>4, <2>5, <2>6, <2>7, <2>8
  <1>8. CASE UNCHANGED vars
    <2>1. UNCHANGED <<pipeVars, replay, game, live, confirmed, counted, owned, amiss>>
      BY <1>8 DEF vars, worldVars, clientVars
    <2>2. Had' = Had /\ HadPoigne' = HadPoigne
      BY <2>1, SameHad DEF Frontier, pipeVars
    <2>3. (Playing' => Playing) /\ \A k : Debt(k) => Debt(k)'
      BY <2>1 DEF Playing, Debt, Owes, pipeVars
    <2> QED
      BY <1>0, <2>1, <2>2, <2>3, QuietKeepsThere
  <1> QED
    BY <1>1, <1>2, <1>3, <1>4, <1>5, <1>6, <1>7, <1>8 DEF Next

-----------------------------------------------------------------------------
(* No Poigne without its item. *)

(* A step that takes nothing from the list and writes no Poigne of its own. *)
HasPoigne == Listed("poigne", Len(sent)) > 0
LEMMA PlainKeepsPoigne ==
    ASSUME PoigneEarned, here' = here, check' = check, HasPoigne => HasPoigne',
           live'.poigne => live.poigne \/ saved.live.poigne \/ owned \/ HasPoigne',
           saved'.live.poigne => live.poigne \/ saved.live.poigne,
           owned' => owned \/ HasPoigne'
    PROVE  PoigneEarned'
  BY DEF PoigneEarned, HasPoigne, Sent

LEMMA StepKeepsPoigne ==
    ASSUME TypeOK, PipeInv, Known, Earned, PoigneEarned, [Next]_vars
    PROVE  PoigneEarned'
  <1>0. live \in Flags /\ Received \in Tiers /\ Len(sent) \in Nat
    BY ReceivedIsTier, PositionTypes DEF TypeOK
  <1>1. CASE Launch \/ LoadSave \/ EnterLevel \/ Warp \/ Save \/ Leave
    <2>1. UNCHANGED <<pipeVars, owned, here, check>>
      BY <1>1 DEF Launch, LoadSave, EnterLevel, Warp, Save, Leave, Outside
    <2>2. live' \in {live, NoGad, saved.live} /\ saved'.live \in {saved.live, live}
      BY <1>1 DEF Launch, LoadSave, EnterLevel, Warp, Save, Leave
    <2>3. HasPoigne' = HasPoigne /\ owned' = owned
      BY <2>1 DEF HasPoigne, Listed, pipeVars, clientVars
    <2> QED
      BY <2>1, <2>2, <2>3, PlainKeepsPoigne DEF NoGad
  <1>2. CASE NativePickup
    <2>1. /\ check = "none" /\ check' = "owed" /\ UNCHANGED <<pipeVars, clientVars, here, saved>>
          /\ live'.poigne => live.poigne \/ here = "poigne"
      BY <1>2, PickupKeepsEarned DEF NativePickup
    <2>2. HasPoigne' = HasPoigne /\ owned' = owned
      BY <2>1 DEF HasPoigne, Listed, pipeVars, clientVars
    <2> QED
      BY <2>1, <2>2 DEF PoigneEarned, HasPoigne, Sent
  <1>3. ASSUME NEW p \in Payloads, Grant(p), UNCHANGED <<clientVars, here, live, saved>>,
               check' = check \/ (check = "owed" /\ check' = "sent" /\ p = here)
        PROVE  PoigneEarned'
    <2>1. Listed("poigne", Len(sent))'
            = Listed("poigne", Len(sent)) + (IF p = "poigne" THEN 1 ELSE 0)
      BY <1>3, GrantCounts DEF TypeOK
    <2>2. Listed("poigne", Len(sent)) \in Nat
      BY <1>0, ListedType
    <2>3. (HasPoigne => HasPoigne') /\ (p = "poigne" => HasPoigne')
      BY <2>1, <2>2 DEF HasPoigne
    <2> QED
      BY <1>3, <2>3 DEF PoigneEarned, HasPoigne, Sent, clientVars
  <1>4. CASE ReportCheck
    BY <1>3, <1>4 DEF ReportCheck, TypeOK
  <1>5. ASSUME NEW k \in Payloads, SendForeign(k) PROVE PoigneEarned'
    BY <1>3, <1>5 DEF SendForeign, worldVars
  <1>6. ASSUME NEW i \in 1..Len(sent), sent[i] = "poigne" PROVE HasPoigne
    BY <1>0, <1>6, ListedHas DEF HasPoigne
  <1>7. ASSUME UNCHANGED <<sent, here, saved, check>> PROVE HasPoigne' = HasPoigne
    BY <1>7 DEF HasPoigne, Listed
  <1>8. CASE HandleItem
    <2>1. UNCHANGED <<sent, here, saved, check>>
      BY <1>8, HandleShape
    <2>2. sent[queue[1] + 1] = "poigne" => HasPoigne
      BY <1>6, <1>8, HeadIsEntry DEF HandleItem, TakeItem, TypeOK
    <2>3. (live'.poigne => live.poigne \/ HasPoigne) /\ (owned' => owned \/ HasPoigne)
      <3>1. CASE UNCHANGED <<live, owned>>
        BY <3>1
      <3>2. CASE live' = Raised(live, Received) /\ owned' = owned
        BY <1>0, <3>2, RaisedFlags
      <3>3. CASE sent[queue[1] + 1] = "poigne"
        BY <2>2, <3>3
      <3> QED
        BY <1>8, <3>1, <3>2, <3>3, HandleShape
    <2> QED
      BY <1>7, <2>1, <2>3, PlainKeepsPoigne
  <1>9. CASE Poll
    <2>1. UNCHANGED <<sent, here, saved, check, owned>>
      BY <1>9 DEF Poll, pipeVars
    <2>2. live'.poigne => live.poigne \/ owned
      BY <1>0, <1>9, SweptFlags DEF Poll, Sweep
    <2> QED
      BY <1>7, <2>1, <2>2, PlainKeepsPoigne
  <1>10. ASSUME NEW r \in Replays, ReplayTurn(r) PROVE PoigneEarned'
    <2>1. UNCHANGED <<sent, here, saved, check>>
          /\ (Stops(r) \/ Aborts(r) \/ DoesGad(r) \/ DoesPoigne(r))
      BY <1>10, TurnShape DEF pipeVars
    <2>2. DoesPoigne(r) => HasPoigne
      BY <1>6, LedgerEntryType, PositionTypes DEF DoesPoigne, Done1, TypeOK
    <2>3. (live'.poigne => live.poigne \/ HasPoigne) /\ (owned' => owned \/ HasPoigne)
      BY <1>0, <2>1, <2>2, RaisedFlags DEF Stops, Aborts, DoesGad, DoesPoigne
    <2> QED
      BY <1>7, <2>1, <2>3, PlainKeepsPoigne
  <1>11. CASE Restart \/ Catchup \/ Connected \/ GraceEnds \/ Transport \/ UNCHANGED vars
    <2>1. UNCHANGED <<sent, here, saved, check, live>> /\ (owned' => owned)
      BY <1>11 DEF Restart, Catchup, Connected, GraceEnds, Transport, vars, RestartClient, Connect,
                   LoseConnection, OnReceivedItems, FinishItem, pipeVars, worldVars, clientVars
    <2> QED
      BY <1>7, <2>1, PlainKeepsPoigne
  <1> QED
    BY <1>1, <1>2, <1>4, <1>5, <1>8, <1>9, <1>10, <1>11 DEF Next, World

(* The flags of a player in a confirmed game are those of the items handled, as
   far as no replay is still at work and the last write was not lost. *)
THEOREM FlagsRestored == Spec => []Restored
  <1>1. Init => There /\ PoigneEarned
    BY DEF Init, There, TiersThere, PoigneThere, Playing, PoigneEarned, NoGad, Sent
  <1>2. /\ TypeOK /\ TypeOK' /\ PipeInv /\ Known /\ Whole /\ Earned
        /\ There /\ PoigneEarned /\ [Next]_vars
        => There' /\ PoigneEarned'
    BY StepKeepsThere, StepKeepsPoigne
  <1>3. Spec => []PipeInv /\ []Known /\ []Whole
    BY AbilityImplementsPipeline, PipeInvariant, KnownIsSent, KnownIsWhole, PTL
  <1>4. Whole /\ There /\ PoigneEarned => Restored
    BY DEF Restored, There
  <1> QED
    BY <1>1, <1>2, <1>3, <1>4, TypeCorrect, NothingUnearned, PTL DEF Spec

(* Once everything is done, the player has exactly the temples and the Poigne
   that were received, whatever resets, corrections and sweeps ran in between,
   each unless its last write was lost or read an emptied list. *)
THEOREM GadHasSettled == Spec => []GadSettles
  <1>1. TypeOK /\ PipeInv /\ CaughtUp /\ Earned /\ Restored => GadSettles
    <2> SUFFICES ASSUME TypeOK, PipeInv, CaughtUp, Earned, Restored, Settled
                 PROVE  /\ ~amiss["gad"] =>
                              live.tier = AtMost(Listed("gad", Len(sent)), TopTier)
                        /\ ~amiss["poigne"] => live.poigne = (Listed("poigne", Len(sent)) > 0)
      BY DEF GadSettles
    <2>1. Frontier = Len(sent)
      BY DEF Settled, CaughtUp, Frontier
    <2>2. Playing /\ \A k : ~Debt(k)
      BY DEF Settled, Playing, Debt, Owes
    <2>3. /\ ~amiss["gad"] => Had <= live.tier
          /\ ~amiss["poigne"] => (HadPoigne => live.poigne)
      BY <2>2 DEF Restored, TiersThere, PoigneThere
    <2>4. Had = AtMost(Granted, 3) /\ HadPoigne = (Listed("poigne", Len(sent)) > 0)
      BY <2>1 DEF Had, HadPoigne, Granted, TopTier
    <2>5. live.tier <= Granted
      BY EarnedNumbers DEF Settled, Owing, Earned, TiersEarned
    <2>6. ~amiss["gad"] => live.tier = Had
      BY <2>3, <2>4, <2>5, EarnedNumbers DEF AtMost
    <2>7. live.poigne => HadPoigne
      BY <2>4 DEF Settled, Restored, PoigneEarned
    <2>8. ~amiss["poigne"] => live.poigne = HadPoigne
      <3>1. live.poigne \in BOOLEAN
        BY DEF TypeOK, Flags
      <3>2. HadPoigne \in BOOLEAN
        BY DEF HadPoigne
      <3> QED
        BY <2>3, <2>7, <3>1, <3>2
    <2> QED
      BY <2>4, <2>6, <2>8 DEF Granted, TopTier
  <1>2. Spec => []PipeInv /\ []CaughtUp
    BY AbilityImplementsPipeline, PipeInvariant, DrainedMeansCaughtUp, PTL
  <1> QED
    BY <1>1, <1>2, TypeCorrect, NothingUnearned, FlagsRestored, PTL
=============================================================================
