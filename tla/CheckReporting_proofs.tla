------------------------ MODULE CheckReporting_proofs ------------------------
(***************************************************************************)
(* What TLAPS proves of CheckReporting for all its constants: its types,    *)
(* that no marked location is stranded while a connection is up, and that   *)
(* no look misses a pickup but those an earlier process's log has counted.  *)
(***************************************************************************)
EXTENDS CheckReporting, SequenceTheorems, TLAPS

(* What a queue carries, after a message is sent. *)
LEMMA InFlightAppend ==
  ASSUME NEW S, NEW q \in Seq(S), NEW x \in S
  PROVE  InFlight(Append(q, x)) = InFlight(q) \cup x
  <1> DEFINE r == Append(q, x)
  <1>1. /\ DOMAIN q = 1..Len(q) /\ Len(q) \in Nat /\ DOMAIN r = 1..Len(q)+1
        /\ r[Len(q)+1] = x
        /\ \A i \in 1..Len(q) : r[i] = q[i]
    OBVIOUS
  <1> HIDE DEF r
  <1>2. \A i \in 1..Len(q)+1 : i = Len(q)+1 \/ i \in 1..Len(q)
    BY <1>1
  <1>3. 1..Len(q) \subseteq 1..Len(q)+1 /\ Len(q)+1 \in 1..Len(q)+1
    BY <1>1
  <1>4. ASSUME NEW y \in InFlight(r) PROVE y \in InFlight(q) \cup x
    <2>1. PICK i \in 1..Len(q)+1 : y \in r[i]
      BY <1>1, <1>4 DEF InFlight
    <2> QED BY <2>1, <1>1, <1>2 DEF InFlight
  <1>5. ASSUME NEW y \in InFlight(q) \cup x PROVE y \in InFlight(r)
    <2>1. CASE y \in x
      BY <2>1, <1>1, <1>3 DEF InFlight
    <2>2. CASE y \in InFlight(q)
      <3>1. PICK i \in 1..Len(q) : y \in q[i]
        BY <2>2, <1>1 DEF InFlight
      <3> QED BY <3>1, <1>1, <1>3 DEF InFlight
    <2> QED BY <1>5, <2>1, <2>2
  <1> QED BY <1>4, <1>5 DEF r

(* And what it carries apart from its first message. *)
LEMMA InFlightTail ==
  ASSUME NEW S, NEW q \in Seq(S), q # <<>>
  PROVE  InFlight(q) \subseteq Head(q) \cup InFlight(Tail(q))
  <1> SUFFICES ASSUME NEW y \in InFlight(q), y \notin Head(q)
               PROVE  y \in InFlight(Tail(q))
    OBVIOUS
  <1>1. PICK i \in 1..Len(q) : y \in q[i]
    BY DEF InFlight
  <1>2. i # 1
    BY <1>1
  <1>3. Len(q) \in Nat /\ i - 1 \in 1..Len(q)-1
    BY <1>2
  <1>4. DOMAIN Tail(q) = 1..Len(q)-1 /\ Tail(q)[i-1] = q[i]
    BY <1>3
  <1> QED BY <1>1, <1>3, <1>4 DEF InFlight

(* Sending keeps the queue a queue and puts the new locations on their way,
   if the connection is up. *)
LEMMA Sending ==
  ASSUME NEW q \in Seq(SUBSET Locs), NEW new \in SUBSET Locs
  PROVE  /\ Sent(q, new) \in Seq(SUBSET Locs)
         /\ InFlight(q) \subseteq InFlight(Sent(q, new))
         /\ link = "up" => new \subseteq InFlight(Sent(q, new))
  <1>1. Append(q, new) \in Seq(SUBSET Locs)
    OBVIOUS
  <1>2. InFlight(Append(q, new)) = InFlight(q) \cup new
    BY InFlightAppend
  <1> QED BY <1>1, <1>2 DEF Sent

-----------------------------------------------------------------------------
(* Types. *)

LEMMA LooksTyped ==
  ASSUME ReportingAssumption, TypeOK
  PROVE  /\ Flags \subseteq {SlotOf[l] : l \in Locs}
         /\ Len(log) \in 0..MaxPickups
         /\ NextCursor \in {Unread} \cup 0..MaxPickups
         /\ \A lv : Flipped(lv) \subseteq Locs
         /\ cursor # Unread => \A lv : Logged(lv) \subseteq Locs
  <1>1. Flags \subseteq {SlotOf[l] : l \in Locs}
    BY DEF TypeOK, Flags
  <1>2. Len(log) \in 0..MaxPickups
    BY DEF TypeOK, ReportingAssumption
  <1>3. NextCursor \in {Unread} \cup 0..MaxPickups
    BY <1>2 DEF TypeOK, NextCursor
  <1>4. \A lv : Flipped(lv) \subseteq Locs
    BY DEF Flipped
  <1>5. ASSUME cursor # Unread, NEW lv PROVE Logged(lv) \subseteq Locs
    <2>1. \A j \in cursor+1..Len(log) : log[j] \in Locs
      BY <1>5, <1>2 DEF TypeOK
    <2> QED BY <2>1 DEF Logged
  <1> QED BY <1>1, <1>2, <1>3, <1>4, <1>5

LEMMA TypeInit ==
  ASSUME ReportingAssumption, Init
  PROVE  TypeOK
  <1>1. log \in Seq(Locs) /\ Len(log) = 0 /\ net \in Seq(SUBSET Locs)
    BY DEF Init
  <1>2. 0 \in 0..MaxPickups /\ 0 \in 0..MaxLaunches /\ 0 \in 0..MaxLoads /\ 0 \in 0..MaxDrops
    BY DEF ReportingAssumption
  <1>3. Len(log) <= MaxPickups
    BY <1>1 DEF ReportingAssumption
  <1>4. Ready \in [Watchers -> Levels \cup {"none"}]
    BY DEF Ready
  <1> QED BY <1>1, <1>2, <1>3, <1>4 DEF Init, TypeOK

LEMMA GameTyped ==
  ASSUME ReportingAssumption, TypeOK,
         \/ Launch \/ Save \/ Leave
         \/ \E lv \in Levels : LoadSave(lv) \/ Warp(lv)
         \/ \E l \in Locs : PickUp(l)
  PROVE  TypeOK'
  <1>1. CASE Launch
    <2>1. /\ log' \in Seq(Locs) /\ Len(log') <= MaxPickups
          /\ looked' \in 0..MaxPickups /\ counted' \in 0..MaxPickups
      BY <1>1 DEF Launch, TypeOK, ReportingAssumption
    <2>2. launches' \in 0..MaxLaunches
      BY <1>1 DEF Launch, TypeOK, ReportingAssumption
    <2> QED BY <1>1, <2>1, <2>2 DEF Launch, TypeOK, netVars
  <1>2. CASE Save
    BY <1>2 DEF Save, TypeOK, watchVars, netVars
  <1>3. CASE Leave
    BY <1>3 DEF Leave, TypeOK, watchVars, netVars
  <1>4. ASSUME NEW lv \in Levels, LoadSave(lv) PROVE TypeOK'
    <2>1. loads' \in 0..MaxLoads
      BY <1>4 DEF LoadSave, TypeOK, ReportingAssumption
    <2> QED BY <1>4, <2>1 DEF LoadSave, TypeOK, watchVars, netVars
  <1>5. ASSUME NEW lv \in Levels, Warp(lv) PROVE TypeOK'
    BY <1>5 DEF Warp, TypeOK, watchVars, netVars
  <1>6. ASSUME NEW l \in Locs, PickUp(l) PROVE TypeOK'
    <2>1. log' \in Seq(Locs) /\ Len(log') <= MaxPickups
      BY <1>6 DEF PickUp, TypeOK, ReportingAssumption
    <2> QED BY <1>6, <2>1 DEF PickUp, TypeOK, watchVars, netVars
  <1> QED BY <1>1, <1>2, <1>3, <1>4, <1>5, <1>6

LEMMA LooksKeepTypes ==
  ASSUME ReportingAssumption, TypeOK, NEW w \in Watchers,
         FirstPoll(w) \/ Poll(w) \/ Resume(w)
  PROVE  TypeOK'
  <1>0. net \in Seq(SUBSET Locs) /\ checked \subseteq Locs
    BY DEF TypeOK
  <1>1. CASE FirstPoll(w)
    <2>1. cursor' \in {Unread} \cup 0..MaxPickups /\ looked' \in 0..MaxPickups
      BY <1>1, LooksTyped DEF FirstPoll
    <2>2. prev' \subseteq {SlotOf[l] : l \in Locs}
      BY <1>1, LooksTyped DEF FirstPoll
    <2> QED BY <1>1, <2>1, <2>2 DEF FirstPoll, TypeOK, gameVars, netVars
  <1>2. CASE Poll(w)
    <2> DEFINE new == Logged(level)
               flips == Flipped(level)
    <2>1. new \subseteq Locs /\ flips \subseteq Locs
      BY <1>2, LooksTyped DEF Poll
    <2>2. cursor' \in {Unread} \cup 0..MaxPickups /\ looked' \in 0..MaxPickups
      BY <1>2, LooksTyped DEF Poll
    <2>3. Sent(net, new \ checked) \in Seq(SUBSET Locs)
      BY <2>1, <1>0, Sending
    <2>4. Sent(Sent(net, new \ checked), flips \ (checked \cup new)) \in Seq(SUBSET Locs)
      BY <2>1, <2>3, Sending
    <2>5. /\ checked' \subseteq Locs /\ net' \in Seq(SUBSET Locs)
          /\ prev' \subseteq {SlotOf[l] : l \in Locs}
          /\ pausedAt' \in [Watchers -> Levels \cup {"none"}]
      <3>1. CASE /\ checked' = checked \cup new \cup flips
                 /\ net' = Sent(Sent(net, new \ checked), flips \ (checked \cup new))
                 /\ prev' = Flags /\ UNCHANGED pausedAt
        BY <3>1, <2>1, <2>4, <1>0, LooksTyped DEF TypeOK
      <3>2. CASE /\ MarkAndSend(new) /\ UNCHANGED prev
                 /\ pausedAt' = [pausedAt EXCEPT ![w] = level]
        BY <3>2, <2>1, <2>3, <1>0 DEF TypeOK, MarkAndSend
      <3> QED BY <1>2, <3>1, <3>2 DEF Poll
    <2> QED BY <1>2, <2>2, <2>5 DEF Poll, TypeOK, gameVars
  <1>3. CASE Resume(w)
    <2> DEFINE flips == Flipped(pausedAt[w])
    <2>1. flips \subseteq Locs
      BY LooksTyped
    <2>2. Sent(net, flips \ checked) \in Seq(SUBSET Locs)
      BY <2>1, <1>0, Sending
    <2>3. /\ checked' \subseteq Locs /\ net' \in Seq(SUBSET Locs)
          /\ prev' \subseteq {SlotOf[l] : l \in Locs}
      <3>1. CASE place = "closed"
        BY <1>3, <3>1 DEF Resume, TypeOK
      <3>2. CASE place # "closed"
        BY <1>3, <3>2, <2>1, <2>2, <1>0, LooksTyped DEF Resume, MarkAndSend
      <3> QED BY <3>1, <3>2
    <2>4. pausedAt' \in [Watchers -> Levels \cup {"none"}]
      BY <1>3 DEF Resume, TypeOK
    <2> QED BY <1>3, <2>3, <2>4 DEF Resume, TypeOK, gameVars
  <1> QED BY <1>1, <1>2, <1>3

LEMMA NetKeepsTypes ==
  ASSUME ReportingAssumption, TypeOK, Open \/ Connected \/ Deliver \/ LoseConnection
  PROVE  TypeOK'
  <1>1. CASE Open
    BY <1>1 DEF Open, TypeOK, gameVars, watchVars
  <1>2. CASE Connected
    <2>1. net' \in Seq(SUBSET Locs)
      BY <1>2 DEF Connected, TypeOK
    <2> QED BY <1>2, <2>1 DEF Connected, TypeOK, gameVars, watchVars
  <1>3. CASE Deliver
    <2>1. Head(net) \in SUBSET Locs /\ Tail(net) \in Seq(SUBSET Locs)
      BY <1>3 DEF Deliver, TypeOK
    <2> QED BY <1>3, <2>1 DEF Deliver, TypeOK, gameVars, watchVars
  <1>4. CASE LoseConnection
    <2>1. net' \in Seq(SUBSET Locs)
      BY <1>4 DEF LoseConnection
    <2>2. drops' \in 0..MaxDrops
      BY <1>4 DEF LoseConnection, TypeOK, ReportingAssumption
    <2> QED BY <1>4, <2>1, <2>2 DEF LoseConnection, TypeOK, gameVars, watchVars
  <1> QED BY <1>1, <1>2, <1>3, <1>4

LEMMA StutterTyped ==
  ASSUME TypeOK, UNCHANGED vars
  PROVE  TypeOK'
  BY DEF TypeOK, vars, gameVars, watchVars, netVars

(* The types of the whole client, game and connection, whatever the order of
   looks, launches, loads and lost connections. *)
THEOREM ReportingTypeCorrect == Spec => []TypeOK
  <1>1. Init => TypeOK
    BY TypeInit, ReportingAssumption
  <1>2. TypeOK /\ [Next]_vars => TypeOK'
    BY ReportingAssumption, GameTyped, LooksKeepTypes, NetKeepsTypes, StutterTyped DEF Next
  <1> QED BY <1>1, <1>2, PTL DEF Spec

-----------------------------------------------------------------------------
(* Marked locations. *)

LEMMA LooksKeepMarked ==
  ASSUME ReportingAssumption, TypeOK, MarkedIsOnItsWay, NEW w \in Watchers,
         FirstPoll(w) \/ Poll(w) \/ Resume(w)
  PROVE  MarkedIsOnItsWay'
  <1>0. net \in Seq(SUBSET Locs) /\ checked \subseteq Locs
    BY DEF TypeOK
  <1> SUFFICES ASSUME link' = "up" PROVE checked' \subseteq server' \cup InFlight(net')
    BY DEF MarkedIsOnItsWay
  <1>1. link = "up" /\ server' = server
    BY DEF FirstPoll, Poll, Resume, netVars
  <1>2. checked \subseteq server \cup InFlight(net)
    BY <1>1 DEF MarkedIsOnItsWay
  <1>3. ASSUME NEW new \in SUBSET Locs, MarkAndSend(new)
        PROVE  checked' \subseteq server \cup InFlight(net')
    <2>1. /\ InFlight(net) \subseteq InFlight(net')
          /\ new \ checked \subseteq InFlight(net')
      BY <1>0, <1>1, <1>3, Sending DEF MarkAndSend
    <2> QED BY <1>2, <1>3, <2>1 DEF MarkAndSend
  <1>4. CASE FirstPoll(w)
    BY <1>1, <1>2, <1>4 DEF FirstPoll, netVars
  <1>5. CASE Poll(w)
    <2> DEFINE new == Logged(level)
               flips == Flipped(level)
               first == Sent(net, new \ checked)
    <2>1. new \subseteq Locs /\ flips \subseteq Locs
      BY <1>5, LooksTyped DEF Poll
    <2>2. CASE /\ checked' = checked \cup new \cup flips
               /\ net' = Sent(first, flips \ (checked \cup new))
      <3>1. /\ first \in Seq(SUBSET Locs)
            /\ InFlight(net) \subseteq InFlight(first)
            /\ new \ checked \subseteq InFlight(first)
        BY <1>0, <1>1, <2>1, Sending
      <3>2. /\ InFlight(first) \subseteq InFlight(net')
            /\ flips \ (checked \cup new) \subseteq InFlight(net')
        BY <1>1, <2>1, <2>2, <3>1, Sending
      <3> HIDE DEF new, flips, first
      <3> QED BY <1>1, <1>2, <2>2, <3>1, <3>2
    <2>3. CASE MarkAndSend(new)
      BY <1>1, <1>3, <2>1, <2>3
    <2> QED BY <1>5, <2>2, <2>3 DEF Poll
  <1>6. CASE Resume(w)
    <2>1. CASE place = "closed"
      BY <1>1, <1>2, <1>6, <2>1 DEF Resume
    <2>2. CASE place # "closed"
      BY <1>1, <1>3, <1>6, <2>2, LooksTyped DEF Resume
    <2> QED BY <2>1, <2>2
  <1> QED BY <1>4, <1>5, <1>6

LEMMA NetKeepsMarked ==
  ASSUME TypeOK, MarkedIsOnItsWay, Open \/ Connected \/ Deliver \/ LoseConnection
  PROVE  MarkedIsOnItsWay'
  <1>0. net \in Seq(SUBSET Locs)
    BY DEF TypeOK
  <1>1. CASE Open \/ LoseConnection
    BY <1>1 DEF Open, LoseConnection, MarkedIsOnItsWay
  <1>2. CASE Connected
    <2>1. CASE checked = {}
      BY <1>2, <2>1 DEF Connected, MarkedIsOnItsWay, watchVars
    <2>2. CASE checked # {}
      <3>1. InFlight(net') = InFlight(net) \cup checked
        <4>1. net' = Append(net, checked)
          BY <1>2, <2>2 DEF Connected
        <4>2. checked \in SUBSET Locs
          BY DEF TypeOK
        <4>3. InFlight(Append(net, checked)) = InFlight(net) \cup checked
          BY <1>0, <4>2, InFlightAppend
        <4> QED BY <4>1, <4>3
      <3> QED BY <1>2, <3>1 DEF Connected, MarkedIsOnItsWay, watchVars
    <2> QED BY <2>1, <2>2
  <1>3. CASE Deliver
    <2>1. InFlight(net) \subseteq Head(net) \cup InFlight(net')
      BY <1>0, <1>3, InFlightTail DEF Deliver
    <2> QED BY <1>3, <2>1 DEF Deliver, MarkedIsOnItsWay, watchVars
  <1> QED BY <1>1, <1>2, <1>3

LEMMA OthersKeepMarked ==
  ASSUME MarkedIsOnItsWay,
         \/ Launch \/ Save \/ Leave \/ UNCHANGED vars
         \/ \E lv \in Levels : LoadSave(lv) \/ Warp(lv)
         \/ \E l \in Locs : PickUp(l)
  PROVE  MarkedIsOnItsWay'
  <1>1. UNCHANGED <<link, net, server, checked>>
    BY DEF Launch, Save, Leave, LoadSave, Warp, PickUp, vars, watchVars, netVars
  <1> QED BY <1>1 DEF MarkedIsOnItsWay, InFlight

(* While a connection is up, whatever is marked in locations_checked is at the
   server or on its way: what a lost connection took is sent again by the
   Connected handler before anything else can be. *)
THEOREM MarkedChecksAreOnTheirWay == Spec => []MarkedIsOnItsWay
  <1>1. Init => MarkedIsOnItsWay
    BY DEF Init, MarkedIsOnItsWay
  <1>2. TypeOK /\ MarkedIsOnItsWay /\ [Next]_vars => MarkedIsOnItsWay'
    BY ReportingAssumption, LooksKeepMarked, NetKeepsMarked, OthersKeepMarked DEF Next
  <1> QED BY <1>1, <1>2, ReportingTypeCorrect, PTL DEF Spec

-----------------------------------------------------------------------------
(* Missed pickups. *)

(* The cursor is the length of the log at the last look, or that of the longest
   log of an earlier process, whichever is greater. *)
CursorFollows ==
  /\ IF cursor = Unread THEN looked = 0 /\ counted = 0
                        ELSE cursor = IF looked > counted THEN looked ELSE counted
  /\ looked <= Len(log)

LEMMA CursorInit ==
  ASSUME Init PROVE CursorFollows
  BY DEF Init, CursorFollows

LEMMA CursorStep ==
  ASSUME ReportingAssumption, TypeOK, CursorFollows, [Next]_vars
  PROVE  CursorFollows'
  <1>0. /\ cursor \in Int /\ looked \in Nat /\ counted \in Nat
        /\ log \in Seq(Locs) /\ Len(log) \in Nat
    BY DEF TypeOK, ReportingAssumption, Unread
  <1>1. CASE Launch
    <2>1. /\ cursor' = cursor /\ looked' = 0 /\ Len(log') = 0
          /\ counted' = IF looked > counted THEN looked ELSE counted
      BY <1>1 DEF Launch
    <2> QED BY <1>0, <2>1 DEF CursorFollows
  <1>2. CASE /\ UNCHANGED <<cursor, looked, counted>>
             /\ Len(log) <= Len(log')
             /\ Len(log') \in Nat
    BY <1>0, <1>2 DEF CursorFollows
  <1>3. ASSUME NEW w \in Watchers, FirstPoll(w) PROVE CursorFollows'
    <2>1. /\ cursor = Unread /\ cursor' = Len(log) /\ looked' = Len(log)
          /\ log' = log /\ counted' = counted
      BY <1>3 DEF FirstPoll, gameVars
    <2> QED BY <1>0, <2>1 DEF CursorFollows, Unread
  <1>4. ASSUME NEW w \in Watchers, Poll(w) PROVE CursorFollows'
    <2>1. /\ cursor # Unread /\ cursor' = NextCursor /\ looked' = Len(log)
          /\ log' = log /\ counted' = counted
      BY <1>4 DEF Poll, gameVars
    <2>2. cursor' # Unread
      BY <1>0, <2>1 DEF NextCursor, Unread
    <2> QED BY <1>0, <2>1, <2>2 DEF CursorFollows, NextCursor
  <1>5. ASSUME NEW l \in Locs, PickUp(l)
        PROVE  Len(log) <= Len(log') /\ Len(log') \in Nat
    BY <1>0, <1>5 DEF PickUp
  <1>6. ASSUME NEW l \in Locs, PickUp(l) PROVE CursorFollows'
    BY <1>2, <1>5, <1>6 DEF PickUp, watchVars
  <1>7. CASE \/ Save \/ Leave \/ UNCHANGED vars
             \/ \E lv \in Levels : LoadSave(lv) \/ Warp(lv)
             \/ \E w \in Watchers : Resume(w)
             \/ Open \/ Connected \/ Deliver \/ LoseConnection
    <2>1. UNCHANGED <<log, cursor, looked, counted>>
      BY <1>7 DEF Save, Leave, LoadSave, Warp, Resume, Open, Connected, Deliver,
                  LoseConnection, vars, gameVars, watchVars
    <2>2. Len(log) <= Len(log') /\ Len(log') \in Nat
      BY <1>0, <2>1
    <2> QED BY <1>2, <2>1, <2>2
  <1> QED BY <1>1, <1>3, <1>4, <1>6, <1>7 DEF Next

LEMMA LookFindsAll ==
  ASSUME ReportingAssumption, TypeOK, CursorFollows, NEW w \in Watchers, Poll(w),
         NEW i \in looked+1..Len(log), LevelOf[log[i]] = level, ~(i <= counted)
  PROVE  log[i] \in checked'
  <1>1. i \in cursor+1..Len(log)
    BY DEF Poll, CursorFollows, TypeOK, ReportingAssumption
  <1>2. log[i] \in Logged(level)
    BY <1>1 DEF Logged
  <1> QED BY <1>2 DEF Poll, MarkAndSend

(* Every look marks every pickup of the level the player is in since the look
   before, but those whose position an earlier process's log had reached,
   whichever of the two loops made it, however their turns interleave, and
   however often the game is launched. *)
THEOREM LooksFindEveryPickup == Spec => OnlyRecountedMissed
  <1>1. Init => CursorFollows
    BY CursorInit
  <1>2. TypeOK /\ CursorFollows /\ [Next]_vars => CursorFollows'
    BY ReportingAssumption, CursorStep
  <1>3. TypeOK /\ CursorFollows =>
          [\A w \in Watchers : Poll(w) =>
             \A i \in looked+1..Len(log) :
                LevelOf[log[i]] = level => log[i] \in checked' \/ i <= counted]_vars
    BY ReportingAssumption, LookFindsAll
  <1> QED BY <1>1, <1>2, <1>3, ReportingTypeCorrect, PTL DEF Spec, OnlyRecountedMissed
=============================================================================
