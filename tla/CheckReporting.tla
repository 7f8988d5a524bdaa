---------------------------- MODULE CheckReporting ----------------------------
(***************************************************************************)
(* From a pickup in the game to a check at the server, in                   *)
(* apworld/client.py: the game's append-only pickup log and its array of    *)
(* collected dark souls, the fast and the slow watcher loop that share the  *)
(* cursor into the log and the previous array, locations_checked, and the   *)
(* LocationChecks that a lost connection loses and the next Connected       *)
(* packet sends again.                                                      *)
(***************************************************************************)
EXTENDS Integers, Sequences, FiniteSets

CONSTANTS Levels, Locs,
          Souls,         \* the locations that hold a dark soul; the others are logged
          LevelOf,       \* the level a location is in
          SlotOf,        \* its instance id; for a soul, its index in the game's array
          Watchers,      \* the fast and the slow loop
          MaxPickups,    \* bound: length of the pickup log
          MaxLaunches,   \* bound: launches of the game
          MaxLoads,      \* bound: saves loaded
          MaxDrops,      \* bound: lost connections
          LooksBeforeDoors  \* TRUE: a loop has looked before the player leaves the level

ASSUME ReportingAssumption ==
    /\ Souls \subseteq Locs /\ LevelOf \in [Locs -> Levels] /\ SlotOf \in [Locs -> Nat]
    /\ MaxPickups \in Nat /\ MaxLaunches \in Nat /\ MaxLoads \in Nat /\ MaxDrops \in Nat
    /\ LooksBeforeDoors \in BOOLEAN /\ "none" \notin Levels

VARIABLES
    place,      \* "closed", "title" or "level"
    level,      \* the live level, as the game's memory has it
    log,        \* the pickup log of the running process
    taken,      \* the locations emptied in what is loaded
    saved,      \* and in the save file
    cursor,     \* _bookpos_next_index, Unread before the first read
    prev,       \* _darksoul_flags_prev
    checked,    \* locations_checked
    pausedAt,   \* per watcher the level it read before the send it waits for, or "none"
    link,       \* "down", "opening" (not yet Connected) or "up"
    net,        \* LocationChecks under way
    server,     \* the checks the server has
    looked,     \* the length of this process's log at the last look
    counted,    \* the longest log of an earlier process that a look has seen
    launches, loads, drops

gameVars == <<place, level, log, taken, saved>>
watchVars == <<cursor, prev, checked, pausedAt, looked>>
netVars == <<link, net, server, drops>>
vars == <<gameVars, watchVars, netVars, launches, counted, loads>>

Unread == -1
Ready == [w \in Watchers |-> "none"]

(* The array of collected souls, by index. *)
Flags == {SlotOf[l] : l \in taken \cap Souls}

TypeOK ==
    /\ place \in {"closed", "title", "level"} /\ level \in Levels
    /\ log \in Seq(Locs) /\ Len(log) <= MaxPickups
    /\ taken \subseteq Locs /\ saved \subseteq Locs
    /\ cursor \in {Unread} \cup 0..MaxPickups /\ looked \in 0..MaxPickups
    /\ counted \in 0..MaxPickups
    /\ prev \subseteq {SlotOf[l] : l \in Locs}
    /\ checked \subseteq Locs /\ server \subseteq Locs
    /\ pausedAt \in [Watchers -> Levels \cup {"none"}]
    /\ link \in {"down", "opening", "up"} /\ net \in Seq(SUBSET Locs)
    /\ launches \in 0..MaxLaunches /\ loads \in 0..MaxLoads /\ drops \in 0..MaxDrops

Init ==
    /\ place = "closed" /\ level \in Levels /\ log = <<>>
    /\ taken = {} /\ saved = {}
    /\ cursor = Unread /\ prev = {} /\ checked = {} /\ pausedAt = Ready
    /\ looked = 0 /\ counted = 0
    /\ link = "down" /\ net = <<>> /\ server = {}
    /\ launches = 0 /\ loads = 0 /\ drops = 0

-----------------------------------------------------------------------------
(* The game. *)

Launch ==
    /\ place = "closed" /\ launches < MaxLaunches /\ launches' = launches + 1
    /\ place' = "title" /\ log' = <<>> /\ taken' = {}
    /\ looked' = 0 /\ counted' = IF looked > counted THEN looked ELSE counted
    /\ UNCHANGED <<level, saved, cursor, prev, checked, pausedAt, netVars, loads>>

LoadSave(lv) ==
    /\ place = "title" /\ loads < MaxLoads /\ loads' = loads + 1
    /\ place' = "level" /\ level' = lv /\ taken' = saved
    /\ UNCHANGED <<log, saved, watchVars, netVars, launches, counted>>

(* The loops have seen all there is to see. *)
Seen == LooksBeforeDoors /\ cursor # Unread => looked = Len(log) /\ prev = Flags

Warp(lv) ==
    /\ place = "level" /\ Seen /\ lv # level /\ level' = lv
    /\ UNCHANGED <<place, log, taken, saved, watchVars, netVars, launches, counted, loads>>

Save ==
    /\ place = "level" /\ saved' = taken
    /\ UNCHANGED <<place, level, log, taken, watchVars, netVars, launches, counted, loads>>

Leave ==
    /\ \/ place = "level" /\ Seen /\ place' = "title"
       \/ place # "closed" /\ place' = "closed"
    /\ UNCHANGED <<level, log, taken, saved, watchVars, netVars, launches, counted, loads>>

PickUp(l) ==
    /\ place = "level" /\ level = LevelOf[l] /\ l \notin taken /\ Len(log) < MaxPickups
    /\ taken' = taken \cup {l}
    /\ log' = IF l \in Souls THEN log ELSE Append(log, l)
    /\ UNCHANGED <<place, level, saved, watchVars, netVars, launches, counted, loads>>

-----------------------------------------------------------------------------
(* The watcher loops. *)

MNextCursorAdds == IF Len(log) > cursor THEN cursor + Len(log) ELSE cursor
NextCursor == IF Len(log) > cursor THEN Len(log) ELSE cursor

(* Log entries from the cursor on whose position is one of the level's. *)
MLogged(lv) == {log[i] : i \in {j \in cursor+2..Len(log) : LevelOf[log[j]] = lv}}
Logged(lv) == {log[i] : i \in {j \in cursor+1..Len(log) : LevelOf[log[j]] = lv}}

(* _loc_map[(level, save_idx)] of the array entries that flipped. *)
Flipped(lv) == {l \in Locs : LevelOf[l] = lv /\ SlotOf[l] \in Flags \ prev}

(* send_msgs does nothing without a connection; before Connected the server
   does not listen. *)
Sent(q, new) == IF new = {} \/ link # "up" THEN q ELSE Append(q, new)

MarkAndSend(new) == checked' = checked \cup new /\ net' = Sent(net, new \ checked)

(* The first look of a client takes the log and the array as they are. *)
FirstPoll(w) ==
    /\ place # "closed" /\ pausedAt[w] = "none" /\ cursor = Unread
    /\ cursor' = Len(log) /\ looked' = Len(log) /\ prev' = Flags
    /\ UNCHANGED <<gameVars, checked, pausedAt, netVars, launches, counted, loads>>

(* One turn: the level, the log, the cursor, the sending, the array.  If the
   sending suspends the loop, the array has to wait. *)
Poll(w) ==
    LET new == Logged(level) IN
    /\ place # "closed" /\ pausedAt[w] = "none" /\ cursor # Unread
    /\ cursor' = NextCursor
    /\ looked' = Len(log)
    /\ \/ /\ checked' = checked \cup new \cup Flipped(level)
          /\ net' = Sent(Sent(net, new \ checked), Flipped(level) \ (checked \cup new))
          /\ prev' = Flags /\ UNCHANGED pausedAt
       \/ /\ ~(new \subseteq checked) /\ link # "down"
          /\ MarkAndSend(new)
          /\ pausedAt' = [pausedAt EXCEPT ![w] = level] /\ UNCHANGED prev
    /\ UNCHANGED <<gameVars, link, server, drops, launches, counted, loads>>

(* The loop goes on to the array with the level it had read. *)
Resume(w) ==
    /\ pausedAt[w] # "none"
    /\ IF place = "closed" THEN UNCHANGED <<checked, net, prev>>
       ELSE MarkAndSend(Flipped(pausedAt[w])) /\ prev' = Flags
    /\ pausedAt' = [pausedAt EXCEPT ![w] = "none"]
    /\ UNCHANGED <<gameVars, cursor, looked, link, server, drops, launches, counted, loads>>

-----------------------------------------------------------------------------
(* The connection and the server (outside src/), and on_package's Connected. *)

Open ==
    /\ link = "down" /\ link' = "opening"
    /\ UNCHANGED <<gameVars, watchVars, net, server, drops, launches, counted, loads>>

MConnectedUnsent ==
    /\ link = "opening" /\ link' = "up"
    /\ UNCHANGED <<gameVars, watchVars, net, server, drops, launches, counted, loads>>
Connected ==
    /\ link = "opening" /\ link' = "up"
    /\ net' = IF checked = {} THEN net ELSE Append(net, checked)
    /\ UNCHANGED <<gameVars, watchVars, server, drops, launches, counted, loads>>

Deliver ==
    /\ net # <<>>
    /\ server' = server \cup Head(net) /\ net' = Tail(net)
    /\ UNCHANGED <<gameVars, watchVars, link, drops, launches, counted, loads>>

LoseConnection ==
    /\ link # "down" /\ drops < MaxDrops /\ drops' = drops + 1
    /\ link' = "down" /\ net' = <<>>
    /\ UNCHANGED <<gameVars, watchVars, server, launches, counted, loads>>

Next ==
    \/ Launch \/ Save \/ Leave
    \/ \E lv \in Levels : LoadSave(lv) \/ Warp(lv)
    \/ \E l \in Locs : PickUp(l)
    \/ \E w \in Watchers : FirstPoll(w) \/ Poll(w) \/ Resume(w)
    \/ Open \/ Connected \/ Deliver \/ LoseConnection

Spec == Init /\ [][Next]_vars

(* The library connects again and messages arrive. *)
Fairness == WF_vars(Open) /\ WF_vars(Connected) /\ WF_vars(Deliver)
FairSpec == Spec /\ Fairness

-----------------------------------------------------------------------------
(* What should hold. *)

(* A location is marked in locations_checked before it is sent and never sent
   by the loops again, so whatever is marked while a connection is up has to
   be at the server or on its way. *)
InFlight(q) == UNION {q[i] : i \in DOMAIN q}
MarkedIsOnItsWay == link = "up" => checked \subseteq server \cup InFlight(net)

(* Every check that was detected reaches the server in the end, whenever and
   however often (but finitely) the connection was lost. *)
EveryCheckArrives == \A l \in Locs : l \in checked ~> l \in server

(* "The live pickup-log mechanism ... covers marker pickups whenever the game
   is hooked": a look that comes before the player leaves the level finds
   every pickup since the look before.  The cursor outlives the game process,
   so a relaunched game's first pickups are below it and never read. *)
EveryPickupFound ==
    [][\A w \in Watchers : Poll(w) =>
        \A i \in looked+1..Len(log) : LevelOf[log[i]] = level => log[i] \in checked']_vars

(* What a look misses of its level's pickups is at most as many as an earlier
   process's log held when a loop last saw it; past those the two loops, which
   share the cursor and are suspended in the middle of a look, miss none. *)
OnlyRecountedMissed ==
    [][\A w \in Watchers : Poll(w) =>
        \A i \in looked+1..Len(log) :
            LevelOf[log[i]] = level => log[i] \in checked' \/ i <= counted]_vars
=============================================================================
