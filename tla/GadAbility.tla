----------------------------- MODULE GadAbility -----------------------------
(***************************************************************************)
(* The gad temples and Poigne of apworld/client.py: the live flags GAD_1..3 *)
(* (a tier) and GAD_4 (Poigne), the client's own count                      *)
(* gad_powers_received, and the five that write them without knowing of one *)
(* another: the item loop, the replay, the sweep on level entry, the native *)
(* pickup stubs of exe_patches/gad_pickup_patch.py, and a loaded save.      *)
(* Composes ItemPipeline with a game that has two levels and a demo.        *)
(***************************************************************************)
EXTENDS ItemPipeline

CONSTANTS Levels,      \* level ids
          ForeignGads, \* bound: Gad Power items other worlds send us
          MaxMoves,    \* bound: loads, warps, quits and closes
          Replays      \* replay tasks that may be alive at once

ASSUME GadAssumption ==
    /\ ForeignGads \in 0..2
    /\ MaxMoves \in Nat
    /\ Payloads = {"gad", "poigne"}

VARIABLES
    here,      \* what our one location holds; the other world has the Poigne otherwise
    game,      \* "closed", "title", "moving" (unclear title reads), "level"
    where,     \* the level the live read shows: the title screen's demo loads levels too
    live,      \* GAD_1..4 in memory: [tier, poigne]; GAD_LEVEL always encodes them
    taken,     \* TRUE once the location is emptied in the loaded save
    saved,     \* the save file: [live, taken]
    moves,     \* session changes so far
    check,     \* the location's check: "none", "owed", "sent"
    confirmed, \* _confirmed_in_game
    replay,    \* per replay task the ledger entry it does next (0: not alive) and saved_gad
    counted,   \* gad_powers_received
    owned,     \* poigne_ability_received
    entered,   \* _last_gad_resync_level, or NoLevel
    grace,     \* time since _connected_at: "never" connected, "short", "over" 5 seconds
    amiss      \* history, per kind: a write was lost, or read an emptied list, and none followed

worldVars == <<here, game, where, live, taken, saved, moves, check>>
clientVars == <<confirmed, replay, counted, owned, entered, grace, amiss>>
vars == <<pipeVars, worldVars, clientVars>>

NoLevel == "none"
TopTier == 3
Tiers == 0..TopTier
Flags == [tier : Tiers, poigne : BOOLEAN]
NoGad == [tier |-> 0, poigne |-> FALSE]
Done == [next |-> 0, kept |-> 0]
NoneAmiss == [k \in Payloads |-> FALSE]

TypeOK ==
    /\ PipeTypeOK
    /\ here \in Payloads /\ game \in {"closed", "title", "moving", "level"}
    /\ where \in Levels /\ live \in Flags /\ taken \in BOOLEAN
    /\ saved \in [live : Flags, taken : BOOLEAN] /\ moves \in 0..MaxMoves
    /\ check \in {"none", "owed", "sent"} /\ confirmed \in BOOLEAN
    /\ replay \in [Replays -> [next : Nat, kept : Tiers]]
    /\ counted \in Tiers /\ owned \in BOOLEAN
    /\ entered \in Levels \cup {NoLevel} /\ grace \in {"never", "short", "over"}
    /\ amiss \in [Payloads -> BOOLEAN]

Init ==
    /\ PipeInit
    /\ here \in Payloads /\ game = "title" /\ where \in Levels
    /\ live = NoGad /\ taken = FALSE /\ saved = [live |-> NoGad, taken |-> FALSE]
    /\ moves = 0 /\ check = "none"
    /\ confirmed = FALSE /\ replay = [r \in Replays |-> Done]
    /\ counted = 0 /\ owned = FALSE /\ entered = NoLevel /\ grace = "never"
    /\ amiss = NoneAmiss

-----------------------------------------------------------------------------
(* Counting and writing. *)

AtMost(n, m) == IF n > m THEN m ELSE n
Listed(k, n) == Cardinality({i \in 1..n : sent[i] = k})

(* min(_received_count("Gad Power"), 3), from the library's own list. *)
Received == AtMost(Listed("gad", rcvd), TopTier)

(* The "givegad" encoding of the flags and its inverse. *)
Encode(g) == g.tier + IF g.poigne THEN 4 ELSE 0
Decode(n) == [tier |-> n % 4, poigne |-> n >= 4]

(* inject_gad_power: never below the tier that is live already. *)
MRaisedUnfloored(g, n) == [g EXCEPT !.tier = n]
Raised(g, n) == [g EXCEPT !.tier = Max2(n, @)]

(* The native apply function has been seen to add temple 1 to a lone Poigne. *)
Applied(g) == {g} \cup (IF g = Decode(4) THEN {Decode(5)} ELSE {})

(* inject_poigne_ability: the native apply, then the temples forced back to
   the count the caller trusts; without apply_now the flag alone. *)
MPoigneUncorrected(g, now) ==
    IF now THEN Applied([g EXCEPT !.poigne = TRUE]) ELSE {[g EXCEPT !.poigne = TRUE]}
PoigneWritten(g, now) ==
    LET set == [g EXCEPT !.poigne = TRUE]
    IN IF now THEN {[h EXCEPT !.tier = counted] : h \in Applied(set)} ELSE {set}

-----------------------------------------------------------------------------
(* The client. *)

(* After a write of the temples they are right unless the library's list was
   empty, from the loss of a connection to the resend; a write of the Poigne
   does not look at the list; after a write that was left out neither is right.
   None of this matters while the player has yet to leave the menu, which
   starts a replay. *)
WroteGad == amiss' = [amiss EXCEPT !["gad"] = (confirmed /\ rcvd = 0)]
WrotePoigne == amiss' = [amiss EXCEPT !["poigne"] = FALSE]
LeftOut(ks) == amiss' = [k \in Payloads |-> amiss[k] \/ (k \in ks /\ confirmed)]

(* One turn of _item_inject_loop.  Unless a fresh read says the player is in
   a level the item is left to a replay; a Gad Power recomputes the count. *)
HandleItem ==
    /\ TakeItem
    /\ LET item == sent[Head(queue) + 1]
       IN \/ game # "level" /\ UNCHANGED <<live, counted, owned>> /\ LeftOut({item})
          \/ /\ game = "level" /\ item = "gad"
             /\ counted' = Received
             /\ live' = Raised(live, counted')
             /\ UNCHANGED owned /\ WroteGad
          \/ /\ game = "level" /\ item = "poigne"
             /\ owned' = TRUE
             /\ live' \in PoigneWritten(live, grace = "over")
             /\ UNCHANGED counted /\ WrotePoigne
    /\ UNCHANGED <<here, game, where, taken, saved, moves, check>>
    /\ UNCHANGED <<confirmed, replay, entered, grace>>

(* The sweep of _poll_live_memory when the level differs from the last one:
   raise the temples to the count, assert Poigne again, or clear a Poigne
   that was never received, once the connection is 5 seconds old. *)
Swept(g, n) ==
    LET up == IF n > 0 THEN Raised(g, n) ELSE g
    IN IF owned THEN [up EXCEPT !.poigne = TRUE]
       ELSE IF grace = "over" THEN [up EXCEPT !.poigne = FALSE] ELSE up

Sweep ==
    IF where # entered /\ grace # "never"
    THEN counted' = Received /\ live' = Swept(live, Received) /\ entered' = where
    ELSE UNCHANGED <<counted, live, entered>>

(* What a poll makes of amiss: a replay starts over, a sweep writes. *)
Looked ==
    amiss' = IF ~confirmed \/ ~confirmed' THEN NoneAmiss
             ELSE IF where = entered \/ grace = "never" THEN amiss
             ELSE [k \in Payloads |-> IF k = "gad" THEN rcvd = 0 ELSE amiss[k] /\ ~owned]

(* asyncio.create_task: the task's first turn comes later. *)
Spawn == \E r \in Replays :
    replay[r].next = 0 /\ replay' = [replay EXCEPT ![r].next = 1]

(* _poll_live_memory: the title transition, then the sweep, with no await
   between them.  An unclear title read changes nothing; the level read and
   the sweep do not ask for the title. *)
Poll ==
    /\ game # "closed"
    /\ confirmed' = CASE game = "level" -> TRUE [] game = "title" -> FALSE
                      [] OTHER -> confirmed
    /\ IF game = "level" /\ ~confirmed THEN Spawn ELSE UNCHANGED replay
    /\ Sweep /\ Looked
    /\ UNCHANGED <<pipeVars, here, game, where, taken, saved, moves, check, owned, grace>>

(* The first turn of a replay remembers the count and resets it. *)
Begins(r) == replay[r].next = 1
Refused == received = <<>> \/ game # "level"

(* A turn of _replay_all_received_items up to its pacing sleep.  Both kinds
   are written whoever found them, and neither is applied at once. *)
ReplayTurn(r) ==
    LET next == replay[r].next
        item == sent[received[next] + 1]
        kept == IF Begins(r) THEN counted ELSE replay[r].kept
    IN  /\ next # 0
        /\ \/ /\ (Begins(r) /\ Refused) \/ next > Len(received)
              /\ replay' = [replay EXCEPT ![r] = Done]
              /\ UNCHANGED <<live, counted, owned>>
              /\ LeftOut(IF next > Len(received) THEN {} ELSE Payloads)
           \/ /\ ~Begins(r) /\ next <= Len(received) /\ game = "closed"
              /\ replay' = [replay EXCEPT ![r] = Done]
              /\ counted' = kept
              /\ UNCHANGED <<live, owned, amiss>>
           \/ /\ ~(Begins(r) /\ Refused) /\ next <= Len(received) /\ game # "closed"
              /\ replay' = [replay EXCEPT ![r] = [next |-> next + 1, kept |-> kept]]
              /\ \/ /\ item = "gad"
                    /\ counted' = Received
                    /\ live' = Raised(live, counted')
                    /\ UNCHANGED owned /\ WroteGad
                 \/ /\ item = "poigne"
                    /\ counted' = IF Begins(r) THEN 0 ELSE counted
                    /\ owned' = TRUE
                    /\ live' = [live EXCEPT !.poigne = TRUE]
                    /\ WrotePoigne
        /\ UNCHANGED <<pipeVars, here, game, where, taken, saved, moves, check>>
        /\ UNCHANGED <<confirmed, entered, grace>>

(* The user types /catchup. *)
Catchup ==
    /\ Spawn /\ amiss' = NoneAmiss
    /\ UNCHANGED <<pipeVars, worldVars, confirmed, counted, owned, entered, grace>>

(* on_package "Connected" restarts the 5 seconds. *)
Connected ==
    /\ Connect /\ grace' = "short"
    /\ UNCHANGED <<worldVars, confirmed, replay, counted, owned, entered, amiss>>

(* Nothing ties those 5 seconds to the length of the backlog. *)
GraceEnds ==
    /\ grace = "short" /\ grace' = "over"
    /\ UNCHANGED <<pipeVars, worldVars, confirmed, replay, counted, owned, entered, amiss>>

Transport ==
    /\ LoseConnection \/ OnReceivedItems \/ FinishItem
    /\ UNCHANGED <<worldVars, clientVars>>

Restart ==
    /\ RestartClient
    /\ confirmed' = FALSE /\ replay' = [r \in Replays |-> Done]
    /\ counted' = 0 /\ owned' = FALSE /\ entered' = NoLevel /\ grace' = "never"
    /\ amiss' = NoneAmiss
    /\ UNCHANGED worldVars

-----------------------------------------------------------------------------
(* The game, the player and the other worlds. *)

Moved == moves < MaxMoves /\ moves' = moves + 1

(* Bound: leaving and loading are two moves; without room for both nobody
   comes back to a save, nor to a level. *)
Returns == moves + 2 <= MaxMoves

Outside == UNCHANGED <<pipeVars, confirmed, replay, counted, owned, entered, grace, here, check>>

Launch ==
    /\ game = "closed" /\ game' = "title" /\ where' \in Levels
    /\ live' = NoGad /\ taken' = FALSE /\ UNCHANGED <<saved, moves, amiss>> /\ Outside

(* The title screen may be left before it was polled. *)
LoadSave ==
    /\ game = "title" /\ Moved /\ game' = "moving" /\ where' \in Levels
    /\ live' = saved.live /\ taken' = saved.taken /\ LeftOut(Payloads) /\ UNCHANGED saved /\ Outside

EnterLevel ==
    /\ game = "moving" /\ game' = "level"
    /\ UNCHANGED <<where, live, taken, saved, moves, amiss>> /\ Outside

(* On the way to another level the title flags may read unclear, or not. *)
Warp ==
    /\ game = "level" /\ Moved /\ game' = "moving" /\ where' \in Levels \ {where}
    /\ UNCHANGED <<live, taken, saved, amiss>> /\ Outside

Save ==
    /\ game = "level" /\ Returns
    /\ saved' = [live |-> live, taken |-> taken]
    /\ UNCHANGED <<game, where, live, taken, moves, amiss>> /\ Outside

(* The player saves what was picked up before leaving. *)
Leave ==
    /\ game \in {"title", "moving", "level"} /\ Moved
    /\ game # "title" => saved.taken = taken
    /\ Returns
    /\ \/ game' = "closed" /\ UNCHANGED where
       \/ game # "title" /\ game' = "title" /\ where' \in Levels
    /\ live' = NoGad /\ taken' = FALSE /\ UNCHANGED <<saved, amiss>> /\ Outside

(* The pickup stubs add 1 or 4 to the encoded level and apply it. *)
NativePickup ==
    /\ game = "level" /\ ~taken /\ taken' = TRUE
    /\ live' = Decode(Encode(live) + (IF here = "gad" THEN 1 ELSE 4))
    /\ check' = IF check = "none" THEN "owed" ELSE check
    /\ UNCHANGED <<pipeVars, clientVars, here, game, where, saved, moves>>

ReportCheck ==
    /\ link = "up" /\ check = "owed" /\ check' = "sent"
    /\ Grant(here)
    /\ UNCHANGED <<clientVars, here, game, where, live, taken, saved, moves>>

(* Another world sends a Gad Power, or the Poigne when our world lacks it. *)
ForeignLimit(k) ==
    IF k = "gad" THEN ForeignGads + (IF here = "gad" /\ check = "sent" THEN 1 ELSE 0)
    ELSE IF here = "poigne" THEN 0 ELSE 1
SendForeign(k) ==
    /\ Listed(k, Len(sent)) < ForeignLimit(k)
    /\ Grant(k)
    /\ UNCHANGED <<worldVars, clientVars>>

World ==
    \/ Launch \/ LoadSave \/ EnterLevel \/ Warp \/ Save \/ Leave
    \/ NativePickup \/ ReportCheck
    \/ \E k \in Payloads : SendForeign(k)

Next ==
    \/ World
    \/ Connected \/ GraceEnds \/ Transport \/ Restart
    \/ HandleItem \/ Poll \/ Catchup
    \/ \E r \in Replays : ReplayTurn(r)

Spec == Init /\ [][Next]_vars

-----------------------------------------------------------------------------
(* What should hold. *)

(* Everything the client has to do is done; the player is in a level. *)
Settled ==
    /\ link = "up" /\ net = <<>> /\ queue = <<>> /\ working = Idle
    /\ game = "level" /\ confirmed /\ \A r \in Replays : replay[r].next = 0
    /\ (taken => check = "sent") /\ check # "owed"

(* Once settled the player has exactly the temples and the Poigne that were
   received, each unless its last write was lost or read an emptied list: the
   count reset under a suspended replay, a Poigne correction that ran in
   between, a stale sweep, a Poigne cleared while its item was still on the
   way, all have been made good. *)
GadSettles ==
    Settled =>
        /\ ~amiss["gad"] => live.tier = AtMost(Listed("gad", Len(sent)), TopTier)
        /\ ~amiss["poigne"] => live.poigne = (Listed("poigne", Len(sent)) > 0)

(* inject_gad_power "NEVER WRITES BACKWARD": a temple the player has, even one
   picked up that nobody has reported yet, is not taken away in the game by
   the sweep, a replay or a Gad Power.  The Poigne correction may. *)
Corrects == queue # <<>> /\ queue' = Tail(queue) /\ sent[Head(queue) + 1] = "poigne"
LowersInGame ==
    game \in {"moving", "level"} /\ game' = game /\ live'.tier < live.tier
NeverBackward == [][LowersInGame => Corrects]_vars
=============================================================================
