---------------------------- MODULE ItemDelivery ----------------------------
(***************************************************************************)
(* The Archipelago client and the game together: what handling a received   *)
(* item does to the live inventory (_inject_item), how leaving the title    *)
(* screen starts a replay of the ledger (_poll_live_memory and              *)
(* _replay_all_received_items), and how a native pickup comes back from the *)
(* server as an item of our own.  Composes ItemPipeline and GameSession.    *)
(***************************************************************************)
EXTENDS ItemPipeline, GameSession

CONSTANTS Foreign,        \* bound: items of each kind other worlds send us
          Worth,          \* what one item of a kind adds to its counter
          Cap,            \* the clamp of the absolute counter writes
          Replays         \* replay tasks that may be alive at once

ASSUME DeliveryAssumption ==
    /\ Foreign \in [Kinds -> Nat]
    /\ Worth \in [Kinds -> Nat \ {0}]
    /\ Cap \in [Kinds -> Nat]
    /\ Payloads = [kind : Kinds, own : BOOLEAN]

VARIABLES
    checked,    \* our locations the server knows to be checked
    owed,       \* picked up, the check not yet at the server
    confirmed,  \* _confirmed_in_game
    replay,     \* per replay task the ledger entry it does next, 0 when not alive
    amiss       \* history: a cadeaux write was lost, or read an emptied list, and none followed

deliveryVars == <<checked, owed, confirmed, replay, amiss>>
vars == <<pipeVars, gameVars, deliveryVars>>

NoReplay == [r \in Replays |-> 0]

TypeOK ==
    /\ PipeTypeOK /\ GameTypeOK
    /\ checked \subseteq Locs /\ owed \subseteq Locs
    /\ confirmed \in BOOLEAN
    /\ replay \in [Replays -> Nat]
    /\ amiss \in BOOLEAN

Init ==
    /\ PipeInit /\ GameInit
    /\ checked = {} /\ owed = {} /\ confirmed = FALSE /\ replay = NoReplay
    /\ amiss = FALSE

-----------------------------------------------------------------------------
(* Injection. *)

Granted(k, n) == {i \in 1..n : sent[i].kind = k}

(* _received_count and _received_cadeaux_total: from the library's list. *)
Target(k) == Worth[k] * Cardinality(Granted(k, rcvd))

(* Self-found items the game has applied natively; cadeaux are injected all
   the same, because the native pickup counts a bundle as one. *)
MNativeOnlyAll(p) == p.own
NativeOnly(p) == p.own /\ p.kind # "cadeaux"

Clamped(k, n) == IF n > Cap[k] THEN Cap[k] ELSE n

(* The method branches: souls and cadeaux are set to the absolute target, a
   counter item is given while the live counter is below it, a flag item
   while the flag is clear. *)
MDispatchedBlind(k) ==
    CASE k \in {"soul", "cadeaux"} -> [live EXCEPT ![k] = Clamped(k, Target(k))]
      [] k = "stack" -> [live EXCEPT ![k] = @ + 1]
      [] k = "flag"  -> [live EXCEPT ![k] = 1]
Dispatched(k) ==
    CASE k \in {"soul", "cadeaux"} -> [live EXCEPT ![k] = Clamped(k, Target(k))]
      [] k = "stack" -> IF live[k] < Target(k) THEN [live EXCEPT ![k] = @ + 1] ELSE live
      [] k = "flag"  -> [live EXCEPT ![k] = 1]

(* _inject_item: nothing for a native item, nothing unless a fresh read says
   the player is in a level. *)
Inject(p) ==
    live' = IF ~NativeOnly(p) /\ game = "level" THEN Dispatched(p.kind) ELSE live

(* After a write of the cadeaux counter it is right unless the library's list
   was empty, from the loss of a connection to the resend.  After a write that
   was left out it is not, unless the player has yet to leave the menu, which
   starts a replay. *)
Wrote == amiss' = (rcvd = 0)
LeftOut == amiss' = (amiss \/ confirmed)

(* One turn of _item_inject_loop up to its pacing sleep. *)
HandleItem ==
    LET item == sent[Head(queue) + 1]
    IN  /\ TakeItem
        /\ Inject(item)
        /\ IF item.kind # "cadeaux" THEN UNCHANGED amiss
           ELSE IF game = "level" THEN Wrote ELSE LeftOut
        /\ UNCHANGED <<game, taken, saved, moves, checked, owed, confirmed, replay>>

-----------------------------------------------------------------------------
(* Replay. *)

(* asyncio.create_task: the task's first turn comes later. *)
Spawn ==
    /\ \E r \in Replays : replay[r] = 0 /\ replay' = [replay EXCEPT ![r] = 1]
    /\ amiss' = FALSE

(* The title transition of _poll_live_memory.  An unclear read changes nothing. *)
PollTitle ==
    /\ \/ game = "level" /\ ~confirmed /\ confirmed' = TRUE /\ Spawn
       \/ game = "title" /\ confirmed /\ confirmed' = FALSE /\ UNCHANGED <<replay, amiss>>
    /\ UNCHANGED <<pipeVars, gameVars, checked, owed>>

(* The user types /catchup. *)
Catchup == Spawn /\ UNCHANGED <<pipeVars, gameVars, checked, owed, confirmed>>

(* The first turn of a replay looks at the ledger, the process and the title. *)
ReplayRefused == received = <<>> \/ game # "level"

(* A turn of _replay_all_received_items up to its pacing sleep: the next entry
   of the ledger, which may have grown meanwhile.  Later turns only look at
   whether the process is there. *)
PastLedger(next) == next > Len(received)

ReplayTurn(r) ==
    LET next == replay[r]
        item == sent[received[next] + 1]
        ends == \/ next = 1 /\ ReplayRefused
                \/ PastLedger(next)
                \/ ~NativeOnly(item) /\ game = "closed"
    IN  /\ next # 0
        /\ IF ends
           THEN /\ replay' = [replay EXCEPT ![r] = 0]
                /\ UNCHANGED live
                /\ IF PastLedger(next) THEN UNCHANGED amiss ELSE LeftOut
           ELSE /\ replay' = [replay EXCEPT ![r] = next + 1]
                /\ live' = IF NativeOnly(item) THEN live ELSE Dispatched(item.kind)
                /\ IF item.kind = "cadeaux" THEN Wrote ELSE UNCHANGED amiss
        /\ UNCHANGED <<pipeVars, game, taken, saved, moves, checked, owed, confirmed>>

-----------------------------------------------------------------------------
(* The world around the client. *)

(* Another world sends an item; room stays for the items at our locations. *)
SendForeign(k) ==
    /\ Cardinality({i \in DOMAIN sent : sent[i] = [kind |-> k, own |-> FALSE]}) < Foreign[k]
    /\ Grant([kind |-> k, own |-> FALSE])
    /\ UNCHANGED <<gameVars, deliveryVars>>

(* A check reaches the server, which grants the location's item to us. *)
ReportCheck(l) ==
    /\ link = "up" /\ l \in owed
    /\ owed' = owed \ {l} /\ checked' = checked \cup {l}
    /\ IF l \in checked THEN UNCHANGED pipeVars
       ELSE Grant([kind |-> KindOf[l], own |-> TRUE])
    /\ UNCHANGED <<gameVars, confirmed, replay, amiss>>

PickUp(l) ==
    /\ NativePickup(l)
    /\ owed' = owed \cup ({l} \ checked)
    /\ UNCHANGED <<pipeVars, checked, confirmed, replay, amiss>>

Transport ==
    /\ Connect \/ LoseConnection \/ OnReceivedItems \/ FinishItem
    /\ UNCHANGED <<gameVars, deliveryVars>>

(* A restarted client has no tasks; the checks it had not yet sent may or may
   not be found again by its watchers. *)
Restart ==
    /\ RestartClient
    /\ confirmed' = FALSE /\ replay' = NoReplay /\ amiss' = FALSE
    /\ owed' \in SUBSET owed
    /\ UNCHANGED <<gameVars, checked>>

(* Nobody looks at the title screen between a quit and the next load. *)
PlayerMoves ==
    /\ \/ /\ Launch \/ EnterLevel \/ Warp \/ QuitToTitle \/ Close \/ Save
          /\ UNCHANGED amiss
       \/ LoadSave /\ LeftOut
    /\ UNCHANGED <<pipeVars, checked, owed, confirmed, replay>>

Next ==
    \/ \E k \in Kinds : SendForeign(k)
    \/ \E l \in Locs : ReportCheck(l) \/ PickUp(l)
    \/ Transport \/ Restart \/ PlayerMoves
    \/ HandleItem \/ PollTitle \/ Catchup
    \/ \E r \in Replays : ReplayTurn(r)

Spec == Init /\ [][Next]_vars

(* The event loop runs what is ready, the polling loop keeps polling and the
   library reconnects.  Nothing obliges the player, the server or the network. *)
Fairness ==
    /\ WF_vars(Connect /\ UNCHANGED <<gameVars, deliveryVars>>)
    /\ WF_vars(OnReceivedItems /\ UNCHANGED <<gameVars, deliveryVars>>)
    /\ WF_vars(FinishItem /\ UNCHANGED <<gameVars, deliveryVars>>)
    /\ WF_vars(HandleItem) /\ WF_vars(PollTitle)
    /\ \A r \in Replays : WF_vars(ReplayTurn(r))

FairSpec == Spec /\ Fairness

-----------------------------------------------------------------------------
(* What should hold. *)

Counters == Kinds \ {"flag"}

(* Picked up in the loaded save and not yet turned into a granted item. *)
Pending(k) == {l \in taken \ checked : KindOf[l] = k}

(* Replays that overlap, reconnects that resend, restarts that start over and
   injections that race native pickups never leave the player with more of a
   counter item than the server granted plus what was picked up and is still
   to be granted ("7 Retractors after only 5 should exist").  Needs a player
   who saves before leaving: a pickup that was checked and then lost with the
   session can be made again. *)
NothingOverGranted ==
    \A k \in Counters :
        live[k] <= Worth[k] * Cardinality(Granted(k, Len(sent))) + Cardinality(Pending(k))

(* Everything the client has to do is done, the player is in a level. *)
Settled ==
    /\ link = "up" /\ net = <<>> /\ queue = <<>> /\ working = Idle
    /\ game = "level" /\ confirmed /\ replay = NoReplay
    /\ owed = {} /\ taken \subseteq checked

CadeauxExact == live["cadeaux"] = Clamped("cadeaux", Target("cadeaux"))

(* Once settled, the cadeaux counter is worth exactly what was received, bundles
   found in our own world included, unless a write was lost or read an emptied
   list and no other write and no replay has come since: whatever resends, other
   losses, quits, native pickups and replays happened on the way. *)
CadeauxSettle == "cadeaux" \in Kinds /\ Settled /\ ~amiss => CadeauxExact

(* _received_cadeaux_total is "always recomputed fresh from the full
   items_received list, never incremented, so replays/reconnects stay safe". *)
ReconnectsStaySafe == Settled => CadeauxExact

(* The live inventory has every received item in it, exactly.  For the kinds
   that only other worlds send; a native pickup may stay unreported. *)
Agrees == \A k \in Kinds \ {KindOf[l] : l \in Locs} :
    LET want == Worth[k] * Cardinality(Granted(k, Len(sent)))
    IN live[k] = IF k = "flag" THEN (IF want = 0 THEN 0 ELSE 1) ELSE Clamped(k, want)

(* Connected, nothing under way or waiting, the player in a level. *)
Quiet ==
    link = "up" /\ net = <<>> /\ queue = <<>> /\ working = Idle /\ game = "level"

(* What a lost connection, an unclear title read, an unnoticed reload or a menu
   kept out of the inventory, one replay started at a quiet moment puts there,
   if nothing disturbs it: "or use /catchup". *)
CatchupRepairs == \A r \in Replays : (Quiet /\ replay[r] = 1) ~> (Agrees \/ ~Quiet)

(* "queued. Will auto-apply once you're in a level": if the player in the end
   stays in a level, everything received gets into the inventory. *)
Converges == <>[](game = "level") => <>[]Agrees

(* set_dark_soul_count: "Idempotent regardless of how many times this fires or
   what order items arrive in", so once settled the counter is what was
   received. *)
SoulOrderIrrelevant == Settled => live["soul"] = Clamped("soul", Target("soul"))
=============================================================================
