------------------------------ MODULE DeathLink ------------------------------
(***************************************************************************)
(* DeathLink in apworld/client.py.  An incoming death (on_deathlink) sets    *)
(* _ignore_next_death and starts a task that pokes the game every two       *)
(* seconds until it sees the player dead and then alive again.  The health  *)
(* watcher looks once a second: a fall of the health to zero is a death,    *)
(* which cancels a running health effect and is either ignored once or      *)
(* counted, every Threshold-th counted death being sent to the team.  A     *)
(* poke zeroes the health at once but the death itself is refused while the *)
(* player is invincible.  Health is 0 (zero or less), 1 (more) or Unknown.  *)
(***************************************************************************)
EXTENDS Integers, FiniteSets

CONSTANTS Threshold,      \* death_link_threshold
          Kills,          \* kill tasks that may be alive at once
          MaxDeaths,      \* bound: deaths that are not the client's doing
          MaxLinks,       \* bound: DeathLinks that arrive
          MaxMoves,       \* bound: quits, closes, invincible spells, revivals by recovery
          MaxEffects,     \* bound: poison and recovery effects
          MaxReconnects,  \* bound: later Connected packets
          DeathIsLong,    \* TRUE: the player stays dead until every loop has looked
          SendsMayFail    \* TRUE: send_death may raise

ASSUME DeathLinkAssumption ==
    /\ Threshold \in Nat \ {0}
    /\ MaxDeaths \in Nat /\ MaxLinks \in Nat /\ MaxMoves \in Nat
    /\ MaxEffects \in Nat /\ MaxReconnects \in Nat
    /\ {DeathIsLong, SendsMayFail} \subseteq BOOLEAN

VARIABLES
    place,       \* "closed", "title" or "level"
    hp,          \* the health in the game's memory
    dying,       \* the game's already-dead flag
    invincible,  \* the game's invincible bit, set during a cutscene
    effect,      \* _active_health_effect_kind, "none" without a task
    confirmed,   \* _confirmed_in_game
    last,        \* _last_health
    ignore,      \* _ignore_next_death
    count,       \* _own_death_count
    kill,        \* per kill task "off", "unseen" or "seen" (a zero), "stale" (process gone)
    (* what happened, for the properties *)
    cause,       \* whose doing the last fall to zero was: "own", "link", or
                 \* "again", a kill task under which the health had risen
    own,         \* falls to zero that were our own
    again,       \* falls to zero that a kill task made again
    sends,       \* deaths sent
    lifted,      \* kill tasks under which the health rose other than by a respawn
    expired,     \* kill tasks that met their deadline since the last link
    links, moves, effects, reconnects

game == <<place, hp, dying, invincible>>
watch == <<last, ignore, count>>
history == <<links, moves, effects, reconnects>>
falls == <<cause, own, again>>
tasks == <<kill, lifted, expired>>
vars == <<game, effect, confirmed, watch, tasks, falls, sends, history>>

Unknown == -1

Alive == {k \in Kills : kill[k] \in {"unseen", "seen"}}

TypeOK ==
    /\ place \in {"closed", "title", "level"}
    /\ hp \in {0, 1} /\ dying \in BOOLEAN /\ invincible \in BOOLEAN
    /\ effect \in {"none", "heal", "poison"}
    /\ confirmed \in BOOLEAN /\ last \in {Unknown, 0, 1} /\ ignore \in BOOLEAN
    /\ count \in 0..Threshold-1
    /\ kill \in [Kills -> {"off", "unseen", "seen", "stale"}]
    /\ cause \in {"own", "link", "again"}
    /\ own \in Nat /\ again \in Nat /\ sends \in Nat
    /\ lifted \subseteq Alive /\ expired \subseteq Kills
    /\ links \in 0..MaxLinks /\ moves \in 0..MaxMoves
    /\ effects \in 0..MaxEffects /\ reconnects \in 0..MaxReconnects

Init ==
    /\ place = "closed" /\ hp = 0 /\ dying = FALSE /\ invincible = FALSE
    /\ effect = "none" /\ confirmed = FALSE
    /\ last = Unknown /\ ignore = FALSE /\ count = 0
    /\ kill = [k \in Kills |-> "off"]
    /\ cause = "own" /\ own = 0 /\ again = 0 /\ sends = 0
    /\ lifted = {} /\ expired = {}
    /\ links = 0 /\ moves = 0 /\ effects = 0 /\ reconnects = 0

-----------------------------------------------------------------------------
(* The game. *)

Moved == moves < MaxMoves /\ moves' = moves + 1 /\ UNCHANGED <<links, effects, reconnects>>

(* The health falls to zero, or is there already. *)
Falls(who) ==
    /\ hp' = 0
    /\ IF hp = 1
       THEN /\ cause' = who
            /\ own' = IF who = "own" THEN own + 1 ELSE own
            /\ again' = IF who = "again" THEN again + 1 ELSE again
       ELSE UNCHANGED falls

(* The health is positive, though nobody respawned. *)
Rises ==
    /\ hp' = 1
    /\ lifted' = IF hp = 0 THEN lifted \cup Alive ELSE lifted

(* A death lasts for several seconds: the loops, which look every one or two,
   have all seen it when the player is alive again. *)
Seen == DeathIsLong /\ hp = 0 => last # 1 /\ \A k \in Kills : kill[k] # "unseen"

Die ==
    /\ place = "level" /\ ~dying /\ ~invincible /\ own < MaxDeaths
    /\ Falls("own") /\ dying' = TRUE
    /\ UNCHANGED <<place, invincible, effect, confirmed, watch, tasks, sends, history>>

Respawn ==
    /\ dying /\ Seen
    /\ hp' = 1 /\ dying' = FALSE
    /\ UNCHANGED <<place, invincible, effect, confirmed, watch, tasks, falls, sends, history>>

(* A cutscene starts or ends. *)
ToggleInvincible ==
    /\ place = "level" /\ ~dying
    /\ IF invincible THEN UNCHANGED history ELSE Moved
    /\ invincible' = ~invincible
    /\ UNCHANGED <<place, hp, dying, effect, confirmed, watch, tasks, falls, sends>>

(* A process takes longer to start than the watcher to look. *)
Launch ==
    /\ place = "closed" /\ last = Unknown
    /\ place' = "title" /\ hp' = 0
    /\ UNCHANGED <<dying, invincible, effect, confirmed, watch, tasks, falls, sends, history>>

LoadSave ==
    /\ place = "title"
    /\ place' = "level" /\ Rises
    /\ UNCHANGED <<dying, invincible, effect, confirmed, watch, kill, expired, falls, sends,
                   history>>

QuitToTitle ==
    /\ place = "level" /\ Seen /\ Moved
    /\ place' = "title" /\ dying' = FALSE /\ invincible' = FALSE
    /\ UNCHANGED <<hp, effect, confirmed, watch, tasks, falls, sends>>

(* A kill task keeps the handle of the process it was started for. *)
Close ==
    /\ place # "closed" /\ Moved
    /\ place' = "closed" /\ dying' = FALSE /\ invincible' = FALSE
    /\ kill' = [k \in Kills |-> IF kill[k] = "off" THEN "off" ELSE "stale"]
    /\ lifted' = {}
    /\ UNCHANGED <<hp, effect, confirmed, watch, expired, falls, sends>>

(* inject_death: the health goes wherever the game is, a player only in a
   level and if not invincible. *)
Poke(who) ==
    /\ Falls(who)
    /\ dying' = (dying \/ (place = "level" /\ ~invincible))
    /\ UNCHANGED <<place, invincible>>

Connects == reconnects' # reconnects

(* Outside a level a call into the process may fail, when it is being torn
   down; a read that succeeds reads what was left. *)
Readings == IF place = "level" THEN {hp} ELSE {Unknown, hp}

-----------------------------------------------------------------------------
(* The client. *)

PollTitle ==
    /\ \/ place = "level" /\ ~confirmed /\ confirmed' = TRUE
       \/ place = "title" /\ confirmed /\ confirmed' = FALSE
    /\ UNCHANGED <<game, effect, watch, tasks, falls, sends, history>>

(* A Connected packet after a reconnect starts the count again. *)
Connected ==
    /\ reconnects < MaxReconnects /\ reconnects' = reconnects + 1
    /\ count' = 0
    /\ UNCHANGED <<game, effect, confirmed, last, ignore, tasks, falls, sends, links, moves, effects>>

StartTask(k) ==
    kill' = [kill EXCEPT ![k] = "unseen"] /\ expired' = {} /\ UNCHANGED lifted

(* on_deathlink: nothing without a process; the task's first turn comes later. *)
MOnDeathLinkOnce ==
    /\ links < MaxLinks /\ links' = links + 1
    /\ IF place = "closed" THEN UNCHANGED <<ignore, tasks>>
       ELSE /\ ignore' = (ignore \/ \A k \in Kills : kill[k] = "off")
            /\ \E k \in Kills : kill[k] = "off" /\ StartTask(k)
    /\ UNCHANGED <<game, effect, confirmed, last, count, falls, sends, moves, effects, reconnects>>
OnDeathLink ==
    /\ links < MaxLinks /\ links' = links + 1
    /\ IF place = "closed" THEN UNCHANGED <<ignore, tasks>>
       ELSE /\ ignore' = TRUE
            /\ \E k \in Kills : kill[k] = "off" /\ StartTask(k)
    /\ UNCHANGED <<game, effect, confirmed, last, count, falls, sends, moves, effects, reconnects>>

(* One turn of inject_death_until_confirmed up to its sleep: with a zero seen
   before, a positive health ends it; otherwise it pokes, whatever it read.
   Where the read fails, so does the poke. *)
PokeOf(k) == Poke(IF k \in lifted THEN "again" ELSE "link")

EndTask(k) == kill' = [kill EXCEPT ![k] = "off"] /\ lifted' = lifted \ {k}

MKillTurnStopsAtZero(k) ==
    /\ k \in Alive
    /\ \E h \in Readings :
         IF h = 0
         THEN EndTask(k) /\ UNCHANGED <<game, falls>>
         ELSE /\ UNCHANGED <<kill, lifted>>
              /\ IF h = Unknown THEN UNCHANGED <<game, falls>> ELSE PokeOf(k)
    /\ UNCHANGED <<effect, confirmed, watch, expired, sends, history>>
KillTurn(k) ==
    /\ k \in Alive
    /\ \E h \in Readings :
         IF h = 1 /\ kill[k] = "seen"
         THEN EndTask(k) /\ UNCHANGED <<game, falls>>
         ELSE /\ UNCHANGED lifted
              /\ kill' = IF h = 0 THEN [kill EXCEPT ![k] = "seen"] ELSE kill
              /\ IF h = Unknown THEN UNCHANGED <<game, falls>> ELSE PokeOf(k)
    /\ UNCHANGED <<effect, confirmed, watch, expired, sends, history>>

(* The deadline, half a minute after the link. *)
KillDeadline(k) ==
    /\ kill[k] # "off" /\ EndTask(k)
    /\ expired' = IF k \in Alive THEN expired \cup {k} ELSE expired
    /\ UNCHANGED <<game, effect, confirmed, watch, falls, sends, history>>

(* A death was seen: ignored once after a DeathLink, or counted and sent when
   the count is full.  If the sending raises, _last_health stays as it was. *)
MAccountForDeathLate ==
    \/ ignore /\ ignore' = FALSE /\ last' = 0 /\ UNCHANGED <<count, sends>>
    \/ /\ ~ignore /\ count < Threshold
       /\ count' = count + 1 /\ last' = 0 /\ UNCHANGED <<ignore, sends>>
    \/ /\ ~ignore /\ count >= Threshold
       /\ count' = 0 /\ UNCHANGED ignore
       /\ \/ sends' = sends + 1 /\ last' = 0
          \/ SendsMayFail /\ UNCHANGED <<sends, last>>
AccountForDeath ==
    \/ ignore /\ ignore' = FALSE /\ last' = 0 /\ UNCHANGED <<count, sends>>
    \/ /\ ~ignore /\ count + 1 < Threshold
       /\ count' = count + 1 /\ last' = 0 /\ UNCHANGED <<ignore, sends>>
    \/ /\ ~ignore /\ count + 1 >= Threshold
       /\ count' = 0 /\ UNCHANGED ignore
       /\ \/ sends' = sends + 1 /\ last' = 0
          \/ SendsMayFail /\ UNCHANGED <<sends, last>>

(* One turn of _health_watcher_loop. *)
MWatchHealthEveryZero ==
    /\ IF place = "closed" \/ ~confirmed
       THEN last' = Unknown /\ UNCHANGED <<ignore, count, sends, effect>>
       ELSE \E h \in Readings :
              IF last # Unknown /\ h = 0
              THEN effect' = "none" /\ AccountForDeath
              ELSE /\ last' = IF h = Unknown THEN last ELSE h
                   /\ UNCHANGED <<ignore, count, sends, effect>>
    /\ UNCHANGED <<game, confirmed, tasks, falls, history>>
WatchHealth ==
    /\ IF place = "closed" \/ ~confirmed
       THEN last' = Unknown /\ UNCHANGED <<ignore, count, sends, effect>>
       ELSE \E h \in Readings :
              IF last = 1 /\ h = 0
              THEN effect' = "none" /\ AccountForDeath
              ELSE /\ last' = IF h = Unknown THEN last ELSE h
                   /\ UNCHANGED <<ignore, count, sends, effect>>
    /\ UNCHANGED <<game, confirmed, tasks, falls, history>>

(* start_health_effect: a new effect takes the place of the running one. *)
StartEffect(kind) ==
    /\ effects < MaxEffects /\ effects' = effects + 1
    /\ effect' = kind
    /\ UNCHANGED <<game, confirmed, watch, tasks, falls, sends, links, moves, reconnects>>

(* A tick of _run_health_effect in a level.  Recovery adds health whatever it
   is.  Poison drains, which matters here at its lethal tick: one
   inject_death, and the effect is over. *)
EffectTick ==
    /\ place = "level"
    /\ \/ /\ effect = "heal" /\ Rises
          /\ IF hp = 0 THEN Moved ELSE UNCHANGED history
          /\ UNCHANGED <<place, dying, invincible, effect, falls>>
       \/ /\ effect = "poison" /\ hp = 1 /\ Poke("own")
          /\ effect' = "none" /\ UNCHANGED <<lifted, history>>
    /\ UNCHANGED <<confirmed, watch, kill, expired, sends>>

(* The last tick, or a tick without a process. *)
EffectEnds ==
    /\ effect # "none"
    /\ effect' = "none"
    /\ UNCHANGED <<game, confirmed, watch, tasks, falls, sends, history>>

Next ==
    \/ Die \/ Respawn \/ ToggleInvincible
    \/ Launch \/ LoadSave \/ QuitToTitle \/ Close
    \/ PollTitle \/ Connected \/ OnDeathLink \/ WatchHealth
    \/ \E k \in Kills : KillTurn(k) \/ KillDeadline(k)
    \/ \E kind \in {"heal", "poison"} : StartEffect(kind)
    \/ EffectTick \/ EffectEnds

Spec == Init /\ [][Next]_vars

(* The tasks keep being scheduled and a cutscene ends. *)
Fairness ==
    /\ \A k \in Kills : WF_vars(KillTurn(k))
    /\ WF_vars(invincible /\ ToggleInvincible)

FairSpec == Spec /\ Fairness

-----------------------------------------------------------------------------
(* What should hold. *)

(* "_ignore_next_death: ... so the health watcher doesn't observe that
   self-inflicted zero and broadcast it right back out": a fall of the health
   that a kill task caused is never counted as a death of ours, however many
   DeathLinks overlap each other, our own deaths and health effects; but a
   task under which the health rose makes a second fall, which may be. *)
NeverEchoed == [][(count' # count \/ sends' # sends) /\ ~Connects => cause # "link"]_vars

(* "only every Nth of OUR OWN deaths actually sends": what was sent and what
   is counted is covered by that many deaths of our own and second falls,
   whatever links, effects, reconnects and failed sends came in between. *)
PaidFor == sends * Threshold + count <= own + again

(* A kill that a cutscene refuses leaves the player "alive at 0 HP" only as
   long as a kill task is there to try again, or if the last such task met
   its deadline.  Poison, which calls inject_death once, is not retried. *)
NeverLeftAtZero ==
    place = "level" /\ hp = 0 /\ ~dying /\ cause # "own" => Alive # {} \/ expired # {}

(* Incoming DeathLinks "always kill us", also one that lands in a cutscene or
   beside another: a player who stays in the level dies, unless the deadline
   or a rise of the health under the task comes first. *)
KillLands ==
    \A k \in Kills : kill[k] = "unseen" /\ k \notin lifted /\ place = "level" ~>
        dying \/ place # "level" \/ k \in lifted \/ k \in expired

(* The kill loop "only ever stops early on a genuine respawn": a task that
   ends before its deadline is not one under which something else has made
   the health rise, leaving the player alive. *)
StopsOnRespawn ==
    [][\A k \in lifted : kill[k] = "seen" /\ kill'[k] = "off" => k \in expired']_vars
=============================================================================
