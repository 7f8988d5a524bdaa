# Shadow Man Remastered randomizer: specifications, checks and proofs

The repository turns Shadow Man Remastered into an Archipelago game. It shuffles
entrances, gates and items into a seed that can be finished, patches the game's
level files and executable, and runs a client (`src/apworld/client.py`, ten
thousand lines) that sits between the Archipelago server and the running game.
Three kinds of difficulty meet in it. The client is concurrent: asyncio tasks
share flags and cursors without locks and write another process's memory while
that process goes on, across lost connections, restarts, relaunches and a player
who saves, quits and dies when he likes. The generator is an algorithm whose
fallbacks (swaps, displacements, deferrals) must keep an invariant that no single
test shows. The patcher is a sequence of writes, any of which may fail, be
interrupted or find what an earlier run left. This project specifies the three in
TLA+, model-checks them with TLC and proves their safety properties with TLAPS. A line
number without a file is one of `src/apworld/client.py`, or of the file the
paragraph names.

## The system

| Part | State | Operations | What is hard |
|---|---|---|---|
| Item receiving | `_item_queue`, `items_received_index`, `_received_items`, the library's `items_received` | `on_package` 5759, `_item_inject_loop` 7240 | the whole list is resent on every connect; the cursor moves only after a pacing sleep |
| Item injection | the game's live inventory | `_inject_item` 7376, `inject_give_item` 3500, `set_dark_soul_count` 3627, `set_cadeaux_count` 3660 | native pickups change the same counters at once, their items come back from the server later |
| Title gate and replay | `_confirmed_in_game`, one task per replay | `_poll_live_memory` 6575-6598, `_replay_all_received_items` 8870, `/catchup` 4820 | replays overlap each other and the loop; the cached flag is up to a poll old |
| Gad and Poigne abilities | `gad_powers_received`, `_last_gad_resync_level`, four flags in the game | 4089-4373, 6705-6794, 7640-7763 | five writers of the same flags, none of which knows of the others |
| DeathLink | `_ignore_next_death`, `_own_death_count`, `_last_health`, kill tasks | `on_deathlink` 7077, `inject_death_until_confirmed` 4605, `_health_watcher_loop` 7106 | one flag for any number of links; a death is a fall seen between two looks a second apart; a cutscene refuses deaths |
| Health effects | `_active_health_effect_task` | `start_health_effect` 8513, `_run_health_effect` 8533 | ticks race the health watcher |
| Location detection | `_bookpos_next_index`, `_darksoul_flags_prev`, `current_level` | `_process_pickup_log` 6192, `_process_darksoul_watch` 6314, run by two loops 6468 and 6521 | two loops, no lock, a suspension in the middle; the game's log starts again with each launch |
| Check sending | `locations_checked` | `_send_location_checks` 7198, `_send_location_checks_ap_ids` 7225, the resend at `Connected` 5834 | a location is marked before it is sent |
| Save-folder watcher, live inventory, light soul, life altars | per-slot baselines, latches | 5989, 6929, 6972, 6909 | saves read while written; a flag the client itself sets |
| Trap and bonus effects | `_active_secret_trap`, its revert task, `_secret_trap_debounce_task`, the hold tasks | `_apply_trap_bonus` 8128, `_apply_trap_bonus_now` 8190, `_revert_secret_trap` 8427, holds and drains 8675-8868 | tasks that cancel and replace each other; a sleep in the middle of a switch; reverts that come due anywhere |
| Overlay | a socket, `overlay_dll/src` | `_OverlayIPC` 2018 | connect and retry |
| Remote execution | none | 1841-2510, 3163-3395 | Windows calls, shellcode |
| Region graph and rules | the seed's options, `gate_remap` | `regions.py`, `access_rules.py`, `constants.py` | the same world written twice, as a graph and as closed rules |
| Entrance and gate shuffle | `outbound`, `temp_map` | `shuffle_unified` (`randomizers/entrance_randomizer.py` 301), `_shuffle_gates` (`fill.py` 362) | circular dependencies; caps applied one after another |
| Fill | `placement`, `item_pool`, `unplaced` | `assumed_fill` (`fill.py` 928), `simulate_playthrough` 759, `validate_fill` 1587 | an item may take the slot of a placed one; a loop over a list it appends to |
| Exe patches | sections, headers, padding of one file | `exe_patches/`, Step 7 of `patcher.py` 2384 and `ap_patcher.py` 1843 | fifteen modules, addresses chosen by hand, a header budget of four sections |
| Installer | `thoth_x64_patched.exe`, `mods/*.kpf`, work directories, `kexengine.cfg` | `run_patcher`, `apply_ap_seed.py`, `kpf_handler.py`, `--restore` | nothing is undone when a run stops; the game may be running |
| Enemy, sound, music, sky shuffles | - | `randomizers/` | cosmetic for the rules |
| GUIs, tools | - | `gui.py`, `ap_gui.py`, `tools/` | - |

The client's tasks are those that `main` starts (10082): one loop for items, two
for memory, one for health, one for save files, one for the goal, plus the
library's server loop and the tasks that handlers create (a replay, a kill, a
health effect, a debounce, a revert, a hold). They share one `ShadowManContext`
and run on one event loop, so a piece of code between two `await`s is one atomic
step. The game is not: it moves between any two steps. In the models of the
client every action is one such piece, and the game's actions interleave with
them freely. The generator is sequential: it first shuffles entrances, then
gates, then fills, and what the models leave open there is every random choice.
The installer is sequential too, but each of its writes is an action, because a
run may end between any two of them and the player may start the game.

What makes each part correct. Client: items are handled in order, none is skipped
and all are handled in the end; the live inventory and the abilities end up equal
to what was received and never exceed it; an incoming death kills and is never
sent on, and only our own deaths are counted; every pickup is found and what was
checked reaches the server; no secret is left on without a
way back, and a drain is not undone by an older hold. Generator: the closed rules
say what a walk over the graph finds; no seed seals a region; no fallback loses an
item; what is placed stays reachable; the sweep ends; an accepted seed can be
finished. Patcher: patches do not spoil one another's bytes, the image loads, each
hook leads to its own code, one failure takes nothing else with it; there is one
archive, of one run, and what a run says it did is what the player has. Where the
code does less than that, or than a comment says, a property states what it does do,
and a run of its own shows the rest to be violated (see Runs).

## Modules

### The client

`InOrderDelivery` is the abstract specification of item receiving: a growing
list, and a client that handles an item only after all earlier ones.

`ItemPipeline` is the client's side of it. `sent` is the server's list, `net`
the ReceivedItems packets, `rcvd` the length of `items_received`, `queue` the
`_item_queue`, `index` is `items_received_index`, `received` is
`_received_items`, and `working` the item whose pacing sleep is running.
`OnReceivedItems` is the handler with its filter (5840-5845), `TakeItem` the
loop's turn up to the sleep and `FinishItem` what follows it (7289-7313).
`LoseConnection` drops the packets and empties `rcvd`: `connection_closed` (5749-5756)
calls the library's, which resets what it had received, while the client's queue,
ledger and cursor stay. `RestartClient` drops everything the client knows. Items are
positions in the list: nothing here depends on what they are.

`GameSession` is the game as the client sees it: closed, at the title, in
between (a title read that is neither yes nor no), in a level; an inventory
that lives while a save is loaded; native pickups; a save file. It models no
file of the repository, only what the client's reads and comments say of the
game.

`ItemDelivery` composes the two and adds `_inject_item`, the title transition
and the replays. Four kinds of item stand for the branches of the dispatch
(7577-7834): `soul` and `cadeaux` are written as absolute targets computed from
the received list, `stack` is given while the live counter is below the target,
`flag` while it is clear. `replay` holds for each replay task the ledger entry
it does next. `owed` are pickups whose check has not reached the server, and
`ReportCheck` turns one into an item of our own. A warp between levels always passes
through the place where the title read is unclear, and nothing makes the memory loop
look at the title before the next save is loaded. `amiss` is a history variable: the last
cadeaux write was computed from the list a lost connection emptied (`Wrote`), or was
left out while the client takes the player to be in a level (`LeftOut`); the next
write from a list that is there, or a new replay, clears it.

`GadAbility` composes `ItemPipeline` with the abilities. `live` is what the
flags GAD_1..4 say, a tier and the Poigne; `Encode` and `Decode` are the level
the game keeps beside them. Its writers: `HandleItem` (the loop: a Gad Power
raises the tier, never below what is live, 4296; a Poigne forces the tier to the
count the client trusts, 4365), `ReplayTurn` (resets that count and counts it up
again across its sleeps), `Sweep` (on a level change, part of `Poll`),
`NativePickup` (the stub of `exe_patches/gad_pickup_patch.py` 258) and
`LoadSave`. `grace` is the five seconds after `Connected` in which nothing is
applied at once and no Poigne is cleared. The 0.3 second debounce of the native
call is covered by `Applied`, whose outcome the game decides. The count of
received Gad Powers is taken from `items_received` as the code does, not from the
ledger, so it is zero between a lost connection and the resend. `amiss` is as in
`ItemDelivery`, for each of the two kinds.

`DeathLink` is the flag, the count, the kill tasks, the health watcher, and the
poison and recovery effects, which run beside the kills. Health is zero or not; of a
health effect's ticks only those that lift the health from zero or bring it there
matter. A kill task is `unseen` until it reads a zero, then `seen`; `stale` when its
process is gone; `KillDeadline` ends it at any moment. A poke zeroes the health
wherever it can be read, in a level or not, and only the death is refused. `cause`,
`own` and `again` record whose doing the falls to zero were (`again`: a task's second
fall, after something had lifted the health), `lifted` the tasks under which the
health rose without a respawn, `expired` the tasks that met their deadline.

`CheckReporting` follows a pickup to the server: the game's append-only log and
its array of collected souls, the cursor and the previous array that both loops
share, `locations_checked`, and a connection that is `opening` until `Connected`
arrives. `Poll` is one turn of a loop; when its send suspends, `Resume` goes on
to the array with the level read before. `Launch` starts the log again and leaves the
cursor where it was; `counted` is a history variable, how far the loops had looked in
the logs of earlier launches. `SlotOf` is a location's instance id:
a soul's id is its index in the game-wide array and may be another location's id
in another level (in `data/locations.csv` it often is).

`TrapBonus` is the tasks behind a trap or bonus item. `pending` is the debounce
task, `gaps` the applications that sleep between switching one secret off and
the next one on, `active` and `revert` the recorded secret and its revert task,
`reverts` the revert tasks alive, `slot` and `holds` the same for the holds.
`Receive` is `_apply_trap_bonus`, `DebounceOver` the application up to its
first sleep, `GapOver` the rest. Only the debounce and the gap race each other
(0.5 and 0.15 seconds), so only they have a clock: `Tick` counts both down, and
not while something is due, because asyncio wakes sleepers in the order of their
deadlines and the gap's is set first. Durations, ticks of a hold and polls end
at any moment. What the dice of an item decide (which secret, temporary or
permanent) is part of the item. The meters are at their cap or not. `cfg` are the
secrets in `kexengine.cfg`: a quit writes what is on, a crash leaves the file
(`Close`), and `Launch` switches on what it says. `back` is a history variable, the
secrets a launch brought back that no task answers for.

### The generator

`WorldRules` is the world of a seed, twice. `Connected` and `Walk` are the graph
`create_regions` builds (`regions.py` 192-311) and the reachability the library
computes over it; `LevelRules` are the closed rules `build_level_rules` returns
(348-497), by which `fill.py` decides where an item may go. Both use the item
rules, gates and gate dependencies of `access_rules.py`. A player is a record
`st` of counts, souls, retractors and the levels whose retractor he has; a
shuffle is the function `out` from portals to the portals whose spokes they lead
to.

`SeedOptions` makes the seed, `stage` by stage: `ShuffleEntrances` (the
permutations `shuffle_unified` draws from, for both modes), then `ShuffleGates`
(presets, and for a shuffle every arrangement of the pool of levels followed by
`CapAll`, the caps and their swaps in the code's order; `Rank` is a gate's place in
the list that is zipped with the pool, `First` the swap partner the loop meets
first), then a player who gathers items in any order, on whom the rules and the
walk are compared. Its specification is `SeedSpec`.

`Playthrough` is `simulate_playthrough` by spheres over one world: what a player
holds who takes everything he can reach, sphere after sphere, until a sphere
brings nothing.

`AssumedFill` fills one of a few small worlds. `front`, `pending` and `back` are
`item_pool` from the current position on: items swapped in at once, those still
in their bands, those appended. `Attempt` is one iteration of the loop: the soul
swap (`fill.py` 1394-1413), the displacement of a neutral or of a logic item
(1416-1466), the deferral (1471-1476), the placement or the report of an item
without a slot. `Candidates` are the slots the code may choose; its weights are
left out, so any of them may be taken. `Simulate` (of `Playthrough`) is run on
every iteration as the code does. `FillFiller` places cadeaux and
barrels, which are only counted, `Validate` is `validate_fill` and the retries of
`run_patcher`. `validate_fill` always simulates with `shuffle_gad_temples=False`
(1622-1632), and so does `Validated`. What a seed is worth is judged by another
player, who knows nothing of spheres or closed rules: he walks the region graph of
`WorldRules` (`Seen`), takes one location after another, and takes the gad powers of
the temples he has seen (`TempleGads`); `Collected` is what he ends with.

### The patcher

`ExePatches` is the executable as the patches of the two pipelines see it. `Sites`
gives, per patch, the byte ranges it checks and writes; what the bytes mean is left
out. The section patches keep their arithmetic: `sections` are the appended sections
with their page, used and raw length, `target` where each hook leads.
`CopyExe` starts a pipeline on a fresh copy, `todo` are the patches it has yet to
try and `Order` their order; `Apply`, `Refuse` and `Deny` what happens
to the patch at the head: it finds its bytes and room, or does not, or the file is
locked. `Tolerated` and `Caught` are the patches whose failure the run survives;
any other failure ends it. `odd` is a patch whose bytes the exe at hand does not
have. `HandApply` and `HandRevert` are the tools' `--apply` and `--revert`, the secret
poller's included; `stray` is a history variable, that its sections were put behind
others that way.

`Install` is a game directory: `exe`, `mods`, `cfg` (one setting of
`kexengine.cfg`), `dirs` (work directories and whose patches are in them), the
running `game`, and `run`, the process that runs or ran last with its program
counter. Every write of `run_patcher` that something else may see is an action;
`Interrupted` ends a run between any two. What a run writes is identified with the
run's number. Windows keeps the file of a running program: `Denied` is what each
pipeline does about it.

`MCItemDelivery`, `MCCheckReporting`, `MCGadAbility`, `MCSeedOptions`,
`MCAssumedFill` and `MCInstall` hold the values TLC is given. The `..._proofs`
modules hold the theorems. A definition whose name begins with `M` and the name of
an action or operator (`MTakeItemPeeks`) is a plausible bug in it; putting it in
place of the original must violate a property.

## Runs

Passing runs:

| Run | Shows |
|---|---|
| `item_delivery` | refinement of `InOrderDelivery` (`DeliversInOrder`), `NothingSkipped`, `CaughtUp`, `OnceUnlessDropped`, `EverythingHandled`, `NothingOverGranted`, `CadeauxSettle`: two items of a counter item and a bundle worth two from other worlds and one of each of our own, a replay, a loss or restart, three moves of the player, warps included; 807072 states |
| `gad` | `GadSettles`, `NeverBackward`: a Gad Power or the Poigne in our world, the other from elsewhere, one replay, one loss or restart, three moves; 3.7 million states |
| `deathlink` | `PaidFor`, `NeverEchoed`, `NeverLeftAtZero`, `KillLands`: two kill tasks with deadlines, two links, an own death, a health effect, two moves, a reconnect, failing sends; 982688 states |
| `reporting` | `MarkedIsOnItsWay`, `OnlyRecountedMissed`, `EveryCheckArrives`: two levels, two loops, three loads, two launches, two lost connections; 449936 states |
| `trap_bonus` | `NothingLeftOn`, `DrainSticks`, `SupersedeLands`, `TemporaryEnds`: two secrets, one of them perhaps in the settings from the start, a meter, three items or commands, five moves of the player, quits that write the settings or not, a client restart |
| `seed_options` | `RulesMirrorGraph`, `NoRegionSealed`: every shuffle of six portals, every arrangement of four gates, five presets, both entrance modes; a player with any mix of four items and five soul levels where entrances are not shuffled, of the Engineer's Key, a key and two soul levels where they are; 78463 states |
| `assumed_fill` | `NothingLost`, `PlacedStaysReachable`, `AcceptedIsBeatable`, `CadeauxKept`, `SweepWindsDown`: five worlds, every order of the queue, every choice; 25845 states |
| `exe_patches` | `SitesApart`, `ImageLoads`, `HooksLeadHome`, `AllIn`: two pipelines, every set of options, five ways for the exe to be another, a locked file, three steps by hand; 155584 states |
| `install` | `OneMod`, `PureMod`, `SaidIsDone`, `DryRunHarmless`: three runs of two seeds, dry and not, interrupted anywhere, the game started twice; 4.8 million states |

### Where the code and its comments disagree

What a comment, a message or the README says of the program is stated as a property
here, in a configuration of its own in which TLC finds it violated. Three of them are
runs of `PROJECT.json`: `soul_order`, `gad_seed` and `secret_by_hand`. The others are
run by hand (`tlc -config relaunch.cfg MCCheckReporting`; the module is named in the
table).

| Configuration | Property | Says | Does |
|---|---|---|---|
| `soul_order` (`MCItemDelivery`) | `SoulOrderIrrelevant` | 7584: "Idempotent regardless of how many times this fires or what order items arrive in" | a foreign soul handled between a native soul pickup and that pickup's item writes a target without it; the count stays one short |
| `gad_seed` (`MCAssumedFill`) | `EverySeedIsBeatable` | `src/README.md` 68: "Assumed-fill guarantees all seeds are beatable before patching" | with gad powers as items `validate_fill` still grants the temples' (`fill.py` 1628), and accepts a seed that left one out |
| `secret_by_hand` (`ExePatches`) | `Loadable` | `secret_mode_section_patch.py` 724: appending at the file's actual length is "safe either way" | behind other sections its fixed addresses are wrong, and Windows refuses the image |
| `auto_apply` (`MCItemDelivery`) | `Converges` | 7550: "queued. Will auto-apply once you're in a level" | an item handled during a level transition is dropped; `_confirmed_in_game` is still set, so no replay follows until `/catchup` or the title |
| `reconnect` (`MCItemDelivery`) | `ReconnectsStaySafe` | 7365: "always recomputed fresh from the full items_received list, never incremented, so replays/reconnects stay safe" | an item still queued when the connection is lost is handled against an emptied list, and the resend filters it |
| `false_confirm` (`DeathLink`) | `StopsOnRespawn` | 4642: "the loop only ever stops early on a genuine respawn" | a recovery tick after a refused poke looks like a respawn; the loop ends and reports a confirmed death |
| `relaunch` (`MCCheckReporting`) | `EveryPickupFound` | 6071: the pickup log "covers marker pickups whenever the game is hooked" | the cursor outlives the game process; the first pickups after a relaunch are never read |
| `secrets_stack` (`TrapBonus`) | `OneAtATime` | 8354: "shut it off first so effects never visually stack" | a secret the settings file brought back is recorded nowhere, and the next one comes on beside it |
| `secret_revert` (`TrapBonus`) | `RevertIsHarmless` | 8434: "there's nothing live to revert and this is a harmless no-op" | the game wrote the secret to its settings when it closed, and starts with it; nothing switches it off again |
| `shuffled_rules` (`MCSeedOptions`) | `RulesOpenNothingMore` | `regions.py` 337: "identical to vanilla and composed the same way" | a shuffled soul gate's rule (415) is its level's completion rule without the way into that level; the graph asks for both |

For each of these a passing run says how far the code does go. `CadeauxSettle` and
`GadSettles` hold but for a write that was left out or read the emptied list;
`OnlyRecountedMissed`, `NothingLeftOn`, `TemporaryEnds` and `ImageLoads` name exactly
the pickups, secrets and images that are lost; `NeverLeftAtZero` and `KillLands` name
the risen health; `RulesMirrorGraph` and `AcceptedIsBeatable` the seeds for which rules
and walk, validation and player agree. The other half of the message at 7550 ("or use
/catchup") is `CatchupRepairs`, which `catchup.cfg` checks, also by hand.

The client's bounds. Two items are one in hand and one queued, or one handled and its
duplicate; three moves are launch, load, and a warp, a quit or a close. What more items,
losses, moves and replays that overlap each other could add is covered by the proofs,
which bound none of them: all safety properties of this run are theorems. Two kill tasks
are enough for an overlap, two links for a flag that is used up too early, a death and a
second fall reach the threshold of two. Three items are a secret that is on, one in its
gap and one that interferes, and five moves are launch, enter, close, launch, enter: a
revert that finds the game closed and the session after it. A debounce of two ticks and
a gap of one keep the order of the real ones. Two pickups put one in each look, two
launches a log below the cursor, three loads one on each side of a relaunch and one
more. In `gad` three moves are load, warp, warp or load, quit or close, load, and two
items are a Gad Power beside a Poigne or beside another: a count reset to zero, a
correction in between and a sweep to repair it.

The generator's bounds. `MovedPortals` and `MovedGates` are the portals and gates a
shuffle may move; the rest stay in place. The six are a plain spoke, the Asylum,
two temples and two soul gates, one of them Salvage, so both constraints of
`cross_hub` bite; the four gates are two the caps are about and two they may swap
with. `Gathered` and `Stops` are the items and the soul counts at which a player
stops; with shuffled entrances they are those on which a soul gate's completion rule
and the way into its level may part. The worlds of `assumed_fill` each take a few locations of the real table
with their regions and rules: `GatesWorld` has vanilla gates and too few open
slots, `NightWorld` all gates open and the liveside limits, `GadWorld` gad powers
as items with their temples, `PowerlessWorld` gad powers as items and two souls that may
take the only slots a power fits, `TightWorld` more key items than open slots.
`MaxDisplacements` is 200 in the code and 2 here, so that it runs out;
`MaxAttempts` is 5 or 40 and 2 here. Items that the code cannot tell apart are
taken in one order (`Foremost`).

The patcher's bounds. `SecretCode` is the length of the code of the secret section.
The code is always the same, and its length is not written down in the repository, so
both cases are taken: 1400 bytes leave room in the page for the pistons cave, 1500 do
not, and another host is found. `OddPatches` are one patch per way of failing,
`HandTools` the tools used by hand (one per kind: the two section patches, the one in
their slack, the cave), `MaxHand` how often: a revert, an apply and one more. `MaxRuns`
of three are an earlier run, an interrupted one and its repetition; `MaxPlays` two.

Every bound is a constant that guards the actions it counts. Every run sets
`CHECK_DEADLOCK FALSE`, because when the bounds are used up the player, the server
and the network may stop, as they may in life, and a fill or a run of the patcher
ends.

### Other disagreements met while modelling

They have no property of their own. In the client:

- 7137 says ignored deaths are "our own reaction to an incoming Death Link, not a
  new death of ours": a link that causes no visible fall leaves
  `_ignore_next_death` set for our next death.
- 581-586 says the soul array needs no "rebaselining": loading a save in a
  relaunched game flips entries of all levels, each looked up in this level.
- `options.py` 780-782 says a permanent secret "reverts on its own the next time
  you receive ANOTHER trap that happens to roll the same secret"; `SwitchOn`
  (8377-8396) leaves it on and a different secret is what ends it.
- A lethal poison tick in a cutscene calls `inject_death` once (8650) and logs
  "triggered a real death": the death is refused, nothing retries, and the player
  is "alive at 0 HP", the state 4631-4640 describes.
- The pickup stub adds one to the level without a bound (`gad_pickup_patch.py`
  258): at tier three, a Gad Power picked up a second time makes it the encoding of
  the Poigne alone.

In the generator:

- A second Gad Power as an item cannot go to the slot of the Temple of Prophecy,
  whose rule needs what the item gives. Slots that ask for 666 cadeaux are always
  reserved (`fill.py` 666), although the rule they ask for is TRUE
  (`access_rules.py` 341-345). `unique_retractor_keys` together with
  `all_retractors` never validates.

In the patcher:

- `patcher.py` 2546 says of the pistons patch "No try/except: the seed logic
  assumes N, so a failure must stop the run": a PermissionError is caught at 2553
  and the run goes on to install the archive and to print that the seed has been
  bound, over an exe that may be stale or half patched.
- `README.md` 81 and 351 and `docs/TECHNICAL.md` 107 say that `--restore`, or
  deleting the archive, brings the vanilla game back: the patched exe stays, and
  `g_deadsidegunmode` is only ever switched on.
- `kexengine_cfg_patch.py` writes a file the running game writes over when it
  quits: the toggle is lost without a message.
- `apply_ap_seed.py` 168 makes a directory of the very name the run wants for its
  work, so the run takes the next one and the logs are not where 186 says.
- In loose-file mode (no archives) a dry run writes the levels before it prints
  that "no files were changed" (`patcher.py` 2262), and a second seed is patched on
  top of the first.

### What the passing runs assume

`DeathIsLong`: a death lasts longer than a poll of the loops. `SavesBeforeLeaving`, and
the same in `gad`: the player saves before he leaves; otherwise a pickup that was
checked can be made again, and the counters are off by it. The exe is vanilla but for
the bytes of one patch, its sections other than `.text` are not executable, and nothing
else writes to it. `CheckReporting` takes the array of collected souls as empty before
a save is loaded, and its locations' ids as distinct within what a soul can flip.

### Fairness

`PipeFairness`, `Fairness` in `ItemDelivery`: weak fairness of what the event
loop runs when it is ready (the handler, the loop, the replay, the title poll)
and of reconnecting, which the library does by itself. `DeathLink`: kill tasks
keep being scheduled until they end, and a cutscene ends. `CheckReporting`: the
connection is opened again, `Connected` follows, messages arrive. `TrapBonus`:
tasks that are due run, and the poll looks; `TemporaryEnds` asks of the player that
he does not stay outside the levels for good. Nothing is assumed of the player, of
the server's will to send items, or of the network: losses are finite because they
are bounded, which is the assumption under which eventual delivery can hold at all.
A kill task may meet its deadline at any moment: `KillLands` promises the death unless
that comes first, or the health rises under the task (`expired`, `lifted`).
`CatchupRepairs` promises what one replay repairs unless something new comes up while it
runs.

`GadAbility`, the generator and the patcher state no fairness. That the fill ends is
the action property `SweepWindsDown`, a measure every iteration lowers; that the
abilities settle is `GadSettles`, a state property of the moments when nothing is
left to do.

## Proofs

TLAPS checks the theorems for all constants that satisfy the modules' `ASSUME`s.

`ItemPipeline_proofs`. `NothingSkipped` and `CaughtUp` are not inductive: that
the cursor never passes an unhandled item depends on packets not yet received.
`PipeInv` says that the ledger holds exactly the positions below the frontier,
that the queue starts at or below the frontier and never jumps forward by more
than one, that the packets continue the queue and one another, and that while
connected the last of them ends where the list ends. Every action keeps it
(`PipeInvariant`), and `NothingIsSkipped`, `DrainedMeansCaughtUp`,
`ItemsHandledInOrder` and the refinement `PipelineDeliversInOrder` follow.

`OnceUnlessDropped` needs more: without a loss or a restart the ledger, the
queue and the packets are consecutive pieces of the server's list (`Straight`),
so a position taken is never taken again (`HandledOnceUnlessDropped`).
`KnownIsSent` and `KnownIsWhole` say what the library's own list holds: it is empty or
has all that was ever queued, empty while the connection is down, and whole once the
first packet of a connection has been handled.

`ItemDelivery_proofs`. Every step of the composed system is a step of the
pipeline or leaves it alone (`DeliveryImplementsPipeline`), which carries the
pipeline's guarantees over (`DeliverySkipsNothing`); types (`TypeCorrect`).
`NothingIsOverGranted` assumes `SavesBeforeLeaving` and nothing else. The property
speaks of the live counters; `Backed` adds that the saved ones are covered too, by
what was granted and by the locations that save counts as emptied and that are not
checked yet (`Covered`), that a location checked or owed is empty in the game the
player is in (`ChecksHold`: here the saving before leaving matters), and that only
finitely many were emptied. A pickup adds as much to one side as to the other, a
check moves its location from the pickups to the grants, a replay writes no more
than was granted, and a load goes back to a save that was covered.
`CadeauxHaveSettled` assumes `SavesBeforeLeaving` and `CounterFits`: the code clamps
the counter at 666, the number of cadeaux there are, so the worth of all items sent
must not exceed it. `CadeauxThere` says that in a confirmed level the counter is what
was handled, unless a write was left out or read an emptied list (`amiss`) or a replay
is still to come; with `KnownIsWhole` a write that reads a list at all reads the whole.

`GadAbility_proofs`. The composition implements the pipeline
(`AbilityImplementsPipeline`), so the pipeline's invariants hold of it.
`NeverBackward` rests on `Earned` (`NothingUnearned`): the tier in the game, the tier in
the save, the client's count and what a replay keeps are at most the Gad Powers
granted, plus one while the player's own pickup is still owed to the server; so a
write of what was received never lowers a flag, except in the Poigne correction
(`TemplesStay`). `GadSettles` rests on `Restored` (`FlagsRestored`): in a confirmed
level the tier, the count and the Poigne are at least those of the items handled,
unless a replay still owes one (`Debt`), and there is no Poigne in game or save
that was neither received nor picked up and owed. Every action keeps the flags or
leaves a debt, and when everything is done there is none: with `Earned` the flags are
then exactly what was received (`GadHasSettled`). An emptied list is one more debt
(`amiss`); nothing is assumed of the library.

`DeathLink_proofs`, for any number of tasks, links, effects and reconnects, with
deadlines and failing sends. The invariant: while a kill task under which nothing has
lifted the health may still make it fall, or a fall made by one is still unseen, the
flag is up; and `sends * Threshold + count`, plus one while a fall of our own or a
second fall is unseen, is at most `own + again`. Hence `SentDeathsArePaidFor` and
`LinksAreNotEchoed`, which assume `DeathIsLong`. `TypeCorrect` and `ZeroHealthIsRetried`
assume nothing: a health that a link zeroed belongs to a death in progress or to a task
that has not seen one (`Retried`), unless the task met its deadline.

`CheckReporting_proofs`. `MarkedIsOnItsWay` is inductive with the types: marking
and sending are one step, a lost connection takes the link down with the
messages, and the link comes up only with a resend of everything marked.
`LooksFindEveryPickup` proves `OnlyRecountedMissed` for any number of launches: the
cursor is never above both what the loops have looked at in this log and how far they
had come in an earlier one (`CursorFollows`).

`TrapBonus_proofs`, for all secrets, meters, durations and numbers of items and
restarts. `NothingLeftOn` rests on time: `GapEndsFirst` says a sleeping request has
more time left than any gap, which a new request re-establishes because
`Gap < Debounce` (`GapAssumption`) and every tick keeps. So no application starts
in another's gap (`OneGap`), in a gap nothing is recorded (`GapIsQuiet`), and what is
on is recorded or was brought back by a launch (`OnIsRecorded`); what is recorded is
permanent or has its revert task (`RecordedHasWay`). It assumes nothing of the settings.
`DrainSticks` rests on `LiveHoldIsRecorded`: a hold that is not cancelled is the
recorded one, so a drain cancels it; the identity check in `finally` (8779) and
distinct task ids keep it. `SupersedeLands` holds because nothing but its own
end and a restart removes an application from its gap.

`Install_proofs`, for any set of seeds and any number of runs and plays. Of the
four properties only `PureMod` could be inductive by itself, and it is not: what
an archive will hold is decided two steps earlier, by the directory. `InstallInv`
adds what a run in progress knows: its directory was empty when it was made and
holds its own patches since (`DirIsOwn`), a dry run has no steps but the two on
level files and a restore none but the removal (`Route`), the executable is its
own from the copy on unless a write was denied (`ExeIsOwn`), the archive it
opened is the only one (`OneArchive`, `ModIsOwn`), and the guns it switched on
stay on while no game runs (`GunsStay`). That the directory is new is a
pigeonhole argument over the finitely many existing names (`WorkDirIsNew`).
`NeverTwoArchives`, `ArchivesArePure`, `WhatIsSaidIsDone` and
`DryRunsAreHarmless` follow.

`Install_proofs` also proves `ExePatches`, for every set of options, any length
of the secret section's code that fits its page, any tools and any number of steps
by hand. That no two of fifteen patches touch the same byte would take a
comparison of every pair of ranges; `Owner` names one patch for every byte of the
file instead, so that it is enough to look at each patch alone (`PatchesNeverClash`).
`AllIn` speaks of the finished file, and `HooksLeadHome` of code that a later patch
may extend or write over; `PatchInv` is what holds on the way: the patches
of a pipeline come in its order (`InOrder`), a section patch whose turn it is finds
the header room and the vanilla bytes it looks for, because what precedes it is
known (`Running`), which sections have been appended and where the code is that
the folder patch extends (`Shape`), and that each selected patch is in, still to come, or
lacks its bytes (`Promised`); `Mapped` says where the hooks of applied patches
lead. `HooksAlwaysLeadHome` and `EveryPatchIsIn` follow.
`ImageStaysLoadable` assumes nothing of the tools: as long as the poller's sections
were not put behind others (`stray`), the sections are gapless.

`WorldGeneration_proofs` is about `AssumedFill`, for every set of worlds and any number
of displacements and attempts, and about `SeedOptions`, for every set of seeds,
portals and gates that move, and items gathered. `WorldsAssumption` is all that is
needed of a world to lose nothing: the items come out of slots
that are neither barrels nor cadeaux (`build_item_pool` takes them from there),
and one Engineer's Key at most, which is no soul (the pool's uniqueness audit raises
otherwise). `NothingLost` is not inductive: a soulswap takes the soul out of the
part of the queue the sort left, and would double one that a fallback had moved.
`Kept` adds that none ever is: what is moved is blocked, neutral or displaced,
and a soul is none of these. It speaks of the queue as a whole (`Sound`, `Queued`), so that
each fallback has one lemma, what it does to the queue (`SoundWithout`, `SoundSwap`,
`SoundRequeued`), and one, what it does to the invariant (`PlaceKeeps`,
`DisplaceKeeps`, `DeferKeeps`, `NoSlotKeeps`); `NoItemLost` follows. `NoCadeauLost`
counts: placements are one-to-one, so no more slots are taken than there are items.
`SweepEnds` shows that an iteration which takes its item off the queue lowers
the items queued or the logic items queued (`TakenOff`), a displacement uses one up
(`UsedUp`), and a deferral moves its item behind a logic item (`MovedBack`).

`GraphIsMirrored` compares two programs. A region is in the closed rules for a
reason that `RulesAre` gives for each of the 25, and no connection of the graph
leads from a region the rules open to one they keep closed (`RulesFollowGraph`);
so every stage of the walk stays within them. Where nothing is shuffled the walk
reaches each of those regions by its sixth stage (`RulesWithinWalk`). Where entrances
are shuffled it does so too, unless a soul gate's completion rule is met before its
level is reached (`RulesWithinShuffledWalk`): a chain of shuffled soul gates then ends
at a deadside portal, and the Asylum, on which all of them rest, is entered from
Deadside (`OutOfDeadside`). The invariant is that the entrances drawn lead portals to
portals and none of the soul gates to the Asylum (`Drawn`).

`NothingIsSealed` joins two invariants. The entrances stay a permutation with a coffin
gate before the Asylum and, unless gad powers are items, no temple behind Salvage
(`Entered`): both are what the two special deals of `cross_hub` are for. And no gate
that stands before a region asks for more than level 9 under a safe preset
(`LowGates`). That is the hard part: one cap's swap could undo another's. With
the pool as it is spaced only its last value is rounded to ten (`PoolIs`, from the
bounds of `RoundedQuotient`; it takes no more than eighteen gates), only one
gate stands last (`RanksAre`), so at most one gate is above nine and stays the only
one under swaps (`OneAboveNine`, `CapKeeps`), and since La Lune and La Lame are never
locked there is always a partner. With such gates and entrances the walk sees
everything but what is behind Salvage, hence the temples, one after the other, hence
everything (`WalksEverywhere`, `EverywhereInTheEnd`).

`PlacedIsReachable`: the sweep puts an item where the simulation reaches without it,
and may later displace what the argument for another item rested on. The inductive
invariant is `Kept` with `PlacedStaysReachable` itself. To carry it over a step, the
simulation of the old placement is shown to stay, sphere by sphere, within what
the simulation of the new one ends with (`SphereWithin`, `SimulationWithin`): every
rule, the open gates and the regions grow with what is held (`Below`), and what a
simulation holds is accounted for slot by slot (`Accounts`), so that the slots whose
item changed can be set apart. Another sphere would add nothing to that end
(`SimulationEnds`), because each but the last adds a location, a region or a grant
and `SphereBound` counts them. An item no rule asks for may be moved at will
(`NeutralIsInert`), for any other the code has made the trial the proof needs
(`FitReaches`, `DisplaceReaches`). `WorldTypes` is assumed: types, and
that an item of a category without logic is of no kind a rule asks for (the schematic
apart, which the code treats so), both read off `constants.py`'s item table; that
no item is a gad power, and none is held from the start, unless gad powers are items,
because `run_patcher` refuses the bundle `all_gad_pickups` otherwise (1947-1956).

`PlacedIsCollected` and `AcceptedCanBeFinished` go from the simulation to the player.
Every state of a simulation is compared with what he holds in the end (`Taken`): the
regions by `GraphIsMirrored`'s lemmas, the items because he has stopped taking
(his collection is closed, `CollectedCloses`, by a count of the locations left),
the gad powers of the temples because three walks settle them (`GadsSettle`). So
what the simulation reaches he has taken. `PlacedIsCollected` holds for every
world; `AcceptedCanBeFinished` for worlds whose gad powers are not items, because
`validate_fill` grants the powers of temples in any case: where they are items and
one of them was reported as not placed, the simulation it accepts by is more
generous than the game, as the run `gad_seed` shows.

Only model-checked:

- what must eventually happen (`EverythingHandled`, `CatchupRepairs`, `KillLands`,
  `EveryCheckArrives`, `TemporaryEnds`): liveness under fairness is out of the
  prover's reach;
- `AcceptedIsBeatable` for worlds whose gad powers are items and all have a slot;
- the properties of the table of disagreements, which the code does not have.

## Not modelled, and why

- Memory access and shellcode are atomic reads and writes here: a call that
  fails changes nothing, and exceptions out of `_inject_item` (7240 has no
  handler) are left out. A reading outside a level fails or returns what was
  left, never garbage. Retried reads of a Windows process and logging are I/O.
- The save-folder watcher, the live inventory, the light soul and the life
  altars are further detectors of the checks `CheckReporting` follows from
  detection to the server; each compares readings of the game with latches of
  its own, and what a save read in the middle of a write contains is not to be
  had from the code.
- The overlay, the GUIs and the tools show or convert things and decide nothing.
- `apworld/__init__.py` and its siblings hand rules, pools and options to the
  Archipelago library, whose fill is not in the repository. The standalone
  generator, which states the same regions and rules and has its own fill, is
  what is modelled.
- The enemy, sound, music, sky and ambience shuffles change nothing that the rules
  read. Level files are opaque: which bytes a record has is not modelled.
- Loose-file mode (a game unpacked by hand), `live_patch` and the guns of
  `deadside_guns` are left out of `Install`.
- Weights, spoiler log and hints: any candidate may be chosen, nothing is told.
- The location, enemy and text tables (`extracted_*.py`, `data/`), several tens of
  thousands of lines, are data. The worlds of the runs take a few rows of them.
  They are most of the repository's lines, and the reason why the lines the
  models stand for are a small share of the whole.

## Plan

1. `SaveWatch`: the save-folder poll, the live inventory and the light soul latch
   (6929-7015), composed with `CheckReporting`.
2. `Install` with loose-file mode, with the disagreement about its dry run as a property.
