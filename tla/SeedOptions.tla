----------------------------- MODULE SeedOptions ----------------------------
(***************************************************************************)
(* What a seed fixes before any item is placed: where the entrances lead   *)
(* (randomizers/entrance_randomizer.py, shuffle_unified), the soul level   *)
(* of every gate (fill.py, _shuffle_gates and the overrides that follow    *)
(* it) and, with them, what a player who gathers items in any order can    *)
(* reach: in the region graph, and according to the closed rules that      *)
(* fill.py's simulator evaluates.                                          *)
(***************************************************************************)
EXTENDS WorldRules, Sequences, Functions

CONSTANTS
    Seeds,         \* the settings a seed may have, see SeedInit
    MovedPortals,  \* bound: the portals a shuffle moves, the others stay put
    MovedGates,    \* bound: the gates whose drawn soul levels are exchanged
    Gathered(_),   \* bound: the items gathered under an entrance mode
    Stops(_)       \* bound: the soul levels the player stops at, likewise

EntranceModes == {"off", "deadside_only", "cross_hub"}

ASSUME SeedOptionsAssumption ==
    /\ \A seed \in Seeds : seed.mode \in EntranceModes
    /\ MovedPortals \subseteq Portal /\ {"Asy1", "Salvage"} \subseteq MovedPortals
    /\ MovedGates \subseteq Gate

VARIABLES
    stage,     \* "entrances", "gates" or "play"
    mode,      \* entrance_mode
    gadItems,  \* shuffle_gad_temples
    unique,    \* unique_retractor_keys
    out,       \* UnifiedShuffle.outbound, or Unshuffled
    remap,     \* gate_remap
    preset,    \* the soul gate preset
    st         \* what the player holds

seedVars == <<stage, mode, gadItems, unique, out, remap, preset, st>>

-----------------------------------------------------------------------------
(* Entrances.                                                               *)

GadSpokes == {"Gad1", "Gad2", "Gad3"}

\* What is outside MovedPortals keeps its own spoke.
Dealt(f) == [p \in Portal |-> IF p \in DOMAIN f THEN f[p] ELSE p]

DeadsideOnly ==
    LET moved == MovedPortals \cap DeadsidePortal
    IN {Dealt(f) : f \in Bijection(moved, moved)}

\* cross_hub: the asylum spoke is dealt first, to a coffin gate; then, unless
\* gad powers are items, Salvage's soul gate, to a spoke that is no temple.
CrossHub ==
    {Dealt(f) : f \in {b \in Bijection(MovedPortals, MovedPortals) :
                          /\ \E p \in MovedPortals \cap DeadsidePortal : b[p] = "Asy1"
                          /\ gadItems \/ b["Salvage"] \notin GadSpokes}}

ShuffleEntrances ==
    /\ stage = "entrances"
    /\ stage' = "gates"
    /\ out' \in CASE mode = "off" -> {Unshuffled}
                  [] mode = "deadside_only" -> DeadsideOnly
                  [] mode = "cross_hub" -> CrossHub
    /\ UNCHANGED <<mode, gadItems, unique, remap, preset, st>>

-----------------------------------------------------------------------------
(* Gates.                                                                   *)

GateOrder == <<"MARROW", "WASTELAND", "ASYLUM", "PATH_3", "LALUNE", "CAGEWAYS",
    "PLAYROOMS", "PATH_6", "PATH_7", "LAVADUCTS", "LALAME", "BLOOD", "FOGOMETERS",
    "MYSTERY", "ENSEIGNE", "FIRE_POIGNE", "FIRE_FLAMBEAU", "PROPHECY_INTERIOR",
    "BLOOD_INTERIOR", "FOGOMETERS_INTERIOR">>

At(g) == CHOOSE n \in DOMAIN GateOrder : GateOrder[n] = g

\* The first of some gates, and the place of a gate among them.
First(S) == CHOOSE g \in S : \A h \in S : At(g) <= At(h)

Rank(S, g) == Cardinality({h \in S : At(h) <= At(g)})

CoffinGateOrder == <<"MARROW", "WASTELAND", "ASYLUM", "PATH_3", "CAGEWAYS",
    "PLAYROOMS", "PATH_6">>

HardLocked == {"MARROW", "WASTELAND", "ASYLUM", "PATH_3"}

Preset ==
    [off    |-> [shuffle |-> FALSE, none |-> FALSE, open |-> 0, lock |-> {},
                 max |-> 10, safe |-> TRUE],
     open   |-> [shuffle |-> FALSE, none |-> TRUE, open |-> 0, lock |-> {},
                 max |-> 10, safe |-> TRUE],
     easy   |-> [shuffle |-> TRUE, none |-> FALSE, open |-> 6,
                 lock |-> HardLocked \cup {"CAGEWAYS", "PLAYROOMS", "PATH_6"},
                 max |-> 7, safe |-> TRUE],
     medium |-> [shuffle |-> TRUE, none |-> FALSE, open |-> 3, lock |-> HardLocked,
                 max |-> 8, safe |-> TRUE],
     hard   |-> [shuffle |-> TRUE, none |-> FALSE, open |-> 1, lock |-> HardLocked,
                 max |-> 10, safe |-> TRUE],
     chaos  |-> [shuffle |-> TRUE, none |-> FALSE, open |-> 0, lock |-> {},
                 max |-> 10, safe |-> FALSE]]

ASSUME SeedPresets == \A seed \in Seeds : seed.preset \in DOMAIN Preset

\* Python's round(a / b): a half goes to the even neighbour.
RoundedQuotient(a, b) ==
    LET q == a \div b
        r == 2 * (a % b)
    IN IF r < b \/ (r = b /\ q % 2 = 0) THEN q ELSE q + 1

\* sl_pool before it is shuffled: n values, evenly spaced from 1 to max.
LinearPool(n, max) ==
    LET d == IF n > 1 THEN n - 1 ELSE 1
    IN [i \in 1 .. n |-> RoundedQuotient(d + (max - 1) * (i - 1), d)]

\* The single gate, if it is one, that stands in front of a region.
FrontGate(o, r) ==
    {PortalRoutes[p] : p \in {q \in DeadsidePortal : SpokeRegion[o[q]] = r}}

\* dynamic_overrides: under deadside_only the gate now in front of the
\* Wasteland, the Gateways or the Temple of Fire gets that role's soul level.
Role == [r \in {"Wasteland", "Gateways", "Temple of Fire"} |->
            CASE r = "Wasteland" -> "WASTELAND" [] r = "Gateways" -> "ASYLUM"
              [] r = "Temple of Fire" -> "PATH_3"]

Overrides(p) ==
    IF mode # "deadside_only" THEN << >>
    ELSE LET roles(g) == {r \in DOMAIN Role : {{g}} \in FrontGate(out, r)}
         IN [g \in {h \in Gate \ p.lock : roles(h) # {}} |->
                VanillaSL[Role[CHOOSE r \in roles(g) : TRUE]]]

\* Gates of a region with a fixed soul or a named slot must stay below 10, in
\* the order the constraints are applied in.
CapOrder == <<"ASYLUM", "BLOOD", "CAGEWAYS", "FOGOMETERS", "LAVADUCTS", "PATH_3",
              "PATH_6", "PATH_7", "PLAYROOMS", "WASTELAND">>

Swapped(m, g, h) == [m EXCEPT ![g] = m[h], ![h] = m[g]]

MCapNotAtAll(m, g) == m
\* One constraint: a capped gate above 9 changes places with the first gate
\* that is not capped and not above 9 itself.
Cap(m, g) ==
    LET partners == {h \in DOMAIN m \ Range(CapOrder) : m[h] <= 9}
    IN IF g \notin DOMAIN m \/ m[g] <= 9 \/ partners = {} THEN m
       ELSE Swapped(m, g, First(partners))

CapAll(m) ==
    LET done[i \in 0 .. Len(CapOrder)] ==
            IF i = 0 THEN m ELSE Cap(done[i - 1], CapOrder[i])
    IN done[Len(CapOrder)]

\* _shuffle_gates: the maps it may return for a preset.
ShuffledGates(p) ==
    LET over == Overrides(p)
        free == Gate \ (p.lock \cup DOMAIN over)
        pool == LinearPool(Cardinality(free), p.max)
        moved == MovedGates \cap free
        drawn(f) == [g \in free |-> pool[Rank(free, IF g \in moved THEN f[g] ELSE g)]]
        capped(m) == IF p.safe THEN CapAll(m) ELSE m
        all(m) == [g \in Gate |-> IF g \in DOMAIN over THEN over[g]
                                  ELSE IF g \in free THEN m[g] ELSE VanillaSL[g]]
    IN {all(capped(drawn(f))) : f \in Bijection(moved, moved)}

\* assumed_fill: shuffle or keep, then no_soul_gates, then open_gates_n.
Opened(p, m) ==
    [g \in Gate |->
        IF p.none \/ g \in Range(SubSeq(CoffinGateOrder, 1, p.open)) THEN 0 ELSE m[g]]

ShuffleGates ==
    /\ stage = "gates"
    /\ stage' = "play"
    /\ LET p == Preset[preset]
       IN \E m \in IF p.shuffle THEN ShuffledGates(p) ELSE {VanillaSL} :
            remap' = Opened(p, m)
    /\ UNCHANGED <<mode, gadItems, unique, out, preset, st>>
-----------------------------------------------------------------------------
(* The player.                                                              *)

Options == [remap |-> remap, souls |-> VanillaSouls, unique |-> unique,
            pistons |-> 6, schematic |-> FALSE]

Nothing == [k \in ItemKind |-> 0]

\* What simulate_playthrough hands out for starting_item_bundles.
Start(bundles) ==
    [inv |-> [k \in ItemKind |-> IF k \in Eclipser /\ "all_eclipsers" \in bundles
                                THEN 1 ELSE 0],
     souls |-> 0,
     retractors |-> IF "all_retractors" \in bundles THEN 5 ELSE 0,
     keys |-> {}, regions |-> {}]

AtMost(k) == IF k \in {"GAD", "ACCUMULATOR"} THEN 3 ELSE 1

Gather(k) ==
    /\ stage = "play"
    /\ st.inv[k] < AtMost(k)
    /\ st' = [st EXCEPT !.inv[k] = @ + 1]
    /\ UNCHANGED <<stage, mode, gadItems, unique, out, remap, preset>>

GatherKey(level) ==
    /\ stage = "play"
    /\ unique
    /\ level \notin st.keys
    /\ st' = [st EXCEPT !.keys = @ \cup {level}]
    /\ UNCHANGED <<stage, mode, gadItems, unique, out, remap, preset>>

GatherSouls ==
    /\ stage = "play"
    /\ \E n \in Stops(mode) : /\ VanillaSouls[n] > st.souls
                             /\ st' = [st EXCEPT !.souls = VanillaSouls[n]]
    /\ UNCHANGED <<stage, mode, gadItems, unique, out, remap, preset>>

-----------------------------------------------------------------------------
SeedInit ==
    /\ stage = "entrances"
    /\ \E seed \in Seeds :
          /\ mode = seed.mode
          /\ preset = seed.preset
          /\ gadItems = seed.gadItems
          /\ unique = seed.unique
          /\ st = Start(seed.bundles)
    /\ out = Unshuffled
    /\ remap = VanillaSL

SeedNext ==
    \/ ShuffleEntrances
    \/ ShuffleGates
    \/ \E k \in Gathered(mode) : Gather(k)
    \/ \E level \in Liveside : GatherKey(level)
    \/ GatherSouls

SeedSpec == SeedInit /\ [][SeedNext]_seedVars

-----------------------------------------------------------------------------
(* Properties.                                                              *)

\* Where the portals of this seed really lead.
Leads == IF out = Unshuffled THEN SamePlace ELSE out

\* The soul gates whose completion rule is met before their level is reached.
FinishedEarly == {l \in Liveside \ Walk(Options, Leads, st) : CompletionRule(Options, st, l)}

\* The closed rules fill.py places items by never call a region closed that a
\* walk over the graph of create_regions reaches, whatever the player holds and
\* whichever entrances and gates were shuffled.  Nor do they call one open that
\* the walk does not reach, except that a shuffle replaces "the level is reached
\* and can be finished" by "it can be finished" at a soul gate: rules and walk
\* part only while that makes a difference.
RulesMirrorGraph ==
    stage = "play" =>
        LET rules == LevelRules(Options, out, st)
            walk == Walk(Options, Leads, st)
        IN /\ walk \subseteq rules
           /\ out = Unshuffled \/ FinishedEarly = {} => rules \subseteq walk

\* build_level_rules says of shuffled entrances that everything behind a spoke
\* is composed as it is without a shuffle (regions.py 335-338): no region is
\* open to the rules that a walk does not get to.
RulesOpenNothingMore ==
    stage = "play" => LevelRules(Options, out, st) \subseteq Walk(Options, Leads, st)

\* The walk of a player who holds everything but the gad powers and takes
\* those in the temples, in their order.
Equipped(souls, gads) ==
    [inv |-> [k \in ItemKind |-> IF k = "GAD" THEN gads ELSE AtMost(k)],
     souls |-> souls, retractors |-> 5, keys |-> Liveside, regions |-> {}]

WalkTemples(souls) ==
    LET walk[n \in 0 .. 3] ==
            LET here == Walk(Options, Leads, Equipped(souls, n))
            IN IF n < 3 /\ Temple[n + 1] \in here THEN walk[n + 1] ELSE here
    IN walk[IF gadItems THEN 3 ELSE 0]

\* No seed seals a region: once entrances and gates are shuffled, a player
\* with every item still gets everywhere, having to find the gad powers in
\* the temples when they are not items, and under a safe preset with no more
\* than the 95 souls of level 9, the level the gates of regions with fixed
\* souls or named slots are capped at.
NoRegionSealed ==
    stage = "play" =>
        WalkTemples(IF Preset[preset].safe THEN 95 ELSE 120) = Region
=============================================================================
