----------------------------- MODULE WorldRules -----------------------------
(***************************************************************************)
(* What a player who holds given items can reach: the rule namespace of    *)
(* access_rules.py and the region graph of regions.py.  Everything here is *)
(* constant level.  A rule reads two records:                              *)
(*   o   the options of the seed: o.remap (gate -> soul level), o.souls    *)
(*       (soul level -> souls needed), o.unique (unique_retractor_keys),   *)
(*       o.pistons (pistons_required), o.schematic (piston_combos random). *)
(*   st  FakeState: st.inv (item -> count), st.souls, st.retractors,       *)
(*       st.keys (the liveside levels whose own retractor is held) and     *)
(*       st.regions (the regions reached so far).                          *)
(***************************************************************************)
EXTENDS Integers, FiniteSets

Gate == {"MARROW", "WASTELAND", "ASYLUM", "PATH_3", "LALUNE", "CAGEWAYS",
         "PLAYROOMS", "PATH_6", "PATH_7", "LAVADUCTS", "LALAME", "BLOOD",
         "FOGOMETERS", "MYSTERY", "ENSEIGNE", "FIRE_POIGNE",
         "FIRE_FLAMBEAU", "PROPHECY_INTERIOR", "BLOOD_INTERIOR",
         "FOGOMETERS_INTERIOR"}

VanillaSL ==
    [MARROW |-> 0, WASTELAND |-> 1, ASYLUM |-> 2, PATH_3 |-> 3, LALUNE |-> 3,
     CAGEWAYS |-> 4, PLAYROOMS |-> 5, PATH_6 |-> 6, PATH_7 |-> 7,
     LAVADUCTS |-> 7, LALAME |-> 7, BLOOD |-> 8, FOGOMETERS |-> 9,
     MYSTERY |-> 10, ENSEIGNE |-> 6, FIRE_POIGNE |-> 4, FIRE_FLAMBEAU |-> 5,
     PROPHECY_INTERIOR |-> 7, BLOOD_INTERIOR |-> 9, FOGOMETERS_INTERIOR |-> 10]

VanillaSouls ==
    [n \in 0 .. 10 |-> <<0, 1, 3, 7, 15, 23, 35, 51, 71, 95, 120>>[n + 1]]

Eclipser == {"ECLIPSER_1", "ECLIPSER_2", "ECLIPSER_3"}

ItemKind == Eclipser \cup
    {"ENG_KEY", "PRISON_KEY_CARD", "CALABASH", "BATON", "FLAMBEAU", "MARTEAU",
     "POIGNE", "SCHEMATIC", "ACCUMULATOR", "GAD"}

Liveside == {"London", "Prison", "Salvage", "Queens", "Florida"}

EngineSection ==
    [London |-> "Engine London", Prison |-> "Engine Prison",
     Salvage |-> "Engine Salvage", Queens |-> "Engine Queens",
     Florida |-> "Engine Florida"]

EngineSections == {EngineSection[l] : l \in Liveside}

Region == Liveside \cup EngineSections \cup
    {"Menu", "Swampland", "Marrow Gates", "Wasteland", "Gateways", "Cathedral",
     "Experimentation", "Temple of Fire", "Cageways", "Engine Block",
     "Playrooms", "Temple of Prophecy", "Lavaducts", "Temple of Blood",
     "Fogometers"}

\* The temples, in the order their gad powers come in.
Temple == <<"Temple of Fire", "Temple of Prophecy", "Temple of Blood">>

-----------------------------------------------------------------------------
(* Rules.  A route is a set of tokens, all needed; a route list is a set of *)
(* routes, any of which will do: the form of GATE_DEPENDENCIES, of the      *)
(* portal gates and, as a disjunctive normal form, of a location's          *)
(* gate_expr.                                                               *)

Shortcut == {"ASYLUM", "BATON", "GAD2_WALK"}

LowerDeadside == {{"PATH_6"}, {"PATH_7"}, Shortcut}

Approach ==
    [WASTELAND |-> {{"MARROW"}}, ASYLUM |-> {{"WASTELAND"}},
     PATH_3 |-> {{"ASYLUM"}}, LALUNE |-> {{"ASYLUM"}},
     CAGEWAYS |-> {{"PATH_3"}}, PLAYROOMS |-> {{"CAGEWAYS"}},
     PATH_6 |-> {{"PLAYROOMS"}}, PATH_7 |-> {{"PATH_3"}},
     LAVADUCTS |-> LowerDeadside, LALAME |-> LowerDeadside,
     BLOOD |-> LowerDeadside, FOGOMETERS |-> LowerDeadside]

GateDependencies == [g \in Gate |-> IF g \in DOMAIN Approach THEN Approach[g] ELSE {{}}]

\* What a rule may name besides gates.
Token == {"GAD1_HAND", "GAD2_WALK", "GAD3_SWIM", "NIGHT", "X3_ACCUMULATOR",
          "CADEAUX_666", "PISTONS", "FLAMBEAU", "CALABASH", "BATON", "MARTEAU",
          "POIGNE", "ENG_KEY", "PRISON_KEY_CARD"}

SoulLevel(o, st, n) == st.souls >= o.souls[n]

Has(st, item) == st.inv[item] >= 1

Night(st) == \A e \in Eclipser : Has(st, e)

\* R.pistons.
Pistons(o, st) ==
    /\ o.schematic => Has(st, "SCHEMATIC")
    /\ Has(st, "ENG_KEY")
    /\ Cardinality(st.regions \cap EngineSections) >= o.pistons - 1

\* One named rule that is not a gate: R.gad2_walk, R.calabash, R.night, ...
ItemRule(o, st, t) ==
    CASE t = "GAD1_HAND" -> st.inv["GAD"] >= 1
      [] t = "GAD2_WALK" -> st.inv["GAD"] >= 2
      [] t = "GAD3_SWIM" -> st.inv["GAD"] >= 3
      [] t = "NIGHT" -> Night(st)
      [] t = "X3_ACCUMULATOR" -> st.inv["ACCUMULATOR"] >= 3
      [] t = "CADEAUX_666" -> TRUE
      [] t = "PISTONS" -> Pistons(o, st)
      [] t \in {"FLAMBEAU", "CALABASH"} -> Has(st, t) /\ SoulLevel(o, st, 1)
      [] OTHER -> Has(st, t)

\* R.gate: the gates that can be passed.  A gate needs one of its approach
\* routes and, on top of it, its own soul level.
OpenGates(o, st) ==
    LET open[g \in Gate] ==
            /\ \E route \in GateDependencies[g] :
                 \A t \in route : IF t \in Gate THEN open[t]
                                  ELSE ItemRule(o, st, t)
            /\ SoulLevel(o, st, o.remap[g])
    IN {g \in Gate : open[g]}

\* A route list, given the open gates.
Routes(o, st, open, routes) ==
    \E route \in routes :
        \A t \in route : IF t \in Gate THEN t \in open ELSE ItemRule(o, st, t)

RetractorsOk(o, st, level) ==
    IF o.unique THEN level \in st.keys ELSE st.retractors >= 5

\* What finishing a liveside level takes beyond being able to enter it.
CompletionItems ==
    [London |-> {"NIGHT"}, Florida |-> {"NIGHT"},
     Prison |-> {"NIGHT", "PRISON_KEY_CARD"}, Queens |-> {"NIGHT", "POIGNE"},
     Salvage |-> {"NIGHT", "GAD3_SWIM"}]

Completable(o, st, level) == \A t \in CompletionItems[level] : ItemRule(o, st, t)

\* R.london ... R.queens, the LIVESIDE_COMPLETION_RULES.
CompletionRule(o, st, level) ==
    Completable(o, st, level) /\ RetractorsOk(o, st, level)

-----------------------------------------------------------------------------
(* The portals: nine coffin gates of Deadside, five soul gates of the       *)
(* liveside levels, each leading to the spoke of the same name until the    *)
(* entrances are shuffled.                                                  *)

DeadsidePortal == {"Wast", "Asy1", "Gad1", "Cage", "Play", "Lava", "Fog", "Gad2", "Gad3"}

Portal == DeadsidePortal \cup Liveside

PortalRoutes ==
    [Wast |-> {{"WASTELAND"}}, Asy1 |-> {{"ASYLUM"}}, Gad1 |-> {{"PATH_3"}},
     Cage |-> {{"CAGEWAYS"}, {"PATH_7"}, Shortcut},
     Play |-> {{"PLAYROOMS"}, {"PATH_7"}, Shortcut},
     Lava |-> {{"LAVADUCTS"}}, Fog |-> {{"FOGOMETERS"}},
     Gad2 |-> {{"PATH_7"}, {"CAGEWAYS", "PLAYROOMS", "PATH_6"}, Shortcut},
     Gad3 |-> {{"BLOOD"}}]

CoffinSpoke ==
    [Wast |-> "Wasteland", Asy1 |-> "Gateways", Gad1 |-> "Temple of Fire",
     Cage |-> "Cageways", Play |-> "Playrooms", Lava |-> "Lavaducts",
     Fog |-> "Fogometers", Gad2 |-> "Temple of Prophecy",
     Gad3 |-> "Temple of Blood"]

SpokeRegion == [p \in Portal |-> IF p \in Liveside THEN EngineSection[p] ELSE CoffinSpoke[p]]

GatewaysDoor(o, st) == ItemRule(o, st, "ENG_KEY") \/ ItemRule(o, st, "GAD2_WALK")

(* The graph of create_regions: the rule of the connection from one region  *)
(* to another, FALSE where they are not connected.  The portals lead where  *)
(* out sends them: a coffin gate is walked to through the Marrow Gates, a   *)
(* soul gate stands at the end of its liveside level.                       *)
SamePlace == [p \in Portal |-> p]

Connected(o, out, st, open, from, to) ==
    \/ from = "Menu" /\ to = "Swampland"
    \/ from = "Swampland" /\ to = "Marrow Gates"
    \/ /\ from = "Marrow Gates"
       /\ \E p \in DeadsidePortal : /\ to = SpokeRegion[out[p]]
                                    /\ Routes(o, st, open, PortalRoutes[p])
    \/ /\ from = "Gateways"
       /\ to \in {"Cathedral", "Experimentation"}
       /\ GatewaysDoor(o, st)
    \/ from = "Cageways" /\ to = "Engine Block" /\ Has(st, "ENG_KEY")
    \/ from = "Cathedral" /\ to \in Liveside /\ RetractorsOk(o, st, to)
    \/ from \in Liveside /\ to = SpokeRegion[out[from]] /\ Completable(o, st, from)

\* The regions a walk over that graph reaches from the menu.  No simple path
\* is longer than WalkLength: the Gateways are always behind a coffin gate.
WalkLength == 8

\* What a walk that has seen a set of regions sees one connection further.
Further(o, out, st, open, seen) ==
    seen \cup {to \in Region \ seen : \E from \in seen : Connected(o, out, st, open, from, to)}

Walk(o, out, st) ==
    LET open == OpenGates(o, st)
        after[n \in 0 .. WalkLength] ==
            IF n = 0 THEN {"Menu"}
            ELSE Further(o, out, st, open, after[n - 1])
    IN after[WalkLength]

-----------------------------------------------------------------------------
(* build_level_rules: the closed form of the same graph that fill.py's      *)
(* simulator evaluates.  out is the shuffled mapping of portals to spokes,  *)
(* or <<>> when the entrances are not shuffled.                             *)

Unshuffled == << >>

PortalRule(o, st, open, p) ==
    IF p \in DeadsidePortal THEN Routes(o, st, open, PortalRoutes[p])
    ELSE CompletionRule(o, st, p)

MSpokeRuleOfSpoke(o, out, st, open, r) ==
    \E p \in DOMAIN out : SpokeRegion[out[p]] = r /\ PortalRule(o, st, open, out[p])
\* The rule of a region that is some spoke's first region.
SpokeRule(o, out, st, open, r) ==
    \E p \in DOMAIN out : SpokeRegion[out[p]] = r /\ PortalRule(o, st, open, p)

ClosedRules(o, out, st, open) ==
    LET spokes == IF out = Unshuffled THEN [p \in DeadsidePortal |-> p] ELSE out
        spoke(r) == SpokeRule(o, spokes, st, open, r)
        cathedral == spoke("Gateways") /\ GatewaysDoor(o, st)
        liveside(l) == cathedral /\ RetractorsOk(o, st, l)
        engine(l) == IF out = Unshuffled
                     THEN liveside(l) /\ Completable(o, st, l)
                     ELSE spoke(EngineSection[l])
    IN {"Menu", "Swampland", "Marrow Gates"}
       \cup {r \in {SpokeRegion[p] : p \in DeadsidePortal} : spoke(r)}
       \cup {r \in {"Cathedral", "Experimentation"} : cathedral}
       \cup {r \in {"Engine Block"} : spoke("Cageways") /\ Has(st, "ENG_KEY")}
       \cup {l \in Liveside : liveside(l)}
       \cup {EngineSection[l] : l \in {m \in Liveside : engine(m)}}

LevelRules(o, out, st) == ClosedRules(o, out, st, OpenGates(o, st))
=============================================================================
