---------------------------- MODULE MCAssumedFill ---------------------------
(* Small worlds for AssumedFill: a few locations of the real table with     *)
(* their region and rule, and the items that come out of those slots.       *)
EXTENDS AssumedFill

Loc(region, category, expr) == [region |-> region, category |-> category, expr |-> expr]
Item(kind, category) == [kind |-> kind, category |-> category]

Free == {{}}
Soul == Item("SOUL", "soul")

Options(remap, unique, pistons) ==
    [remap |-> remap, souls |-> VanillaSouls, unique |-> unique,
     pistons |-> pistons, schematic |-> FALSE]

AllOpen == [g \in Gate |-> 0]

World(locs, items, options, start, retractors, gadItems, insanity) ==
    [locs |-> locs, items |-> items, options |-> options,
     start |-> [k \in ItemKind |-> IF k \in start THEN 1 ELSE 0],
     retractors |-> retractors, gadItems |-> gadItems, insanity |-> insanity,
     retractorLevel |-> [i \in DOMAIN items |-> "London"]]

\* Vanilla gates: three souls open the Gateways, where the Engineer's Key is.
\* One weapon and one tool compete with it for the slots not behind it.
GatesWorld ==
    World([govi1 |-> Loc("Marrow Gates", "soul", Free),
           govi2 |-> Loc("Marrow Gates", "soul", {{"MARROW"}}),
           govi3 |-> Loc("Gateways", "soul", Free),
           barrel |-> Loc("Wasteland", "barrel", Free),
           cadeau |-> Loc("Marrow Gates", "cadeaux", Free),
           baton |-> Loc("Wasteland", "progression", Free),
           key |-> Loc("Gateways", "progression", Free),
           tete |-> Loc("Experimentation", "weapon", {{"ENG_KEY"}})],
          [s1 |-> Soul, s2 |-> Soul, s3 |-> Soul,
           Baton |-> Item("BATON", "progression"),
           Key |-> Item("ENG_KEY", "progression"),
           Tete |-> Item("TETEDEMORT", "weapon")],
          Options(VanillaSL, FALSE, 1), {}, 0, FALSE, 0)

\* All gates open, the retractors given: Night decides where souls may go, and
\* London's boss and its engine room follow from the key and the eclipsers.
NightWorld ==
    World([swamp |-> Loc("Swampland", "soul", Free),
           govi |-> Loc("Gateways", "soul", Free),
           assonSlot |-> Loc("Wasteland", "weapon", Free),
           keySlot |-> Loc("Gateways", "progression", Free),
           nightSlot |-> Loc("Swampland", "weapon", {{"NIGHT", "BATON"}}),
           laneSlot |-> Loc("London", "lore", Free),
           boss |-> Loc("London", "boss", Free),
           trueForm |-> Loc("Engine London", "true_form", Free),
           barrel |-> Loc("Engine Block", "barrel", {{"PISTONS"}})],
          [s1 |-> Soul, s2 |-> Soul,
           Part |-> Item("ECLIPSER_1", "eclipser"),
           Key |-> Item("ENG_KEY", "progression"),
           Book |-> Item("FLASHLIGHT", "lore"),
           Asson |-> Item("ASSON", "weapon")],
          Options(AllOpen, FALSE, 2), {"ECLIPSER_2", "ECLIPSER_3", "BATON"}, 5, FALSE, 0)

\* Gad powers as items, all gates open, keys in soul and cadeau slots too.
GadWorld ==
    World([toucher |-> Loc("Temple of Fire", "gad", Free),
           marcher |-> Loc("Temple of Prophecy", "gad", {{"GAD1_HAND"}, {"GAD2_WALK"}}),
           nager |-> Loc("Temple of Blood", "gad", {{"GAD2_WALK"}}),
           keySlot |-> Loc("Gateways", "progression", {{"GAD1_HAND"}}),
           govi |-> Loc("Wasteland", "soul", {{"GAD2_WALK"}}),
           cadeau |-> Loc("Marrow Gates", "cadeaux", Free)],
          [g1 |-> Item("GAD", "gad"), g2 |-> Item("GAD", "gad"),
           g3 |-> Item("GAD", "gad"), s1 |-> Soul,
           Key |-> Item("ENG_KEY", "progression")],
          Options(AllOpen, FALSE, 1), {}, 0, TRUE, 2)

\* Three key items and three weapons for three open slots and three behind the
\* Engineer's Key: when that comes last there are too few displacements left, and
\* the fill is tried again.
TightWorld ==
    World([a |-> Loc("Wasteland", "weapon", Free),
           b |-> Loc("Wasteland", "weapon", Free),
           c |-> Loc("Marrow Gates", "progression", Free),
           d |-> Loc("Engine Block", "weapon", Free),
           e |-> Loc("Engine Block", "retractor", Free),
           f |-> Loc("Engine Block", "eclipser", Free)],
          [w1 |-> Item("ASSON", "weapon"), w2 |-> Item("TETEDEMORT", "weapon"),
           w3 |-> Item("ENSEIGNE", "weapon"),
           Key |-> Item("ENG_KEY", "progression"),
           Ret |-> Item("RETRACTOR", "retractor"),
           Part |-> Item("ECLIPSER_1", "eclipser")],
          Options(AllOpen, FALSE, 1), {"ECLIPSER_2", "ECLIPSER_3"}, 4, FALSE, 0)

\* Gad powers as items at insanity 3, where souls may go anywhere, and all six
\* pistons to stop: two souls may take the only slots that need no power.
PowerlessWorld ==
    World([toucher |-> Loc("Temple of Fire", "gad", Free),
           marcher |-> Loc("Temple of Prophecy", "gad", {{"GAD1_HAND"}, {"GAD2_WALK"}}),
           nager |-> Loc("Temple of Blood", "gad", {{"GAD2_WALK"}}),
           govi |-> Loc("Wasteland", "soul", {{"GAD2_WALK"}}),
           swamp |-> Loc("Swampland", "soul", Free),
           london |-> Loc("Engine London", "true_form", Free),
           prison |-> Loc("Engine Prison", "true_form", Free),
           salvage |-> Loc("Engine Salvage", "true_form", Free),
           queens |-> Loc("Engine Queens", "true_form", Free),
           florida |-> Loc("Engine Florida", "true_form", Free)],
          [g1 |-> Item("GAD", "gad"), g2 |-> Item("GAD", "gad"),
           g3 |-> Item("GAD", "gad"), s1 |-> Soul, s2 |-> Soul],
          Options(AllOpen, FALSE, 6),
          Eclipser \cup {"ENG_KEY", "PRISON_KEY_CARD", "POIGNE"}, 5, TRUE, 3)

MCWorlds == {GatesWorld, NightWorld, GadWorld, TightWorld, PowerlessWorld}
=============================================================================
