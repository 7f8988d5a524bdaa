---------------------------- MODULE MCSeedOptions ---------------------------
(* Instances of SeedOptions.  Unshuffled entrances are walked with more     *)
(* items; for shuffled ones every shuffle of MovedPortals is walked with    *)
(* the key, the retractors and the souls that part rules and graph.         *)
EXTENDS SeedOptions

Seed(m, p, g, u, b) ==
    [mode |-> m, preset |-> p, gadItems |-> g, unique |-> u, bundles |-> b]

Bundles == {"all_eclipsers", "all_retractors"}

MCSeeds ==
    {Seed("off", p, FALSE, FALSE, Bundles) : p \in {"off", "hard", "open"}}
    \cup {Seed("off", "off", FALSE, TRUE, Bundles), Seed("off", "chaos", TRUE, FALSE, {})}
    \cup {Seed("deadside_only", p, FALSE, FALSE, Bundles) : p \in {"easy", "hard"}}
    \cup {Seed("cross_hub", "off", g, FALSE, Bundles) : g \in BOOLEAN}
    \cup {Seed("cross_hub", "off", FALSE, TRUE, {"all_eclipsers"})}

MCGathered(m) ==
    IF m = "off" THEN {"ENG_KEY", "BATON", "GAD", "POIGNE"} ELSE {"ENG_KEY"}

MCStops(m) == IF m = "off" THEN {2, 5, 7, 10} ELSE {3, 7}
=============================================================================
