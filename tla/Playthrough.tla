---------------------------- MODULE Playthrough ----------------------------
(***************************************************************************)
(* What a player gets out of a seed: fill.py's simulate_playthrough.       *)
(* Everything here is constant level; x is the world that is played:       *)
(*   x.locs, x.items        location -> region, category and rule; item ->  *)
(*                          kind and category                              *)
(*   x.options              what the rules read (WorldRules)               *)
(*   x.start, x.retractors  the starting item bundles                      *)
(*   x.gadItems             shuffle_gad_temples                            *)
(*   x.retractorLevel       retractor -> the level it opens                *)
(*   x.insanity             how far categories may mix                     *)
(***************************************************************************)
EXTENDS WorldRules

\* Slots a fill may use; bosses and true forms always give a soul.
FillSlots(x) == {l \in DOMAIN x.locs : x.locs[l].category \notin {"boss", "true_form"}}

LivesideRegions == {"Swampland"} \cup Liveside \cup EngineSections

\* A sphere hands out the gad powers of the temples in order: a temple reached
\* grants its own when exactly the earlier ones are held, and only once.
Granted(s, regions) ==
    LET after[n \in 0 .. 3] ==
            IF n = 0 THEN [gad |-> s.st.inv["GAD"], grants |-> s.grants]
            ELSE LET g == after[n - 1]
                 IN IF Temple[n] \in regions /\ n \notin g.grants /\ g.gad = n - 1
                    THEN [gad |-> n, grants |-> g.grants \cup {n}]
                    ELSE g
    IN after[3]

\* Whether the item or soul of a location can be taken, st being what was held
\* when the sphere began.  Souls of the liveside come out at night only.
Collectable(x, p, st, rules, open, l) ==
    /\ x.locs[l].region \in rules
    /\ Routes(x.options, st, open, x.locs[l].expr)
    /\ l \in DOMAIN p /\ x.items[p[l]].category = "soul" /\ x.locs[l].region \in LivesideRegions
         => Night(st)

\* The locations that are new in a sphere, the closed rules being met in rules.
Found(x, p, s, rules, open) ==
    {l \in DOMAIN x.locs \ s.reached : Collectable(x, p, s.st, rules, open, l)}

\* The sphere that follows s when new is found in regions, gad being what the
\* temples have granted.
Gained(x, p, s, regions, gad, new) ==
    LET items == {p[l] : l \in new \cap DOMAIN p}
        of(c) == {i \in items : x.items[i].category = c}
        inv == [s.st.inv EXCEPT !["GAD"] = gad.gad]
    IN [progress |-> new # {} \/ regions # s.st.regions \/ gad.grants # s.grants,
        reached |-> s.reached \cup new,
        grants |-> gad.grants,
        st |-> [inv |-> [k \in ItemKind |->
                            inv[k] + Cardinality({i \in items : x.items[i].kind = k})],
                souls |-> s.st.souls + Cardinality(of("soul")) + Cardinality(new \ FillSlots(x)),
                retractors |-> s.st.retractors + Cardinality(of("retractor")),
                keys |-> s.st.keys \cup {x.retractorLevel[i] : i \in of("retractor")},
                regions |-> regions]]

Sphere(x, p, gadItems, s) ==
    LET open == OpenGates(x.options, s.st)
        rules == ClosedRules(x.options, Unshuffled, s.st, open)
        regions == s.st.regions \cup rules
    IN Gained(x, p, s, regions,
              IF gadItems THEN [gad |-> s.st.inv["GAD"], grants |-> s.grants]
              ELSE Granted(s, regions),
              Found(x, p, s, rules, open))

\* Each sphere brings a location, a region or a grant, or is the last one.
SphereBound(x) == Cardinality(DOMAIN x.locs) + Cardinality(Region) + 3

NewGame(x) ==
    [progress |-> TRUE, reached |-> {}, grants |-> {},
     st |-> [inv |-> x.start, souls |-> 0, retractors |-> x.retractors,
             keys |-> {}, regions |-> {}]]

Spheres(x, p, gadItems) ==
    LET after[k \in 0 .. SphereBound(x)] ==
            IF k = 0 THEN NewGame(x)
            ELSE LET s == after[k - 1]
                 IN IF s.progress THEN Sphere(x, p, gadItems, s) ELSE s
    IN after

Simulate(x, p, gadItems) == Spheres(x, p, gadItems)[SphereBound(x)]

\* validate_fill: the playthrough it simulates always has the temples grant gad
\* powers, whether or not they are items of this seed.
ValidFill(x, p) ==
    LET sim == Simulate(x, p, FALSE)
        final == [sim.st EXCEPT !.regions = {x.locs[l].region : l \in sim.reached}]
    IN /\ Pistons(x.options, final)
       /\ {l \in FillSlots(x) : x.locs[l].category \notin {"barrel", "cadeaux"}}
            \subseteq sim.reached
=============================================================================
