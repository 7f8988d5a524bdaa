----------------------------- MODULE AssumedFill ----------------------------
(***************************************************************************)
(* Placing the items of one seed: fill.py's assumed_fill (the sweep with   *)
(* its soulswap, displacement and deferral fallbacks, then the filler),    *)
(* validate_fill, and the retries of patcher.py's run_assumed_fill.        *)
(*                                                                         *)
(* The queue item_pool is kept in three parts, since rng decides the order *)
(* of most of it only by bands: front, what a fallback moved forward;      *)
(* pending, what the sort has left in no order but that of its bands;      *)
(* back, what a fallback appended.                                         *)
(***************************************************************************)
EXTENDS Playthrough, Sequences

CONSTANTS
    Worlds,            \* bound: the locations, items and options of a seed
    MaxDisplacements,  \* MAX_DISPLACEMENTS, 200 in the code
    MaxAttempts        \* bound on MAX_RETRIES, 5 or 40 in the code

ASSUME AssumedFillAssumption == MaxDisplacements \in Nat /\ MaxAttempts \in Nat \ {0}

\* build_item_pool takes the items out of slots that are neither barrels nor
\* cadeaux, and refuses a table with two Engineer's Keys.
ASSUME WorldsAssumption ==
    \A x \in Worlds :
        /\ IsFiniteSet(DOMAIN x.locs) /\ IsFiniteSet(DOMAIN x.items)
        /\ Cardinality(DOMAIN x.items) <=
             Cardinality({l \in DOMAIN x.locs :
                 x.locs[l].category \notin {"boss", "true_form", "barrel", "cadeaux"}})
        /\ \A i, j \in DOMAIN x.items : x.items[i].kind = "ENG_KEY" =>
             x.items[i].category # "soul" /\ (x.items[j].kind = "ENG_KEY" => i = j)

\* The types of a world.  What a weapon, lore or bonus object gives no rule ever
\* asks for, Jack's Schematic aside, and the gad powers are in the pool only when
\* they are items of the seed; a run is refused that starts with them otherwise.
ASSUME WorldTypes ==
    \A x \in Worlds :
        /\ \A l \in DOMAIN x.locs : x.locs[l].expr \subseteq SUBSET (Gate \cup Token)
        /\ x.options.remap \in [Gate -> 0 .. 10]
        /\ x.options.souls \in [0 .. 10 -> Nat]
        /\ x.options.pistons \in Nat
        /\ x.start \in [ItemKind -> Nat]
        /\ x.retractors \in Nat
        /\ x.retractorLevel \in [DOMAIN x.items -> Liveside]
        /\ x.gadItems \in BOOLEAN
        /\ \A i \in DOMAIN x.items :
              /\ x.items[i].category \in {"weapon", "lore", "bonus"} =>
                   x.items[i].kind \notin ItemKind \ {"SCHEMATIC"}
              /\ ~x.gadItems => x.items[i].kind # "GAD"
        /\ ~x.gadItems => x.start["GAD"] = 0

VARIABLES
    w,          \* the world of this seed
    phase,      \* "sweep", "filler", "validate", "accepted" or "raised"
    front, pending, back,   \* item_pool from the current position on
    placement,  \* location -> item
    failed,     \* items reported without a slot
    displaced,  \* fallback_displacements
    filler,     \* the cadeaux that found a slot
    attempt     \* run_assumed_fill's retries

vars == <<w, phase, front, pending, back, placement, failed, displaced, filler, attempt>>

SeqItems(s) == {s[i] : i \in DOMAIN s}

Category(i) == w.items[i].category
SlotCategory(l) == w.locs[l].category
RegionOf(l) == w.locs[l].region
Expr(l) == w.locs[l].expr

Slots == FillSlots(w)

-----------------------------------------------------------------------------
(* Where an item may go.                                                    *)

Named == {"progression", "eclipser", "retractor", "accumulator", "gad",
          "weapon", "lore", "bonus"}

Neutral(i) ==
    /\ Category(i) \in {"weapon", "lore", "bonus"}
    /\ ~(w.options.schematic /\ w.items[i].kind = "SCHEMATIC")

SlotAccepts(c) == IF c \in Named THEN Named ELSE {"soul"}

SlotOk(i, l) ==
    \/ w.insanity >= 3
    \/ w.insanity >= 2 /\ SlotCategory(l) \in {"soul", "cadeaux"}
    \/ w.insanity >= 1 /\ SlotCategory(l) = "soul"
    \/ Category(i) \in SlotAccepts(SlotCategory(l))

LivesideOk(i, l, st) ==
    CASE Category(i) = "retractor" /\ RegionOf(l) \in LivesideRegions ->
           /\ w.options.unique
           /\ RegionOf(l) \notin {w.retractorLevel[i], EngineSection[w.retractorLevel[i]]}
      [] Category(i) = "soul" /\ RegionOf(l) \in LivesideRegions -> Night(st)
      [] OTHER -> TRUE

\* _gate_reserved looks for the names in a location's rule, in whichever route
\* they stand, and asks for the item alone.  Cadeaux are placed after the sweep.
Reserved(l, st) ==
    \E t \in UNION Expr(l) \ Gate :
        CASE t \in {"FLAMBEAU", "CALABASH"} -> ~Has(st, t)
          [] t = "CADEAUX_666" -> TRUE
          [] t = "PISTONS" -> FALSE
          [] OTHER -> ~ItemRule(w.options, st, t)

\* What a candidate and a slot to displace from have in common.
Fits(i, l, sim) ==
    /\ l \in sim.reached
    /\ ~Reserved(l, sim.st)
    /\ SlotOk(i, l)
    /\ LivesideOk(i, l, sim.st)

Candidates(i, sim) == {l \in Slots \ DOMAIN placement : Fits(i, l, sim)}

Displaceable(i, sim) ==
    {l \in DOMAIN placement : Category(placement[l]) # "soul" /\ Fits(i, l, sim)}

NeutralVictims(i, sim) == {l \in Displaceable(i, sim) : Neutral(placement[l])}

MLogicVictimsUntried(i, sim) == Displaceable(i, sim)
\* A logic item gives way only if everything placed stays reachable with the
\* new item in its slot.
LogicVictims(i, sim) ==
    {l \in Displaceable(i, sim) :
        LET trial == [placement EXCEPT ![l] = i]
        IN DOMAIN trial \subseteq Simulate(w, trial, w.gadItems).reached}

Victims(i, sim) ==
    IF Neutral(i) \/ displaced >= MaxDisplacements THEN {}
    ELSE IF NeutralVictims(i, sim) # {} THEN NeutralVictims(i, sim)
    ELSE LogicVictims(i, sim)

-----------------------------------------------------------------------------
(* The queue.                                                               *)

\* The bands of _placement_priority, in tenths.
Band(i) ==
    CASE w.options.schematic /\ w.items[i].kind = "SCHEMATIC" -> <<1, 10>>
      [] Category(i) = "soul" -> <<0, 15>>
      [] Category(i) \in {"progression", "gad"} -> <<1, 10>>
      [] Category(i) \in {"eclipser", "retractor"} -> <<2, 10>>
      [] Category(i) = "weapon" -> <<4, 20>>
      [] Category(i) \in {"accumulator", "bonus"} -> <<4, 25>>
      [] OTHER -> <<20, 30>>

\* Among items the code cannot tell apart the first one stands for any.
Alike(i, j) == w.items[i] = w.items[j] /\ w.retractorLevel[i] = w.retractorLevel[j]

Foremost(S) == {i \in S : i = CHOOSE j \in S : Alike(i, j)}

NextPending ==
    {i \in Foremost(pending) : \A j \in pending : Band(i)[1] <= Band(j)[2]}

\* The items that may be next, and the queue without one of them.
NextItems ==
    IF front # << >> THEN {Head(front)}
    ELSE IF pending # {} THEN NextPending
    ELSE IF back # << >> THEN {Head(back)}
    ELSE {}

Queue(f, p, b) == [front |-> f, pending |-> p, back |-> b]

Without(i) ==
    CASE front # << >> -> Queue(Tail(front), pending, back)
      [] front = << >> /\ pending # {} -> Queue(front, pending \ {i}, back)
      [] OTHER -> Queue(front, pending, Tail(back))

Queued(q) == SeqItems(q.front) \cup q.pending \cup SeqItems(q.back)

Requeued(q, i) == Queue(q.front, q.pending, Append(q.back, i))

IsKey(i) == w.items[i].kind = "ENG_KEY"

\* A part of the queue once the Engineer's Key is taken out of it.
KeyTaken(s) ==
    LET at == {n \in DOMAIN s : IsKey(s[n])}
    IN IF at = {} THEN s
       ELSE LET n == CHOOSE n \in at : TRUE
            IN SubSeq(s, 1, n - 1) \o SubSeq(s, n + 1, Len(s))

\* Soulswap: soul takes the place of the blocked item i, which comes right
\* after it, followed by the Engineer's Key wherever that was.
SoulSwapped(q, i, soul) ==
    LET keys == {k \in Queued(q) : IsKey(k)}
        key == IF keys = {} THEN << >> ELSE <<CHOOSE k \in keys : TRUE>>
    IN Queue(<<i>> \o key \o KeyTaken(q.front),
             (q.pending \ {soul}) \ keys,
             KeyTaken(q.back))

-----------------------------------------------------------------------------
(* One iteration of the sweep: item i, blocked or not by then, and the       *)
(* queue q behind it.                                                       *)

SetQueue(q) == front' = q.front /\ pending' = q.pending /\ back' = q.back

Place(i, q, free) ==
    /\ \E l \in free :
          placement' = [x \in DOMAIN placement \cup {l} |-> IF x = l THEN i ELSE placement[x]]
    /\ SetQueue(q)
    /\ UNCHANGED <<failed, displaced>>

MDisplaceDrops(i, q, free, victims) ==
    /\ free = {}
    /\ \E l \in victims : placement' = [placement EXCEPT ![l] = i]
    /\ SetQueue(q)
    /\ displaced' = displaced + 1
    /\ UNCHANGED failed
Displace(i, q, free, victims) ==
    /\ free = {}
    /\ \E l \in victims :
          /\ placement' = [placement EXCEPT ![l] = i]
          /\ SetQueue(Requeued(q, placement[l]))
    /\ displaced' = displaced + 1
    /\ UNCHANGED failed

MDefersAlways(i, q) == Neutral(i)
Defers(i, q) == Neutral(i) /\ \E j \in Queued(q) : ~Neutral(j)

Defer(i, q, free, victims) ==
    /\ free = {} /\ victims = {}
    /\ Defers(i, q)
    /\ SetQueue(Requeued(q, i))
    /\ UNCHANGED <<placement, failed, displaced>>

NoSlot(i, q, free, victims) ==
    /\ free = {} /\ victims = {}
    /\ ~Defers(i, q)
    /\ failed' = failed \cup {i}
    /\ SetQueue(q)
    /\ UNCHANGED <<placement, displaced>>

\* What the iteration does with the item it has, after the soulswap if any.
Attempt(i, q, free, victims) ==
    \/ Place(i, q, free)
    \/ Displace(i, q, free, victims)
    \/ Defer(i, q, free, victims)
    \/ NoSlot(i, q, free, victims)

Souls(q) == {i \in Queued(q) : Category(i) = "soul"}

\* The soul that goes first if i is blocked, or i.
Turn(i, q, sim) ==
    IF Candidates(i, sim) = {} /\ Category(i) # "soul" /\ Souls(q) # {}
    THEN Foremost(Souls(q))
    ELSE {i}

Sweep ==
    /\ phase = "sweep"
    /\ \E sim \in {Simulate(w, placement, w.gadItems)} :
       \E i \in NextItems : \E j \in Turn(i, Without(i), sim) :
          Attempt(j, IF j = i THEN Without(i) ELSE SoulSwapped(Without(i), i, j),
                  Candidates(j, sim), Victims(j, sim))
    /\ UNCHANGED <<w, phase, filler, attempt>>

SweepDone ==
    /\ phase = "sweep"
    /\ NextItems = {}
    /\ phase' = "filler"
    /\ UNCHANGED <<w, front, pending, back, placement, failed, displaced, filler, attempt>>

MFillFillerUnfilled ==
    /\ phase = "filler"
    /\ LET slots(c) == {l \in Slots : SlotCategory(l) = c}
           cadeaux == Cardinality(slots("cadeaux") \ DOMAIN placement)
           barrels == Cardinality(slots("barrel") \ DOMAIN placement)
           left == Cardinality(Slots \ DOMAIN placement)
           used == IF cadeaux + barrels <= left THEN cadeaux + barrels ELSE left
       IN filler' \in {n \in 0 .. cadeaux : used - n \in 0 .. barrels}
    /\ phase' = "validate"
    /\ UNCHANGED <<w, front, pending, back, placement, failed, displaced, attempt>>
\* Every cadeau, and a barrel for each barrel slot still free, shuffled, go one
\* for one into the slots left; plain barrels fill what remains.  Which slot
\* gets which makes no difference to any rule: the cadeaux placed are counted.
FillFiller ==
    /\ phase = "filler"
    /\ LET slots(c) == {l \in Slots : SlotCategory(l) = c}
           cadeaux == Cardinality(slots("cadeaux"))
           barrels == Cardinality(slots("barrel") \ DOMAIN placement)
           left == Cardinality(Slots \ DOMAIN placement)
           used == IF cadeaux + barrels <= left THEN cadeaux + barrels ELSE left
       IN filler' \in {n \in 0 .. cadeaux : used - n \in 0 .. barrels}
    /\ phase' = "validate"
    /\ UNCHANGED <<w, front, pending, back, placement, failed, displaced, attempt>>

-----------------------------------------------------------------------------
(* validate_fill and run_assumed_fill.                                      *)

Validated == ValidFill(w, placement)

StartFill ==
    /\ front' = << >> /\ pending' = DOMAIN w.items /\ back' = << >>
    /\ placement' = << >>
    /\ failed' = {} /\ displaced' = 0 /\ filler' = 0

MValidateSettles ==
    /\ phase = "validate"
    /\ IF Validated \/ attempt = MaxAttempts
       THEN /\ phase' = "accepted"
            /\ UNCHANGED <<front, pending, back, placement, failed, displaced, filler, attempt>>
       ELSE /\ phase' = "sweep"
            /\ attempt' = attempt + 1
            /\ StartFill
    /\ UNCHANGED w
Validate ==
    /\ phase = "validate"
    /\ IF Validated \/ attempt = MaxAttempts
       THEN /\ phase' = IF Validated THEN "accepted" ELSE "raised"
            /\ UNCHANGED <<front, pending, back, placement, failed, displaced, filler, attempt>>
       ELSE /\ phase' = "sweep"
            /\ attempt' = attempt + 1
            /\ StartFill
    /\ UNCHANGED w

Init ==
    /\ w \in Worlds
    /\ phase = "sweep"
    /\ front = << >> /\ pending = DOMAIN w.items /\ back = << >>
    /\ placement = << >>
    /\ failed = {} /\ displaced = 0 /\ filler = 0
    /\ attempt = 1

Next == Sweep \/ SweepDone \/ FillFiller \/ Validate

Spec == Init /\ [][Next]_vars

-----------------------------------------------------------------------------
(* Properties.                                                              *)

AllItems == DOMAIN w.items

PlacedItems == {placement[l] : l \in DOMAIN placement}

\* No fallback loses or doubles an item: every item of the pool is placed in
\* one slot, or waits at one place of the queue, or was reported as having no
\* slot, and never two of these.
NothingLost ==
    /\ AllItems = PlacedItems \cup pending \cup SeqItems(front) \cup SeqItems(back) \cup failed
    /\ \A l, m \in DOMAIN placement : placement[l] = placement[m] => l = m
    /\ \A i, j \in DOMAIN front : front[i] = front[j] => i = j
    /\ \A i, j \in DOMAIN back : back[i] = back[j] => i = j
    /\ PlacedItems \cap (pending \cup SeqItems(front) \cup SeqItems(back) \cup failed) = {}
    /\ pending \cap (SeqItems(front) \cup SeqItems(back) \cup failed) = {}
    /\ SeqItems(front) \cap (SeqItems(back) \cup failed) = {}
    /\ SeqItems(back) \cap failed = {}

\* The forward-fill invariant: at every step of the sweep, whatever was
\* displaced, a player can still reach every slot that holds an item, with no
\* more than the items placed so far.
PlacedStaysReachable ==
    DOMAIN placement \subseteq Simulate(w, placement, w.gadItems).reached

\* What a player collects walking the region graph itself, one location at a
\* time, in no particular order: the reference the simulation is held against.
\* What he holds who has taken the locations got and been given gads by temples,
Held(got, gads) ==
    LET items == {placement[l] : l \in got \cap DOMAIN placement}
        of(c) == {i \in items : Category(i) = c}
    IN [inv |-> [k \in ItemKind |->
                    w.start[k] + Cardinality({i \in items : w.items[i].kind = k})
                    + IF k = "GAD" THEN gads ELSE 0],
        souls |-> Cardinality(of("soul")) + Cardinality(got \ Slots),
        retractors |-> w.retractors + Cardinality(of("retractor")),
        keys |-> {w.retractorLevel[i] : i \in of("retractor")},
        regions |-> {}]

\* where he can walk with it, and the gad powers of the temples there.
Seen(got, gads) == Walk(w.options, SamePlace, Held(got, gads))

TempleGads(seen) ==
    IF w.gadItems THEN 0
    ELSE Cardinality({n \in 1 .. 3 : \A m \in 1 .. n : Temple[m] \in seen})

Inventory(got) ==
    LET gads[n \in 0 .. 3] == IF n = 0 THEN 0 ELSE TempleGads(Seen(got, gads[n - 1]))
    IN [Held(got, gads[3]) EXCEPT !.regions = Seen(got, gads[3])]

CanTake(got) ==
    LET st == Inventory(got)
        open == OpenGates(w.options, st)
    IN {l \in DOMAIN w.locs \ got : Collectable(w, placement, st, st.regions, open, l)}

Collected ==
    LET n == Cardinality(DOMAIN w.locs)
        got[k \in 0 .. n] ==
            IF k = 0 THEN {}
            ELSE LET g == got[k - 1]
                     can == CanTake(g)
                 IN IF can = {} THEN g ELSE g \cup {CHOOSE l \in can : TRUE}
    IN got[n]

\* Walking the unshuffled region graph and taking one location after another
\* the player gets to every slot that holds an item and can stop the pistons
\* required.
Beatable ==
    LET got == Collected
    IN /\ DOMAIN placement \subseteq got
       /\ Pistons(w.options, Inventory(got))

\* A gad power that is an item of the seed found no slot.
PowerMissing == w.gadItems /\ \E i \in failed : Category(i) = "gad"

\* A seed that passes validation can be finished, whatever else of it was
\* reported as not placed, if the gad powers lie in the temples or have all
\* found a slot.
AcceptedIsBeatable == phase = "accepted" /\ ~PowerMissing => Beatable

\* README.md says of every seed that it is beatable, guaranteed before anything
\* is patched (68), and so does patcher.py of the retries (1053-1056).
EverySeedIsBeatable == phase = "accepted" => Beatable

\* Whatever the sweep took their slots for, all cadeaux are placed again.
CadeauxKept ==
    phase \in {"validate", "accepted", "raised"} =>
        filler = Cardinality({l \in Slots : SlotCategory(l) = "cadeaux"})

\* The sweep ends although it appends to the very queue it runs over.  Each of
\* its iterations lowers the first of these that it changes: the displacements
\* left, the logic items queued, the items queued, those not yet moved to the
\* back, and the neutral items that head the back.
WholeQueue == Queue(front, pending, back)

HeadingNeutral(b) == {b[n] : n \in {m \in DOMAIN b : \A k \in 1 .. m : Neutral(b[k])}}

Measure ==
    <<MaxDisplacements - displaced,
      Cardinality({i \in Queued(WholeQueue) : ~Neutral(i)}),
      Cardinality(Queued(WholeQueue)),
      Cardinality(SeqItems(front) \cup pending),
      Cardinality(HeadingNeutral(back))>>

LexLess(s, t) ==
    \E n \in DOMAIN s : s[n] < t[n] /\ \A m \in 1 .. n - 1 : s[m] = t[m]

SweepWindsDown ==
    [][phase = "sweep" /\ phase' = "sweep" =>
          /\ LexLess(Measure', Measure)
          /\ \A n \in DOMAIN Measure : Measure'[n] >= 0]_vars
=============================================================================
