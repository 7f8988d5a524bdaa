---------------------------- MODULE GameSession ----------------------------
(***************************************************************************)
(* The game process as apworld/client.py sees it from outside: closed, at   *)
(* the title screen, in between, or in a level; a live inventory that       *)
(* exists only while a save is loaded; native pickups that change it at     *)
(* once; a save file that keeps it.  The game is not part of src/; this is  *)
(* what the client's reads and comments say of it.                          *)
(***************************************************************************)
EXTENDS Naturals

CONSTANTS Kinds,               \* the kinds of item followed, a subset of AllKinds
          Locs,                \* locations of our own world that hold one of them
          KindOf,              \* which kind the item at a location is
          MaxMoves,            \* bound: launches, loads, warps, quits and closes
          SavesBeforeLeaving   \* TRUE: the player never leaves unsaved progress behind

(* soul: the Dark Soul counter; cadeaux: the cadeaux counter; stack: a counter
   item such as Retractor or Accumulator; flag: a one-time possession flag. *)
AllKinds == {"soul", "cadeaux", "stack", "flag"}

ASSUME GameAssumption ==
    /\ Kinds \subseteq AllKinds
    /\ KindOf \in [Locs -> Kinds]
    /\ MaxMoves \in Nat
    /\ SavesBeforeLeaving \in BOOLEAN

VARIABLES game,   \* "closed", "title", "moving" (unclear reads), "level"
          live,   \* the live inventory, a count per kind
          taken,  \* the locations already emptied in the loaded save
          saved,  \* the save file: its inventory and emptied locations
          moves   \* session changes so far

gameVars == <<game, live, taken, saved, moves>>

Empty == [k \in Kinds |-> 0]

GameTypeOK ==
    /\ game \in {"closed", "title", "moving", "level"}
    /\ live \in [Kinds -> Nat] /\ taken \subseteq Locs
    /\ saved \in [live : [Kinds -> Nat], taken : SUBSET Locs]
    /\ moves \in 0..MaxMoves

GameInit ==
    /\ game = "closed" /\ live = Empty /\ taken = {} /\ moves = 0
    /\ saved = [live |-> Empty, taken |-> {}]

Moved == moves < MaxMoves /\ moves' = moves + 1

(* No inventory structure exists: what memory held is gone. *)
Unload == live' = Empty /\ taken' = {}

MayLeave == SavesBeforeLeaving /\ game \in {"level", "moving"}
            => saved = [live |-> live, taken |-> taken]

Launch == game = "closed" /\ Moved /\ game' = "title" /\ Unload /\ UNCHANGED saved

(* Continue or New Game: the save's state becomes live while the level loads. *)
LoadSave == game = "title" /\ Moved /\ game' = "moving"
            /\ live' = saved.live /\ taken' = saved.taken /\ UNCHANGED saved

EnterLevel == game = "moving" /\ game' = "level" /\ UNCHANGED <<live, taken, saved, moves>>

(* Moving between levels the title flags may read unclear, or not. *)
Warp == game = "level" /\ Moved /\ game' = "moving"
        /\ UNCHANGED <<live, taken, saved>>

QuitToTitle == game \in {"level", "moving"} /\ MayLeave /\ Moved
               /\ game' = "title" /\ Unload /\ UNCHANGED saved

Close == game # "closed" /\ MayLeave /\ Moved /\ game' = "closed" /\ Unload /\ UNCHANGED saved

Save == game = "level" /\ saved' = [live |-> live, taken |-> taken]
        /\ UNCHANGED <<game, live, taken, moves>>

(* The native pickup handler: a counter goes up by one, whatever the item is
   worth to Archipelago, and a possession flag is set. *)
NativePickup(l) ==
    /\ game = "level" /\ l \notin taken
    /\ taken' = taken \cup {l}
    /\ live' = [live EXCEPT ![KindOf[l]] = IF KindOf[l] = "flag" THEN 1 ELSE @ + 1]
    /\ UNCHANGED <<game, saved, moves>>
=============================================================================
