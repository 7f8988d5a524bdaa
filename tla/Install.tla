------------------------------- MODULE Install -------------------------------
(***************************************************************************)
(* A game directory and the processes that change it: patcher.py's         *)
(* run_patcher for a standalone seed, ap_patcher.py's for an Archipelago   *)
(* seed, and --restore, one at a time (gui.py and ap_gui.py start no       *)
(* second one), each of which may be interrupted between any two steps,    *)
(* while the player may start and quit the game.  What a run writes into   *)
(* the level files is identified with the run; ExePatches has the details  *)
(* of its patches of the executable.                                       *)
(***************************************************************************)
EXTENDS Integers, FiniteSets

CONSTANTS
    Seeds,    \* the seeds played
    Legacy,   \* stands for shadowman_randomizer.kpf, the name of older builds
    MaxRuns,  \* bound: processes started
    MaxPlays  \* bound: times the game is started

ASSUME InstallAssumption ==
    /\ Legacy \notin Seeds
    /\ MaxRuns \in Nat
    /\ MaxPlays \in Nat

VARIABLES
    exe,   \* thoth_x64_patched.exe: NoExe or [run, whole]
    mods,  \* the randomizer's archives in mods/: [name, run, from, whole]
    cfg,   \* g_deadsidegunmode in kexengine.cfg: "off", "on" or no file, "absent"
    dirs,  \* work directory <<seed, suffix>> -> the runs whose patches are in it
    game,  \* the running game: [exe: "none", "vanilla" or "patched", guns]
    plays, \* times it was started
    run    \* the process that runs or ran last

vars == <<exe, mods, cfg, dirs, game, plays, run>>

NoExe == [run |-> 0, whole |-> FALSE]
NoDir == <<>>
Playing == game.exe # "none"
Locked == game.exe = "patched"  \* Windows keeps a running program's file

Kinds == {"standalone", "ap", "restore"}
Ends == {"completed", "vision", "restored", "aborted"}

Over == run.pc \in Ends
At(pc) == run.pc = pc
Goto(pc) == run' = [run EXCEPT !.pc = pc, !.met = @ \/ Playing]

\* mkdir(exist_ok): a new directory is empty.
Made(d) == [e \in DOMAIN dirs \cup {d} |-> IF e \in DOMAIN dirs THEN dirs[e] ELSE {}]

-----------------------------------------------------------------------------
(* Starting.  A dry run and Deadside Guns are options of the run.           *)

Start(kind, seed, dry, guns) ==
    run' = [n |-> run.n + 1, kind |-> kind, seed |-> seed, dry |-> dry,
            guns |-> IF guns THEN "asked" ELSE "no", dir |-> NoDir,
            warned |-> FALSE, met |-> Playing,
            pc |-> IF kind = "restore" THEN "clear" ELSE "extract"]

Standalone(seed, dry, guns) ==
    /\ Over /\ run.n < MaxRuns
    /\ Start("standalone", seed, dry, guns)
    /\ UNCHANGED <<exe, mods, cfg, dirs, game, plays>>

\* apply_ap_seed.py makes its output directory, which has the name of the work
\* directory, before it starts the run.
Archipelago(seed, guns) ==
    /\ Over /\ run.n < MaxRuns
    /\ Start("ap", seed, FALSE, guns)
    /\ dirs' = Made(<<seed, 0>>)
    /\ UNCHANGED <<exe, mods, cfg, game, plays>>

Restore ==
    /\ Over /\ run.n < MaxRuns
    /\ Start("restore", Legacy, FALSE, FALSE)
    /\ UNCHANGED <<exe, mods, cfg, dirs, game, plays>>

-----------------------------------------------------------------------------
(* The level files.                                                         *)

MWorkDirKept(seed) == <<seed, 0>>
\* The first name of _randomizer_work_<seed>, _01, _02, ... that is free.
WorkDir(seed) ==
    LET free == {k \in 0 .. Cardinality(DOMAIN dirs) : <<seed, k>> \notin DOMAIN dirs}
    IN <<seed, CHOOSE k \in free : \A j \in free : k <= j>>

\* mkdir and extract_game_files, from the game's own archives and not over a
\* file that is there.
Extract ==
    /\ At("extract")
    /\ run' = [run EXCEPT !.pc = "levels", !.dir = WorkDir(run.seed), !.met = @ \/ Playing]
    /\ dirs' = Made(WorkDir(run.seed))
    /\ UNCHANGED <<exe, mods, cfg, game, plays>>

MPatchLevelsDry ==
    /\ At("levels")
    /\ dirs' = [dirs EXCEPT ![run.dir] = @ \cup {run.n}]
    /\ Goto("unlink")
    /\ UNCHANGED <<exe, mods, cfg, game, plays>>
\* Gad records, gates, items, tracker texts and entrances, written into the work
\* directory; a dry run stops after the spoiler log.
PatchLevels ==
    /\ At("levels")
    /\ dirs' = [dirs EXCEPT ![run.dir] = @ \cup {run.n}]
    /\ Goto(IF run.dry THEN "vision" ELSE IF run.kind = "ap" THEN "copy" ELSE "unlink")
    /\ UNCHANGED <<exe, mods, cfg, game, plays>>

-----------------------------------------------------------------------------
(* The executable and the settings file.                                    *)

MDeniedGoesOn == Goto("cfg")
\* PermissionError.  patcher.py prints a warning and leaves the exe as it is;
\* ap_patcher.py lets it end the run.
Denied ==
    IF run.kind = "ap" THEN Goto("aborted")
    ELSE run' = [run EXCEPT !.pc = "cfg", !.warned = TRUE, !.met = @ \/ Playing]

\* patcher.py deletes the old copy first.
Unlink ==
    /\ At("unlink")
    /\ IF Locked
       THEN Denied /\ UNCHANGED exe
       ELSE exe' = NoExe /\ Goto("copy")
    /\ UNCHANGED <<mods, cfg, dirs, game, plays>>

Copy ==
    /\ At("copy")
    /\ IF Locked
       THEN Denied /\ UNCHANGED exe
       ELSE exe' = [run |-> run.n, whole |-> FALSE] /\ Goto("patch")
    /\ UNCHANGED <<mods, cfg, dirs, game, plays>>

\* All the patches; what was written when one is denied stays.
PatchExe ==
    /\ At("patch")
    /\ IF Locked
       THEN Denied /\ UNCHANGED exe
       ELSE exe' = [exe EXCEPT !.whole = TRUE] /\ Goto("cfg")
    /\ UNCHANGED <<mods, cfg, dirs, game, plays>>

\* apply_deadside_guns_toggle, only ever called to switch them on; set_cvar does
\* nothing when the game has not made the file yet.
SetGuns ==
    /\ At("cfg")
    /\ IF run.guns = "asked" /\ cfg # "absent"
       THEN /\ cfg' = "on"
            /\ run' = [run EXCEPT !.pc = "clear", !.guns = "set", !.met = @ \/ Playing]
       ELSE Goto("clear") /\ UNCHANGED cfg
    /\ UNCHANGED <<exe, mods, dirs, game, plays>>

-----------------------------------------------------------------------------
(* The archive.                                                             *)

MFindModsOwn == {m \in mods : m.name = run.seed}
\* find_mod_kpfs: every seed's archive, and the name of older builds.
FindMods == {m \in mods : m.name \in Seeds \cup {Legacy}}

\* remove_mod_kpf.  A game that runs may hold an archive open.
RemoveMod ==
    /\ At("clear")
    /\ \E m \in FindMods :
          \/ mods' = mods \ {m} /\ Goto("clear")
          \/ Playing /\ Goto("aborted") /\ UNCHANGED mods
    /\ UNCHANGED <<exe, cfg, dirs, game, plays>>

\* create_mod_kpf opens the archive, fills it, and closes it.
OpenMod ==
    /\ At("clear") /\ FindMods = {} /\ run.kind # "restore"
    /\ mods' = {m \in mods : m.name # run.seed}
               \cup {[name |-> run.seed, run |-> run.n, from |-> dirs[run.dir],
                      whole |-> FALSE]}
    /\ Goto("zip")
    /\ UNCHANGED <<exe, cfg, dirs, game, plays>>

CloseMod ==
    /\ At("zip")
    /\ mods' = {IF m.run = run.n THEN [m EXCEPT !.whole = TRUE] ELSE m : m \in mods}
    /\ Goto("completed")
    /\ UNCHANGED <<exe, cfg, dirs, game, plays>>

Restored ==
    /\ At("clear") /\ FindMods = {} /\ run.kind = "restore"
    /\ Goto("restored")
    /\ UNCHANGED <<exe, mods, cfg, dirs, game, plays>>

\* An exception (a fill that fails, an exe that is not the expected one, a full
\* disk), the end of the process or of the computer: nothing is undone.
Interrupted ==
    /\ ~Over
    /\ Goto("aborted")
    /\ UNCHANGED <<exe, mods, cfg, dirs, game, plays>>

-----------------------------------------------------------------------------
(* The player.                                                              *)

\* The game reads its settings once, and the file is made by its first exit.
StartGame(which) ==
    /\ ~Playing /\ plays < MaxPlays
    /\ which = "patched" => exe # NoExe
    /\ game' = [exe |-> which, guns |-> cfg = "on"]
    /\ plays' = plays + 1
    /\ run' = [run EXCEPT !.met = @ \/ ~Over]
    /\ UNCHANGED <<exe, mods, cfg, dirs>>

\* It writes its own settings over whatever is in the file by then.
QuitGame ==
    /\ Playing
    /\ game' = [exe |-> "none", guns |-> FALSE]
    /\ cfg' = IF game.guns THEN "on" ELSE "off"
    /\ UNCHANGED <<exe, mods, dirs, plays, run>>

\* Left-over work directories are "safe to delete".
DeleteDir ==
    /\ \E d \in DOMAIN dirs :
          /\ Over
          /\ dirs' = [e \in DOMAIN dirs \ {d} |-> dirs[e]]
    /\ UNCHANGED <<exe, mods, cfg, game, plays, run>>

Init ==
    /\ exe = NoExe
    /\ mods \in {{}, {[name |-> Legacy, run |-> 0, from |-> {0}, whole |-> TRUE]}}
    /\ cfg \in {"absent", "off", "on"}
    /\ dirs = [d \in {} |-> {}]
    /\ game = [exe |-> "none", guns |-> FALSE]
    /\ plays = 0
    /\ run = [n |-> 0, kind |-> "restore", seed |-> Legacy, dry |-> FALSE, guns |-> "no",
              dir |-> NoDir, warned |-> FALSE, met |-> FALSE, pc |-> "aborted"]

Next ==
    \/ \E seed \in Seeds, dry, guns \in BOOLEAN : Standalone(seed, dry, guns)
    \/ \E seed \in Seeds, guns \in BOOLEAN : Archipelago(seed, guns)
    \/ Restore
    \/ Extract \/ PatchLevels \/ Unlink \/ Copy \/ PatchExe \/ SetGuns
    \/ RemoveMod \/ OpenMod \/ CloseMod \/ Restored
    \/ Interrupted
    \/ \E which \in {"vanilla", "patched"} : StartGame(which)
    \/ QuitGame \/ DeleteDir

Spec == Init /\ [][Next]_vars

-----------------------------------------------------------------------------
(* Properties.                                                              *)

Names == Seeds \cup {Legacy}
Steps == {"extract", "levels", "unlink", "copy", "patch", "cfg", "clear", "zip"}

DirNames == {NoDir} \cup (Names \X Nat)

RunType ==
    [n : Nat, kind : Kinds, seed : Names, dry : BOOLEAN, guns : {"no", "asked", "set"},
     dir : DirNames, warned : BOOLEAN, met : BOOLEAN, pc : Steps \cup Ends]

TypeOK ==
    /\ exe \in [run : Nat, whole : BOOLEAN]
    /\ mods \subseteq [name : Names, run : Nat, from : SUBSET Nat, whole : BOOLEAN]
    /\ cfg \in {"absent", "off", "on"}
    /\ IsFiniteSet(DOMAIN dirs) /\ dirs = [d \in DOMAIN dirs |-> dirs[d]]
    /\ game \in [exe : {"none", "vanilla", "patched"}, guns : BOOLEAN]
    /\ run \in RunType

\* The game loads every archive in mods/, so two of the randomizer's would mix
\* two seeds: whichever seeds, pipelines, older builds and interrupted runs came
\* before, there is never more than one.
OneMod == Cardinality(mods) <= 1

\* An archive holds the level files of its own run alone: no byte of an earlier
\* run of the same seed, completed, dry or interrupted, gets into it.
PureMod == \A m \in mods : m.name \in Seeds => m.from = {m.run}

\* What the last run said is what the player has.  A run that completes without
\* a warning leaves its own executable and its own archive, both whole,
\* whatever earlier interrupted runs left and although the game may have been
\* started in the middle of it; the guns it switched on stay on if the game was
\* not running; and a completed restore leaves no archive.
SaidIsDone ==
    /\ At("completed") =>
          /\ ~run.warned => exe = [run |-> run.n, whole |-> TRUE]
          /\ \A m \in mods : m.run = run.n /\ m.whole
          /\ mods # {}
          /\ run.guns = "set" /\ ~run.met => cfg = "on"
    /\ At("restored") => mods = {}

\* A dry run changes nothing the game reads.
DryRunHarmless ==
    [][run.dry /\ run' # run /\ run'.n = run.n => UNCHANGED <<exe, mods, cfg>>]_vars
=============================================================================
