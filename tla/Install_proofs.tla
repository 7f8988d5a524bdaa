--------------------------- MODULE Install_proofs ---------------------------
(***************************************************************************)
(* Proofs about the installer, for any number of seeds, runs and games      *)
(* played: each property of Install is inductive together with what a run   *)
(* in progress knows of its directory, its executable and the settings; and *)
(* about the executable that the installer patches, ExePatches: no patch    *)
(* stands in the way of another, on disk or in the image Windows loads.     *)
(***************************************************************************)
EXTENDS Install, ExePatches, SequenceTheorems, FiniteSetTheorems, WellFoundedInduction,
        TLAPS

(* A run's directory is empty when it is made and holds its own patches after. *)
DirIsOwn ==
    ~Over /\ run.kind # "restore" /\ ~At("extract") =>
        /\ run.dir \in DOMAIN dirs
        /\ dirs[run.dir] = IF At("levels") THEN {} ELSE {run.n}

(* A restore has no steps but the removal, a dry run none but the level files. *)
Route ==
    /\ run.kind = "restore" /\ ~Over => At("clear")
    /\ run.dry /\ ~Over => At("extract") \/ At("levels")
    /\ At("completed") \/ At("zip") => run.kind # "restore"

(* The executable is the run's own from the copy on, unless it was denied. *)
ExeIsOwn ==
    /\ At("patch") => exe = [run |-> run.n, whole |-> FALSE]
    /\ run.pc \in {"cfg", "clear", "zip", "completed"} /\ run.kind # "restore" /\ ~run.warned =>
           exe = [run |-> run.n, whole |-> TRUE]

(* There is at most one archive, and once a run has opened its own, it is that. *)
OneArchive == \A m, o \in mods : m = o
ModIsOwn ==
    /\ At("zip") \/ At("completed") => mods # {} /\ \A m \in mods : m.run = run.n
    /\ At("completed") => \A m \in mods : m.whole
    /\ At("restored") => mods = {}

(* A run that has not met a game has none running, and the guns it switched on
   are on, in the file and in any game started since. *)
GunsStay ==
    /\ ~Over /\ ~run.met => ~Playing
    /\ run.guns = "set" /\ ~run.met => cfg = "on" /\ (Playing => game.guns)

InstallInv ==
    /\ TypeOK /\ DirIsOwn /\ Route /\ ExeIsOwn /\ OneArchive /\ PureMod /\ ModIsOwn /\ GunsStay

-----------------------------------------------------------------------------
(* The directory a run makes for itself is new. *)

(* A non-empty set of naturals has a least element. *)
LEMMA LeastNatural ==
    ASSUME NEW S \in SUBSET Nat, S # {}
    PROVE  \E k \in S : \A j \in S : k <= j
  <1> DEFINE R == {ss \in Nat \X Nat : ss[1] < ss[2]}
  <1>1. IsWellFoundedOn(R, Nat)
    BY NatLessThanWellFounded DEF OpToRel
  <1>2. PICK k \in S : \A j \in S : ~(<<j, k>> \in R)
    <2> HIDE DEF R
    <2> QED BY <1>1, WFMin
  <1>3. ASSUME NEW j \in S PROVE k <= j
    <2>1. j \in Nat /\ k \in Nat
      OBVIOUS
    <2>2. <<j, k>> \in Nat \X Nat /\ <<j, k>>[1] = j /\ <<j, k>>[2] = k
      BY <2>1
    <2>3. ~(j < k)
      BY <1>2, <2>2
    <2> QED
      BY <2>1, <2>3
  <1> QED
    BY <1>3

(* Of one more suffix than there are directories one is free. *)
LEMMA SomeSuffixIsFree ==
    ASSUME NEW seed, NEW D, IsFiniteSet(D)
    PROVE  \E k \in 0 .. Cardinality(D) : <<seed, k>> \notin D
  <1> DEFINE K == 0 .. Cardinality(D)
             f == [k \in K |-> <<seed, k>>]
  <1>1. Cardinality(D) \in Nat
    BY FS_CardinalityType
  <1>2. IsFiniteSet(K) /\ Cardinality(K) = Cardinality(D) + 1
    BY <1>1, FS_Interval
  <1>3. SUFFICES ASSUME \A k \in K : <<seed, k>> \in D PROVE FALSE
    OBVIOUS
  <1>4. f \in [K -> D]
    BY <1>3
  <1>5. \E x, y \in K : x # y /\ f[x] = f[y]
    <2> HIDE DEF f, K
    <2> QED BY <1>1, <1>2, <1>4, FS_PigeonHole
  <1> QED
    BY <1>5

(* WorkDir (patcher.py 1682-1698) names no directory that exists. *)
LEMMA WorkDirIsNew ==
    ASSUME TypeOK, NEW seed \in Names
    PROVE  WorkDir(seed) \in (Names \X Nat) /\ WorkDir(seed) \notin DOMAIN dirs
  <1> DEFINE free == {k \in 0 .. Cardinality(DOMAIN dirs) : <<seed, k>> \notin DOMAIN dirs}
             k0 == CHOOSE k \in free : \A j \in free : k <= j
  <1>1. free # {} /\ free \in SUBSET Nat
    <2>1. \E k \in 0 .. Cardinality(DOMAIN dirs) : <<seed, k>> \notin DOMAIN dirs
      BY SomeSuffixIsFree DEF TypeOK
    <2>2. Cardinality(DOMAIN dirs) \in Nat
      BY FS_CardinalityType DEF TypeOK
    <2> QED
      BY <2>1, <2>2
  <1>2. \E k \in free : \A j \in free : k <= j
    <2> HIDE DEF free
    <2> QED BY <1>1, LeastNatural
  <1>3. k0 \in free
    <2> HIDE DEF free
    <2> QED BY <1>2
  <1>4. WorkDir(seed) = <<seed, k0>>
    BY DEF WorkDir
  <1>5. k0 \in Nat /\ <<seed, k0>> \notin DOMAIN dirs
    BY <1>1, <1>3
  <1> HIDE DEF k0
  <1> QED
    BY <1>4, <1>5

-----------------------------------------------------------------------------
(* The invariant. *)

(* A fresh game directory, or one with an archive of an older build. *)
LEMMA InitInv == Init => InstallInv
  <1> SUFFICES ASSUME Init PROVE InstallInv
    OBVIOUS
  <1> USE DEF Init, NoExe, NoDir, Over, At, Ends, Kinds, Playing
  <1>1. IsFiniteSet(DOMAIN dirs)
    BY FS_EmptySet
  <1>2. TypeOK
    <2>1. mods \subseteq [name : Names, run : Nat, from : SUBSET Nat, whole : BOOLEAN]
      <3>1. {0} \in SUBSET Nat /\ Legacy \in Names
        BY DEF Names
      <3>2. [name |-> Legacy, run |-> 0, from |-> {0}, whole |-> TRUE]
              \in [name : Names, run : Nat, from : SUBSET Nat, whole : BOOLEAN]
        BY <3>1
      <3> QED
        BY <3>2
    <2>2. run \in RunType
      BY DEF RunType, DirNames, Names, Steps
    <2>3. dirs = [d \in DOMAIN dirs |-> dirs[d]]
      OBVIOUS
    <2> QED
      BY <1>1, <2>1, <2>2, <2>3 DEF TypeOK
  <1>3. PureMod
    BY InstallAssumption DEF PureMod
  <1> QED
    BY <1>2, <1>3 DEF InstallInv, DirIsOwn, Route, ExeIsOwn, OneArchive, ModIsOwn, GunsStay

(* Making a directory keeps the table a table, and changes no other entry. *)
LEMMA MadeType ==
    ASSUME TypeOK, NEW d
    PROVE  /\ DOMAIN Made(d) = DOMAIN dirs \cup {d}
           /\ IsFiniteSet(DOMAIN Made(d)) /\ Made(d) = [e \in DOMAIN Made(d) |-> Made(d)[e]]
           /\ d \notin DOMAIN dirs => Made(d)[d] = {}
  <1>1. IsFiniteSet(DOMAIN dirs \cup {d})
    BY FS_AddElement DEF TypeOK
  <1> QED
    BY <1>1 DEF Made

-----------------------------------------------------------------------------
(* Steps. *)

(* A process that goes on is a process. *)
LEMMA RunMoves ==
    ASSUME run \in RunType, NEW pc \in Steps \cup Ends, NEW met \in BOOLEAN
    PROVE  /\ [run EXCEPT !.pc = pc, !.met = met] \in RunType
           /\ [run EXCEPT !.pc = pc, !.warned = TRUE, !.met = met] \in RunType
           /\ [run EXCEPT !.pc = pc, !.guns = "set", !.met = met] \in RunType
           /\ \A dir \in DirNames : [run EXCEPT !.pc = pc, !.dir = dir, !.met = met] \in RunType
  BY DEF RunType

(* The stages of a run and its ends are different names. *)
LEMMA Stages ==
    /\ {"extract", "levels", "unlink", "copy", "patch", "cfg", "clear", "zip"} = Steps
    /\ {"completed", "vision", "restored", "aborted"} = Ends
    /\ \A x \in {"extract", "levels", "unlink", "copy", "patch", "cfg", "clear", "zip",
                 "completed", "vision", "restored", "aborted"} : x \in Steps \cup Ends
  BY DEF Steps, Ends

(* What the types say of the process. *)
LEMMA RunFields ==
    ASSUME TypeOK
    PROVE  /\ run.met \in BOOLEAN /\ Playing \in BOOLEAN /\ run.n \in Nat
           /\ run.seed \in Names /\ (run.met \/ Playing) \in BOOLEAN
           /\ (run.met \/ ~Over) \in BOOLEAN
  BY DEF TypeOK, RunType, Playing, Over

(* What a step to pc leaves of the process. *)
LEMMA GotoFields ==
    ASSUME TypeOK, NEW pc \in Steps \cup Ends, Goto(pc)
    PROVE  /\ run' \in RunType
           /\ run'.pc = pc /\ run'.met = (run.met \/ Playing)
           /\ run'.n = run.n /\ run'.kind = run.kind /\ run'.dry = run.dry
           /\ run'.dir = run.dir /\ run'.guns = run.guns /\ run'.warned = run.warned
           /\ run'.seed = run.seed
  <1>1. (run.met \/ Playing) \in BOOLEAN
    BY RunFields
  <1>2. run' \in RunType
    BY <1>1, RunMoves DEF Goto, TypeOK
  <1> QED
    BY <1>2 DEF Goto, TypeOK, RunType

(* A refused write ends an Archipelago run and warns a standalone one. *)
LEMMA DeniedFields ==
    ASSUME TypeOK, Denied
    PROVE  /\ run' \in RunType
           /\ run'.met = (run.met \/ Playing) /\ run'.n = run.n /\ run'.kind = run.kind
           /\ run'.dry = run.dry /\ run'.dir = run.dir /\ run'.guns = run.guns
           /\ run'.pc = "aborted" \/ (run'.pc = "cfg" /\ run'.warned)
  <1>1. (run.met \/ Playing) \in BOOLEAN /\ run \in RunType
    BY RunFields DEF TypeOK
  <1>2. "cfg" \in Steps \cup Ends /\ "aborted" \in Steps \cup Ends
    BY Stages
  <1>3. CASE run.kind = "ap"
    <2>1. Goto("aborted")
      BY <1>3 DEF Denied
    <2> QED
      BY <1>2, <2>1, GotoFields
  <1>4. CASE run.kind # "ap"
    <2>1. run' = [run EXCEPT !.pc = "cfg", !.warned = TRUE, !.met = run.met \/ Playing]
      BY <1>4 DEF Denied
    <2>2. run' \in RunType
      BY <1>1, <1>2, <2>1, RunMoves
    <2> QED
      BY <1>1, <2>1, <2>2 DEF RunType
  <1> QED
    BY <1>3, <1>4

(* remove_mod_kpf knows every name an archive of the randomizer can have. *)
LEMMA AllFound == TypeOK => FindMods = mods
  BY DEF TypeOK, FindMods, Names

(* A run starts where the last one ended and owns nothing yet. *)
LEMMA StartInv ==
    ASSUME InstallInv, NEW kind \in Kinds, NEW seed \in Names,
           NEW dry \in BOOLEAN, NEW guns \in BOOLEAN,
           kind # "standalone" => ~dry, Over, Start(kind, seed, dry, guns),
           dirs' = dirs \/ dirs' = Made(<<seed, 0>>), UNCHANGED <<exe, mods, cfg, game>>
    PROVE  InstallInv'
  <1> USE DEF InstallInv, At
  <1>1. TypeOK'
    <2>1. run.n + 1 \in Nat /\ Playing \in BOOLEAN /\ NoDir \in DirNames
      BY RunFields DEF DirNames
    <2>2. (IF kind = "restore" THEN "clear" ELSE "extract") \in Steps \cup Ends
      BY Stages
    <2>3. run' \in RunType
      BY <2>1, <2>2 DEF Start, RunType
    <2>4. IsFiniteSet(DOMAIN dirs') /\ dirs' = [d \in DOMAIN dirs' |-> dirs'[d]]
      <3>1. CASE dirs' = dirs
        BY <3>1 DEF TypeOK
      <3>2. CASE dirs' = Made(<<seed, 0>>)
        BY <3>2, MadeType
      <3> QED
        BY <3>1, <3>2
    <2> QED
      BY <2>3, <2>4 DEF TypeOK
  <1>2. DirIsOwn'
    BY DEF Start, TypeOK, RunType, Over, Ends, Playing, DirIsOwn
  <1>3. Route'
    BY DEF Start, TypeOK, RunType, Over, Ends, Playing, Route
  <1>4. ExeIsOwn'
    BY DEF Start, TypeOK, RunType, Over, Ends, Playing, ExeIsOwn
  <1>5. OneArchive'
    BY DEF Start, TypeOK, RunType, Over, Ends, Playing, OneArchive
  <1>6. PureMod'
    BY DEF Start, TypeOK, RunType, Over, Ends, Playing, PureMod
  <1>7. ModIsOwn'
    BY DEF Start, TypeOK, RunType, Over, Ends, Playing, ModIsOwn
  <1>8. GunsStay'
    BY DEF Start, TypeOK, RunType, Over, Ends, Playing, GunsStay
  <1> QED
    BY <1>1, <1>2, <1>3, <1>4, <1>5, <1>6, <1>7, <1>8

(* Extracting makes a new, unpatched directory. *)
LEMMA ExtractInv ==
    ASSUME InstallInv, Extract
    PROVE  InstallInv'
  <1> USE DEF InstallInv, At
  <1>1. TypeOK'
    <2>1. WorkDir(run.seed) \in DirNames /\ (run.met \/ Playing) \in BOOLEAN
      BY RunFields, WorkDirIsNew DEF DirNames
    <2>2. run' \in RunType
      BY <2>1, Stages, RunMoves DEF Extract, TypeOK
    <2>3. IsFiniteSet(DOMAIN dirs') /\ dirs' = [d \in DOMAIN dirs' |-> dirs'[d]]
      BY MadeType DEF Extract
    <2> QED
      BY <2>2, <2>3 DEF Extract, TypeOK
  <1>2. DirIsOwn'
    <2>1. WorkDir(run.seed) \notin DOMAIN dirs
      BY RunFields, WorkDirIsNew
    <2>2. run'.dir = WorkDir(run.seed) /\ run'.pc = "levels"
      BY DEF Extract, TypeOK, RunType
    <2>3. run'.dir \in DOMAIN dirs' /\ dirs'[run'.dir] = {}
      BY <2>1, <2>2, MadeType DEF Extract
    <2> QED
      BY <2>2, <2>3 DEF DirIsOwn
  <1>3. Route'
    BY DEF Extract, TypeOK, RunType, Over, Ends, Playing, Route
  <1>4. ExeIsOwn'
    BY DEF Extract, TypeOK, RunType, Over, Ends, Playing, ExeIsOwn
  <1>5. OneArchive'
    BY DEF Extract, TypeOK, RunType, Over, Ends, Playing, OneArchive
  <1>6. PureMod'
    BY DEF Extract, TypeOK, RunType, Over, Ends, Playing, PureMod
  <1>7. ModIsOwn'
    BY DEF Extract, TypeOK, RunType, Over, Ends, Playing, ModIsOwn
  <1>8. GunsStay'
    BY DEF Extract, TypeOK, RunType, Over, Ends, Playing, GunsStay
  <1> QED
    BY <1>1, <1>2, <1>3, <1>4, <1>5, <1>6, <1>7, <1>8

(* Patching makes the directory the run's own. *)
LEMMA PatchLevelsInv ==
    ASSUME InstallInv, PatchLevels
    PROVE  InstallInv'
  <1> USE DEF InstallInv, At
  <1>1. TypeOK'
    <2>1. PICK pc \in {"vision", "copy", "unlink"} : Goto(pc)
      BY DEF PatchLevels
    <2>2. run' \in RunType
      BY <2>1, Stages, GotoFields
    <2> QED
      BY <2>2 DEF PatchLevels, TypeOK
  <1>2. DirIsOwn'
    BY DEF PatchLevels, Goto, TypeOK, RunType, Over, Ends, Playing, DirIsOwn
  <1>3. Route'
    BY DEF PatchLevels, Goto, TypeOK, RunType, Over, Ends, Playing, Route
  <1>4. ExeIsOwn'
    BY DEF PatchLevels, Goto, TypeOK, RunType, Over, Ends, Playing, ExeIsOwn
  <1>5. OneArchive'
    BY DEF PatchLevels, Goto, TypeOK, RunType, Over, Ends, Playing, OneArchive
  <1>6. PureMod'
    BY DEF PatchLevels, Goto, TypeOK, RunType, Over, Ends, Playing, PureMod
  <1>7. ModIsOwn'
    BY DEF PatchLevels, Goto, TypeOK, RunType, Over, Ends, Playing, ModIsOwn
  <1>8. GunsStay'
    BY DEF PatchLevels, Goto, TypeOK, RunType, Over, Ends, Playing, GunsStay
  <1> QED
    BY <1>1, <1>2, <1>3, <1>4, <1>5, <1>6, <1>7, <1>8

(* Deleting the old executable. *)
LEMMA UnlinkInv ==
    ASSUME InstallInv, Unlink
    PROVE  InstallInv'
  <1> USE DEF InstallInv, At
  <1>1. TypeOK'
    <2>1. exe' \in [run : Nat, whole : BOOLEAN]
      <3>1. exe' = exe \/ exe' = NoExe
        BY DEF Unlink
      <3>2. NoExe \in [run : Nat, whole : BOOLEAN]
        BY RunFields DEF Unlink, TypeOK, NoExe
      <3> QED
        BY <3>1, <3>2 DEF TypeOK
    <2>2. Denied \/ Goto("copy")
      BY DEF Unlink
    <2>3. run' \in RunType
      BY <2>2, Stages, GotoFields, DeniedFields
    <2> QED
      BY <2>1, <2>3 DEF Unlink, TypeOK
  <1>2. DirIsOwn'
    BY DEF Unlink, Goto, Denied, Locked, NoExe, TypeOK, RunType, Over, Ends, Playing, DirIsOwn
  <1>3. Route'
    BY DEF Unlink, Goto, Denied, Locked, NoExe, TypeOK, RunType, Over, Ends, Playing, Route
  <1>4. ExeIsOwn'
    BY DEF Unlink, Goto, Denied, Locked, NoExe, TypeOK, RunType, Over, Ends, Playing, ExeIsOwn
  <1>5. OneArchive'
    BY DEF Unlink, Goto, Denied, Locked, NoExe, TypeOK, RunType, Over, Ends, Playing, OneArchive
  <1>6. PureMod'
    BY DEF Unlink, Goto, Denied, Locked, NoExe, TypeOK, RunType, Over, Ends, Playing, PureMod
  <1>7. ModIsOwn'
    BY DEF Unlink, Goto, Denied, Locked, NoExe, TypeOK, RunType, Over, Ends, Playing, ModIsOwn
  <1>8. GunsStay'
    BY DEF Unlink, Goto, Denied, Locked, NoExe, TypeOK, RunType, Over, Ends, Playing, GunsStay
  <1> QED
    BY <1>1, <1>2, <1>3, <1>4, <1>5, <1>6, <1>7, <1>8

(* Copying the vanilla one. *)
LEMMA CopyInv ==
    ASSUME InstallInv, Copy
    PROVE  InstallInv'
  <1> USE DEF InstallInv, At
  <1>1. TypeOK'
    <2>1. exe' \in [run : Nat, whole : BOOLEAN]
      <3>1. exe' = exe \/ exe' = [run |-> run.n, whole |-> FALSE]
        BY DEF Copy
      <3>2. [run |-> run.n, whole |-> FALSE] \in [run : Nat, whole : BOOLEAN]
        BY RunFields DEF Copy, TypeOK
      <3> QED
        BY <3>1, <3>2 DEF TypeOK
    <2>2. Denied \/ Goto("patch")
      BY DEF Copy
    <2>3. run' \in RunType
      BY <2>2, Stages, GotoFields, DeniedFields
    <2> QED
      BY <2>1, <2>3 DEF Copy, TypeOK
  <1>2. DirIsOwn'
    BY DEF Copy, Goto, Denied, Locked, TypeOK, RunType, Over, Ends, Playing, DirIsOwn
  <1>3. Route'
    BY DEF Copy, Goto, Denied, Locked, TypeOK, RunType, Over, Ends, Playing, Route
  <1>4. ExeIsOwn'
    BY DEF Copy, Goto, Denied, Locked, TypeOK, RunType, Over, Ends, Playing, ExeIsOwn
  <1>5. OneArchive'
    BY DEF Copy, Goto, Denied, Locked, TypeOK, RunType, Over, Ends, Playing, OneArchive
  <1>6. PureMod'
    BY DEF Copy, Goto, Denied, Locked, TypeOK, RunType, Over, Ends, Playing, PureMod
  <1>7. ModIsOwn'
    BY DEF Copy, Goto, Denied, Locked, TypeOK, RunType, Over, Ends, Playing, ModIsOwn
  <1>8. GunsStay'
    BY DEF Copy, Goto, Denied, Locked, TypeOK, RunType, Over, Ends, Playing, GunsStay
  <1> QED
    BY <1>1, <1>2, <1>3, <1>4, <1>5, <1>6, <1>7, <1>8

(* Patching the copy. *)
LEMMA PatchExeInv ==
    ASSUME InstallInv, PatchExe
    PROVE  InstallInv'
  <1> USE DEF InstallInv, At
  <1>1. TypeOK'
    <2>1. exe' \in [run : Nat, whole : BOOLEAN]
      <3>1. exe' = exe \/ exe' = [exe EXCEPT !.whole = TRUE]
        BY DEF PatchExe
      <3>2. [exe EXCEPT !.whole = TRUE] \in [run : Nat, whole : BOOLEAN]
        BY RunFields DEF PatchExe, TypeOK
      <3> QED
        BY <3>1, <3>2 DEF TypeOK
    <2>2. Denied \/ Goto("cfg")
      BY DEF PatchExe
    <2>3. run' \in RunType
      BY <2>2, Stages, GotoFields, DeniedFields
    <2> QED
      BY <2>1, <2>3 DEF PatchExe, TypeOK
  <1>2. DirIsOwn'
    BY DEF PatchExe, Goto, Denied, Locked, TypeOK, RunType, Over, Ends, Playing, DirIsOwn
  <1>3. Route'
    BY DEF PatchExe, Goto, Denied, Locked, TypeOK, RunType, Over, Ends, Playing, Route
  <1>4. ExeIsOwn'
    <2>1. exe = [run |-> run.n, whole |-> FALSE]
      BY DEF PatchExe, ExeIsOwn
    <2>2. CASE Locked
      <3>1. Denied
        BY <2>2 DEF PatchExe
      <3> QED
        BY <3>1, DeniedFields DEF ExeIsOwn
    <2>3. CASE ~Locked
      <3>1. Goto("cfg") /\ exe' = [run |-> run.n, whole |-> TRUE]
        BY <2>1, <2>3 DEF PatchExe
      <3>2. run'.pc = "cfg" /\ run'.n = run.n
        BY <3>1, Stages, GotoFields
      <3> QED
        BY <3>1, <3>2 DEF ExeIsOwn
    <2> QED
      BY <2>2, <2>3
  <1>5. OneArchive'
    BY DEF PatchExe, Goto, Denied, Locked, TypeOK, RunType, Over, Ends, Playing, OneArchive
  <1>6. PureMod'
    BY DEF PatchExe, Goto, Denied, Locked, TypeOK, RunType, Over, Ends, Playing, PureMod
  <1>7. ModIsOwn'
    BY DEF PatchExe, Goto, Denied, Locked, TypeOK, RunType, Over, Ends, Playing, ModIsOwn
  <1>8. GunsStay'
    BY DEF PatchExe, Goto, Denied, Locked, TypeOK, RunType, Over, Ends, Playing, GunsStay
  <1> QED
    BY <1>1, <1>2, <1>3, <1>4, <1>5, <1>6, <1>7, <1>8

(* Switching the guns on in kexengine.cfg. *)
LEMMA SetGunsInv ==
    ASSUME InstallInv, SetGuns
    PROVE  InstallInv'
  <1> USE DEF InstallInv, At
  <1>1. TypeOK'
    <2>1. Goto("clear") => run' \in RunType
      BY Stages, GotoFields
    <2>2. [run EXCEPT !.pc = "clear", !.guns = "set", !.met = run.met \/ Playing] \in RunType
      BY Stages, RunMoves, RunFields DEF TypeOK
    <2>3. run' \in RunType
      BY <2>1, <2>2 DEF SetGuns
    <2> QED
      BY <2>3 DEF SetGuns, TypeOK
  <1>2. DirIsOwn'
    BY DEF SetGuns, Goto, TypeOK, RunType, Over, Ends, Playing, DirIsOwn
  <1>3. Route'
    BY DEF SetGuns, Goto, TypeOK, RunType, Over, Ends, Playing, Route
  <1>4. ExeIsOwn'
    BY DEF SetGuns, Goto, TypeOK, RunType, Over, Ends, Playing, ExeIsOwn
  <1>5. OneArchive'
    BY DEF SetGuns, Goto, TypeOK, RunType, Over, Ends, Playing, OneArchive
  <1>6. PureMod'
    BY DEF SetGuns, Goto, TypeOK, RunType, Over, Ends, Playing, PureMod
  <1>7. ModIsOwn'
    BY DEF SetGuns, Goto, TypeOK, RunType, Over, Ends, Playing, ModIsOwn
  <1>8. GunsStay'
    BY DEF SetGuns, Goto, TypeOK, RunType, Over, Ends, Playing, GunsStay
  <1> QED
    BY <1>1, <1>2, <1>3, <1>4, <1>5, <1>6, <1>7, <1>8

(* Removing every archive that is found. *)
LEMMA RemoveModInv ==
    ASSUME InstallInv, RemoveMod
    PROVE  InstallInv'
  <1> USE DEF InstallInv, At
  <1>1. TypeOK'
    <2>1. Goto("clear") \/ Goto("aborted")
      BY DEF RemoveMod
    <2>2. run' \in RunType
      BY <2>1, Stages, GotoFields
    <2>3. mods' \subseteq mods
      BY DEF RemoveMod
    <2> QED
      BY <2>2, <2>3 DEF RemoveMod, TypeOK
  <1>2. DirIsOwn'
    BY DEF RemoveMod, Goto, TypeOK, RunType, Over, Ends, Playing, DirIsOwn
  <1>3. Route'
    BY DEF RemoveMod, Goto, TypeOK, RunType, Over, Ends, Playing, Route
  <1>4. ExeIsOwn'
    BY DEF RemoveMod, Goto, TypeOK, RunType, Over, Ends, Playing, ExeIsOwn
  <1>5. OneArchive'
    BY DEF RemoveMod, Goto, TypeOK, RunType, Over, Ends, Playing, OneArchive
  <1>6. PureMod'
    BY DEF RemoveMod, Goto, TypeOK, RunType, Over, Ends, Playing, PureMod
  <1>7. ModIsOwn'
    BY DEF RemoveMod, Goto, TypeOK, RunType, Over, Ends, Playing, ModIsOwn
  <1>8. GunsStay'
    BY DEF RemoveMod, Goto, TypeOK, RunType, Over, Ends, Playing, GunsStay
  <1> QED
    BY <1>1, <1>2, <1>3, <1>4, <1>5, <1>6, <1>7, <1>8

(* Creating the run's archive. *)
LEMMA OpenModInv ==
    ASSUME InstallInv, OpenMod
    PROVE  InstallInv'
  <1> USE DEF InstallInv, At
  <1> DEFINE new == [name |-> run.seed, run |-> run.n, from |-> dirs[run.dir], whole |-> FALSE]
  <1>0. mods' = {new}
    BY AllFound DEF OpenMod
  <1>1. TypeOK'
    <2>1. run' \in RunType
      BY Stages, GotoFields DEF OpenMod
    <2>2. dirs[run.dir] = {run.n}
      BY DEF OpenMod, DirIsOwn, Over, Ends
    <2>3. new \in [name : Names, run : Nat, from : SUBSET Nat, whole : BOOLEAN]
      BY <2>2, RunFields
    <2> QED
      BY <1>0, <2>1, <2>3 DEF OpenMod, TypeOK
  <1>2. DirIsOwn'
    BY DEF OpenMod, Goto, TypeOK, RunType, Over, Ends, Playing, DirIsOwn
  <1>3. Route'
    BY DEF OpenMod, Goto, TypeOK, RunType, Over, Ends, Playing, Route
  <1>4. ExeIsOwn'
    BY DEF OpenMod, Goto, TypeOK, RunType, Over, Ends, Playing, ExeIsOwn
  <1>5. OneArchive'
    BY <1>0 DEF OneArchive
  <1>6. PureMod'
    <2>1. dirs[run.dir] = {run.n}
      BY DEF OpenMod, DirIsOwn, Over, Ends
    <2> QED
      BY <1>0, <2>1 DEF PureMod
  <1>7. ModIsOwn'
    <2>1. run'.pc = "zip" /\ run'.n = run.n
      BY Stages, GotoFields DEF OpenMod
    <2> QED
      BY <1>0, <2>1 DEF ModIsOwn
  <1>8. GunsStay'
    BY DEF OpenMod, Goto, TypeOK, RunType, Over, Ends, Playing, GunsStay
  <1> QED
    BY <1>1, <1>2, <1>3, <1>4, <1>5, <1>6, <1>7, <1>8

(* Completing it from the run's directory. *)
LEMMA CloseModInv ==
    ASSUME InstallInv, CloseMod
    PROVE  InstallInv'
  <1> USE DEF InstallInv, At
  <1>1. TypeOK'
    <2>1. run' \in RunType
      BY Stages, GotoFields DEF CloseMod
    <2>2. mods' \subseteq [name : Names, run : Nat, from : SUBSET Nat, whole : BOOLEAN]
      <3>1. \A m \in mods : [m EXCEPT !.whole = TRUE]
                \in [name : Names, run : Nat, from : SUBSET Nat, whole : BOOLEAN]
        <4>1. ASSUME NEW M, NEW m \in [name : Names, run : Nat, from : M, whole : BOOLEAN]
              PROVE  [m EXCEPT !.whole = TRUE] \in
                         [name : Names, run : Nat, from : M, whole : BOOLEAN]
          OBVIOUS
        <4> QED
          BY <4>1 DEF TypeOK
      <3> QED
        BY <3>1 DEF CloseMod, TypeOK
    <2> QED
      BY <2>1, <2>2 DEF CloseMod, TypeOK
  <1>2. DirIsOwn'
    BY DEF CloseMod, Goto, TypeOK, RunType, Over, Ends, Playing, DirIsOwn
  <1>3. Route'
    BY DEF CloseMod, Goto, TypeOK, RunType, Over, Ends, Playing, Route
  <1>4. ExeIsOwn'
    BY DEF CloseMod, Goto, TypeOK, RunType, Over, Ends, Playing, ExeIsOwn
  <1>5. OneArchive'
    BY DEF CloseMod, OneArchive
  <1>6. PureMod'
    <2>1. \A m \in mods : [m EXCEPT !.whole = TRUE].name = m.name
                          /\ [m EXCEPT !.whole = TRUE].run = m.run
                          /\ [m EXCEPT !.whole = TRUE].from = m.from
      BY DEF TypeOK
    <2>2. ASSUME NEW m \in mods', m.name \in Seeds PROVE m.from = {m.run}
      <3>1. PICK o \in mods : m = IF o.run = run.n THEN [o EXCEPT !.whole = TRUE] ELSE o
        BY DEF CloseMod
      <3>2. m.name = o.name /\ m.run = o.run /\ m.from = o.from
        BY <2>1, <3>1
      <3> QED
        BY <2>2, <3>2 DEF PureMod
    <2> QED
      BY <2>2 DEF PureMod
  <1>7. ModIsOwn'
    <2>1. run'.pc = "completed" /\ run'.n = run.n
      BY Stages, GotoFields DEF CloseMod
    <2>2. mods # {} /\ \A m \in mods : m.run = run.n
      BY DEF CloseMod, ModIsOwn
    <2>3. mods' = {[m EXCEPT !.whole = TRUE] : m \in mods}
      BY <2>2 DEF CloseMod
    <2>4. \A m \in mods : [m EXCEPT !.whole = TRUE].run = m.run /\ [m EXCEPT !.whole = TRUE].whole
      BY DEF TypeOK
    <2> QED
      BY <2>1, <2>2, <2>3, <2>4 DEF ModIsOwn
  <1>8. GunsStay'
    BY DEF CloseMod, Goto, TypeOK, RunType, Over, Ends, Playing, GunsStay
  <1> QED
    BY <1>1, <1>2, <1>3, <1>4, <1>5, <1>6, <1>7, <1>8

(* The end of a restore. *)
LEMMA RestoredInv ==
    ASSUME InstallInv, Restored
    PROVE  InstallInv'
  <1> USE DEF InstallInv, At
  <1>1. TypeOK'
    <2>1. run' \in RunType
      BY Stages, GotoFields DEF Restored
    <2> QED
      BY <2>1 DEF Restored, TypeOK
  <1>2. DirIsOwn'
    BY DEF Restored, Goto, TypeOK, RunType, Over, Ends, Playing, DirIsOwn
  <1>3. Route'
    BY DEF Restored, Goto, TypeOK, RunType, Over, Ends, Playing, Route
  <1>4. ExeIsOwn'
    BY DEF Restored, Goto, TypeOK, RunType, Over, Ends, Playing, ExeIsOwn
  <1>5. OneArchive'
    BY DEF Restored, Goto, TypeOK, RunType, Over, Ends, Playing, OneArchive
  <1>6. PureMod'
    BY DEF Restored, Goto, TypeOK, RunType, Over, Ends, Playing, PureMod
  <1>7. ModIsOwn'
    <2>1. run'.pc = "restored" /\ mods' = {}
      BY AllFound, Stages, GotoFields DEF Restored
    <2> QED
      BY <2>1 DEF ModIsOwn
  <1>8. GunsStay'
    BY DEF Restored, Goto, TypeOK, RunType, Over, Ends, Playing, GunsStay
  <1> QED
    BY <1>1, <1>2, <1>3, <1>4, <1>5, <1>6, <1>7, <1>8

(* A run that stops anywhere. *)
LEMMA InterruptedInv ==
    ASSUME InstallInv, Interrupted
    PROVE  InstallInv'
  <1> USE DEF InstallInv, At
  <1>1. TypeOK'
    <2>1. run' \in RunType
      BY Stages, GotoFields DEF Interrupted
    <2> QED
      BY <2>1 DEF Interrupted, TypeOK
  <1>2. DirIsOwn'
    BY DEF Interrupted, Goto, TypeOK, RunType, Over, Ends, Playing, DirIsOwn
  <1>3. Route'
    BY DEF Interrupted, Goto, TypeOK, RunType, Over, Ends, Playing, Route
  <1>4. ExeIsOwn'
    BY DEF Interrupted, Goto, TypeOK, RunType, Over, Ends, Playing, ExeIsOwn
  <1>5. OneArchive'
    BY DEF Interrupted, Goto, TypeOK, RunType, Over, Ends, Playing, OneArchive
  <1>6. PureMod'
    BY DEF Interrupted, Goto, TypeOK, RunType, Over, Ends, Playing, PureMod
  <1>7. ModIsOwn'
    BY DEF Interrupted, Goto, TypeOK, RunType, Over, Ends, Playing, ModIsOwn
  <1>8. GunsStay'
    BY DEF Interrupted, Goto, TypeOK, RunType, Over, Ends, Playing, GunsStay
  <1> QED
    BY <1>1, <1>2, <1>3, <1>4, <1>5, <1>6, <1>7, <1>8

(* The game starts beside whatever runs. *)
LEMMA StartGameInv ==
    ASSUME InstallInv, NEW which \in {"vanilla", "patched"}, StartGame(which)
    PROVE  InstallInv'
  <1> USE DEF InstallInv, At
  <1>1. TypeOK'
    <2>1. run' = [run EXCEPT !.met = run.met \/ ~Over] /\ (run.met \/ ~Over) \in BOOLEAN
      BY RunFields DEF StartGame
    <2>2. run' \in RunType
      BY <2>1 DEF TypeOK, RunType
    <2> QED
      BY <2>2 DEF StartGame, TypeOK
  <1>2. DirIsOwn'
    BY DEF StartGame, TypeOK, RunType, Over, Ends, Playing, DirIsOwn
  <1>3. Route'
    BY DEF StartGame, TypeOK, RunType, Over, Ends, Playing, Route
  <1>4. ExeIsOwn'
    BY DEF StartGame, TypeOK, RunType, Over, Ends, Playing, ExeIsOwn
  <1>5. OneArchive'
    BY DEF StartGame, TypeOK, RunType, Over, Ends, Playing, OneArchive
  <1>6. PureMod'
    BY DEF StartGame, TypeOK, RunType, Over, Ends, Playing, PureMod
  <1>7. ModIsOwn'
    BY DEF StartGame, TypeOK, RunType, Over, Ends, Playing, ModIsOwn
  <1>8. GunsStay'
    BY DEF StartGame, TypeOK, RunType, Over, Ends, Playing, GunsStay
  <1> QED
    BY <1>1, <1>2, <1>3, <1>4, <1>5, <1>6, <1>7, <1>8

(* The game quits and writes its settings. *)
LEMMA QuitGameInv ==
    ASSUME InstallInv, QuitGame
    PROVE  InstallInv'
  <1> USE DEF InstallInv, At
  <1>1. TypeOK'
    BY DEF QuitGame, TypeOK
  <1>2. DirIsOwn'
    BY DEF QuitGame, TypeOK, RunType, Over, Ends, Playing, DirIsOwn
  <1>3. Route'
    BY DEF QuitGame, TypeOK, RunType, Over, Ends, Playing, Route
  <1>4. ExeIsOwn'
    BY DEF QuitGame, TypeOK, RunType, Over, Ends, Playing, ExeIsOwn
  <1>5. OneArchive'
    BY DEF QuitGame, TypeOK, RunType, Over, Ends, Playing, OneArchive
  <1>6. PureMod'
    BY DEF QuitGame, TypeOK, RunType, Over, Ends, Playing, PureMod
  <1>7. ModIsOwn'
    BY DEF QuitGame, TypeOK, RunType, Over, Ends, Playing, ModIsOwn
  <1>8. GunsStay'
    BY DEF QuitGame, TypeOK, RunType, Over, Ends, Playing, GunsStay
  <1> QED
    BY <1>1, <1>2, <1>3, <1>4, <1>5, <1>6, <1>7, <1>8

(* The player deletes a directory of a finished run. *)
LEMMA DeleteDirInv ==
    ASSUME InstallInv, DeleteDir
    PROVE  InstallInv'
  <1> USE DEF InstallInv, At
  <1>1. TypeOK'
    <2>1. PICK d \in DOMAIN dirs : dirs' = [e \in DOMAIN dirs \ {d} |-> dirs[e]]
      BY DEF DeleteDir
    <2>2. DOMAIN dirs' \subseteq DOMAIN dirs
      BY <2>1
    <2>3. IsFiniteSet(DOMAIN dirs')
      BY <2>2, FS_Subset DEF TypeOK
    <2>4. dirs' = [e \in DOMAIN dirs' |-> dirs'[e]]
      BY <2>1
    <2> QED
      BY <2>3, <2>4 DEF DeleteDir, TypeOK
  <1>2. DirIsOwn'
    BY DEF DeleteDir, TypeOK, RunType, Over, Ends, Playing, DirIsOwn
  <1>3. Route'
    BY DEF DeleteDir, TypeOK, RunType, Over, Ends, Playing, Route
  <1>4. ExeIsOwn'
    BY DEF DeleteDir, TypeOK, RunType, Over, Ends, Playing, ExeIsOwn
  <1>5. OneArchive'
    BY DEF DeleteDir, TypeOK, RunType, Over, Ends, Playing, OneArchive
  <1>6. PureMod'
    BY DEF DeleteDir, TypeOK, RunType, Over, Ends, Playing, PureMod
  <1>7. ModIsOwn'
    BY DEF DeleteDir, TypeOK, RunType, Over, Ends, Playing, ModIsOwn
  <1>8. GunsStay'
    BY DEF DeleteDir, TypeOK, RunType, Over, Ends, Playing, GunsStay
  <1> QED
    BY <1>1, <1>2, <1>3, <1>4, <1>5, <1>6, <1>7, <1>8

-----------------------------------------------------------------------------
(* Theorems. *)

(* Every step keeps the invariant. *)
LEMMA NextInv ==
    ASSUME InstallInv, [Next]_vars
    PROVE  InstallInv'
  <1>1. ASSUME NEW seed \in Seeds, NEW dry \in BOOLEAN, NEW guns \in BOOLEAN,
               Standalone(seed, dry, guns)
        PROVE  InstallInv'
    <2>1. "standalone" \in Kinds /\ seed \in Names
      BY DEF Kinds, Names
    <2> QED
      BY <1>1, <2>1, StartInv DEF Standalone
  <1>2. ASSUME NEW seed \in Seeds, NEW guns \in BOOLEAN, Archipelago(seed, guns)
        PROVE  InstallInv'
    <2>1. "ap" \in Kinds /\ seed \in Names
      BY DEF Kinds, Names
    <2> QED
      BY <1>2, <2>1, StartInv DEF Archipelago
  <1>3. CASE Restore
    <2>1. "restore" \in Kinds /\ Legacy \in Names
      BY DEF Kinds, Names
    <2> QED
      BY <1>3, <2>1, StartInv DEF Restore
  <1>4. CASE UNCHANGED vars
    BY <1>4 DEF vars, InstallInv, TypeOK, DirIsOwn, Route, ExeIsOwn, OneArchive, PureMod,
                ModIsOwn, GunsStay, At, Over, Playing
  <1> QED
    BY <1>1, <1>2, <1>3, <1>4, ExtractInv, PatchLevelsInv, UnlinkInv, CopyInv, PatchExeInv,
       SetGunsInv, RemoveModInv, OpenModInv, CloseModInv, RestoredInv, InterruptedInv,
       StartGameInv, QuitGameInv, DeleteDirInv DEF Next

(* InstallInv is an invariant, and with it the types. *)
THEOREM InstallInvariant == Spec => []InstallInv
  <1>1. InstallInv /\ [Next]_vars => InstallInv'
    BY NextInv
  <1> QED
    BY InitInv, <1>1, PTL DEF Spec

(* find_mod_kpfs and remove_mod_kpf (kpf_handler.py): whatever ran before, and
   was interrupted, there is never more than one archive of the randomizer. *)
THEOREM NeverTwoArchives == Spec => []OneMod
  <1>1. InstallInv => OneMod
    <2> SUFFICES ASSUME InstallInv PROVE OneMod
      OBVIOUS
    <2>1. CASE mods = {}
      BY <2>1, FS_EmptySet DEF OneMod
    <2>2. CASE mods # {}
      <3>1. PICK m \in mods : TRUE
        BY <2>2
      <3>2. mods = {m}
        BY <3>1 DEF InstallInv, OneArchive
      <3>3. Cardinality({m}) = 1
        BY FS_Singleton
      <3>4. Cardinality(mods) = 1
        BY <3>2, <3>3, Zenon
      <3> QED
        BY <3>4 DEF OneMod
    <2> QED
      BY <2>1, <2>2
  <1> QED
    BY InstallInvariant, <1>1, PTL

(* The work directory of patcher.py and ap_patcher.py: an archive holds the
   level files of its own run alone. *)
THEOREM ArchivesArePure == Spec => []PureMod
  <1>1. InstallInv => PureMod
    BY DEF InstallInv
  <1> QED
    BY InstallInvariant, <1>1, PTL

(* run_patcher and main --restore: what a run that completed said is what the
   player has. *)
THEOREM WhatIsSaidIsDone == Spec => []SaidIsDone
  <1>1. InstallInv => SaidIsDone
    BY DEF InstallInv, SaidIsDone, TypeOK, RunType, Route, ExeIsOwn, ModIsOwn, GunsStay, At
  <1> QED
    BY InstallInvariant, <1>1, PTL

(* run_patcher's dry_run: no step of a dry run changes what the game reads. *)
THEOREM DryRunsAreHarmless == Spec => DryRunHarmless
  <1>1. ASSUME InstallInv, [Next]_vars, run.dry, run' # run, run'.n = run.n
        PROVE  UNCHANGED <<exe, mods, cfg>>
    <2> InstallInv
      BY <1>1
    <2>1. run.n \in Nat /\ run.n + 1 # run.n
      <3>1. run.n \in Nat
        BY RunFields DEF InstallInv
      <3> QED
        BY <3>1
    <2>2. ASSUME NEW kind, NEW seed, NEW dry, NEW guns PROVE ~Start(kind, seed, dry, guns)
      BY <1>1, <2>1 DEF Start
    <2>3. At("extract") \/ At("levels") \/ Over
      BY <1>1 DEF InstallInv, Route
    <2>4. CASE Extract \/ PatchLevels \/ Interrupted \/ DeleteDir
      BY <2>4 DEF Extract, PatchLevels, Interrupted, DeleteDir
    <2>5. CASE \E which \in {"vanilla", "patched"} : StartGame(which)
      BY <2>5 DEF StartGame
    <2>6. CASE QuitGame \/ UNCHANGED vars
      BY <1>1, <2>6 DEF QuitGame, vars
    <2>7. ~(Unlink \/ Copy \/ PatchExe \/ SetGuns \/ RemoveMod \/ OpenMod \/ CloseMod \/ Restored)
      BY <2>3 DEF Over, At, Ends, Unlink, Copy, PatchExe, SetGuns, RemoveMod, OpenMod,
                  CloseMod, Restored
    <2> QED
      BY <1>1, <2>2, <2>4, <2>5, <2>6, <2>7 DEF Next, Standalone, Archipelago, Restore
  <1>2. InstallInv /\ [Next]_vars =>
            [run.dry /\ run' # run /\ run'.n = run.n => UNCHANGED <<exe, mods, cfg>>]_vars
    BY <1>1 DEF vars
  <1> QED
    BY InstallInvariant, <1>2, PTL DEF Spec, DryRunHarmless

-----------------------------------------------------------------------------
(* Who writes where.                                                        *)

\* The file, cut between the patches: the one that may write or check byte b.
Owner(b) ==
    IF b < \h2AC850 THEN "sprint"
    ELSE IF b < \h2DF116 THEN "gad"
    ELSE IF b < \h2E939C THEN "souls"
    ELSE IF b < \h2F5B3B THEN "health"
    ELSE IF b < \h311775 THEN "folder"
    ELSE IF b < \h32C5B9 THEN "keycard"
    ELSE IF b < \h33D804 THEN "death"
    ELSE IF b < \h422E9E THEN "save_path"
    ELSE IF b < \h42B72C THEN "pistons"
    ELSE IF b < \h43E8DE THEN "cadeaux"
    ELSE IF b < \h43E940 THEN "life_altar"
    ELSE IF b < \h43E9CD THEN "cadeaux"
    ELSE IF b < \h445CC2 THEN "health"
    ELSE IF b < \h445F7F THEN "instant"
    ELSE IF b < \h446035 THEN "gad"
    ELSE IF b < \h446234 THEN "retractor"
    ELSE IF b < \h4590B4 THEN "instant"
    ELSE IF b < \h45CE0D THEN "gad"
    ELSE IF b < \h4668B2 THEN "secret"
    ELSE IF b < \h46A6C4 THEN "retractor"
    ELSE IF b < \h47CD42 THEN "sprint"
    ELSE IF b < \h5FEC81 THEN "retractor"
    ELSE IF b < \h649754 THEN "sprint"
    ELSE IF b < \h6497B2 THEN "gad"
    ELSE IF b < \h6497D5 THEN "death"
    ELSE IF b < \h6A591F THEN "sprint"
    ELSE IF b < \h6B5A00 THEN "gad"
    ELSE IF b < \h702F60 THEN "dark"
    ELSE IF b < \h72C450 THEN "save_path"
    ELSE IF b < \h72CCE4 THEN "health"
    ELSE IF b < \hC9B8E0 THEN "folder"
    ELSE "gad"

Owned(r, p) ==
    /\ r.at \in Nat /\ r.len \in Nat \ {0}
    /\ \A b \in Nat : r.at <= b /\ b < r.at + r.len => Owner(b) = p

Lies(s, p) == \A r \in s.writes \cup s.checks : Owned(r, p)

\* Every patch keeps to bytes of its own.
LEMMA SitesLie == \A p \in Patch : Lies(Sites[p], p)
<1>1. Lies(KeycardSites, "keycard")
  BY DEF Lies, Owned, Owner, KeycardSites, Raw
<1>2. Lies(SavePathSites, "save_path")
  BY DEF Lies, Owned, Owner, SavePathSites, Raw, Rdata, Text
<1>3. Lies(InstantPickupSites, "instant")
  BY DEF Lies, Owned, Owner, InstantPickupSites, Raw, TextTo, Text
<1>4. Lies(CadeauxSites, "cadeaux")
  BY DEF Lies, Owned, Owner, CadeauxSites, Raw
<1>5. Lies(HealthSites, "health")
  BY DEF Lies, Owned, Owner, HealthSites, Raw
<1>6. Lies(LifeAltarSites, "life_altar")
  BY DEF Lies, Owned, Owner, LifeAltarSites, Raw, Text
<1>7. Lies(DeathSites, "death")
  BY DEF Lies, Owned, Owner, DeathSites, Raw, Text
<1>8. Lies(SprintSites, "sprint")
  BY DEF Lies, Owned, Owner, SprintSites, Raw, Text
<1>9. Lies(SoulSites, "souls")
  BY DEF Lies, Owned, Owner, SoulSites, Raw
<1>10. Lies(DarkEngineSites, "dark")
  BY DEF Lies, Owned, Owner, DarkEngineSites, Raw
<1>11. Lies(GadSites, "gad")
  BY DEF Lies, Owned, Owner, GadSites, Raw, GadPlaces, TempleNops, RingPredicates, Text
<1>12. Lies(FolderSites, "folder")
  BY DEF Lies, Owned, Owner, FolderSites, Raw, Text
<1>13. Lies(PistonsSites, "pistons")
  BY DEF Lies, Owned, Owner, PistonsSites, Raw, Text
<1>14. Lies([writes |-> SecretHook, checks |-> SecretHook], "secret")
  BY DEF Lies, Owned, Owner, SecretHook, Raw, Text
<1>15. Lies([writes |-> RetractorHooks, checks |-> RetractorHooks], "retractor")
  BY DEF Lies, Owned, Owner, RetractorHooks, Raw, Text
<1> QED
  BY <1>1, <1>2, <1>3, <1>4, <1>5, <1>6, <1>7, <1>8, <1>9, <1>10, <1>11, <1>12, <1>13, <1>14,
     <1>15 DEF Sites, Patch
\* No patch writes what another one writes, or insists on.
LEMMA PatchesApart ==
    ASSUME NEW p \in Patch, NEW q \in Patch, p # q
    PROVE  /\ <<p, q>> \notin Clashes
           /\ <<p, q>> \notin Spoils
<1>1. \A r \in Sites[p].writes : Owned(r, p)
  BY SitesLie DEF Lies
<1>2. \A s \in Sites[q].writes \cup Sites[q].checks : Owned(s, q)
  BY SitesLie DEF Lies
<1>3. ASSUME NEW r, NEW s, Owned(r, p), Owned(s, q), Overlap(r, s)
      PROVE  FALSE
  <2>1. CASE r.at <= s.at
    BY <1>3, <2>1 DEF Owned, Overlap
  <2>2. CASE s.at <= r.at
    BY <1>3, <2>2 DEF Owned, Overlap
  <2> QED
    BY <1>3, <2>1, <2>2 DEF Owned
<1> QED
  BY <1>1, <1>2, <1>3 DEF Clashes, Spoils, Touch

-----------------------------------------------------------------------------
(* The sections and what the hooks lead to.                                 *)

SectionName == {"apcode", "apdata", "rkcode", "rkdata", "pscode"}

Section == [name : SectionName, page : Nat, used : 1 .. Page, raw : Nat]

Mapped ==
    /\ sections \in Seq(Section)
    /\ imageEnd \in Nat
    /\ \A p \in DOMAIN target : target[p] \in [sec : DOMAIN sections, from : Nat, to : Nat]
    /\ HooksLeadHome

\* Rounding up to a file block, a code alignment or a page.
LEMMA AlignedUp ==
    ASSUME NEW n \in Nat
    PROVE  /\ AlignUp(n, FileAlignment) \in Nat /\ n <= AlignUp(n, FileAlignment)
           /\ AlignUp(n, 16) \in Nat /\ n <= AlignUp(n, 16)
           /\ n \in 1 .. Page => AlignUp(n, Page) = Page
           /\ AlignUp(n, Page) <= Page => n <= Page
BY DEF AlignUp, FileAlignment, Page

\* What fits a page is a length.
LEMMA InAPage == ASSUME NEW n \in 1 .. Page PROVE n \in Nat /\ 1 <= n /\ n <= Page
BY DEF Page

\* A new section covers its code, and the file holds it.
LEMMA NewSectionType ==
    ASSUME NEW name \in SectionName, NEW page \in Nat, NEW used \in 1 .. Page
    PROVE  /\ NewSection(name, page, used) \in Section
           /\ NewSection(name, page, used).name = name
           /\ NewSection(name, page, used).page = page
           /\ NewSection(name, page, used).used = used
           /\ used <= NewSection(name, page, used).raw
<1>1. used \in Nat /\ Page \in Nat
  BY DEF Page
<1>2. AlignUp(used, FileAlignment) \in Nat /\ used <= AlignUp(used, FileAlignment)
  BY <1>1, AlignedUp
<1> QED
  BY <1>1, <1>2 DEF NewSection, Section

Hooked(p, hook) ==
    target' = [q \in DOMAIN target \cup {p} |-> IF q = p THEN hook ELSE target[q]]

\* A patch sets its own hook alone.
LEMMA HookedIs ==
    ASSUME NEW p, NEW hook, Hooked(p, hook)
    PROVE  /\ DOMAIN target' = DOMAIN target \cup {p}
           /\ target'[p] = hook
           /\ \A q \in DOMAIN target \ {p} : target'[q] = target[q]
BY DEF Hooked

\* Sections that follow leave the hooks that lead to the others alone.
LEMMA GrownMaps ==
    ASSUME Mapped, NEW p, NEW new \in Seq(Section), Len(new) >= 1,
           sections' = sections \o new, imageEnd' \in Nat,
           Hooked(p, [sec |-> Len(sections) + 1, from |-> 0, to |-> new[1].used])
    PROVE  Mapped'
<1> DEFINE N == Len(sections)
           hook == [sec |-> N + 1, from |-> 0, to |-> new[1].used]
<1>1. /\ sections' \in Seq(Section) /\ N \in Nat /\ Len(sections') = N + Len(new)
      /\ Len(new) \in Nat
      /\ DOMAIN sections = 1 .. N /\ DOMAIN sections' = 1 .. Len(sections')
      /\ \A i \in 1 .. N : sections'[i] = sections[i]
      /\ sections'[N + 1] = new[1] /\ new[1] \in Section
  BY DEF Mapped
<1>2. new[1].used \in Nat
  <2>1. new[1].used \in 1 .. Page
    BY <1>1 DEF Section
  <2> QED
    BY <2>1, InAPage, Zenon
<1>3. /\ DOMAIN target' = DOMAIN target \cup {p} /\ target'[p] = hook
      /\ \A q \in DOMAIN target \ {p} : target'[q] = target[q]
  BY HookedIs
<1>4. \A q \in DOMAIN target : target[q].sec \in 1 .. N
  BY <1>1 DEF Mapped
<1>5. \A q \in DOMAIN target' : target'[q] \in [sec : DOMAIN sections', from : Nat, to : Nat]
  <2>1. hook \in [sec : 1 .. Len(sections'), from : Nat, to : Nat]
    BY <1>1, <1>2
  <2>2. \A q \in DOMAIN target : target[q] \in [sec : 1 .. Len(sections'), from : Nat, to : Nat]
    BY <1>1 DEF Mapped
  <2> QED
    BY <1>1, <1>3, <2>1, <2>2
<1>6. HooksLeadHome'
  <2> SUFFICES ASSUME NEW q \in DOMAIN target'
               PROVE  /\ target'[q].to <= sections'[target'[q].sec].used
                      /\ \A r \in DOMAIN target' \ {q} : target'[r].sec = target'[q].sec =>
                            target'[r].to <= target'[q].from \/ target'[q].to <= target'[r].from
    BY DEF HooksLeadHome
  <2>1. CASE q = p
    <3>1. target'[q].to <= sections'[target'[q].sec].used
      BY <1>1, <1>2, <1>3, <2>1
    <3>2. \A r \in DOMAIN target' \ {q} : target'[r].sec # N + 1
      BY <1>1, <1>3, <1>4, <2>1
    <3> QED
      BY <1>3, <2>1, <3>1, <3>2
  <2>2. CASE q # p
    <3>1. q \in DOMAIN target /\ target'[q] = target[q] /\ target[q].sec \in 1 .. N
      BY <1>3, <1>4, <2>2
    <3>2. target'[q].to <= sections'[target'[q].sec].used
      BY <1>1, <3>1 DEF Mapped, HooksLeadHome
    <3>3. ASSUME NEW r \in DOMAIN target' \ {q}, target'[r].sec = target'[q].sec
          PROVE  target'[r].to <= target'[q].from \/ target'[q].to <= target'[r].from
      <4>1. r # p
        BY <1>1, <1>3, <3>1, <3>3
      <4>2. r \in DOMAIN target \ {q} /\ target'[r] = target[r]
        BY <1>3, <3>3, <4>1
      <4> QED
        BY <3>1, <3>3, <4>2 DEF Mapped, HooksLeadHome
    <3> QED
      BY <3>2, <3>3
  <2> QED
    BY <2>1, <2>2
<1> QED
  BY <1>1, <1>5, <1>6 DEF Mapped

\* Code that goes behind the code of a section leaves what is before it alone.
LEMMA AppendMaps ==
    ASSUME Mapped, NEW p, NEW i \in DOMAIN sections, NEW len \in Nat, RoomAt(i, len),
           AppendTo(p, i, len)
    PROVE  /\ Mapped'
           /\ imageEnd' = imageEnd /\ Len(sections') = Len(sections)
           /\ \A j \in DOMAIN sections \ {i} : sections'[j] = sections[j]
           /\ sections'[i] = [sections[i] EXCEPT !.used = AlignUp(sections[i].used, 16) + len]
           /\ sections'[i].used <= sections[i].raw /\ sections'[i].used \in 1 .. Page
<1> DEFINE N == Len(sections)
           s == sections[i]
           from == AlignUp(s.used, 16)
           hook == [sec |-> i, from |-> from, to |-> from + len]
           t == [s EXCEPT !.used = from + len]
<1>1. /\ N \in Nat /\ DOMAIN sections = 1 .. N /\ i \in 1 .. N /\ s \in Section
      /\ sections' = [sections EXCEPT ![i] = t] /\ imageEnd' = imageEnd
      /\ Hooked(p, hook)
  BY DEF Mapped, AppendTo, Hooked
<1>2. /\ s.used \in Nat /\ s.used \in 1 .. Page /\ from \in Nat /\ s.used <= from
      /\ AlignUp(s.used, Page) = Page
  <2> HIDE DEF s
  <2>1. s.used \in 1 .. Page
    BY <1>1 DEF Section
  <2>2. s.used \in Nat
    BY <2>1, InAPage, Zenon
  <2> QED
    BY <2>1, <2>2, AlignedUp
<1>3. from + len <= s.raw /\ AlignUp(from + len, Page) <= Page
  BY <1>2 DEF RoomAt
<1>4. from + len \in 1 .. Page
  <2> HIDE DEF from
  <2>1. from + len <= Page
    BY <1>2, <1>3, AlignedUp
  <2>2. from >= 1
    <3>1. 1 <= s.used
      BY <1>2, InAPage, Zenon
    <3> QED
      BY <1>2, <3>1
  <2> QED
    BY <1>2, <2>1, <2>2 DEF Page
<1>5. t \in Section /\ t.used = from + len
  <2> HIDE DEF from, s
  <2> QED
    BY <1>1, <1>4 DEF Section
<1> HIDE DEF t, hook
<1>6. /\ sections' \in Seq(Section) /\ Len(sections') = N /\ DOMAIN sections' = 1 .. N
      /\ sections'[i] = t /\ \A j \in 1 .. N \ {i} : sections'[j] = sections[j]
  BY <1>1, <1>5 DEF Mapped
<1>7. /\ DOMAIN target' = DOMAIN target \cup {p} /\ target'[p] = hook
      /\ \A q \in DOMAIN target \ {p} : target'[q] = target[q]
  BY <1>1, HookedIs
<1>8. hook.sec = i /\ hook.from = from /\ hook.to = from + len
      /\ hook \in [sec : 1 .. N, from : Nat, to : Nat]
  BY <1>1, <1>2 DEF hook
<1> HIDE DEF from, s
<1>9. \A q \in DOMAIN target :
         /\ target[q] \in [sec : 1 .. N, from : Nat, to : Nat]
         /\ target[q].to <= sections[target[q].sec].used
  BY <1>1 DEF Mapped, HooksLeadHome
<1>10. \A q \in DOMAIN target' : target'[q] \in [sec : DOMAIN sections', from : Nat, to : Nat]
  BY <1>6, <1>7, <1>8, <1>9
<1>11. \A q \in DOMAIN target \ {p} : target[q].sec = i => target[q].to <= from
  BY <1>2, <1>9 DEF s
<1>12. HooksLeadHome'
  <2> SUFFICES ASSUME NEW q \in DOMAIN target'
               PROVE  /\ target'[q].to <= sections'[target'[q].sec].used
                      /\ \A r \in DOMAIN target' \ {q} : target'[r].sec = target'[q].sec =>
                            target'[r].to <= target'[q].from \/ target'[q].to <= target'[r].from
    BY DEF HooksLeadHome
  <2>1. CASE q = p
    BY <1>2, <1>5, <1>6, <1>7, <1>8, <1>11, <2>1
  <2>2. CASE q # p
    <3>1. q \in DOMAIN target \ {p} /\ target'[q] = target[q]
      BY <1>7, <2>2
    <3>2. target[q].to <= sections'[target[q].sec].used
      <4>1. CASE target[q].sec = i
        <5>1. target[q].to \in Nat /\ target[q].to <= from
          BY <1>9, <1>11, <3>1, <4>1
        <5> QED
          BY <1>2, <1>5, <1>6, <4>1, <5>1
      <4>2. CASE target[q].sec # i
        BY <1>6, <1>9, <3>1, <4>2
      <4> QED
        BY <4>1, <4>2
    <3>3. ASSUME NEW r \in DOMAIN target' \ {q}, target'[r].sec = target'[q].sec
          PROVE  target'[r].to <= target'[q].from \/ target'[q].to <= target'[r].from
      <4>1. CASE r = p
        BY <1>7, <1>8, <1>11, <3>1, <3>3, <4>1
      <4>2. CASE r # p
        BY <1>7, <3>1, <3>3, <4>2 DEF Mapped, HooksLeadHome
      <4> QED
        BY <4>1, <4>2
    <3> QED
      BY <3>1, <3>2, <3>3
  <2> QED
    BY <2>1, <2>2
<1>13. imageEnd' \in Nat
  BY <1>1 DEF Mapped
<1> QED
  BY <1>1, <1>3, <1>4, <1>5, <1>6, <1>10, <1>12, <1>13 DEF Mapped, t, from, s

\* The first of some sections is one of them.
LEMMA LeastIs ==
    ASSUME Mapped, NEW S \in SUBSET DOMAIN sections, S # {}
    PROVE  Least(S) \in S /\ \A j \in S : Least(S) <= j
<1>1. S \in SUBSET Nat
  BY DEF Mapped
<1>2. \E m \in S : \A n \in S : m <= n
  BY <1>1, LeastNatural, Zenon
<1> QED
  BY <1>2 DEF Least

\* A code and a data section leave all hooks where they lead.
LEMMA PairMaps ==
    ASSUME Mapped, NEW p, NEW code \in SectionName, NEW data \in SectionName, NEW page \in Nat,
           NEW len \in 1 .. Page, NEW dataLen \in 1 .. Page,
           AddPair(p, code, data, page, len, dataLen)
    PROVE  /\ Mapped'
           /\ Len(sections') = Len(sections) + 2
           /\ \A i \in DOMAIN sections : sections'[i] = sections[i]
           /\ sections'[Len(sections) + 1] = NewSection(code, page, len)
           /\ sections'[Len(sections) + 2] = NewSection(data, page + 1, dataLen)
           /\ imageEnd' = IF page + 2 > imageEnd THEN page + 2 ELSE imageEnd
<1> DEFINE a == NewSection(code, page, len)
           b == NewSection(data, page + 1, dataLen)
           new == <<a, b>>
<1>1. a \in Section /\ b \in Section /\ a.used = len
  <2>1. page + 1 \in Nat
    OBVIOUS
  <2>2. a \in Section
    BY NewSectionType, Zenon
  <2>3. b \in Section
    BY <2>1, NewSectionType, Zenon
  <2>4. a.used = len
    BY DEF NewSection
  <2> QED
    BY <2>2, <2>3, <2>4
<1>2. /\ sections' = sections \o new
      /\ imageEnd' = IF page + 2 > imageEnd THEN page + 2 ELSE imageEnd
      /\ Hooked(p, [sec |-> Len(sections) + 1, from |-> 0, to |-> len])
  BY DEF AddPair, Hooked
<1> HIDE DEF a, b
<1>3. new \in Seq(Section) /\ Len(new) = 2 /\ new[1] = a /\ new[2] = b
  BY <1>1
<1>4. imageEnd' \in Nat
  BY <1>2 DEF Mapped
<1>7. /\ sections' = sections \o new
      /\ Hooked(p, [sec |-> Len(sections) + 1, from |-> 0, to |-> new[1].used])
  BY <1>1, <1>2, <1>3
<1>8. Len(new) >= 1
  BY <1>3
<1>5. Mapped'
  <2> HIDE DEF new
  <2> QED
    BY <1>3, <1>4, <1>7, <1>8, GrownMaps, Zenon
<1>6. /\ Len(sections') = Len(sections) + 2
      /\ \A i \in DOMAIN sections : sections'[i] = sections[i]
      /\ sections'[Len(sections) + 1] = a
      /\ sections'[Len(sections) + 2] = b
  BY <1>2, <1>3 DEF Mapped
<1> QED
  BY <1>2, <1>5, <1>6 DEF a, b

\* They follow the image, if their page does.
LEMMA PairLoads ==
    ASSUME Mapped, Loadable, HeaderSlack(2), NEW p,
           NEW code \in SectionName, NEW data \in SectionName,
           NEW len \in 1 .. Page, NEW dataLen \in 1 .. Page, NEW page \in Nat,
           AddPair(p, code, data, page, len, dataLen)
    PROVE  page = Len(sections) => Loadable'
<1> DEFINE N == Len(sections)
<1>0. /\ Mapped'
      /\ Len(sections') = Len(sections) + 2
      /\ \A i \in DOMAIN sections : sections'[i] = sections[i]
      /\ sections'[Len(sections) + 1] = NewSection(code, page, len)
      /\ sections'[Len(sections) + 2] = NewSection(data, page + 1, dataLen)
      /\ imageEnd' = IF page + 2 > imageEnd THEN page + 2 ELSE imageEnd
  BY PairMaps, Zenon
<1> SUFFICES ASSUME page = Len(sections) PROVE Loadable'
  OBVIOUS
<1>1. N \in Nat /\ DOMAIN sections = 1 .. N /\ imageEnd = N /\ N + 2 <= FreeHeaders
  BY DEF Mapped, Loadable, HeaderSlack
<1>3. DOMAIN sections' = 1 .. N + 2
  BY <1>1, <1>0 DEF Mapped
<1>4. /\ sections'[N + 1].page = page /\ sections'[N + 1].used = len
      /\ sections'[N + 2].page = page + 1 /\ sections'[N + 2].used = dataLen
      /\ sections'[N + 1].raw = AlignUp(len, FileAlignment)
      /\ sections'[N + 2].raw = AlignUp(dataLen, FileAlignment)
  BY <1>0 DEF NewSection
<1>5. len \in Nat /\ len <= Page /\ dataLen \in Nat /\ dataLen <= Page
  BY InAPage
<1>6. len <= AlignUp(len, FileAlignment) /\ dataLen <= AlignUp(dataLen, FileAlignment)
  BY <1>5, AlignedUp
<1>7. ASSUME NEW i \in 1 .. N + 2
      PROVE  /\ sections'[i].page = i - 1
             /\ sections'[i].used <= sections'[i].raw /\ sections'[i].used <= Page
  <2>1. CASE i \in 1 .. N
    BY <1>1, <1>0, <2>1 DEF Loadable
  <2>2. CASE i = N + 1
    BY <1>1, <1>4, <1>5, <1>6, <2>2
  <2>3. CASE i = N + 2
    BY <1>1, <1>4, <1>5, <1>6, <2>3
  <2> QED
    BY <1>1, <2>1, <2>2, <2>3
<1> QED
  BY <1>1, <1>0, <1>3, <1>7 DEF Loadable

\* The section that hosts the code still ends in its page and its block.
LEMMA AppendLoads ==
    ASSUME Mapped, Loadable, NEW p, NEW i \in DOMAIN sections, NEW len \in Nat, RoomAt(i, len),
           AppendTo(p, i, len)
    PROVE  Loadable'
<1>1. /\ Mapped'
      /\ imageEnd' = imageEnd /\ Len(sections') = Len(sections)
      /\ \A j \in DOMAIN sections \ {i} : sections'[j] = sections[j]
      /\ sections'[i] = [sections[i] EXCEPT !.used = AlignUp(sections[i].used, 16) + len]
      /\ sections'[i].used <= sections[i].raw /\ sections'[i].used \in 1 .. Page
  BY AppendMaps, Zenon
<1>2. DOMAIN sections' = DOMAIN sections
  BY <1>1 DEF Mapped
<1>3. sections[i] \in Section
  BY DEF Mapped
<1>4. sections'[i].raw = sections[i].raw /\ sections'[i].page = sections[i].page
  BY <1>1, <1>3 DEF Section
<1>5. sections'[i].used <= Page
  BY <1>1, InAPage, Zenon
<1>6. ASSUME NEW j \in DOMAIN sections'
      PROVE  /\ sections'[j].page = j - 1
             /\ sections'[j].used <= sections'[j].raw /\ sections'[j].used <= Page
  <2>1. CASE j = i
    BY <1>1, <1>2, <1>4, <1>5, <2>1 DEF Loadable
  <2>2. CASE j # i
    BY <1>1, <1>2, <2>2 DEF Loadable
  <2> QED
    BY <2>1, <2>2
<1> QED
  BY <1>1, <1>6 DEF Loadable

\* Nor does the pistons' cave disturb hooks or image, wherever it goes.
LEMMA PistonsMap ==
    ASSUME Mapped, Fits("pistons"), Pistons
    PROVE  Mapped' /\ (Loadable => Loadable')
<1>1. CASE HeaderSlack(1)
  <2> DEFINE N == Len(sections)
             a == NewSection("pscode", imageEnd, CaveLen)
             new == <<a>>
  <2>1. CaveLen \in 1 .. Page /\ imageEnd \in Nat /\ "pscode" \in SectionName
    BY DEF CaveLen, Page, Mapped, SectionName
  <2>2. /\ a \in Section /\ a.used = CaveLen /\ a.page = imageEnd
        /\ a.used <= a.raw /\ a.used <= Page
    <3>1. a \in Section
      BY <2>1, NewSectionType, Zenon
    <3>2. CaveLen <= AlignUp(CaveLen, FileAlignment) /\ CaveLen <= Page
      BY DEF CaveLen, AlignUp, FileAlignment, Page
    <3> QED
      BY <3>1, <3>2 DEF NewSection
  <2>3. /\ sections' = Append(sections, a) /\ imageEnd' = imageEnd + 1
        /\ Hooked("pistons", [sec |-> N + 1, from |-> 0, to |-> CaveLen])
    BY <1>1 DEF Pistons, Hooked
  <2> HIDE DEF a
  <2>4. /\ sections' = sections \o new /\ new \in Seq(Section) /\ Len(new) = 1 /\ new[1] = a
    BY <2>2, <2>3 DEF Mapped
  <2>5. imageEnd' \in Nat
    BY <2>1, <2>3
  <2>6. Mapped'
    <3> HIDE DEF new
    <3> QED
      BY <2>2, <2>3, <2>4, <2>5, GrownMaps
  <2>7. ASSUME Loadable PROVE Loadable'
    <3>1. N \in Nat /\ imageEnd = N /\ DOMAIN sections = 1 .. N /\ N + 1 <= FreeHeaders
      BY <1>1, <2>7 DEF Loadable, Mapped, HeaderSlack
    <3>2. /\ Len(sections') = N + 1 /\ DOMAIN sections' = 1 .. N + 1
          /\ sections'[N + 1] = a /\ \A i \in 1 .. N : sections'[i] = sections[i]
      BY <2>3, <3>1 DEF Mapped
    <3>3. ASSUME NEW i \in 1 .. N + 1
          PROVE  /\ sections'[i].page = i - 1
                 /\ sections'[i].used <= sections'[i].raw /\ sections'[i].used <= Page
      <4>1. CASE i \in 1 .. N
        BY <2>7, <3>1, <3>2, <4>1 DEF Loadable
      <4>2. CASE i = N + 1
        BY <2>2, <3>1, <3>2, <4>2
      <4> QED
        BY <3>1, <4>1, <4>2
    <3> QED
      BY <2>3, <3>1, <3>2, <3>3 DEF Loadable
  <2> QED
    BY <2>6, <2>7
<1>2. CASE ~HeaderSlack(1)
  <2>1. Hosts # {} /\ Hosts \in SUBSET DOMAIN sections
    BY <1>2 DEF Fits, Hosts
  <2>2. Least(Hosts) \in Hosts
    BY <2>1, LeastIs
  <2>3. /\ Least(Hosts) \in DOMAIN sections /\ RoomAt(Least(Hosts), CaveLen)
        /\ AppendTo("pistons", Least(Hosts), CaveLen) /\ CaveLen \in Nat
    BY <1>2, <2>2 DEF Pistons, Hosts, CaveLen
  <2>4. Mapped'
    BY <2>3, AppendMaps, Zenon
  <2>5. Loadable => Loadable'
    BY <2>3, AppendLoads, Zenon
  <2> QED
    BY <2>4, <2>5
<1> QED
  BY <1>1, <1>2

\* Whatever a patch adds, every hook still leads to its own code, and Windows
\* still loads the image; the secret poller's sections only if they are first.
LEMMA SectioningMaps ==
    ASSUME Mapped, secretLen \in 1 .. Page, NEW p, Fits(p), Sectioning(p)
    PROVE  /\ Mapped'
           /\ Loadable /\ (p = "secret" => Len(sections) = 0) => Loadable'
<1>1. ApDataLen \in 1 .. Page /\ RkCodeLen \in 1 .. Page /\ RkDataLen \in 1 .. Page
      /\ FolderCodeLen \in Nat
      /\ {"apcode", "apdata", "rkcode", "rkdata"} \subseteq SectionName
  BY DEF ApDataLen, RkCodeLen, RkDataLen, FolderCodeLen, Page, SectionName
<1>2. CASE p = "secret"
  <2>1. HeaderSlack(2) /\ AddPair(p, "apcode", "apdata", 0, secretLen, ApDataLen)
    BY <1>2 DEF Fits, Sectioning
  <2>2. Mapped'
    BY <1>1, <2>1, PairMaps
  <2>3. Loadable /\ Len(sections) = 0 => Loadable'
    BY <1>1, <2>1, PairLoads
  <2> QED
    BY <1>2, <2>2, <2>3
<1>3. CASE p = "retractor"
  <2>1. HeaderSlack(2) /\ AddPair(p, "rkcode", "rkdata", imageEnd, RkCodeLen, RkDataLen)
    BY <1>3 DEF Fits, Sectioning
  <2>2. Mapped'
    <3>1. imageEnd \in Nat
      BY DEF Mapped
    <3> QED
      BY <1>1, <2>1, <3>1, PairMaps
  <2>3. Loadable => Loadable'
    <3> SUFFICES ASSUME Loadable PROVE Loadable'
      OBVIOUS
    <3>1. imageEnd = Len(sections)
      BY DEF Loadable
    <3> QED
      BY <1>1, <2>1, <3>1, PairLoads
  <2> QED
    BY <1>3, <2>2, <2>3
<1>4. CASE p = "folder"
  <2> DEFINE i == Least(RkCode)
  <2>1. RkCode # {} /\ RkCode \in SUBSET DOMAIN sections
    BY <1>4 DEF Fits, RkCode
  <2>2. i \in DOMAIN sections /\ RoomAt(i, FolderCodeLen) /\ AppendTo(p, i, FolderCodeLen)
    BY <1>4, <2>1, LeastIs DEF Fits, Sectioning
  <2> HIDE DEF i
  <2>3. Mapped'
    BY <1>1, <2>2, AppendMaps, Zenon
  <2>4. Loadable => Loadable'
    BY <1>1, <2>2, AppendLoads, Zenon
  <2> QED
    BY <2>3, <2>4
<1>5. CASE p = "pistons"
  <2>1. Pistons
    BY <1>5 DEF Sectioning
  <2> QED
    BY <1>5, <2>1, PistonsMap
<1>6. CASE p \notin {"secret", "retractor", "folder", "pistons"}
  <2>1. UNCHANGED <<sections, imageEnd, target>>
    BY <1>6 DEF Sectioning
  <2> QED
    BY <2>1 DEF Mapped, HooksLeadHome, Loadable
<1> QED
  BY <1>2, <1>3, <1>4, <1>5, <1>6

-----------------------------------------------------------------------------
(* The order of the pipelines, and what a patch finds when its turn comes.  *)

Running ==
    /\ applied \cap todo = {}
    /\ todo \subseteq ToSet(Order[pipeline])
    /\ \A p \in applied, q \in todo : ~Before(q, p)
    /\ "folder" \in todo => "retractor" \in todo \cup applied

\* The retractor keys' code is in section i, and the folder's, if it is applied.
KeysAt(i) ==
    /\ sections[i].raw = 512
    /\ "folder" \notin applied => sections[i].used = RkCodeLen
    /\ "folder" \in applied => sections[i].used = 272 + FolderCodeLen

\* The appended sections, until the pistons' cave.
Shape ==
    /\ Len(sections) = (IF "secret" \in applied THEN 2 ELSE 0)
                          + (IF "retractor" \in applied THEN 2 ELSE 0)
    /\ \A i \in DOMAIN sections : sections[i].name # "pscode"
    /\ "retractor" \notin applied => RkCode = {}
    /\ "retractor" \in applied => RkCode = {Len(sections) - 1} /\ KeysAt(Len(sections) - 1)

Promised ==
    \A p \in ToSet(Order[pipeline]) :
        Selected(p) => \/ p \in applied \cup odd \cup todo
                       \/ p = "folder" /\ "retractor" \in odd

PipeTypes ==
    /\ phase \in {"copy", "patching", "finished", "aborted"}
    /\ pipeline \in {"standalone", "ap"}
    /\ secretLen \in 1 .. Page
    /\ applied \subseteq Patch
    /\ hand \in Nat

\* While a pipeline runs, its patches go in order and the sections are as its
\* order makes them.
InOrder ==
    /\ phase = "copy" => applied = {} /\ sections = << >> /\ todo = {} /\ target = << >>
    /\ phase = "patching" => Running /\ ("pistons" \notin applied => Shape)
    /\ phase = "patching" /\ ~denied => Promised

PatchInv == PipeTypes /\ Mapped /\ InOrder /\ AllIn

\* Both pipelines run patches, and the retractor keys among them.
LEMMA OrdersAre ==
    ASSUME PipeTypes
    PROVE  /\ Len(Order[pipeline]) \in Nat /\ Order[pipeline] \in Seq(Patch)
           /\ ToSet(Order[pipeline]) \subseteq Patch
           /\ pipeline = "standalone" => "secret" \notin ToSet(Order[pipeline])
           /\ "retractor" \in ToSet(Order[pipeline])
<1>1. StandaloneOrder \in Seq(Patch) /\ ApOrder \in Seq(Patch)
  BY DEF StandaloneOrder, ApOrder, Patch, Sites
<1>2. /\ Order[pipeline] \in Seq(Patch)
      /\ pipeline = "standalone" => Order[pipeline] = StandaloneOrder
      /\ pipeline = "ap" => Order[pipeline] = ApOrder
  BY <1>1 DEF PipeTypes, Order
<1>3. ToSet(Order[pipeline]) \subseteq Patch
  BY <1>2 DEF ToSet
<1>4. "secret" \notin ToSet(StandaloneOrder)
  BY DEF ToSet, StandaloneOrder
<1>5. "retractor" \in ToSet(StandaloneOrder)
  <2>1. 10 \in DOMAIN StandaloneOrder /\ StandaloneOrder[10] = "retractor"
    BY DEF StandaloneOrder
  <2> QED
    BY <2>1 DEF ToSet
<1>6. "retractor" \in ToSet(ApOrder)
  <2>1. 13 \in DOMAIN ApOrder /\ ApOrder[13] = "retractor"
    BY DEF ApOrder
  <2> QED
    BY <2>1 DEF ToSet
<1> QED
  BY <1>2, <1>3, <1>4, <1>5, <1>6 DEF PipeTypes

\* The section patches, in the order both pipelines run them.
LEMMA SectionsInOrder ==
    ASSUME PipeTypes
    PROVE  /\ Before("retractor", "folder") /\ Before("retractor", "pistons")
           /\ Before("folder", "pistons")
           /\ pipeline = "ap" => /\ Before("secret", "retractor")
                                 /\ Before("secret", "folder") /\ Before("secret", "pistons")
<1>1. CASE pipeline = "standalone"
  <2>1. /\ {10, 11, 12} \subseteq DOMAIN Order[pipeline] /\ Order[pipeline][10] = "retractor"
        /\ Order[pipeline][11] = "folder" /\ Order[pipeline][12] = "pistons"
    BY <1>1 DEF Order, StandaloneOrder
  <2> QED
    BY <1>1, <2>1 DEF Before
<1>2. CASE pipeline = "ap"
  <2>1. /\ {12, 13, 14, 15} \subseteq DOMAIN Order[pipeline] /\ Order[pipeline][12] = "secret"
        /\ Order[pipeline][13] = "retractor"
        /\ Order[pipeline][14] = "folder" /\ Order[pipeline][15] = "pistons"
    BY <1>2 DEF Order, ApOrder
  <2> QED
    BY <1>2, <2>1 DEF Before
<1> QED
  BY <1>1, <1>2 DEF PipeTypes

\* What a section patch finds applied when it comes to its turn.
LEMMA TurnFinds ==
    ASSUME PipeTypes, Running, NEW p, AtHead(p)
    PROVE  /\ p \in Patch /\ p \in todo /\ p \notin applied
           /\ p = "secret" => applied \cap {"retractor", "folder", "pistons"} = {}
           /\ p = "retractor" => applied \cap {"folder", "pistons"} = {}
           /\ p = "folder" => "pistons" \notin applied /\ "retractor" \in applied
<1>1. p \in todo /\ p \in ToSet(Order[pipeline]) /\ \A q \in todo : ~Before(q, p)
  BY DEF AtHead, Running
<1>2. p \in Patch /\ (p = "secret" => pipeline = "ap")
  BY <1>1, OrdersAre DEF PipeTypes
<1>3. p = "folder" => "retractor" \notin todo
  BY <1>1, SectionsInOrder
<1> QED
  BY <1>1, <1>2, <1>3, SectionsInOrder DEF Running

\* Every patch finds room when its turn comes.
LEMMA TurnFits ==
    ASSUME PipeTypes, Mapped, Running, "pistons" \notin applied => Shape, NEW p, AtHead(p)
    PROVE  Fits(p)
<1>1. /\ p \in Patch /\ p \in todo /\ p \notin applied
      /\ p = "secret" => applied \cap {"retractor", "folder", "pistons"} = {}
      /\ p = "retractor" => applied \cap {"folder", "pistons"} = {}
      /\ p = "folder" => "pistons" \notin applied /\ "retractor" \in applied
  BY TurnFinds, Zenon
<1> DEFINE N == Len(sections)
<1>2. N \in Nat /\ DOMAIN sections = 1 .. N
  BY DEF Mapped
<1>3. ASSUME "pistons" \notin applied, "retractor" \in applied
      PROVE  /\ RkCode = {N - 1} /\ N - 1 \in DOMAIN sections
             /\ sections[N - 1].name = "rkcode" /\ sections[N - 1].raw = 512
             /\ "folder" \notin applied => sections[N - 1].used = 258
             /\ "folder" \in applied => sections[N - 1].used = 369
  <2>1. RkCode = {N - 1} /\ KeysAt(N - 1)
    BY <1>3 DEF Shape
  <2>2. N - 1 \in DOMAIN sections /\ sections[N - 1].name = "rkcode"
    BY <2>1 DEF RkCode
  <2> QED
    BY <2>1, <2>2 DEF KeysAt, FolderCodeLen, RkCodeLen
<1>4. CASE p = "secret"
  BY <1>1, <1>2, <1>4 DEF Shape, Fits, HeaderSlack, FreeHeaders
<1>5. CASE p = "retractor"
  <2>1. "retractor" \notin applied /\ "pistons" \notin applied
    BY <1>1, <1>5
  <2>2. N <= 2
    BY <2>1 DEF Shape
  <2>3. HeaderSlack(2)
    BY <1>2, <2>2 DEF HeaderSlack, FreeHeaders
  <2> QED
    BY <1>5, <2>3 DEF Fits
<1>6. CASE p = "folder"
  <2>1. /\ RkCode = {N - 1} /\ N - 1 \in DOMAIN sections
        /\ sections[N - 1].name = "rkcode" /\ sections[N - 1].raw = 512
        /\ sections[N - 1].used = 258
    BY <1>1, <1>3, <1>6
  <2>2. Least(RkCode) = N - 1
    <3>1. RkCode # {} /\ RkCode \in SUBSET DOMAIN sections
      BY <2>1
    <3>2. Least(RkCode) \in RkCode
      BY <3>1, LeastIs
    <3> QED
      BY <2>1, <3>2
  <2>3. RoomAt(N - 1, FolderCodeLen)
    BY <2>1 DEF RoomAt, AlignUp, FolderCodeLen, CodeSections, Page
  <2> QED
    BY <1>6, <2>1, <2>2, <2>3 DEF Fits
<1>7. CASE p = "pistons"
  <2>1. Shape /\ \A i \in DOMAIN sections : sections[i].name # "pscode"
    BY <1>1, <1>7 DEF Shape
  <2>2. CASE "retractor" \in applied
    <3>1. /\ N - 1 \in DOMAIN sections /\ sections[N - 1].name = "rkcode"
          /\ sections[N - 1].raw = 512 /\ sections[N - 1].used \in {258, 369}
      BY <1>1, <1>3, <1>7, <2>2
    <3>2. RoomAt(N - 1, CaveLen)
      BY <3>1 DEF RoomAt, AlignUp, CaveLen, CodeSections, Page
    <3> QED
      BY <1>7, <2>1, <3>1, <3>2 DEF Fits, Hosts
  <2>3. CASE "retractor" \notin applied
    BY <1>2, <1>7, <2>1, <2>3 DEF Shape, Fits, HeaderSlack, FreeHeaders
  <2> QED
    BY <2>2, <2>3
<1>8. CASE p \notin {"secret", "retractor", "folder", "pistons"}
  BY <1>8 DEF Fits
<1> QED
  BY <1>4, <1>5, <1>6, <1>7, <1>8

\* Every patch finds its bytes as the player's executable had them.
LEMMA TurnVanilla ==
    ASSUME PipeTypes, Running, NEW p, AtHead(p)
    PROVE  Vanilla(p) <=> p \notin odd
<1>1. p \in Patch /\ p \notin applied /\ applied \subseteq Patch
  BY TurnFinds DEF PipeTypes
<1> QED
  BY <1>1, PatchesApart DEF Vanilla

\* The patch whose turn it is leaves the sections as the order makes them.
LEMMA TurnShape ==
    ASSUME PipeTypes, Mapped, Running, "pistons" \notin applied => Shape, NEW p, AtHead(p),
           Sectioning(p), applied' = applied \cup {p}
    PROVE  "pistons" \notin applied' => Shape'
<1> SUFFICES ASSUME "pistons" \notin applied' PROVE Shape'
  OBVIOUS
<1>1. /\ p \in Patch /\ p \in todo /\ p \notin applied
      /\ p = "secret" => applied \cap {"retractor", "folder", "pistons"} = {}
      /\ p = "retractor" => applied \cap {"folder", "pistons"} = {}
      /\ p = "folder" => "pistons" \notin applied /\ "retractor" \in applied
  BY TurnFinds, Zenon
<1> DEFINE N == Len(sections)
<1>2. N \in Nat /\ DOMAIN sections = 1 .. N /\ Shape /\ p # "pistons"
  BY DEF Mapped
<1>3. ASSUME NEW code \in SectionName, NEW data \in SectionName, NEW page \in Nat,
             NEW len \in 1 .. Page, NEW dataLen \in 1 .. Page,
             AddPair(p, code, data, page, len, dataLen)
      PROVE  /\ Len(sections') = N + 2 /\ DOMAIN sections' = 1 .. N + 2
             /\ \A i \in 1 .. N : sections'[i] = sections[i]
             /\ sections'[N + 1].name = code /\ sections'[N + 2].name = data
             /\ sections'[N + 1].used = len /\ sections'[N + 1].raw = AlignUp(len, FileAlignment)
  <2>1. /\ Mapped'
        /\ Len(sections') = Len(sections) + 2
        /\ \A i \in DOMAIN sections : sections'[i] = sections[i]
        /\ sections'[Len(sections) + 1] = NewSection(code, page, len)
        /\ sections'[Len(sections) + 2] = NewSection(data, page + 1, dataLen)
        /\ imageEnd' = IF page + 2 > imageEnd THEN page + 2 ELSE imageEnd
    BY <1>3, PairMaps, Zenon
  <2>2. DOMAIN sections' = 1 .. N + 2
    BY <1>2, <2>1 DEF Mapped
  <2> QED
    BY <1>2, <2>1, <2>2 DEF NewSection
<1>4. {"apcode", "apdata", "rkcode", "rkdata"} \subseteq SectionName
      /\ {ApDataLen, RkCodeLen, RkDataLen, secretLen} \subseteq 1 .. Page
      /\ FolderCodeLen \in Nat /\ imageEnd \in Nat
  BY DEF SectionName, ApDataLen, RkCodeLen, RkDataLen, FolderCodeLen, Page, PipeTypes, Mapped
<1>5. CASE p = "secret"
  <2>1. AddPair(p, "apcode", "apdata", 0, secretLen, ApDataLen)
    BY <1>5 DEF Sectioning
  <2>2. /\ Len(sections') = N + 2 /\ DOMAIN sections' = 1 .. N + 2
        /\ sections'[N + 1].name = "apcode" /\ sections'[N + 2].name = "apdata"
    BY <1>3, <1>4, <2>1
  <2>3. "retractor" \notin applied /\ "secret" \notin applied /\ N = 0
    BY <1>1, <1>2, <1>5 DEF Shape
  <2>4. "retractor" \notin applied' /\ "secret" \in applied'
    BY <1>5, <2>3
  <2>5. \A i \in DOMAIN sections' : sections'[i].name # "pscode" /\ sections'[i].name # "rkcode"
    BY <2>2, <2>3
  <2> QED
    BY <2>2, <2>3, <2>4, <2>5 DEF Shape, RkCode
<1>6. CASE p = "retractor"
  <2>1. AddPair(p, "rkcode", "rkdata", imageEnd, RkCodeLen, RkDataLen)
    BY <1>6 DEF Sectioning
  <2>2. /\ Len(sections') = N + 2 /\ DOMAIN sections' = 1 .. N + 2
        /\ \A i \in 1 .. N : sections'[i] = sections[i]
        /\ sections'[N + 1].name = "rkcode" /\ sections'[N + 2].name = "rkdata"
        /\ sections'[N + 1].used = RkCodeLen
        /\ sections'[N + 1].raw = AlignUp(RkCodeLen, FileAlignment)
    BY <1>3, <1>4, <2>1
  <2>3. AlignUp(RkCodeLen, FileAlignment) = 512
    BY DEF AlignUp, RkCodeLen, FileAlignment
  <2>4. /\ "retractor" \notin applied /\ "folder" \notin applied'
        /\ "retractor" \in applied' /\ ("secret" \in applied' <=> "secret" \in applied)
    BY <1>1, <1>6
  <2>5. \A i \in 1 .. N : sections[i].name # "pscode" /\ sections[i].name # "rkcode"
    BY <1>2, <2>4 DEF Shape, RkCode
  <2>6. \A i \in DOMAIN sections' : /\ sections'[i].name # "pscode"
                                    /\ sections'[i].name = "rkcode" <=> i = N + 1
    <3> SUFFICES ASSUME NEW i \in 1 .. N + 2
                 PROVE  /\ sections'[i].name # "pscode"
                        /\ sections'[i].name = "rkcode" <=> i = N + 1
      BY <2>2
    <3>1. CASE i \in 1 .. N
      BY <1>2, <2>2, <2>5, <3>1
    <3>2. CASE i = N + 1 \/ i = N + 2
      BY <1>2, <2>2, <3>2
    <3> QED
      BY <1>2, <3>1, <3>2
  <2>7. RkCode' = {N + 1}
    BY <1>2, <2>2, <2>6 DEF RkCode
  <2>8. Len(sections') - 1 = N + 1
    BY <1>2, <2>2
  <2>9. Len(sections') = (IF "secret" \in applied' THEN 2 ELSE 0) + 2
    BY <1>2, <2>2, <2>4 DEF Shape
  <2>10. KeysAt(Len(sections) - 1)'
    BY <2>2, <2>3, <2>4, <2>8 DEF KeysAt
  <2> QED
    BY <2>4, <2>6, <2>7, <2>8, <2>9, <2>10 DEF Shape
<1>7. CASE p = "folder"
  <2>1. RkCode = {N - 1} /\ KeysAt(N - 1) /\ "retractor" \in applied /\ "folder" \notin applied
    BY <1>1, <1>2, <1>7 DEF Shape
  <2>2. sections[N - 1].used = 258 /\ sections[N - 1].raw = 512 /\ N - 1 \in DOMAIN sections
    BY <2>1 DEF KeysAt, RkCodeLen, RkCode
  <2>3. Least(RkCode) = N - 1
    <3>1. RkCode # {} /\ RkCode \in SUBSET DOMAIN sections
      BY <2>1, <2>2
    <3>2. Least(RkCode) \in RkCode
      BY <3>1, LeastIs
    <3> QED
      BY <2>1, <3>2
  <2>4. RoomAt(N - 1, FolderCodeLen)
    <3>1. sections[N - 1].name = "rkcode"
      BY <2>1 DEF RkCode
    <3> QED
      BY <2>2, <3>1 DEF RoomAt, AlignUp, FolderCodeLen, CodeSections, Page
  <2>5. AppendTo(p, N - 1, FolderCodeLen)
    BY <1>7, <2>3 DEF Sectioning
  <2> DEFINE i == N - 1
  <2>6. i \in DOMAIN sections /\ RoomAt(i, FolderCodeLen) /\ AppendTo(p, i, FolderCodeLen)
    BY <2>2, <2>4, <2>5
  <2>7. sections[i] \in Section /\ sections[i].used = 258 /\ sections[i].raw = 512 /\ i = N - 1
    BY <2>2 DEF Mapped
  <2> HIDE DEF i
  <2>8. /\ Mapped' /\ imageEnd' = imageEnd /\ Len(sections') = Len(sections)
        /\ \A j \in DOMAIN sections \ {i} : sections'[j] = sections[j]
        /\ sections'[i] =
              [sections[i] EXCEPT !.used = AlignUp(sections[i].used, 16) + FolderCodeLen]
        /\ sections'[i].used <= sections[i].raw /\ sections'[i].used \in 1 .. Page
    <3>1. /\ Mapped'
          /\ imageEnd' = imageEnd /\ Len(sections') = Len(sections)
          /\ \A j \in DOMAIN sections \ {i} : sections'[j] = sections[j]
          /\ sections'[i] =
                [sections[i] EXCEPT !.used = AlignUp(sections[i].used, 16) + FolderCodeLen]
          /\ sections'[i].used <= sections[i].raw /\ sections'[i].used \in 1 .. Page
      BY <1>4, <2>6, AppendMaps, Zenon
    <3> QED
      BY <3>1
  <2>9. AlignUp(sections[i].used, 16) = 272
    BY <2>7 DEF AlignUp
  <2>10. /\ sections'[i].used = 272 + FolderCodeLen /\ sections'[i].raw = 512
         /\ sections'[i].name = sections[i].name
    BY <2>7, <2>8, <2>9 DEF Section
  <2>11. DOMAIN sections' = DOMAIN sections
    BY <2>8 DEF Mapped
  <2>12. \A j \in DOMAIN sections' : sections'[j].name = sections[j].name
    BY <2>8, <2>10, <2>11
  <2>13. RkCode' = RkCode /\ \A j \in DOMAIN sections' : sections'[j].name # "pscode"
    BY <1>2, <2>11, <2>12 DEF RkCode, Shape
  <2>14. "folder" \in applied' /\ "retractor" \in applied'
         /\ ("secret" \in applied' <=> "secret" \in applied)
    BY <1>7, <2>1
  <2>15. KeysAt(i)'
    <3>1. i' = i
      BY <2>8 DEF i
    <3> QED
      BY <2>10, <2>14, <3>1 DEF KeysAt
  <2>16. Len(sections') = (IF "secret" \in applied' THEN 2 ELSE 0) + 2
    BY <1>2, <2>1, <2>8, <2>14 DEF Shape
  <2>17. RkCode' = {Len(sections') - 1} /\ KeysAt(Len(sections) - 1)'
    BY <2>1, <2>8, <2>13, <2>15 DEF i
  <2> QED
    BY <2>13, <2>14, <2>16, <2>17 DEF Shape
<1>8. CASE p \notin {"secret", "retractor", "folder", "pistons"}
  <2>1. sections' = sections
    BY <1>8 DEF Sectioning
  <2>2. \A q \in {"secret", "retractor", "folder"} : q \in applied' <=> q \in applied
    BY <1>8
  <2> QED
    BY <1>2, <2>1, <2>2 DEF Shape, RkCode, KeysAt
<1> QED
  BY <1>2, <1>5, <1>6, <1>7, <1>8

\* The invariant holds of a pipeline yet to start.
LEMMA PatchInitInv == PatchInit => PatchInv
<1> SUFFICES ASSUME PatchInit PROVE PatchInv
  OBVIOUS
<1>1. PipeTypes
  <2>1. secretLen \in 1 .. Page
    BY ExePatchesAssumption DEF PatchInit
  <2> QED
    BY <2>1 DEF PatchInit, PipeTypes
<1>2. Mapped
  BY DEF PatchInit, Mapped, HooksLeadHome
<1>3. InOrder /\ AllIn
  BY DEF PatchInit, InOrder, AllIn
<1> QED
  BY <1>1, <1>2, <1>3 DEF PatchInv

\* The copy keeps the invariant.
LEMMA CopyExeInv == ASSUME PatchInv, CopyExe PROVE PatchInv'
<1>1. /\ phase = "copy" /\ phase' = "patching"
      /\ todo' = {p \in ToSet(Order[pipeline]) : Selected(p)}
      /\ UNCHANGED <<pipeline, options, odd, secretLen, applied, denied, sections, imageEnd,
                     target, hand>>
  BY DEF CopyExe
<1>2. applied = {} /\ sections = << >>
  BY <1>1 DEF PatchInv, InOrder
<1>3. PipeTypes'
  BY <1>1 DEF PatchInv, PipeTypes
<1>4. Mapped'
  BY <1>1 DEF PatchInv, Mapped, HooksLeadHome
<1>5. Running'
  <2>1. "folder" \in todo' => "retractor" \in todo'
    <3>1. "retractor" \in ToSet(Order[pipeline])
      BY OrdersAre DEF PatchInv
    <3>2. Selected("folder") => Selected("retractor")
      BY DEF Selected
    <3> QED
      BY <1>1, <3>1, <3>2
  <2> QED
    BY <1>1, <1>2, <2>1 DEF Running
<1>6. Shape'
  BY <1>1, <1>2 DEF Shape, RkCode
<1>7. Promised'
  BY <1>1 DEF Promised, Selected
<1>8. AllIn'
  BY <1>1 DEF AllIn
<1> QED
  BY <1>1, <1>3, <1>4, <1>5, <1>6, <1>7, <1>8 DEF PatchInv, InOrder

\* A pipeline that goes on to the next patch is still in order.
LEMMA RunningOn ==
    ASSUME PatchInv, phase = "patching", NEW p, AtHead(p), pipeline' = pipeline,
           \/ todo' = todo \ {p} /\ applied' \subseteq applied \cup {p}
              /\ (p = "retractor" => p \in applied')
           \/ todo' = Without(p) /\ applied' = applied,
           applied \subseteq applied'
    PROVE  Running'
<1>1. Running /\ p \in todo /\ \A q \in todo : ~Before(q, p)
  BY DEF PatchInv, InOrder, AtHead
<1>2. todo' \subseteq todo \ {p} /\ applied' \subseteq applied \cup {p}
  BY DEF Without
<1>3. \A q, r : Before(q, r)' <=> Before(q, r)
  BY DEF Before
<1>4. \A q \in applied', r \in todo' : ~Before(r, q)'
  BY <1>1, <1>2, <1>3 DEF Running
<1>5. applied' \cap todo' = {} /\ todo' \subseteq ToSet(Order[pipeline])
  BY <1>1, <1>2 DEF Running
<1>6. "folder" \in todo' => "retractor" \in todo' \cup applied'
  BY <1>1 DEF Running, Without
<1> QED
  BY <1>4, <1>5, <1>6 DEF Running

\* A patch that goes through keeps the invariant.
LEMMA ApplyInv == ASSUME PatchInv, NEW p \in Patch, Apply(p) PROVE PatchInv'
<1>1. /\ AtHead(p) /\ Fits(p) /\ Sectioning(p) /\ phase = "patching"
      /\ applied' = applied \cup {p} /\ todo' = todo \ {p}
      /\ UNCHANGED <<phase, pipeline, options, odd, secretLen, denied, hand>>
  BY DEF Apply, AtHead
<1>2. PipeTypes /\ Mapped /\ Running /\ ("pistons" \notin applied => Shape)
      /\ secretLen \in 1 .. Page
  BY <1>1 DEF PatchInv, InOrder, PipeTypes
<1>3. PipeTypes'
  BY <1>1, <1>2 DEF PipeTypes
<1>4. Mapped'
  BY <1>1, <1>2, SectioningMaps
<1>5. Running'
  BY <1>1, RunningOn
<1>6. "pistons" \notin applied' => Shape'
  BY <1>1, <1>2, TurnShape
<1>7. ~denied => Promised'
  BY <1>1 DEF PatchInv, InOrder, Promised, Selected
<1>8. AllIn'
  BY <1>1 DEF AllIn
<1> QED
  BY <1>1, <1>3, <1>4, <1>5, <1>6, <1>7, <1>8 DEF PatchInv, InOrder

\* So does one that is refused, for then its bytes are not as expected.
LEMMA RefuseInv == ASSUME PatchInv, NEW p \in Patch, Refuse(p) PROVE PatchInv'
<1>1. /\ AtHead(p) /\ ~(Vanilla(p) /\ Fits(p)) /\ phase = "patching"
      /\ UNCHANGED <<pipeline, options, odd, secretLen, applied, denied, sections, imageEnd,
                     target, hand>>
  BY DEF Refuse, AtHead
<1>2. PipeTypes /\ Mapped /\ Running /\ ("pistons" \notin applied => Shape)
  BY <1>1 DEF PatchInv, InOrder
<1>3. p \in odd
  BY <1>1, <1>2, TurnFits, TurnVanilla
<1>4. Mapped' /\ (Shape => Shape')
  BY <1>1, <1>2 DEF Mapped, HooksLeadHome, Shape, RkCode, KeysAt
<1>5. CASE p \in Tolerated \cup Caught
  <2>1. todo' = Without(p) /\ phase' = phase
    BY <1>5 DEF Refuse
  <2>2. Running'
    BY <1>1, <2>1, RunningOn
  <2>3. ~denied => Promised'
    BY <1>1, <1>3, <2>1 DEF PatchInv, InOrder, Promised, Selected, Without
  <2> QED
    BY <1>1, <1>2, <1>4, <2>1, <2>2, <2>3 DEF PatchInv, InOrder, PipeTypes, AllIn
<1>6. CASE p \notin Tolerated \cup Caught
  <2>1. phase' = "aborted"
    BY <1>6 DEF Refuse
  <2> QED
    BY <1>1, <1>2, <1>3, <1>4, <1>6, <2>1 DEF PatchInv, InOrder, PipeTypes, AllIn
<1> QED
  BY <1>5, <1>6

\* So does a file that cannot be written.
LEMMA DenyInv == ASSUME PatchInv, Deny PROVE PatchInv'
<1>1. /\ denied'
      /\ UNCHANGED <<pipeline, options, odd, secretLen, applied, sections, imageEnd,
                     target, hand>>
  BY DEF Deny
<1>2. Mapped' /\ (Shape => Shape')
  BY <1>1 DEF PatchInv, Mapped, HooksLeadHome, Shape, RkCode, KeysAt
<1>3. CASE phase' \in {"finished", "aborted"}
  BY <1>1, <1>2, <1>3 DEF PatchInv, InOrder, PipeTypes, AllIn
<1>4. CASE \E p \in Patch : AtHead(p) /\ todo' = Without(p) /\ UNCHANGED phase
  <2>1. PICK p \in Patch : AtHead(p) /\ todo' = Without(p) /\ UNCHANGED phase
    BY <1>4
  <2>2. phase = "patching"
    BY <2>1 DEF AtHead
  <2>3. Running'
    BY <1>1, <2>1, <2>2, RunningOn
  <2> QED
    BY <1>1, <1>2, <2>1, <2>2, <2>3 DEF PatchInv, InOrder, PipeTypes, AllIn
<1> QED
  BY <1>3, <1>4 DEF Deny, GiveUp

\* When nothing is left to do every patch asked for had its turn.
LEMMA FinishInv == ASSUME PatchInv, Finish PROVE PatchInv'
<1>1. /\ phase = "patching" /\ todo = {} /\ phase' = "finished"
      /\ UNCHANGED <<pipeline, options, odd, secretLen, todo, applied, denied, sections,
                     imageEnd, target, hand>>
  BY DEF Finish
<1>2. Mapped'
  BY <1>1 DEF PatchInv, Mapped, HooksLeadHome
<1>3. AllIn'
  BY <1>1 DEF PatchInv, InOrder, Promised, AllIn, Selected
<1> QED
  BY <1>1, <1>2, <1>3 DEF PatchInv, InOrder, PipeTypes

\* A tool that applies its patch keeps the invariant.
LEMMA HandApplyInv == ASSUME PatchInv, NEW p \in HandTools, HandApply(p) PROVE PatchInv'
<1>1. /\ phase = "finished" /\ Fits(p) /\ Sectioning(p)
      /\ applied' = applied \cup {p} /\ hand' = hand + 1
      /\ UNCHANGED <<phase, pipeline, options, odd, secretLen, todo, denied>>
  BY DEF HandApply
<1>2. p \in Patch
  BY ExePatchesAssumption DEF SectionPatch, Patch, Sites
<1>3. Mapped'
  BY <1>1, SectioningMaps DEF PatchInv, PipeTypes
<1>4. PipeTypes' /\ hand' # 0
  BY <1>1, <1>2 DEF PatchInv, PipeTypes
<1> QED
  BY <1>1, <1>3, <1>4 DEF PatchInv, InOrder, AllIn

\* So does one that reverts it.
LEMMA HandRevertInv == ASSUME PatchInv, NEW p \in HandTools, HandRevert(p) PROVE PatchInv'
<1>1. /\ phase = "finished" /\ applied' = applied \ {p} /\ hand' = hand + 1
      /\ target' = [q \in DOMAIN target \ {p} |-> target[q]]
      /\ UNCHANGED <<phase, pipeline, options, odd, secretLen, todo, denied, sections, imageEnd>>
  BY DEF HandRevert
<1>2. PipeTypes' /\ hand' # 0
  BY <1>1 DEF PatchInv, PipeTypes
<1>3. Mapped'
  BY <1>1 DEF PatchInv, Mapped, HooksLeadHome
<1> QED
  BY <1>1, <1>2, <1>3 DEF PatchInv, InOrder, AllIn

\* Every step keeps the invariant.
LEMMA PatchNextInv == ASSUME PatchInv, [PatchNext]_patchVars PROVE PatchInv'
<1>1. CASE UNCHANGED patchVars
  <2>1. Mapped' /\ AllIn'
    BY <1>1 DEF patchVars, PatchInv, Mapped, HooksLeadHome, AllIn, Selected
  <2>2. InOrder'
    BY <1>1 DEF patchVars, PatchInv, InOrder, Running, Before, Shape, RkCode, KeysAt, Promised,
                Selected
  <2> QED
    BY <1>1, <2>1, <2>2 DEF patchVars, PatchInv, PipeTypes
<1> QED
  BY <1>1, CopyExeInv, ApplyInv, RefuseInv, DenyInv, FinishInv, HandApplyInv, HandRevertInv
     DEF PatchNext

\* While a pipeline runs, its patches go in order, each finds room for itself and
\* vanilla bytes, and every hook leads to code of its own.
THEOREM PatchInvariant == PatchSpec => []PatchInv
<1> QED
  BY PatchInitInv, PatchNextInv, PTL DEF PatchSpec

\* No two of the fifteen patches write the same byte, whichever are applied.
THEOREM PatchesNeverClash == PatchSpec => []SitesApart
<1>1. PatchInv => SitesApart
  <2> SUFFICES ASSUME PatchInv, NEW p \in applied, NEW q \in applied PROVE <<p, q>> \notin Clashes
    BY DEF SitesApart
  <2>1. p \in Patch /\ q \in Patch
    BY DEF PatchInv, PipeTypes
  <2> QED
    BY <2>1, PatchesApart DEF Clashes
<1> QED
  BY <1>1, PatchInvariant, PTL

\* Whatever is applied, reverted and applied again by hand, every hook leads to
\* its own code, that no other patch has written over.
THEOREM HooksAlwaysLeadHome == PatchSpec => []HooksLeadHome
<1>1. PatchInv => HooksLeadHome
  BY DEF PatchInv, Mapped
<1> QED
  BY <1>1, PatchInvariant, PTL

\* A run that nothing denied the file ends with every patch its options ask for,
\* but those whose bytes the player's executable lacks.
THEOREM EveryPatchIsIn == PatchSpec => []AllIn
<1>1. PatchInv => AllIn
  BY DEF PatchInv
<1> QED
  BY <1>1, PatchInvariant, PTL

\* The image stays one Windows loads, whatever the tools do to it by hand, unless
\* the poller's sections were appended by hand behind others.
THEOREM ImageStaysLoadable == PatchSpec => []ImageLoads
<1>1. PatchInit => ImageLoads
  BY DEF PatchInit, ImageLoads, Loadable, FreeHeaders
<1>2. PatchInv /\ ImageLoads /\ [PatchNext]_patchVars => ImageLoads'
  <2> SUFFICES ASSUME PatchInv, ImageLoads, [PatchNext]_patchVars PROVE ImageLoads'
    OBVIOUS
  <2>1. CASE UNCHANGED <<sections, imageEnd, stray>>
    BY <2>1 DEF ImageLoads, Loadable
  <2>2. ASSUME NEW p \in Patch, Apply(p) PROVE ImageLoads'
    <3>1. /\ AtHead(p) /\ Fits(p) /\ Sectioning(p) /\ PipeTypes /\ Mapped /\ Running
          /\ ("pistons" \notin applied => Shape)
          /\ stray' = stray
      BY <2>2 DEF Apply, AtHead, PatchInv, InOrder
    <3>2. p = "secret" => Len(sections) = 0
      <4> SUFFICES ASSUME p = "secret" PROVE Len(sections) = 0
        OBVIOUS
      <4>1. p \notin applied /\ applied \cap {"retractor", "folder", "pistons"} = {}
        BY <3>1, TurnFinds
      <4> QED
        BY <3>1, <4>1 DEF Shape
    <3> QED
      BY <3>1, <3>2, SectioningMaps DEF PipeTypes, ImageLoads
  <2>3. ASSUME NEW p \in HandTools, HandApply(p) PROVE ImageLoads'
    <3>1. /\ Fits(p) /\ Sectioning(p)
          /\ stray' = (stray \/ (p = "secret" /\ sections # << >>))
      BY <2>3 DEF HandApply
    <3>2. Loadable /\ (p = "secret" => Len(sections) = 0) => Loadable'
      BY <3>1, SectioningMaps DEF PatchInv, PipeTypes
    <3> QED
      BY <3>1, <3>2 DEF ImageLoads
  <2> QED
    BY <2>1, <2>2, <2>3
       DEF PatchNext, patchVars, CopyExe, Refuse, Deny, Finish, HandRevert
<1> QED
  BY <1>1, <1>2, PatchInvariant, PTL DEF PatchSpec
=============================================================================
