----------------------------- MODULE ExePatches -----------------------------
(***************************************************************************)
(* The patched copy of the game's executable: the exe_patches modules, the *)
(* two pipelines that run them one after another on the same file          *)
(* (patcher.py's Step 7 for a standalone seed, ap_patcher.py's for an      *)
(* Archipelago seed) and the modules' own command lines, which revert and  *)
(* apply a patch of the finished file by hand.                             *)
(*                                                                         *)
(* A patch owns the bytes it writes and may insist on the vanilla content  *)
(* of some; four of them also put code in sections appended to the image.  *)
(***************************************************************************)
EXTENDS Integers, Sequences, FiniteSets, SequencesExt

CONSTANTS
    SecretCode,  \* sizes of the secret poller's assembled code
    OddPatches,  \* bound: the patches whose bytes may differ in the user's exe
    HandTools,   \* the section patches whose command line is used
    MaxHand      \* bound: uses of a command line

Page == 4096         \* SECTION_ALIGNMENT
FileAlignment == 512
FreeHeaders == 4     \* room in the vanilla header for section headers

VARIABLES
    phase,     \* "copy", "patching", "finished" (the seed goes on), "aborted"
    pipeline,  \* "standalone" or "ap"
    options,   \* the optional patches this seed asks for
    odd,       \* patches for which the user's exe is not the expected build
    secretLen, \* a member of SecretCode
    todo,      \* the patches still to run
    applied,   \* the patches whose bytes are in the file
    denied,    \* a write was refused (PermissionError)
    sections,  \* the appended sections: page, used (VirtualSize), raw, name
    imageEnd,  \* SizeOfImage, in pages past the vanilla end
    target,    \* section patch -> the appended code its hook jumps to
    hand,      \* uses of a command line so far
    stray      \* history: the poller's sections were appended behind others, by hand

patchVars == <<phase, pipeline, options, odd, secretLen, todo, applied, denied, sections,
          imageEnd, target, hand, stray>>

AlignUp(n, a) == ((n + a - 1) \div a) * a

-----------------------------------------------------------------------------
(* The bytes each patch writes and those whose vanilla content it checks,   *)
(* as ranges of the file.  Addresses are given as in the code: relative to  *)
(* the image base for .text and .rdata, or as plain file offsets.           *)

Raw(off, n) == [at |-> off, len |-> n]
Text(rva, n) == Raw(rva - \hC00, n)
Rdata(rva, n) == Raw(rva - \h1800, n)
TextTo(rva, end) == Text(rva, end - rva)

GadPlaces ==
    {Raw(\h6A591F, 18), Raw(\h6A591F + 18, 40), Raw(\h6A591F + 58, 40),
     Raw(\hC9B8E0, 16), Text(\h64A354, 78), Text(\h446C29, 12), Text(\h446B7F, 12)}

TempleNops ==
    {Raw(\h4590B4, 2)} \cup {Raw(\h4590B8 + 8 * n, 6) : n \in 0 .. 6}

RingPredicates == {\h2AC850, \h2AC890, \h2AC8C0}

GadSites ==
    [writes |-> GadPlaces \cup TempleNops \cup {Raw(off, 3) : off \in RingPredicates},
     checks |-> GadPlaces \cup {Raw(off, 8) : off \in RingPredicates}]

InstantPickupSites ==
    [writes |-> {TextTo(\h446987, \h446A76), Text(\h446A8B, 4), TextTo(\h446AA7, \h446B19),
                 Text(\h4470FD, 5), Text(\h446E3F, 4), TextTo(\h446EC0, \h446F57),
                 Text(\h4468CC, 5), TextTo(\h446FD1, \h446FEE)},
     checks |-> {Text(\h446987, 16), Text(\h446A8B, 4), Text(\h446AA7, 16),
                 Text(\h4470EE, 20), Text(\h446E34, 15), Text(\h446EC0, 16),
                 Text(\h4468C2, 15), Text(\h446FD1, 16)}]

DeathSites ==
    LET all == {Text(\h32D1B9, 5), Text(\h64A3B2, 35)}
    IN [writes |-> all, checks |-> all]

MSprintSitesLow ==
    LET hooks == {Text(\h46B2C4, 8), Text(\h46B795, 8)}
    IN [writes |-> hooks \cup {Text(\h64A3C2, 34), Text(\h5FF881, 20),
                               Text(\h14DFE0, 15), Text(\h1841C0, 15)},
        checks |-> hooks]
SprintSites ==
    LET all == {Text(\h46B2C4, 8), Text(\h46B795, 8), Text(\h64A3D5, 34),
                Text(\h5FF881, 20), Text(\h14DFE0, 15), Text(\h1841C0, 15)}
    IN [writes |-> all, checks |-> all]

SavePathSites ==
    LET all == {Rdata(\h704760, 8), Text(\h33E404, 1)}
    IN [writes |-> all, checks |-> all]

LifeAltarSites ==
    [writes |-> {Text(\h43F4E3, 6)}, checks |-> {Text(\h43F4DE, 5), Text(\h43F4E3, 6)}]

KeycardSites ==
    [writes |-> {Raw(\h311775, 40)}, checks |-> {Raw(\h311775, 40)}]

\* Four patches write without looking.
CadeauxSites ==
    [writes |-> {Raw(\h43E940, 1), Raw(\h42B74D, 1), Raw(\h43E9B7, 1),
                 Raw(\h42B72C, 6), Raw(\h42B78C, 6), Raw(\h42B794, 4)},
     checks |-> {}]

HealthSites ==
    [writes |-> {Raw(\h2E939C, 4), Raw(\h72C450, 4), Raw(\h43E9CD, 4)}, checks |-> {}]

SoulSites ==
    [writes |-> {Raw(off, 1) : off \in {\h2DF116, \h2DF122, \h2DF12E, \h2DF13A,
                    \h2DF146, \h2DF156, \h2DF162, \h2DF16E, \h2DF17A, \h2DF187}},
     checks |-> {}]

DarkEngineSites == [writes |-> {Raw(\h6B5A00, 72)}, checks |-> {}]

SecretHook == {Text(\h45DA0D, 7)}

RetractorHooks == {Text(\h47D942, 6), Text(\h446C35, 7), Text(\h4674B2, 5)}

\* The folder's page limit is taken as it is found, vanilla or patched.
FolderSites ==
    [writes |-> {Raw(\h72CCE4, 1), Text(\h2F673B, 5)}, checks |-> {Text(\h2F673B, 5)}]

PistonsSites ==
    [writes |-> {Text(\h423A9E, 7)}, checks |-> {Text(\h423A9E, 72)}]

Sites ==
    [keycard |-> KeycardSites, save_path |-> SavePathSites,
     instant |-> InstantPickupSites, cadeaux |-> CadeauxSites, health |-> HealthSites,
     life_altar |-> LifeAltarSites, death |-> DeathSites, sprint |-> SprintSites,
     souls |-> SoulSites, dark |-> DarkEngineSites, gad |-> GadSites,
     secret |-> [writes |-> SecretHook, checks |-> SecretHook],
     retractor |-> [writes |-> RetractorHooks, checks |-> RetractorHooks],
     folder |-> FolderSites, pistons |-> PistonsSites]

Patch == DOMAIN Sites

SectionPatch == {"secret", "retractor", "folder", "pistons"}

ASSUME ExePatchesAssumption ==
    /\ SecretCode \subseteq 1 .. Page /\ SecretCode # {}
    /\ OddPatches \subseteq Patch
    /\ HandTools \subseteq SectionPatch
    /\ MaxHand \in Nat

Overlap(r, s) == r.at < s.at + s.len /\ s.at < r.at + r.len

Touch(R, S) == \E r \in R, s \in S : Overlap(r, s)

\* The patches that write a byte the other one writes, or insists on.
Clashes == {pq \in Patch \X Patch : pq[1] # pq[2]
                /\ Touch(Sites[pq[1]].writes, Sites[pq[2]].writes)}
Spoils == {pq \in Patch \X Patch : Touch(Sites[pq[1]].writes, Sites[pq[2]].checks)}

\* All the bytes p checks are still vanilla.
Vanilla(p) == p \notin odd /\ \A q \in applied : <<q, p>> \notin Spoils

-----------------------------------------------------------------------------
(* The pipelines.                                                           *)

StandaloneOrder ==
    <<"keycard", "save_path", "cadeaux", "health", "death", "sprint", "souls",
      "dark", "gad", "retractor", "folder", "pistons">>

MApOrderSecretLate ==
    <<"keycard", "instant", "save_path", "gad", "cadeaux", "health", "life_altar",
      "death", "sprint", "souls", "dark", "retractor", "folder", "secret", "pistons">>
MApOrderPistonsEarly ==
    <<"keycard", "instant", "save_path", "gad", "cadeaux", "health", "life_altar",
      "death", "sprint", "souls", "dark", "secret", "pistons", "retractor", "folder">>
ApOrder ==
    <<"keycard", "instant", "save_path", "gad", "cadeaux", "health", "life_altar",
      "death", "sprint", "souls", "dark", "secret", "retractor", "folder", "pistons">>

Order == [standalone |-> StandaloneOrder, ap |-> ApOrder]

Optional ==
    [standalone |-> {"death", "sprint", "souls", "dark", "gad", "retractor", "pistons"},
     ap |-> {"life_altar", "death", "sprint", "souls", "dark", "secret", "retractor",
             "pistons"}]

\* The tracker pages of the folder come with the retractor keys.
Selected(p) ==
    IF p = "folder" THEN "retractor" \in options
    ELSE p \in options \/ p \notin Optional[pipeline]

\* A failure of these is printed and the run goes on without them; so is any
\* exception of the section patches but the pistons'.
Tolerated == {"keycard", "instant", "gad", "death", "sprint"}
Caught == {"secret", "retractor", "folder"}

CopyExe ==
    /\ phase = "copy"
    /\ phase' = "patching"
    /\ todo' = {p \in ToSet(Order[pipeline]) : Selected(p)}
    /\ UNCHANGED <<pipeline, options, odd, secretLen, applied, denied, sections, imageEnd,
                   target, hand, stray>>

-----------------------------------------------------------------------------
(* Sections.                                                                *)

\* n more section headers fit before the first section's data.
HeaderSlack(n) == Len(sections) + n <= FreeHeaders

NewSection(name, page, used) ==
    [name |-> name, page |-> page, used |-> used, raw |-> AlignUp(used, FileAlignment)]

CodeSections == {"apcode", "rkcode", "pscode"}

RkCodeLen == 258
RkDataLen == 120
ApDataLen == 40
FolderCodeLen == 97
CaveLen == 109

\* Whether p, run on the file as it is, goes through.
RoomAt(i, n) ==
    LET s == sections[i]
        end == AlignUp(s.used, 16) + n
    IN s.name \in CodeSections /\ end <= s.raw /\ AlignUp(end, Page) <= AlignUp(s.used, Page)

RkCode == {i \in DOMAIN sections : sections[i].name = "rkcode"}

Least(S) == CHOOSE i \in S : \A j \in S : i <= j

Hosts == {i \in DOMAIN sections : RoomAt(i, CaveLen)}

Fits(p) ==
    CASE p \in {"secret", "retractor"} -> HeaderSlack(2)
      [] p = "folder" ->
           /\ RkCode # {}
           /\ RoomAt(Least(RkCode), FolderCodeLen)
      [] p = "pistons" ->
           /\ \A i \in DOMAIN sections : sections[i].name # "pscode"
           /\ HeaderSlack(1) \/ Hosts # {}
      [] OTHER -> TRUE

\* Two new sections, for code and data, and the hooks lead to the code.
AddPair(p, code, data, page, len, dataLen) ==
    /\ sections' = sections \o <<NewSection(code, page, len), NewSection(data, page + 1, dataLen)>>
    /\ imageEnd' = IF page + 2 > imageEnd THEN page + 2 ELSE imageEnd
    /\ target' = [q \in DOMAIN target \cup {p} |->
                    IF q = p THEN [sec |-> Len(sections) + 1, from |-> 0, to |-> len]
                    ELSE target[q]]

MAppendTo(p, i, len) ==
    LET from == AlignUp(sections[i].used, 16)
    IN /\ sections' = sections
       /\ target' = [q \in DOMAIN target \cup {p} |->
                       IF q = p THEN [sec |-> i, from |-> from, to |-> from + len]
                       ELSE target[q]]
       /\ UNCHANGED imageEnd
\* The code goes into the zero bytes behind a section's own, and that
\* section's VirtualSize grows to cover it.
AppendTo(p, i, len) ==
    LET from == AlignUp(sections[i].used, 16)
    IN /\ sections' = [sections EXCEPT ![i].used = from + len]
       /\ target' = [q \in DOMAIN target \cup {p} |->
                       IF q = p THEN [sec |-> i, from |-> from, to |-> from + len]
                       ELSE target[q]]
       /\ UNCHANGED imageEnd

Pistons ==
    IF HeaderSlack(1)
    THEN /\ sections' = Append(sections, NewSection("pscode", imageEnd, CaveLen))
         /\ imageEnd' = imageEnd + 1
         /\ target' = [q \in DOMAIN target \cup {"pistons"} |->
                         IF q = "pistons"
                         THEN [sec |-> Len(sections) + 1, from |-> 0, to |-> CaveLen]
                         ELSE target[q]]
    ELSE AppendTo("pistons", Least(Hosts), CaveLen)

\* The secret poller's sections have fixed addresses, at the vanilla end of the
\* image; the retractor keys' follow the image's current end.
Sectioning(p) ==
    CASE p = "secret" -> AddPair(p, "apcode", "apdata", 0, secretLen, ApDataLen)
      [] p = "retractor" -> AddPair(p, "rkcode", "rkdata", imageEnd, RkCodeLen, RkDataLen)
      [] p = "folder" -> AppendTo(p, Least(RkCode), FolderCodeLen)
      [] p = "pistons" -> Pistons
      [] OTHER -> UNCHANGED <<sections, imageEnd, target>>

-----------------------------------------------------------------------------
(* Steps.                                                                   *)

\* What is left when p was not applied: the folder pages are nested in the
\* retractor keys' try block.
Without(p) == todo \ IF p = "retractor" THEN {"retractor", "folder"} ELSE {p}

\* The pipeline runs p ahead of q.
Before(p, q) ==
    \E m, n \in DOMAIN Order[pipeline] :
        m < n /\ Order[pipeline][m] = p /\ Order[pipeline][n] = q

AtHead(p) == phase = "patching" /\ p \in todo /\ \A q \in todo : ~Before(q, p)

Apply(p) ==
    /\ AtHead(p)
    /\ Vanilla(p) /\ Fits(p)
    /\ applied' = applied \cup {p}
    /\ Sectioning(p)
    /\ todo' = todo \ {p}
    /\ UNCHANGED <<phase, pipeline, options, odd, secretLen, denied, hand, stray>>

\* The patch finds bytes it does not expect, or no room, and writes nothing.
Refuse(p) ==
    /\ AtHead(p)
    /\ ~(Vanilla(p) /\ Fits(p))
    /\ IF p \in Tolerated \cup Caught
       THEN /\ todo' = Without(p)
            /\ UNCHANGED phase
       ELSE /\ phase' = "aborted"
            /\ UNCHANGED todo
    /\ UNCHANGED <<pipeline, options, odd, secretLen, applied, denied, sections, imageEnd,
                   target, hand, stray>>

\* The file cannot be written.  ap_patcher.py lets the PermissionError through;
\* patcher.py prints it, leaves the rest of the exe alone and goes on.
GiveUp ==
    /\ phase' = IF pipeline = "standalone" THEN "finished" ELSE "aborted"
    /\ UNCHANGED todo

Deny ==
    /\ \/ phase = "copy" /\ GiveUp
       \/ \E p \in Patch :
             /\ AtHead(p) /\ Vanilla(p) /\ Fits(p)
             /\ IF p \in Caught THEN todo' = Without(p) /\ UNCHANGED phase ELSE GiveUp
    /\ denied' = TRUE
    /\ UNCHANGED <<pipeline, options, odd, secretLen, applied, sections, imageEnd,
                   target, hand, stray>>

Finish ==
    /\ phase = "patching" /\ todo = {}
    /\ phase' = "finished"
    /\ UNCHANGED <<pipeline, options, odd, secretLen, todo, applied, denied, sections,
                   imageEnd, target, hand, stray>>

\* A tool's --apply on the finished file.
HandApply(p) ==
    /\ phase = "finished" /\ ~denied /\ hand < MaxHand
    /\ Vanilla(p) /\ Fits(p)
    /\ applied' = applied \cup {p}
    /\ Sectioning(p)
    /\ hand' = hand + 1
    /\ stray' = (stray \/ (p = "secret" /\ sections # << >>))
    /\ UNCHANGED <<phase, pipeline, options, odd, secretLen, todo, denied>>

\* A tool's --revert puts the vanilla bytes back at the hooks.  The sections and
\* the code in them stay.
HandRevert(p) ==
    /\ phase = "finished" /\ ~denied /\ hand < MaxHand
    /\ p \in applied
    /\ applied' = applied \ {p}
    /\ target' = [q \in DOMAIN target \ {p} |-> target[q]]
    /\ hand' = hand + 1
    /\ UNCHANGED <<phase, pipeline, options, odd, secretLen, todo, denied, sections,
                   imageEnd, stray>>

PatchInit ==
    /\ phase = "copy"
    /\ pipeline \in {"standalone", "ap"}
    /\ options \in SUBSET Optional[pipeline]
    /\ odd = {} \/ \E p \in OddPatches : odd = {p}
    /\ secretLen \in SecretCode
    /\ todo = {}
    /\ applied = {} /\ denied = FALSE
    /\ sections = << >> /\ imageEnd = 0
    /\ target = << >>
    /\ hand = 0
    /\ stray = FALSE

PatchNext ==
    \/ CopyExe
    \/ \E p \in Patch : Apply(p) \/ Refuse(p)
    \/ Deny
    \/ Finish
    \/ \E p \in HandTools : HandApply(p) \/ HandRevert(p)

PatchSpec == PatchInit /\ [][PatchNext]_patchVars

-----------------------------------------------------------------------------
(* Properties.                                                              *)

\* No two patches in the file have written the same byte: the fifteen modules
\* share the padding at the end of .text and the pickup handler, each with
\* addresses of its own, and only some look before they write.
SitesApart ==
    \A p, q \in applied : <<p, q>> \notin Clashes

\* Windows loads the image: the appended sections follow the vanilla image and
\* each other page by page without a gap or an overlap, up to SizeOfImage, and
\* what each covers is in the file; their headers end before the vanilla data.
Loadable ==
    /\ Len(sections) <= FreeHeaders
    /\ \A i \in DOMAIN sections :
          /\ sections[i].page = i - 1
          /\ sections[i].used <= sections[i].raw /\ sections[i].used <= Page
    /\ imageEnd = Len(sections)

\* Windows loads every image the pipelines make, and every one the command lines
\* make of it, in whatever order they revert and apply: all but an image in which
\* the poller's --apply put its sections, whose addresses are fixed, behind
\* sections that were there already.
ImageLoads == ~stray => Loadable

\* Every hook leads to its own code within the section it was given, which that
\* section's VirtualSize covers and no later patch has written over, whatever was
\* reverted and applied again by hand.  (Whether Windows maps the section is
\* Loadable's question.)
HooksLeadHome ==
    \A p \in DOMAIN target :
        LET t == target[p]
        IN /\ t.to <= sections[t.sec].used
           /\ \A q \in DOMAIN target \ {p} :
                 target[q].sec = t.sec => target[q].to <= t.from \/ t.to <= target[q].from

\* No patch stands in the way of another, whichever the options ask for: when
\* nothing was denied, only an exe that is not the expected one stops the run,
\* and what a run ends without is what that exe lacks the bytes for (the folder
\* pages go with the retractor keys).
AllIn ==
    ~denied =>
        /\ phase = "aborted" => ~(odd \subseteq Tolerated \cup Caught)
        /\ phase = "finished" /\ hand = 0 =>
             \A p \in ToSet(Order[pipeline]) :
                Selected(p) => \/ p \in applied \cup odd
                               \/ p = "folder" /\ "retractor" \in odd
=============================================================================
