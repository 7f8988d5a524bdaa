------------------------------ MODULE TrapBonus ------------------------------
(***************************************************************************)
(* Trap and bonus items in apworld/client.py.  A received one waits for a    *)
(* debounce time, in which a newer one replaces it, and is then applied by   *)
(* a shielded coroutine that nothing cancels.  A secret that replaces        *)
(* another switches the old one off, sleeps for a short gap and only then    *)
(* writes its own switch; a temporary one starts a task that reverts it.  A  *)
(* hold is a task that refills a meter (voodoo power, ammo) at every tick,   *)
(* and a drain cancels the hold before it empties the meter.                 *)
(*                                                                         *)
(* The debounce and the gap count down in ticks of a common clock, and what *)
(* is due runs before time goes on: asyncio wakes its sleepers in the order *)
(* of their deadlines.  Durations and poll intervals are far longer and end *)
(* at any moment.  Poison and recovery are in DeathLink.                    *)
(***************************************************************************)
EXTENDS Naturals

CONSTANTS Secrets,      \* TRAP_SAFE_SECRETS
          Leftovers,    \* secrets kexengine.cfg may switch on from the start
          Meters,       \* "voodoo" and "ammo"
          Lasting,      \* outcomes of trap_bonus_mode: FALSE temporary, TRUE permanent
          Debounce,     \* SECRET_TRAP_DEBOUNCE_SECONDS in ticks
          Gap,          \* SECRET_TRAP_SUPERSEDE_GAP_SECONDS in ticks
          HoldTicks,    \* ticks of a temporary hold
          MaxTraps,     \* bound: trap and bonus items, and commands that apply one
          MaxMoves,     \* bound: launches, loads, quits and closes
          MaxRestarts   \* bound: restarts of the client

None == "none"

ASSUME TrapAssumption ==
    /\ None \notin Secrets /\ Leftovers \subseteq Secrets
    /\ Lasting \subseteq BOOLEAN
    /\ Debounce \in Nat /\ Gap \in Nat /\ HoldTicks \in Nat \ {0}
    /\ MaxTraps \in Nat /\ MaxMoves \in Nat /\ MaxRestarts \in Nat

(* 0.15 seconds against 0.5. *)
ASSUME GapAssumption == Gap < Debounce

VARIABLES
    place,     \* "closed", "level" or "out": at the title, loading, or unclear
    on,        \* the secrets the game has switched on
    cfg,       \* the secrets kexengine.cfg switches on at the next launch
    full,      \* the meters at their cap
    pending,   \* the debounce task that sleeps: at most one [trap, left]
    gaps,      \* applications asleep between off and on: [of, lasting, left]
    active,    \* _active_secret_trap
    revert,    \* _active_secret_trap_task, 0 for None
    reverts,   \* revert tasks alive: [id, of]
    slot,      \* _active_voodoo_hold_task and _active_ammo_hold_task, 0 for None
    holds,     \* hold tasks alive: [id, of, lasting, left, cancelled]
    resetDone, \* _secrets_reset_done
    made,      \* revert and hold tasks made so far, the source of their ids
    (* what happened, for the properties *)
    kept,      \* the secrets whose last application was a permanent one
    back,      \* those on that a launch brought back and no task answers for
    newest,    \* the last effect applied to a meter: "none", "hold" or "drain"
    received, moves, restarts

game == <<place, on, cfg, full, back>>
secret == <<active, revert, reverts, kept>>
meter == <<slot, holds, newest>>
bounds == <<received, moves, restarts>>
vars == <<game, pending, gaps, secret, meter, resetDone, made, bounds>>

(* The effects an item's name stands for, with the outcome of its own dice:
   the secret drawn, and whether it lasts. *)
Traps ==
    [effect : {"secret"}, of : Secrets, lasting : Lasting]
    \cup [effect : {"hold"}, of : Meters, lasting : Lasting]
    \cup [effect : {"drain"}, of : Meters, lasting : {FALSE}]

TypeOK ==
    /\ place \in {"closed", "out", "level"}
    /\ on \subseteq Secrets /\ cfg \subseteq Secrets /\ full \subseteq Meters
    /\ back \subseteq on
    /\ pending \subseteq [trap : Traps, left : 0..Debounce]
    /\ gaps \subseteq [of : Secrets, lasting : BOOLEAN, left : 0..Gap]
    /\ active \in Secrets \cup {None} /\ revert \in 0..made
    /\ reverts \subseteq [id : 1..made, of : Secrets]
    /\ slot \in [Meters -> 0..made]
    /\ holds \subseteq [id : 1..made, of : Meters, lasting : BOOLEAN,
                        left : 1..HoldTicks, cancelled : BOOLEAN]
    /\ resetDone \in BOOLEAN /\ made \in Nat
    /\ kept \subseteq Secrets /\ newest \in [Meters -> {"none", "hold", "drain"}]
    /\ received \in 0..MaxTraps /\ moves \in 0..MaxMoves /\ restarts \in 0..MaxRestarts

Init ==
    /\ place = "closed" /\ on = {} /\ cfg \in SUBSET Leftovers /\ full = {} /\ back = {}
    /\ pending = {} /\ gaps = {}
    /\ active = None /\ revert = 0 /\ reverts = {} /\ kept = {}
    /\ slot = [m \in Meters |-> 0] /\ holds = {}
    /\ newest = [m \in Meters |-> "none"]
    /\ resetDone = FALSE /\ made = 0
    /\ received = 0 /\ moves = 0 /\ restarts = 0

-----------------------------------------------------------------------------
(* The game and its player. *)

Moved == moves < MaxMoves /\ moves' = moves + 1 /\ UNCHANGED <<received, restarts>>

client == <<pending, gaps, secret, meter, resetDone, made>>

(* The settings are read once, at the start, which takes longer than the gap. *)
Launch ==
    /\ place = "closed" /\ gaps = {} /\ Moved
    /\ place' = "out" /\ on' = cfg /\ back' = cfg \ {active}
    /\ UNCHANGED <<cfg, full, client>>

EnterLevel ==
    /\ place = "out" /\ Moved /\ place' = "level"
    /\ UNCHANGED <<on, cfg, full, back, client>>

LeaveLevel ==
    /\ place = "level" /\ Moved /\ place' = "out"
    /\ UNCHANGED <<on, cfg, full, back, client>>

(* A quit writes the settings over with what is on; a crash does not. *)
Close ==
    /\ place # "closed" /\ Moved
    /\ cfg' \in {on, cfg}
    /\ place' = "closed" /\ on' = {} /\ full' = {} /\ back' = {} /\ UNCHANGED client

(* The player casts or fires. *)
Use(m) ==
    /\ place = "level" /\ m \in full /\ full' = full \ {m}
    /\ UNCHANGED <<place, on, cfg, back, client, bounds>>

-----------------------------------------------------------------------------
(* Applying an effect. *)

Without(tasks, i) == {t \in tasks : t.id # i}

(* The switch of s is written, and the write fails without the process. *)
SwitchOn(s, lasting) ==
    LET alive == IF active = s THEN Without(reverts, revert) ELSE reverts
    IN IF place = "closed"
       THEN /\ reverts' = alive
            /\ revert' = IF active = s THEN 0 ELSE revert
            /\ UNCHANGED <<on, back, active, kept, made>>
       ELSE /\ on' = on \cup {s} /\ back' = back \ {s} /\ active' = s
            /\ kept' = IF lasting THEN kept \cup {s} ELSE kept \ {s}
            /\ IF lasting
               THEN revert' = 0 /\ reverts' = alive /\ UNCHANGED made
               ELSE /\ made' = made + 1 /\ revert' = made'
                    /\ reverts' = alive \cup {[id |-> made', of |-> s]}

(* Another secret is on: it goes off first, and the new one waits. *)
Supersede(s, lasting) ==
    /\ on' = on \ {active} /\ back' = back \ {active} /\ active' = None
    /\ reverts' = Without(reverts, revert) /\ revert' = 0
    /\ gaps' = gaps \cup {[of |-> s, lasting |-> lasting, left |-> Gap]}
    /\ UNCHANGED <<kept, made>>

ApplySecret(s, lasting) ==
    IF active \notin {None, s}
    THEN Supersede(s, lasting)
    ELSE SwitchOn(s, lasting) /\ UNCHANGED gaps

(* The recorded hold of m is cancelled; it ends when it runs next. *)
Cancelled(m) ==
    {[h EXCEPT !.cancelled = @ \/ h.id = slot[m]] : h \in holds}

(* start_voodoo_max_hold, start_ammo_max_hold *)
StartHold(m, lasting) ==
    /\ made' = made + 1 /\ slot' = [slot EXCEPT ![m] = made']
    /\ holds' = Cancelled(m) \cup
         {[id |-> made', of |-> m, lasting |-> lasting,
           left |-> HoldTicks, cancelled |-> FALSE]}
    /\ newest' = [newest EXCEPT ![m] = "hold"]
    /\ UNCHANGED full

(* trigger_voodoo_drain, trigger_ammo_drain *)
Drain(m) ==
    /\ slot' = [slot EXCEPT ![m] = 0] /\ holds' = Cancelled(m)
    /\ full' = full \ {m}
    /\ newest' = [newest EXCEPT ![m] = "drain"]
    /\ UNCHANGED made

(* _apply_trap_bonus_now, up to its first sleep *)
Apply(t) ==
    \/ t.effect = "secret" /\ ApplySecret(t.of, t.lasting) /\ UNCHANGED <<full, meter>>
    \/ t.effect = "hold" /\ StartHold(t.of, t.lasting) /\ UNCHANGED <<on, back, gaps, secret>>
    \/ t.effect = "drain" /\ Drain(t.of) /\ UNCHANGED <<on, back, gaps, secret>>

-----------------------------------------------------------------------------
(* The client. *)

Counted == received < MaxTraps /\ received' = received + 1 /\ UNCHANGED <<moves, restarts>>

(* Mistake: no debounce. *)
MReceiveNow(t) ==
    /\ Counted
    /\ pending' = {[trap |-> t, left |-> 0]}
    /\ UNCHANGED <<game, gaps, secret, meter, resetDone, made>>

(* Mistake: without the shield, the cancellation reaches an application in its gap. *)
MReceiveUnshielded(t) ==
    /\ Counted
    /\ pending' = {[trap |-> t, left |-> Debounce]} /\ gaps' = {}
    /\ UNCHANGED <<game, secret, meter, resetDone, made>>

(* _apply_trap_bonus, for an item received or replayed: the request that still
   sleeps is cancelled. *)
Receive(t) ==
    /\ Counted
    /\ pending' = {[trap |-> t, left |-> Debounce]}
    /\ UNCHANGED <<game, gaps, secret, meter, resetDone, made>>

(* /drainvoodoo, /maxvoodoo, /drainammo, /maxammo *)
Command(t) ==
    /\ place = "level" /\ t.effect # "secret" /\ ~t.lasting
    /\ Counted /\ Apply(t)
    /\ UNCHANGED <<place, cfg, pending, resetDone>>

(* What is due runs before time goes on. *)
Due(r) == r.left = 0

Tick ==
    /\ pending \cup gaps # {} /\ \A r \in pending \cup gaps : ~Due(r)
    /\ pending' = {[r EXCEPT !.left = @ - 1] : r \in pending}
    /\ gaps' = {[g EXCEPT !.left = @ - 1] : g \in gaps}
    /\ UNCHANGED <<game, secret, meter, resetDone, made, bounds>>

(* The debounce is over: the effect is applied, or dropped outside a level. *)
DebounceOver(r) ==
    /\ r \in pending /\ Due(r) /\ pending' = pending \ {r}
    /\ IF place = "level" THEN Apply(r.trap)
                          ELSE UNCHANGED <<on, full, back, gaps, secret, meter, made>>
    /\ UNCHANGED <<place, cfg, resetDone, bounds>>

(* The gap is over; where the player is by now is not looked at again. *)
GapOver(g) ==
    /\ g \in gaps /\ Due(g) /\ gaps' = gaps \ {g}
    /\ SwitchOn(g.of, g.lasting)
    /\ UNCHANGED <<place, cfg, full, pending, meter, resetDone, bounds>>

(* Mistake: the revert does not wait for a level. *)
MRevertTurnOnce(r) ==
    /\ r \in reverts /\ reverts' = reverts \ {r}
    /\ IF active = r.of
       THEN /\ on' = IF place = "level" THEN on \ {r.of} ELSE on
            /\ back' = back \cap on' /\ active' = None /\ revert' = 0
       ELSE UNCHANGED <<on, back, active, revert>>
    /\ UNCHANGED <<place, cfg, full, pending, gaps, kept, meter, resetDone, made, bounds>>

(* _revert_secret_trap, after its duration: it waits until the player is in a
   level or the game is gone. *)
RevertTurn(r) ==
    /\ r \in reverts
    /\ active = r.of => place # "out"
    /\ reverts' = reverts \ {r}
    /\ IF active = r.of
       THEN /\ on' = IF place = "level" THEN on \ {r.of} ELSE on
            /\ back' = back \cap on' /\ active' = None /\ revert' = 0
       ELSE UNCHANGED <<on, back, active, revert>>
    /\ UNCHANGED <<place, cfg, full, pending, gaps, kept, meter, resetDone, made, bounds>>

(* Mistake: the slot is cleared whoever owns it. *)
MHoldEndsClears(h) ==
    /\ holds' = holds \ {h} /\ slot' = [slot EXCEPT ![h.of] = 0]

(* A hold's task ends and clears the slot only if the slot is its own. *)
HoldEnds(h) ==
    /\ holds' = holds \ {h}
    /\ slot' = IF slot[h.of] = h.id THEN [slot EXCEPT ![h.of] = 0] ELSE slot

(* Mistake: one tick too many. *)
MHoldTurnLate(h) ==
    /\ h \in holds /\ ~h.cancelled
    /\ full' = IF place = "level" THEN full \cup {h.of} ELSE full
    /\ IF place = "closed" \/ (~h.lasting /\ h.left = 0)
       THEN HoldEnds(h)
       ELSE /\ holds' = (holds \ {h}) \cup
                 {[h EXCEPT !.left = IF h.lasting THEN @ ELSE @ - 1]}
            /\ UNCHANGED slot
    /\ UNCHANGED <<place, on, cfg, back, pending, gaps, secret, newest, resetDone, made, bounds>>

HoldTurn(h) ==
    /\ h \in holds /\ ~h.cancelled
    /\ full' = IF place = "level" THEN full \cup {h.of} ELSE full
    /\ IF place = "closed" \/ (~h.lasting /\ h.left = 1)
       THEN HoldEnds(h)
       ELSE /\ holds' = (holds \ {h}) \cup
                 {[h EXCEPT !.left = IF h.lasting THEN @ ELSE @ - 1]}
            /\ UNCHANGED slot
    /\ UNCHANGED <<place, on, cfg, back, pending, gaps, secret, newest, resetDone, made, bounds>>

CancelledHoldEnds(h) ==
    /\ h \in holds /\ h.cancelled /\ HoldEnds(h)
    /\ UNCHANGED <<game, pending, gaps, secret, newest, resetDone, made, bounds>>

(* The first look that finds the player in a level clears the secrets. *)
ResetSecrets ==
    /\ place = "level" /\ ~resetDone /\ resetDone' = TRUE
    /\ on' = {} /\ back' = {}
    /\ UNCHANGED <<place, cfg, full, pending, gaps, secret, meter, made, bounds>>

(* /resetsecrets *)
ResetCommand ==
    /\ place # "closed" /\ on # {} /\ on' = {} /\ back' = {}
    /\ UNCHANGED <<place, cfg, full, client, bounds>>

(* The client is closed and started again; the game goes on. *)
RestartClient ==
    /\ restarts < MaxRestarts /\ restarts' = restarts + 1 /\ UNCHANGED <<received, moves>>
    /\ pending' = {} /\ gaps' = {} /\ active' = None /\ revert' = 0 /\ reverts' = {}
    /\ slot' = [m \in Meters |-> 0] /\ holds' = {} /\ resetDone' = FALSE
    /\ UNCHANGED <<game, kept, newest, made>>

Game == Launch \/ EnterLevel \/ LeaveLevel \/ Close \/ \E m \in Meters : Use(m)
Tasks ==
    \/ Tick
    \/ \E r \in pending : DebounceOver(r)
    \/ \E g \in gaps : GapOver(g)
    \/ \E r \in reverts : RevertTurn(r)
    \/ \E h \in holds : HoldTurn(h) \/ CancelledHoldEnds(h)
    \/ ResetSecrets
Next ==
    \/ Game \/ Tasks
    \/ \E t \in Traps : Receive(t) \/ Command(t)
    \/ ResetCommand \/ RestartClient

Spec == Init /\ [][Next]_vars

(* asyncio runs every task that is due, and the poll keeps looking. *)
FairSpec ==
    /\ Spec
    /\ WF_vars(Tick) /\ WF_vars(\E r \in pending : DebounceOver(r))
    /\ WF_vars(\E g \in gaps : GapOver(g)) /\ WF_vars(\E r \in reverts : RevertTurn(r))
    /\ WF_vars(\E h \in holds : HoldTurn(h) \/ CancelledHoldEnds(h))
    /\ WF_vars(ResetSecrets)

-----------------------------------------------------------------------------
(* Properties. *)

(* A secret that is on has a way back: it is the recorded one, which the next
   secret switches off, and unless it is permanent its own revert task is the
   recorded one.  This once the client has cleared what earlier sessions left,
   and except for a secret whose revert came due while the game was closed and
   which the settings file then brought back; however closely traps, reverts,
   quits and launches follow each other, nothing else is left on, nor, since
   one secret is recorded, are two on. *)
NothingLeftOn ==
    resetDone => \A s \in on \ back :
        /\ s = active
        /\ s \in kept \/ [id |-> revert, of |-> s] \in reverts

(* "So effects never visually stack": once the client has cleared the secrets
   of earlier sessions, at most one is on.  A secret the settings file brings
   back is recorded nowhere, and the next one comes on beside it. *)
OneAtATime == resetDone => \A s, t \in on : s = t

(* "Makes the drain actually stick": a meter is only refilled while the last
   effect applied to it is a hold. *)
DrainSticks == [][\A m \in Meters : m \in full' \ full => newest[m] = "hold"]_vars

(* "Now always runs to completion": an application that has switched the old
   secret off switches the new one on, unless game or client end first. *)
SupersedeLands ==
    [][\A g \in gaps : ~(\E h \in gaps' : h.of = g.of)
           => g.of \in on' \/ place = "closed" \/ restarts' # restarts]_vars

(* A temporary secret goes off for a player who does not stay out of the
   levels for good, unless a launch brings it back. *)
TemporaryEnds ==
    <>[](place # "out") =>
        \A s \in Secrets : []<>(s \notin on \/ s \in kept \/ s \in back)

(* "There's nothing live to revert and this is a harmless no-op": a temporary
   secret whose revert finds the game closed is over.  It is not: the game
   wrote it to its settings when it was closed, and starts with it. *)
RevertIsHarmless ==
    <>[](place # "out") =>
        \A s \in Secrets : []<>(s \notin on \/ s \in kept)

=============================================================================
