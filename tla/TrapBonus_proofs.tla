--------------------------- MODULE TrapBonus_proofs ---------------------------
(***************************************************************************)
(* Proofs that the debounce is long enough for the gap: for every set of    *)
(* secrets, every number of items, restarts and quits, and every Gap below  *)
(* Debounce, two applications never overlap, so that no secret is left on   *)
(* without a way back but one the settings file brings back; that a drain   *)
(* is never undone by an older hold; and that an application is never torn  *)
(* apart.                                                                   *)
(***************************************************************************)
EXTENDS TrapBonus, TLAPS

OneRequest == \A q, r \in pending : q = r

(* A request is still asleep when the gap of an earlier one is over. *)
GapEndsFirst == \A r \in pending, g \in gaps : g.left < r.left

OneGap == \A g, h \in gaps : g = h

(* In the gap no secret is recorded. *)
GapIsQuiet == gaps # {} => active = None

(* A game that is not there has nothing switched on. *)
ClosedIsOff == place = "closed" => on = {}

(* What is on is recorded, unless the settings file brought it back. *)
OnIsRecorded == resetDone => \A s \in on \ back : s = active

(* The recorded secret has a way back, also while the game is closed. *)
RecordedHasWay ==
    active # None => active \in kept \/ [id |-> revert, of |-> active] \in reverts

(* The hold that may still tick is the recorded one, and nothing was applied
   to its meter since. *)
LiveHoldIsRecorded ==
    \A h \in holds : ~h.cancelled => slot[h.of] = h.id /\ newest[h.of] = "hold"

OneTaskPerId == \A h, k \in holds : h.id = k.id => h = k

SecretInv ==
    /\ OneRequest /\ GapEndsFirst /\ OneGap /\ GapIsQuiet
    /\ ClosedIsOff /\ OnIsRecorded /\ RecordedHasWay

HoldInv == LiveHoldIsRecorded /\ OneTaskPerId

-----------------------------------------------------------------------------
(* Types. *)

HoldTasks == [id : 1..made, of : Meters, lasting : BOOLEAN,
              left : 1..HoldTicks, cancelled : BOOLEAN]

(* Cancelling changes no task's type. *)
LEMMA CancelledTasks ==
    ASSUME holds \subseteq HoldTasks, NEW m
    PROVE  Cancelled(m) \subseteq HoldTasks
<1> SUFFICES ASSUME NEW h \in holds
             PROVE  [h EXCEPT !.cancelled = @ \/ h.id = slot[m]] \in HoldTasks
  BY DEF Cancelled
<1>1. h \in HoldTasks OBVIOUS
<1>2. (h.cancelled \/ h.id = slot[m]) \in BOOLEAN BY <1>1 DEF HoldTasks
<1> QED BY <1>1, <1>2 DEF HoldTasks

(* What an application leaves behind is well typed. *)
LEMMA ApplyKeepsTypes ==
    ASSUME TypeOK, NEW t \in Traps, Apply(t)
    PROVE  /\ on' \subseteq Secrets /\ full' \subseteq Meters /\ back' \subseteq on'
           /\ gaps' \subseteq [of : Secrets, lasting : BOOLEAN, left : 0..Gap]
           /\ active' \in Secrets \cup {None} /\ made' \in Nat /\ revert' \in 0..made'
           /\ reverts' \subseteq [id : 1..made', of : Secrets]
           /\ slot' \in [Meters -> 0..made']
           /\ holds' \subseteq [id : 1..made', of : Meters, lasting : BOOLEAN,
                                left : 1..HoldTicks, cancelled : BOOLEAN]
           /\ kept' \subseteq Secrets /\ newest' \in [Meters -> {"none", "hold", "drain"}]
<1> USE TrapAssumption
<1>1. CASE t.effect = "secret" /\ ApplySecret(t.of, t.lasting) /\ UNCHANGED <<full, meter>>
  <2>1. t.of \in Secrets /\ t.lasting \in BOOLEAN BY <1>1 DEF Traps
  <2>2. CASE active \notin {None, t.of}
    <3>1. /\ on' = on \ {active} /\ back' = back \ {active} /\ active' = None
          /\ reverts' = Without(reverts, revert) /\ revert' = 0
          /\ gaps' = gaps \cup {[of |-> t.of, lasting |-> t.lasting, left |-> Gap]}
          /\ UNCHANGED <<kept, made, full, slot, holds, newest>>
      BY <1>1, <2>2 DEF ApplySecret, Supersede, meter
    <3>2. Without(reverts, revert) \subseteq reverts BY DEF Without
    <3> QED BY <2>1, <3>1, <3>2 DEF TypeOK
  <2>3. CASE active \in {None, t.of}
    <3>1. SwitchOn(t.of, t.lasting) /\ UNCHANGED <<gaps, full, slot, holds, newest>>
      BY <1>1, <2>3 DEF ApplySecret, meter
    <3> QED BY <2>1, <3>1 DEF SwitchOn, Without, TypeOK
  <2> QED BY <2>2, <2>3
<1>2. CASE t.effect = "hold" /\ StartHold(t.of, t.lasting) /\ UNCHANGED <<on, back, gaps, secret>>
  <2>1. t.of \in Meters /\ t.lasting \in BOOLEAN BY <1>2 DEF Traps
  <2>2. Cancelled(t.of) \subseteq HoldTasks BY CancelledTasks DEF TypeOK, HoldTasks
  <2>3. made' = made + 1 /\ made \in Nat BY <1>2 DEF StartHold, TypeOK
  <2>4. HoldTasks \subseteq HoldTasks' BY <2>3 DEF HoldTasks
  <2>5. holds' \subseteq HoldTasks'
    <3>1. [id |-> made', of |-> t.of, lasting |-> t.lasting,
           left |-> HoldTicks, cancelled |-> FALSE] \in HoldTasks'
      BY <2>1, <2>3 DEF HoldTasks
    <3> QED BY <1>2, <2>2, <2>4, <3>1 DEF StartHold
  <2>6. slot' \in [Meters -> 0..made'] /\ newest' \in [Meters -> {"none", "hold", "drain"}]
    BY <1>2, <2>1, <2>3 DEF StartHold, TypeOK
  <2>7. UNCHANGED <<on, back, full, gaps, active, revert, reverts, kept>>
    BY <1>2 DEF StartHold, secret
  <2> QED BY <2>3, <2>5, <2>6, <2>7 DEF TypeOK, HoldTasks
<1>3. CASE t.effect = "drain" /\ Drain(t.of) /\ UNCHANGED <<on, back, gaps, secret>>
  <2>1. t.of \in Meters BY <1>3 DEF Traps
  <2>2. Cancelled(t.of) \subseteq HoldTasks BY CancelledTasks DEF TypeOK, HoldTasks
  <2>3. UNCHANGED <<on, back, gaps, active, revert, reverts, kept, made>>
    BY <1>3 DEF Drain, secret
  <2>4. holds' \subseteq HoldTasks BY <1>3, <2>2 DEF Drain
  <2>5. /\ full' \subseteq Meters /\ slot' \in [Meters -> 0..made]
        /\ newest' \in [Meters -> {"none", "hold", "drain"}]
    BY <1>3, <2>1 DEF Drain, TypeOK
  <2> QED BY <2>3, <2>4, <2>5 DEF TypeOK, HoldTasks
<1> QED BY <1>1, <1>2, <1>3 DEF Apply

(* Every step keeps the types. *)
LEMMA NextKeepsTypes == TypeOK /\ [Next]_vars => TypeOK'
<1> USE TrapAssumption
<1> SUFFICES ASSUME TypeOK, [Next]_vars PROVE TypeOK'
  OBVIOUS
<1>1. CASE Game
  BY <1>1 DEF Game, Launch, EnterLevel, LeaveLevel, Close, Use, Moved, client,
              TypeOK, secret, meter, bounds
<1>2. CASE Tick
  BY <1>2 DEF Tick, Due, TypeOK, game, secret, meter, bounds
<1>3. CASE \E r \in pending : DebounceOver(r)
  <2> PICK r \in pending : DebounceOver(r) BY <1>3
  <2>1. pending' \subseteq [trap : Traps, left : 0..Debounce] /\ r.trap \in Traps
    BY DEF DebounceOver, TypeOK
  <2>2. CASE place = "level"
    BY <2>1, <2>2, ApplyKeepsTypes DEF DebounceOver, TypeOK, bounds
  <2>3. CASE place # "level"
    BY <2>1, <2>3 DEF DebounceOver, TypeOK, bounds, secret, meter
  <2> QED BY <2>2, <2>3
<1>4. CASE \E g \in gaps : GapOver(g)
  BY <1>4 DEF GapOver, SwitchOn, Without, TypeOK, meter, bounds
<1>5. CASE \E r \in reverts : RevertTurn(r)
  BY <1>5 DEF RevertTurn, TypeOK, meter, bounds
<1>6. CASE \E h \in holds : HoldTurn(h) \/ CancelledHoldEnds(h)
  <2> PICK h \in holds : HoldTurn(h) \/ CancelledHoldEnds(h) BY <1>6
  <2>1. CASE HoldTurn(h) BY <2>1 DEF HoldTurn, HoldEnds, TypeOK, secret, bounds
  <2>2. CASE CancelledHoldEnds(h)
    BY <2>2 DEF CancelledHoldEnds, HoldEnds, TypeOK, game, secret, bounds
  <2> QED BY <2>1, <2>2
<1>7. CASE ResetSecrets \/ ResetCommand
  BY <1>7 DEF ResetSecrets, ResetCommand, client, TypeOK, secret, meter, bounds
<1>8. CASE \E t \in Traps : Receive(t)
  BY <1>8 DEF Receive, Counted, TypeOK, game, secret, meter
<1>9. CASE \E t \in Traps : Command(t)
  <2> PICK t \in Traps : Command(t) BY <1>9
  <2>1. Apply(t) BY DEF Command
  <2> QED BY <2>1, ApplyKeepsTypes DEF Command, Counted, TypeOK
<1>10. CASE RestartClient 
  <2>1. UNCHANGED <<place, on, cfg, full, back, kept, newest, made, received, moves>>
    BY <1>10 DEF RestartClient, game
  <2>2. /\ pending' = {} /\ gaps' = {} /\ reverts' = {} /\ holds' = {}
        /\ active' = None /\ revert' = 0 /\ resetDone' = FALSE
        /\ slot' = [m \in Meters |-> 0] /\ restarts' \in 0..MaxRestarts
    BY <1>10 DEF RestartClient, TypeOK
  <2>3. slot' \in [Meters -> 0..made'] BY <2>1, <2>2 DEF TypeOK
  <2>4. /\ pending' \subseteq [trap : Traps, left : 0..Debounce]
        /\ gaps' \subseteq [of : Secrets, lasting : BOOLEAN, left : 0..Gap]
        /\ reverts' \subseteq [id : 1..made', of : Secrets] /\ holds' \subseteq HoldTasks'
    BY <2>2
  <2>5. active' \in Secrets \cup {None} /\ revert' \in 0..made'
    BY <2>1, <2>2 DEF TypeOK
  <2>6. resetDone' \in BOOLEAN BY <1>10 DEF RestartClient
  <2> QED BY <2>1, <2>2, <2>3, <2>4, <2>5, <2>6 DEF TypeOK, HoldTasks
<1>11. CASE UNCHANGED vars BY <1>11 DEF vars, TypeOK, game, secret, meter, bounds
<1> QED BY <1>1, <1>2, <1>3, <1>4, <1>5, <1>6, <1>7, <1>8, <1>9, <1>10, <1>11 DEF Next, Tasks

(* The types hold for every choice of the constants. *)
THEOREM TrapTypeCorrect == Spec => []TypeOK
<1>1. ASSUME Init PROVE TypeOK
  <2>1. slot \in [Meters -> 0..made] /\ newest \in [Meters -> {"none", "hold", "drain"}]
    BY <1>1 DEF Init
  <2>2. /\ pending \subseteq [trap : Traps, left : 0..Debounce]
        /\ gaps \subseteq [of : Secrets, lasting : BOOLEAN, left : 0..Gap]
        /\ reverts \subseteq [id : 1..made, of : Secrets] /\ holds \subseteq HoldTasks
    BY <1>1 DEF Init
  <2>3. active \in Secrets \cup {None} /\ revert \in 0..made BY <1>1 DEF Init
  <2>4. received \in 0..MaxTraps /\ moves \in 0..MaxMoves /\ restarts \in 0..MaxRestarts
    BY <1>1, TrapAssumption DEF Init
  <2>5. resetDone \in BOOLEAN BY <1>1 DEF Init
  <2> QED BY TrapAssumption, <1>1, <2>1, <2>2, <2>3, <2>4, <2>5 DEF Init, TypeOK, HoldTasks
<1> QED BY <1>1, NextKeepsTypes, PTL DEF Spec

-----------------------------------------------------------------------------
(* One secret at a time. *)

(* Switching on the recorded secret, or one when none is recorded, leaves it
   the only one on, recorded, and with a way back. *)
LEMMA SwitchOnTracks ==
    ASSUME TypeOK, SecretInv, NEW s \in Secrets, NEW l \in BOOLEAN,
           active \in {None, s}, place # "closed" \/ active = None,
           SwitchOn(s, l), UNCHANGED <<place, resetDone>>
    PROVE  OnIsRecorded' /\ RecordedHasWay' /\ ClosedIsOff'
<1> USE TrapAssumption DEF SecretInv
<1>1. CASE place = "closed"
  BY <1>1 DEF SwitchOn, OnIsRecorded, RecordedHasWay, ClosedIsOff
<1>2. CASE place # "closed"
  <2>1. ClosedIsOff' BY <1>2 DEF ClosedIsOff
  <2>2. on' = on \cup {s} /\ back' = back \ {s} /\ active' = s BY <1>2 DEF SwitchOn
  <2>3. resetDone => on \ back \subseteq {s} BY DEF OnIsRecorded, TypeOK
  <2>4. s \in kept' \/ [id |-> revert', of |-> s] \in reverts' BY <1>2 DEF SwitchOn
  <2> QED BY <2>1, <2>2, <2>3, <2>4 DEF OnIsRecorded, RecordedHasWay
<1> QED BY <1>1, <1>2

(* An application that starts while no other is in its gap, and takes the
   place of the request that caused it. *)
LEMMA ApplyKeepsSecretInv ==
    ASSUME TypeOK, SecretInv, NEW t \in Traps, Apply(t), place = "level",
           t.effect = "secret" => gaps = {} /\ pending' = {},
           pending' \subseteq pending,
           UNCHANGED <<place, cfg, resetDone>>
    PROVE  SecretInv'
<1> USE TrapAssumption DEF SecretInv
<1>1. CASE t.effect = "secret" /\ ApplySecret(t.of, t.lasting)
  <2>1. t.of \in Secrets /\ t.lasting \in BOOLEAN BY <1>1 DEF Traps
  <2>2. CASE active \notin {None, t.of}
    <3>1. /\ on' = on \ {active} /\ back' = back \ {active} /\ active' = None
          /\ gaps = {} /\ pending' = {}
          /\ gaps' = gaps \cup {[of |-> t.of, lasting |-> t.lasting, left |-> Gap]}
      BY <1>1, <2>2 DEF ApplySecret, Supersede
    <3>2. resetDone => on' \ back' = {} BY <3>1 DEF OnIsRecorded
    <3> QED BY <3>1, <3>2 DEF OneRequest, GapEndsFirst, OneGap, GapIsQuiet, ClosedIsOff, OnIsRecorded, RecordedHasWay
  <2>3. CASE active \in {None, t.of}
    <3>1. SwitchOn(t.of, t.lasting) /\ gaps' = {} /\ pending' = {}
      BY <1>1, <2>3 DEF ApplySecret
    <3>2. OnIsRecorded' /\ RecordedHasWay' /\ ClosedIsOff' BY <2>1, <2>3, <3>1, SwitchOnTracks
    <3> QED BY <3>1, <3>2 DEF OneRequest, GapEndsFirst, OneGap, GapIsQuiet
  <2> QED BY <2>2, <2>3
<1>2. CASE t.effect # "secret" /\ UNCHANGED <<on, back, gaps, secret>>
  BY <1>2 DEF OneRequest, GapEndsFirst, OneGap, GapIsQuiet, ClosedIsOff, OnIsRecorded, RecordedHasWay, secret
<1> QED BY <1>1, <1>2 DEF Apply, StartHold, Drain

(* Every step keeps the invariant of the secrets. *)
LEMMA NextKeepsSecretInv ==
    ASSUME TypeOK, SecretInv, [Next]_vars
    PROVE  SecretInv'
<1> USE TrapAssumption, GapAssumption DEF SecretInv
<1>1. CASE Game
  BY <1>1 DEF Game, Launch, EnterLevel, LeaveLevel, Close, Use, Moved, client, secret,
              OneRequest, GapEndsFirst, OneGap, GapIsQuiet, ClosedIsOff, OnIsRecorded, RecordedHasWay
<1>2. CASE Tick
  <2>1. /\ pending' = {[r EXCEPT !.left = @ - 1] : r \in pending}
        /\ gaps' = {[g EXCEPT !.left = @ - 1] : g \in gaps}
        /\ UNCHANGED <<place, on, back, cfg, active, revert, reverts, kept, resetDone>>
    BY <1>2 DEF Tick, game, secret
  <2>2. GapEndsFirst'
    <3> SUFFICES ASSUME NEW r \in pending, NEW g \in gaps
                 PROVE  [g EXCEPT !.left = @ - 1].left < [r EXCEPT !.left = @ - 1].left
      BY <2>1 DEF GapEndsFirst
    <3>1. /\ r.left \in Nat /\ g.left \in Nat /\ g.left < r.left
          /\ [g EXCEPT !.left = @ - 1].left = g.left - 1
          /\ [r EXCEPT !.left = @ - 1].left = r.left - 1
      BY DEF TypeOK, GapEndsFirst
    <3> QED BY <3>1
  <2> QED BY <2>1, <2>2 DEF OneRequest, OneGap, GapIsQuiet, ClosedIsOff, OnIsRecorded, RecordedHasWay
<1>3. CASE \E r \in pending : DebounceOver(r)
  <2> PICK r \in pending : DebounceOver(r) BY <1>3
  <2>1. r.left = 0 /\ r.trap \in Traps BY DEF DebounceOver, Due, TypeOK
  <2>2. gaps = {}
    <3> SUFFICES ASSUME NEW g \in gaps PROVE FALSE OBVIOUS
    <3>1. g.left < 0 /\ g.left \in Nat BY <2>1 DEF GapEndsFirst, TypeOK
    <3> QED BY <3>1
  <2>3. UNCHANGED <<place, cfg, resetDone>> BY DEF DebounceOver
  <2>4. CASE place = "level"
    <3>1. Apply(r.trap) /\ pending' = {} BY <2>4 DEF DebounceOver, OneRequest
    <3> QED BY <2>1, <2>2, <2>3, <2>4, <3>1, ApplyKeepsSecretInv
  <2>5. CASE place # "level"
    BY <2>2, <2>3, <2>5
    DEF DebounceOver, secret, OneRequest, GapEndsFirst, OneGap, GapIsQuiet, ClosedIsOff, OnIsRecorded, RecordedHasWay
  <2> QED BY <2>4, <2>5
<1>4. CASE \E g \in gaps : GapOver(g)
  <2> PICK g \in gaps : GapOver(g) BY <1>4
  <2>1. active = None /\ gaps' = {} /\ pending' = pending
    BY DEF GapOver, OneGap, GapIsQuiet
  <2>2. g.of \in Secrets /\ g.lasting \in BOOLEAN BY DEF TypeOK
  <2>3. OnIsRecorded' /\ RecordedHasWay' /\ ClosedIsOff' BY <2>1, <2>2, SwitchOnTracks DEF GapOver
  <2> QED BY <2>1, <2>3 DEF OneRequest, GapEndsFirst, OneGap, GapIsQuiet
<1>5. CASE \E r \in reverts : RevertTurn(r)
  <2> PICK r \in reverts : RevertTurn(r) BY <1>5
  <2>1. CASE active = r.of
    <3>1. resetDone => on' \ back' = {}
      BY <2>1 DEF RevertTurn, TypeOK, ClosedIsOff, OnIsRecorded
    <3>2. active' = None /\ place' = place /\ UNCHANGED <<cfg, pending, gaps, resetDone>>
      BY <2>1 DEF RevertTurn
    <3>3. on' \subseteq on BY <2>1 DEF RevertTurn
    <3> QED BY <3>1, <3>2, <3>3
        DEF OneRequest, GapEndsFirst, OneGap, GapIsQuiet, ClosedIsOff, OnIsRecorded, RecordedHasWay
  <2>2. CASE active # r.of
    BY <2>2 DEF RevertTurn, OneRequest, GapEndsFirst, OneGap, GapIsQuiet, ClosedIsOff, OnIsRecorded, RecordedHasWay
  <2> QED BY <2>1, <2>2
<1>6. CASE \E h \in holds : HoldTurn(h) \/ CancelledHoldEnds(h)
  BY <1>6 DEF HoldTurn, CancelledHoldEnds, game, secret, OneRequest, GapEndsFirst, OneGap, GapIsQuiet,
              ClosedIsOff, OnIsRecorded, RecordedHasWay
<1>7. CASE ResetSecrets \/ ResetCommand
  BY <1>7 DEF ResetSecrets, ResetCommand, client, secret, OneRequest, GapEndsFirst, OneGap, GapIsQuiet,
              ClosedIsOff, OnIsRecorded, RecordedHasWay
<1>8. CASE \E t \in Traps : Receive(t)
  <2> PICK t \in Traps : Receive(t) BY <1>8
  <2>1. pending' = {[trap |-> t, left |-> Debounce]} /\ UNCHANGED <<game, gaps, secret, resetDone>>
    BY DEF Receive
  <2>2. GapEndsFirst'
    <3> SUFFICES ASSUME NEW g \in gaps PROVE g.left < Debounce
      BY <2>1 DEF GapEndsFirst
    <3>1. g.left \in 0..Gap BY DEF TypeOK
    <3> QED BY <3>1
  <2> QED BY <2>1, <2>2 DEF game, secret, OneRequest, OneGap, GapIsQuiet, ClosedIsOff, OnIsRecorded, RecordedHasWay
<1>9. CASE \E t \in Traps : Command(t)
  <2> PICK t \in Traps : Command(t) BY <1>9
  <2>1. t.effect # "secret" /\ Apply(t) /\ place = "level" BY DEF Command
  <2>2. UNCHANGED <<place, cfg, resetDone, pending>> BY DEF Command
  <2> QED BY <2>1, <2>2, ApplyKeepsSecretInv
<1>10. CASE RestartClient
  BY <1>10 DEF RestartClient, game, OneRequest, GapEndsFirst, OneGap, GapIsQuiet, ClosedIsOff, OnIsRecorded, RecordedHasWay
<1>11. CASE UNCHANGED vars
  BY <1>11 DEF vars, game, secret, OneRequest, GapEndsFirst, OneGap, GapIsQuiet, ClosedIsOff, OnIsRecorded, RecordedHasWay
<1> QED BY <1>1, <1>2, <1>3, <1>4, <1>5, <1>6, <1>7, <1>8, <1>9, <1>10, <1>11 DEF Next, Tasks

(* Two applications never overlap, and what is on is recorded. *)
THEOREM SecretInvariant == Spec => []SecretInv
<1>1. Init => SecretInv
  BY DEF Init, SecretInv, OneRequest, GapEndsFirst, OneGap, GapIsQuiet, ClosedIsOff, OnIsRecorded,
         RecordedHasWay
<1>2. TypeOK /\ SecretInv /\ [Next]_vars => SecretInv' BY NextKeepsSecretInv
<1> QED BY <1>1, <1>2, TrapTypeCorrect, PTL DEF Spec

(* Every secret that is on and that no settings file brought back is the
   recorded one, and has a way back. *)
THEOREM NothingIsLeftOn == Spec => []NothingLeftOn
<1>1. TypeOK /\ SecretInv => NothingLeftOn
  BY TrapAssumption DEF SecretInv, OnIsRecorded, RecordedHasWay, NothingLeftOn, TypeOK
<1> QED BY <1>1, SecretInvariant, TrapTypeCorrect, PTL

-----------------------------------------------------------------------------
(* Holds and drains. *)

(* An effect on a meter cancels the hold that may still tick. *)
LEMMA ApplyKeepsHoldInv ==
    ASSUME TypeOK, HoldInv, NEW t \in Traps, Apply(t)
    PROVE  HoldInv'
<1> USE DEF HoldInv
<1>1. CASE t.effect = "secret" /\ UNCHANGED <<full, meter>>
  BY <1>1 DEF meter, LiveHoldIsRecorded, OneTaskPerId
<1>2. \A h \in Cancelled(t.of) : \E k \in holds :
          /\ h.id = k.id /\ h.of = k.of /\ k.id \in 1..made /\ k.of \in Meters
          /\ ~h.cancelled => ~k.cancelled /\ k.id # slot[t.of]
  <2> TAKE h \in Cancelled(t.of)
  <2>1. PICK k \in holds : h = [k EXCEPT !.cancelled = @ \/ k.id = slot[t.of]]
    BY DEF Cancelled
  <2>2. k \in HoldTasks BY DEF TypeOK, HoldTasks
  <2>3. h.cancelled = (k.cancelled \/ k.id = slot[t.of]) BY <2>1, <2>2 DEF HoldTasks
  <2>4. h.id = k.id /\ h.of = k.of /\ k.id \in 1..made /\ k.of \in Meters
    BY <2>1, <2>2 DEF HoldTasks
  <2> QED BY <2>3, <2>4
<1>3. \A h \in Cancelled(t.of) : ~h.cancelled =>
          h.of # t.of /\ slot[h.of] = h.id /\ newest[h.of] = "hold"
  <2> SUFFICES ASSUME NEW h \in Cancelled(t.of), ~h.cancelled
               PROVE  h.of # t.of /\ slot[h.of] = h.id /\ newest[h.of] = "hold"
    OBVIOUS
  <2>1. PICK k \in holds : h.id = k.id /\ h.of = k.of /\ ~k.cancelled /\ k.id # slot[t.of]
    BY <1>2
  <2> QED BY <2>1 DEF LiveHoldIsRecorded
<1>4. \A h, k \in Cancelled(t.of) : h.id = k.id => h = k
  <2> SUFFICES ASSUME NEW h \in Cancelled(t.of), NEW k \in Cancelled(t.of), h.id = k.id
               PROVE  h = k
    OBVIOUS
  <2>1. PICK f \in holds : h = [f EXCEPT !.cancelled = @ \/ f.id = slot[t.of]]
    BY DEF Cancelled
  <2>2. PICK g \in holds : k = [g EXCEPT !.cancelled = @ \/ g.id = slot[t.of]]
    BY DEF Cancelled
  <2>3. f \in HoldTasks /\ g \in HoldTasks BY DEF TypeOK, HoldTasks
  <2>4. f.id = h.id /\ g.id = k.id BY <2>1, <2>2, <2>3 DEF HoldTasks
  <2>5. f = g BY <2>4 DEF OneTaskPerId
  <2> QED BY <2>1, <2>2, <2>5
<1>5. CASE t.effect = "hold" /\ StartHold(t.of, t.lasting)
  <2>1. t.of \in Meters BY <1>5 DEF Traps
  <2> DEFINE new == [id |-> made', of |-> t.of, lasting |-> t.lasting,
                     left |-> HoldTicks, cancelled |-> FALSE]
  <2>2. /\ made' = made + 1 /\ slot' = [slot EXCEPT ![t.of] = made']
        /\ holds' = Cancelled(t.of) \cup {new} /\ newest' = [newest EXCEPT ![t.of] = "hold"]
    BY <1>5 DEF StartHold
  <2>3. new.id = made' /\ new.of = t.of OBVIOUS
  <2>4. \A h \in Cancelled(t.of) : h.id # made'
    <3> TAKE h \in Cancelled(t.of)
    <3>1. h.id \in 1..made BY <1>2
    <3> QED BY <2>2, <3>1 DEF TypeOK
  <2>5. slot'[t.of] = made' /\ newest'[t.of] = "hold" BY <2>1, <2>2 DEF TypeOK
  <2>6. \A m \in Meters \ {t.of} : slot'[m] = slot[m] /\ newest'[m] = newest[m]
    BY <2>2 DEF TypeOK
  <2>7. \A h \in Cancelled(t.of) : h.of \in Meters BY <1>2
  <2>8. OneTaskPerId' BY <1>4, <2>2, <2>3, <2>4 DEF OneTaskPerId
  <2>9. LiveHoldIsRecorded'
    BY <1>3, <2>2, <2>3, <2>5, <2>6, <2>7 DEF LiveHoldIsRecorded
  <2> QED BY <2>8, <2>9
<1>6. CASE t.effect = "drain" /\ Drain(t.of)
  <2>1. /\ slot' = [slot EXCEPT ![t.of] = 0] /\ holds' = Cancelled(t.of)
        /\ newest' = [newest EXCEPT ![t.of] = "drain"]
    BY <1>6 DEF Drain
  <2>2. \A h \in Cancelled(t.of) : h.of \in Meters BY <1>2
  <2>3. \A m \in Meters \ {t.of} : slot'[m] = slot[m] /\ newest'[m] = newest[m]
    BY <2>1 DEF TypeOK
  <2> QED BY <1>3, <1>4, <2>1, <2>2, <2>3 DEF LiveHoldIsRecorded, OneTaskPerId
<1> QED BY <1>1, <1>5, <1>6 DEF Apply

(* Every step keeps the invariant of the holds. *)
LEMMA NextKeepsHoldInv ==
    ASSUME TypeOK, HoldInv, [Next]_vars
    PROVE  HoldInv'
<1> USE DEF HoldInv
<1>1. CASE UNCHANGED meter
  BY <1>1 DEF meter, LiveHoldIsRecorded, OneTaskPerId
<1>2. CASE \E t \in Traps : Apply(t)
  BY <1>2, ApplyKeepsHoldInv
<1>3. ASSUME NEW h \in holds, HoldTurn(h) \/ CancelledHoldEnds(h) PROVE HoldInv'
  <2>1. h \in HoldTasks /\ slot \in [Meters -> 0..made] BY DEF TypeOK, HoldTasks
  <2>2. CASE HoldEnds(h) /\ newest' = newest
    <3>1. holds' = holds \ {h} BY <2>2 DEF HoldEnds
    <3>2. \A k \in holds' : slot[k.of] = k.id => slot'[k.of] = slot[k.of]
      BY <2>1, <2>2, <3>1 DEF HoldEnds, OneTaskPerId, HoldTasks
    <3> QED BY <2>2, <3>1, <3>2 DEF LiveHoldIsRecorded, OneTaskPerId
  <2>3. CASE /\ ~h.cancelled /\ UNCHANGED <<slot, newest>>
             /\ holds' = (holds \ {h}) \cup
                   {[h EXCEPT !.left = IF h.lasting THEN @ ELSE @ - 1]}
    <3> DEFINE k == [h EXCEPT !.left = IF h.lasting THEN @ ELSE @ - 1]
    <3>1. k.id = h.id /\ k.of = h.of /\ k.cancelled = h.cancelled
      BY <2>1 DEF HoldTasks
    <3>2. holds' = (holds \ {h}) \cup {k} BY <2>3
    <3> HIDE DEF k
    <3>3. LiveHoldIsRecorded' BY <2>3, <3>1, <3>2 DEF LiveHoldIsRecorded
    <3>4. OneTaskPerId' BY <3>1, <3>2 DEF OneTaskPerId
    <3> QED BY <3>3, <3>4
  <2> QED BY <1>3, <2>2, <2>3 DEF HoldTurn, CancelledHoldEnds
<1>4. CASE RestartClient
  BY <1>4 DEF RestartClient, LiveHoldIsRecorded, OneTaskPerId
<1>5. CASE \/ Game \/ Tick \/ \E r \in pending : DebounceOver(r)
           \/ \E g \in gaps : GapOver(g)
           \/ \E r \in reverts : RevertTurn(r)
           \/ ResetSecrets \/ ResetCommand \/ \E t \in Traps : Receive(t) \/ Command(t)
  <2>1. CASE \E r \in pending : DebounceOver(r)
    <3> PICK r \in pending : DebounceOver(r) BY <2>1
    <3>1. r.trap \in Traps BY DEF TypeOK
    <3> QED BY <1>1, <1>2, <3>1 DEF DebounceOver
  <2>2. CASE \E t \in Traps : Command(t) BY <1>2, <2>2 DEF Command
  <2>3. CASE \/ Game \/ Tick \/ ResetSecrets \/ ResetCommand \/ \E t \in Traps : Receive(t)
             \/ \E r \in reverts : RevertTurn(r)
    BY <1>1, <2>3 DEF Game, Launch, EnterLevel, LeaveLevel, Close, Use, client, Tick,
                      ResetSecrets, ResetCommand, Receive, RevertTurn
  <2>4. CASE \E g \in gaps : GapOver(g) BY <1>1, <2>4 DEF GapOver
  <2> QED BY <1>5, <2>1, <2>2, <2>3, <2>4
<1>6. CASE \E h \in holds : HoldTurn(h) \/ CancelledHoldEnds(h) BY <1>3, <1>6
<1>7. CASE UNCHANGED vars BY <1>1, <1>7 DEF vars, meter
<1>8. CASE Next BY <1>4, <1>5, <1>6, <1>8 DEF Next, Tasks
<1> QED BY <1>7, <1>8

(* A meter is refilled only by the hold that is recorded, and that was the
   last effect applied to it. *)
THEOREM DrainsStick == Spec => DrainSticks
<1>1. Init => HoldInv
  BY DEF Init, HoldInv, LiveHoldIsRecorded, OneTaskPerId
<1>2. TypeOK /\ HoldInv /\ [Next]_vars => HoldInv' BY NextKeepsHoldInv
<1>3. TypeOK /\ HoldInv /\ [Next]_vars
      => [\A m \in Meters : m \in full' \ full => newest[m] = "hold"]_vars
  <2> SUFFICES ASSUME TypeOK, HoldInv, Next, NEW m \in Meters, m \in full' \ full
               PROVE  newest[m] = "hold"
    OBVIOUS
  <2>1. CASE \E h \in holds : HoldTurn(h)
    <3> PICK h \in holds : HoldTurn(h) BY <2>1
    <3> QED BY DEF HoldTurn, HoldInv, LiveHoldIsRecorded
  <2>2. ASSUME NEW t \in Traps, Apply(t) PROVE full' \subseteq full
    BY <2>2 DEF Apply, StartHold, Drain
  <2>3. CASE ~(\E h \in holds : HoldTurn(h)) /\ ~(\E t \in Traps : Apply(t))
    BY <2>3
    DEF Next, Game, Tasks, Launch, EnterLevel, LeaveLevel, Close, Use, game, Tick,
        DebounceOver, TypeOK, GapOver, RevertTurn, CancelledHoldEnds, ResetSecrets,
        ResetCommand, Receive, Command, RestartClient
  <2> QED BY <2>1, <2>2, <2>3
<1> QED BY <1>1, <1>2, <1>3, TrapTypeCorrect, PTL DEF Spec, DrainSticks

-----------------------------------------------------------------------------
(* The shield. *)

(* An application that has switched the old secret off switches on the new
   one, unless the game or the client ends in its gap. *)
THEOREM NothingIsTornApart == Spec => SupersedeLands
<1>1. TypeOK /\ [Next]_vars
      => [\A g \in gaps : ~(\E h \in gaps' : h.of = g.of)
             => g.of \in on' \/ place = "closed" \/ restarts' # restarts]_vars
  <2> SUFFICES ASSUME TypeOK, Next, NEW g \in gaps, ~(\E h \in gaps' : h.of = g.of)
               PROVE  g.of \in on' \/ place = "closed" \/ restarts' # restarts
    OBVIOUS
  <2>1. g \notin gaps' OBVIOUS
  <2>2. ASSUME Tick PROVE FALSE
    <3>1. [g EXCEPT !.left = @ - 1] \in gaps' /\ [g EXCEPT !.left = @ - 1].of = g.of
      BY <2>2 DEF Tick, TypeOK
    <3> QED BY <3>1
  <2>3. ASSUME NEW t \in Traps, Apply(t) PROVE FALSE
    BY <2>1, <2>3 DEF Apply, ApplySecret, Supersede
  <2>4. CASE \E h \in gaps : GapOver(h)
    BY <2>1, <2>4 DEF GapOver, SwitchOn
  <2>5. CASE RestartClient BY <2>5 DEF RestartClient, TypeOK
  <2>6. CASE /\ ~(\E h \in gaps : GapOver(h)) /\ ~(\E t \in Traps : Apply(t))
             /\ ~Tick /\ ~RestartClient
    BY <2>1, <2>6
    DEF Next, Game, Tasks, Launch, EnterLevel, LeaveLevel, Close, Use, client,
        DebounceOver, TypeOK, RevertTurn, HoldTurn, CancelledHoldEnds, ResetSecrets,
        ResetCommand, Receive, Command
  <2> QED BY <2>2, <2>3, <2>4, <2>5, <2>6
<1> QED BY <1>1, TrapTypeCorrect, PTL DEF Spec, SupersedeLands
=============================================================================
