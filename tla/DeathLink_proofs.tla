--------------------------- MODULE DeathLink_proofs ---------------------------
(***************************************************************************)
(* Proofs that, while a death outlasts the polling loops, an incoming death *)
(* is not counted as one of ours and what is sent is paid for by deaths of  *)
(* our own and second falls: for every threshold, number of tasks, links,   *)
(* effects and reconnects, with kill tasks that time out and sends that     *)
(* fail.  And that a player at zero health is dying, about to be poked      *)
(* again, or given up by a task at its deadline, whatever the timing.       *)
(***************************************************************************)
EXTENDS DeathLink, TLAPS

(* A task that has not seen the player dead may still poke: unless the health
   rose under it, the next fall of the health must find the flag up.  At zero
   health it need not: the task looks before the player is alive again. *)
FlagAwaitsPoke ==
    \A k \in Kills : kill[k] = "unseen" /\ hp = 1 /\ k \notin lifted => ignore

(* A fall that a poke caused and the watcher has yet to see will be ignored. *)
FlagAwaitsWatcher == hp = 0 /\ cause = "link" /\ last = 1 => ignore

(* A fall to pay with that the watcher has yet to see. *)
Pending == IF hp = 0 /\ cause # "link" /\ last = 1 THEN 1 ELSE 0
PaidOrPending == sends * Threshold + count + Pending <= own + again

Inv == TypeOK /\ FlagAwaitsPoke /\ FlagAwaitsWatcher /\ PaidOrPending

(* One more send costs Threshold deaths. *)
LEMMA OneMore == ASSUME NEW m \in Nat, NEW n \in Nat PROVE (m + 1) * n = m * n + n
  OBVIOUS

(* What is read is the health, in a level for sure. *)
LEMMA ReadsHealth ==
    /\ hp \in Readings /\ Readings \subseteq {Unknown, hp}
    /\ place = "level" => Readings = {hp}
  BY DEF Readings

(* A turn of a kill task either ends it, seeing a health above zero, or goes
   on, with a poke unless the process is out of reach. *)
LEMMA TurnEndsOrPokes ==
    ASSUME TypeOK, NEW k \in Kills, KillTurn(k)
    PROVE  /\ k \in Alive /\ UNCHANGED <<effect, confirmed, watch, expired, sends, history>>
           /\ \/ EndTask(k) /\ UNCHANGED <<game, falls>> /\ hp = 1
              \/ /\ kill' \in {kill, [kill EXCEPT ![k] = "seen"]} /\ lifted' = lifted
                 /\ UNCHANGED <<game, falls>> /\ place # "level"
              \/ /\ kill' \in {kill, [kill EXCEPT ![k] = "seen"]} /\ lifted' = lifted
                 /\ PokeOf(k) /\ ~(hp = 1 /\ kill[k] = "seen")
<1>1. PICK h \in Readings :
        IF h = 1 /\ kill[k] = "seen"
        THEN EndTask(k) /\ UNCHANGED <<game, falls>>
        ELSE /\ UNCHANGED lifted
             /\ kill' = IF h = 0 THEN [kill EXCEPT ![k] = "seen"] ELSE kill
             /\ IF h = Unknown THEN UNCHANGED <<game, falls>> ELSE PokeOf(k)
  BY DEF KillTurn
<1>2. h \in {Unknown, hp} /\ (place = "level" => h = hp) BY ReadsHealth
<1>3. k \in Alive /\ UNCHANGED <<effect, confirmed, watch, expired, sends, history>>
  BY DEF KillTurn
<1>4. hp \in {0, 1} BY DEF TypeOK
<1>5. kill' \in {kill, [kill EXCEPT ![k] = "seen"]} \/ (h = 1 /\ kill[k] = "seen") BY <1>1
<1>6. CASE h = 1 /\ kill[k] = "seen" BY <1>1, <1>2, <1>3, <1>6 DEF Unknown
<1>7. CASE ~(h = 1 /\ kill[k] = "seen") /\ h = Unknown
  BY <1>1, <1>2, <1>3, <1>4, <1>5, <1>7 DEF Unknown
<1>8. CASE ~(h = 1 /\ kill[k] = "seen") /\ h # Unknown
  BY <1>1, <1>2, <1>3, <1>5, <1>8
<1> QED BY <1>6, <1>7, <1>8

(* A task that ends leaves the others, and what was lifted of them, alone. *)
LEMMA TaskEnds ==
    ASSUME TypeOK, NEW k \in Kills, EndTask(k)
    PROVE  /\ kill' \in [Kills -> {"off", "unseen", "seen", "stale"}]
           /\ Alive' = Alive \ {k} /\ lifted' = lifted \ {k}
           /\ \A j \in Kills : kill'[j] = "unseen" => kill[j] = "unseen" /\ j # k
  BY DEF TypeOK, EndTask, Alive

(* What a poke does to the game, wherever it is. *)
LEMMA PokeEffect ==
    ASSUME TypeOK, NEW who \in {"own", "link", "again"}, Poke(who)
    PROVE  /\ hp' = 0 /\ dying' \in BOOLEAN /\ UNCHANGED <<place, invincible>>
           /\ hp = 0 => UNCHANGED falls
           /\ hp = 1 => cause' = who
           /\ own' \in Nat /\ again' \in Nat /\ own' + again' >= own + again
           /\ hp = 1 /\ who # "link" => own' + again' = own + again + 1
           /\ cause' \in {"own", "link", "again"}
  BY DEF TypeOK, Poke, Falls, falls

(* Every step keeps the types, whatever is assumed of the timing. *)
LEMMA StepKeepsTypes ==
    ASSUME TypeOK, [Next]_vars
    PROVE  TypeOK'
<1> USE DeathLinkAssumption
<1>1. CASE Die
  BY <1>1 DEF Die, Falls, TypeOK, Alive, watch, tasks, falls, history
<1>2. CASE Respawn BY <1>2 DEF Respawn, TypeOK, Alive, watch, tasks, falls, history
<1>3. CASE ToggleInvincible
  BY <1>3 DEF ToggleInvincible, Moved, TypeOK, Alive, watch, tasks, falls, history
<1>4. CASE Launch BY <1>4 DEF Launch, TypeOK, Alive, watch, tasks, falls, history
<1>5. CASE LoadSave
  BY <1>5 DEF LoadSave, Rises, TypeOK, Alive, watch, falls, history
<1>6. CASE QuitToTitle
  <2>1. place' = "title" /\ dying' = FALSE /\ invincible' = FALSE BY <1>6 DEF QuitToTitle
  <2>2. moves' \in 0..MaxMoves BY <1>6 DEF QuitToTitle, Moved, TypeOK
  <2> QED BY <1>6, <2>1, <2>2 DEF QuitToTitle, Moved, TypeOK, Alive, watch, tasks, falls
<1>7. CASE Close
  <2>1. place' = "closed" /\ dying' = FALSE /\ invincible' = FALSE BY <1>7 DEF Close
  <2>2. moves' \in 0..MaxMoves BY <1>7 DEF Close, Moved, TypeOK
  <2>3. kill' \in [Kills -> {"off", "unseen", "seen", "stale"}] BY <1>7 DEF Close
  <2>4. lifted' \subseteq Alive' BY <1>7 DEF Close
  <2> QED BY <1>7, <2>1, <2>2, <2>3, <2>4 DEF Close, Moved, TypeOK, watch, falls
<1>8. CASE PollTitle BY <1>8 DEF PollTitle, TypeOK, Alive, game, watch, tasks, falls, history
<1>9. CASE Connected BY <1>9 DEF Connected, TypeOK, Alive, game, tasks, falls
<1>10. CASE OnDeathLink
  <2>1. \/ UNCHANGED <<ignore, tasks>>
        \/ ignore' = TRUE /\ \E k \in Kills : kill[k] = "off" /\ StartTask(k)
    BY <1>10 DEF OnDeathLink
  <2>2. /\ kill' \in [Kills -> {"off", "unseen", "seen", "stale"}] /\ ignore' \in BOOLEAN
        /\ lifted' \subseteq Alive' /\ expired' \subseteq Kills
    BY <2>1 DEF TypeOK, StartTask, Alive, tasks
  <2>3. links' \in 0..MaxLinks BY <1>10 DEF OnDeathLink, TypeOK
  <2> QED BY <1>10, <2>2, <2>3 DEF OnDeathLink, TypeOK, game, falls
<1>11. CASE WatchHealth
  <2>1. PICK h \in Readings :
          \/ last' = Unknown /\ UNCHANGED <<ignore, count, sends, effect>>
          \/ effect' = "none" /\ AccountForDeath
          \/ last' = (IF h = Unknown THEN last ELSE h) /\ UNCHANGED <<ignore, count, sends, effect>>
    <3>1. hp \in Readings BY ReadsHealth
    <3> QED BY <1>11, <3>1 DEF WatchHealth
  <2>2. h \in {Unknown, hp} BY ReadsHealth
  <2>3. effect' \in {"none", "heal", "poison"} BY <2>1 DEF TypeOK
  <2>4. last' \in {Unknown, 0, 1} /\ ignore' \in BOOLEAN
    BY <2>1, <2>2 DEF AccountForDeath, TypeOK
  <2>5. count' \in 0..Threshold-1 /\ sends' \in Nat BY <2>1 DEF AccountForDeath, TypeOK
  <2> QED
    BY <1>11, <2>3, <2>4, <2>5 DEF WatchHealth, TypeOK, Alive, game, tasks, falls, history
<1>12. ASSUME NEW k \in Kills, KillTurn(k) PROVE TypeOK'
  <2>1. UNCHANGED <<effect, confirmed, watch, expired, sends, history>>
    BY <1>12, TurnEndsOrPokes
  <2>2. kill' \in [Kills -> {"off", "unseen", "seen", "stale"}] /\ lifted' \subseteq Alive'
    <3>1. CASE EndTask(k) BY <3>1, TaskEnds DEF TypeOK
    <3>2. CASE kill' \in {kill, [kill EXCEPT ![k] = "seen"]} /\ lifted' = lifted
      BY <1>12, <3>2, TurnEndsOrPokes DEF TypeOK, Alive
    <3> QED BY <1>12, <3>1, <3>2, TurnEndsOrPokes
  <2>3. UNCHANGED <<game, falls>> \/ PokeOf(k) BY <1>12, TurnEndsOrPokes
  <2>4. CASE UNCHANGED <<game, falls>>
    BY <2>1, <2>2, <2>4 DEF TypeOK, game, falls, watch, history
  <2>5. CASE PokeOf(k)
    <3>1. PICK who \in {"own", "link", "again"} : Poke(who) BY <2>5 DEF PokeOf
    <3> QED BY <2>1, <2>2, <3>1, PokeEffect DEF TypeOK, watch, history
  <2> QED BY <2>3, <2>4, <2>5
<1>13. ASSUME NEW k \in Kills, KillDeadline(k) PROVE TypeOK'
  <2>1. /\ kill' \in [Kills -> {"off", "unseen", "seen", "stale"}] /\ lifted' \subseteq Alive'
        /\ expired' \subseteq Kills
    BY <1>13, TaskEnds DEF KillDeadline, TypeOK
  <2> QED BY <1>13, <2>1 DEF KillDeadline, TypeOK, game, watch, falls, history
<1>14. ASSUME NEW kind \in {"heal", "poison"}, StartEffect(kind) PROVE TypeOK'
  BY <1>14 DEF StartEffect, TypeOK, Alive, game, watch, tasks, falls
<1>15. CASE EffectTick
  <2>1. UNCHANGED <<confirmed, watch, kill, expired, sends>> BY <1>15 DEF EffectTick
  <2>2. CASE /\ effect = "heal" /\ Rises
             /\ IF hp = 0 THEN Moved ELSE UNCHANGED history
             /\ UNCHANGED <<place, dying, invincible, effect, falls>>
    BY <2>1, <2>2 DEF Rises, Moved, TypeOK, Alive, watch, falls, history
  <2>3. CASE Poke("own") /\ effect' = "none" /\ UNCHANGED <<lifted, history>>
    BY <2>1, <2>3, PokeEffect DEF TypeOK, Alive, watch, history
  <2> QED BY <1>15, <2>2, <2>3 DEF EffectTick
<1>16. CASE EffectEnds
  BY <1>16 DEF EffectEnds, TypeOK, Alive, game, watch, tasks, falls, history
<1>17. CASE UNCHANGED vars BY <1>17 DEF TypeOK, Alive, vars, game, watch, tasks, falls, history
<1> QED
  BY <1>1, <1>2, <1>3, <1>4, <1>5, <1>6, <1>7, <1>8, <1>9, <1>10, <1>11, <1>12, <1>13,
     <1>14, <1>15, <1>16, <1>17 DEF Next

(* A step that changes nothing preserves the invariant. *)
LEMMA StutterKeepsInv ==
    ASSUME Inv, UNCHANGED vars
    PROVE  Inv'
  BY DEF Inv, TypeOK, Alive, FlagAwaitsPoke, FlagAwaitsWatcher, PaidOrPending, Pending,
         vars, game, watch, tasks, falls, history

(* A fall adds as much to what was suffered as to what is still to be seen. *)
LEMMA StaysPaid ==
    ASSUME NEW p \in Nat, NEW c \in Nat, NEW d \in {0, 1}, NEW e \in {0, 1},
           NEW o \in Nat, NEW q, p + c + d <= o,
           (q = o /\ e <= d) \/ (q = o + 1 /\ d = 0)
    PROVE  p + c + e <= q
  OBVIOUS

(* The account stays balanced when no step is taken by the watcher or the
   server and the fall that is still to be seen, if any, is an old or a paid one. *)
LEMMA AccountStays ==
    ASSUME Inv, TypeOK', UNCHANGED <<sends, count>>,
           \/ own' + again' = own + again /\ Pending' <= Pending
           \/ own' + again' = own + again + 1 /\ Pending = 0
    PROVE  PaidOrPending'
<1>1. sends * Threshold \in Nat /\ count \in Nat /\ own + again \in Nat
  BY DeathLinkAssumption DEF Inv, TypeOK
<1>2. sends' * Threshold = sends * Threshold /\ count' = count OBVIOUS
<1>3. Pending \in {0, 1} /\ Pending' \in {0, 1} BY DEF Pending
<1>4. sends * Threshold + count + Pending <= own + again BY DEF Inv, PaidOrPending
<1> HIDE DEF Pending
<1>5. CASE own' + again' = own + again /\ Pending' <= Pending
  <2>1. sends * Threshold + count + Pending' <= own' + again'
    BY <1>1, <1>3, <1>4, <1>5, StaysPaid
  <2> QED BY <1>2, <2>1 DEF PaidOrPending
<1>6. CASE own' + again' = own + again + 1 /\ Pending = 0
  <2>1. sends * Threshold + count + Pending' <= own' + again'
    BY <1>1, <1>3, <1>4, <1>6, StaysPaid
  <2> QED BY <1>2, <2>1 DEF PaidOrPending
<1> QED BY <1>5, <1>6

(* A rise of the health leaves no task that owes the flag anything. *)
LEMMA RiseKeepsFlags ==
    ASSUME Inv, Rises, UNCHANGED <<kill, ignore>>
    PROVE  FlagAwaitsPoke' /\ FlagAwaitsWatcher' /\ Pending' = 0
  BY DEF Inv, TypeOK, Rises, Alive, FlagAwaitsPoke, FlagAwaitsWatcher, Pending

(* The game's own steps preserve the invariant. *)
LEMMA GameKeepsInv ==
    ASSUME DeathIsLong, Inv, TypeOK',
           Die \/ Respawn \/ ToggleInvincible \/ Launch \/ LoadSave \/ QuitToTitle \/ Close
    PROVE  Inv'
<1>1. CASE Die
  <2>1. FlagAwaitsPoke' /\ FlagAwaitsWatcher'
    BY <1>1 DEF Inv, TypeOK, Die, Falls, FlagAwaitsPoke, FlagAwaitsWatcher, watch, falls
  <2>2. UNCHANGED <<sends, count>> /\ last' = last BY <1>1 DEF Die, watch
  <2>3. PaidOrPending'
    <3>1. CASE hp = 1
      <4>1. own' = own + 1 /\ again' = again BY <1>1, <3>1 DEF Die, Falls
      <4>2. own' + again' = own + again + 1 BY <4>1 DEF Inv, TypeOK
      <4>3. Pending = 0 BY <3>1 DEF Pending
      <4> QED BY <2>2, <4>2, <4>3, AccountStays
    <3>2. CASE hp = 0
      <4>1. UNCHANGED <<own, again>> /\ UNCHANGED <<cause, hp>>
        BY <1>1, <3>2 DEF Die, Falls, falls
      <4>2. Pending' <= Pending BY <2>2, <4>1 DEF Pending
      <4> QED BY <2>2, <4>1, <4>2, AccountStays
    <3> QED BY <3>1, <3>2 DEF Inv, TypeOK
  <2> QED BY <2>1, <2>3 DEF Inv
<1>2. CASE Respawn
  <2>1. FlagAwaitsPoke' /\ FlagAwaitsWatcher'
    BY <1>2 DEF Inv, TypeOK, Respawn, Seen, FlagAwaitsPoke, FlagAwaitsWatcher, watch, tasks
  <2>2. UNCHANGED <<sends, count, own, again>> /\ Pending' = 0
    BY <1>2 DEF Respawn, Pending, watch, falls
  <2>3. Pending' <= Pending BY <2>2 DEF Pending
  <2>4. PaidOrPending' BY <2>2, <2>3, AccountStays
  <2> QED BY <2>1, <2>4 DEF Inv
<1>3. CASE ToggleInvincible \/ QuitToTitle
  BY <1>3 DEF Inv, ToggleInvincible, QuitToTitle, FlagAwaitsPoke, FlagAwaitsWatcher,
     PaidOrPending, Pending, watch, tasks, falls
<1>4. CASE Launch
  <2>1. FlagAwaitsPoke' /\ FlagAwaitsWatcher' /\ Pending' = 0
    BY <1>4 DEF Inv, Launch, FlagAwaitsPoke, FlagAwaitsWatcher, Pending, Unknown, watch
  <2>2. UNCHANGED <<sends, count, own, again>> BY <1>4 DEF Launch, watch, falls
  <2>3. Pending' <= Pending BY <2>1 DEF Pending
  <2>4. PaidOrPending' BY <2>2, <2>3, AccountStays
  <2> QED BY <2>1, <2>4 DEF Inv
<1>5. CASE LoadSave
  <2>1. FlagAwaitsPoke' /\ FlagAwaitsWatcher' /\ Pending' = 0
    BY <1>5, RiseKeepsFlags DEF LoadSave, watch
  <2>2. UNCHANGED <<sends, count, own, again>> BY <1>5 DEF LoadSave, watch, falls
  <2>3. Pending' <= Pending BY <2>1 DEF Pending
  <2>4. PaidOrPending' BY <2>2, <2>3, AccountStays
  <2> QED BY <2>1, <2>4 DEF Inv
<1>6. CASE Close
  <2>1. FlagAwaitsPoke' BY <1>6 DEF Close, FlagAwaitsPoke
  <2>2. FlagAwaitsWatcher' /\ PaidOrPending'
    BY <1>6 DEF Inv, Close, FlagAwaitsWatcher, PaidOrPending, Pending, watch, falls
  <2> QED BY <2>1, <2>2 DEF Inv
<1> QED BY <1>1, <1>2, <1>3, <1>4, <1>5, <1>6

(* The account of a death the watcher sees; the flag, if up, goes down. *)
LEMMA AccountKeeps ==
    ASSUME Inv, last = 1, hp = 0, AccountForDeath
    PROVE  /\ ignore' = FALSE /\ (last' = 1 => ~ignore)
           /\ count' \in 0..Threshold-1 /\ last' \in {0, 1} /\ sends' \in Nat
           /\ sends' * Threshold + count' <= own + again
           /\ last' = 1 => sends' * Threshold + count' + 1 <= own + again
<1> USE DeathLinkAssumption
<1>1. sends \in Nat /\ count \in 0..Threshold-1 /\ ignore \in BOOLEAN /\ own + again \in Nat
  BY DEF Inv, TypeOK
<1>2. sends * Threshold \in Nat BY <1>1
<1>3. ~ignore => cause # "link" BY <1>1 DEF Inv, FlagAwaitsWatcher
<1>4. sends * Threshold + count <= own + again
  BY <1>1, <1>2 DEF Inv, PaidOrPending, Pending
<1>5. ~ignore => sends * Threshold + count + 1 <= own + again
  BY <1>1, <1>2, <1>3 DEF Inv, PaidOrPending, Pending
<1>6. CASE ignore
  <2>1. ignore' = FALSE /\ last' = 0 /\ count' = count /\ sends' = sends
    BY <1>6 DEF AccountForDeath
  <2>2. sends' * Threshold = sends * Threshold BY <2>1
  <2>3. count' \in 0..Threshold-1 /\ last' = 0 /\ sends' \in Nat BY <1>1, <2>1
  <2>4. sends' * Threshold + count' <= own + again BY <1>4, <2>1, <2>2
  <2> QED BY <2>1, <2>3, <2>4
<1>7. CASE ~ignore /\ count + 1 < Threshold
  <2>1. ignore' = FALSE /\ last' = 0 /\ count' = count + 1 /\ sends' = sends
    BY <1>1, <1>7 DEF AccountForDeath
  <2>2. sends' * Threshold = sends * Threshold BY <2>1
  <2>3. count' \in 0..Threshold-1 /\ last' = 0 /\ sends' \in Nat BY <1>1, <1>7, <2>1
  <2>4. sends' * Threshold + count' <= own + again BY <1>1, <1>2, <1>5, <1>7, <2>1, <2>2
  <2> QED BY <2>1, <2>3, <2>4
<1>8. CASE ~ignore /\ count + 1 >= Threshold
  <2>1. count + 1 = Threshold BY <1>1, <1>8
  <2>2. ~(count + 1 < Threshold) BY <2>1, <1>1
  <2>3. /\ count' = 0 /\ ignore' = FALSE
        /\ \/ sends' = sends + 1 /\ last' = 0
           \/ sends' = sends /\ last' = last
    <3>1. ignore = FALSE BY <1>1, <1>8
    <3>2. ~ignore /\ count + 1 >= Threshold /\ count' = 0 /\ UNCHANGED ignore
          /\ ((sends' = sends + 1 /\ last' = 0) \/ (SendsMayFail /\ UNCHANGED <<sends, last>>))
      BY <1>8, <2>2 DEF AccountForDeath
    <3> QED BY <3>1, <3>2
  <2>4. CASE sends' = sends + 1 /\ last' = 0
    <3>1. sends' * Threshold = sends * Threshold + Threshold BY <1>1, <2>4, OneMore
    <3> QED BY <1>1, <1>2, <1>5, <1>8, <2>1, <2>3, <2>4, <3>1
  <2>5. CASE sends' = sends /\ last' = last
    <3>1. sends' * Threshold = sends * Threshold BY <2>5
    <3>2. sends' * Threshold + 0 + 1 <= own + again BY <1>1, <1>2, <1>5, <1>8, <3>1
    <3>3. count' \in 0..Threshold-1 /\ sends' \in Nat BY <1>1, <2>3, <2>5
    <3>4. last' \in {0, 1} BY <2>5
    <3>5. sends' * Threshold + count' <= own + again BY <1>1, <1>2, <2>3, <3>1, <3>2
    <3> QED BY <1>8, <2>3, <2>5, <3>1, <3>2, <3>3, <3>4, <3>5
  <2> QED BY <2>3, <2>4, <2>5
<1>9. (count + 1 < Threshold) \/ (count + 1 >= Threshold) BY <1>1
<1> QED BY <1>6, <1>7, <1>8, <1>9

(* A look of the health watcher preserves the invariant. *)
LEMMA WatchKeepsInv ==
    ASSUME Inv, TypeOK', WatchHealth
    PROVE  Inv'
<1>1. UNCHANGED <<game, confirmed, tasks, falls, history>> BY DEF WatchHealth
<1>2. CASE UNCHANGED <<ignore, count, sends>> /\ (last' = 1 => last = 1 \/ hp = 1)
  <2>1. FlagAwaitsPoke' /\ FlagAwaitsWatcher'
    BY <1>1, <1>2 DEF Inv, TypeOK, FlagAwaitsPoke, FlagAwaitsWatcher, game, tasks, falls
  <2>2. Pending' <= Pending /\ UNCHANGED <<own, again>>
    BY <1>1, <1>2 DEF Inv, TypeOK, Pending, game, falls
  <2>3. PaidOrPending' BY <1>2, <2>2, AccountStays
  <2> QED BY <2>1, <2>3 DEF Inv
<1>3. CASE last = 1 /\ hp = 0 /\ AccountForDeath
  <2>1. FlagAwaitsPoke' BY <1>1, <1>3 DEF FlagAwaitsPoke, game
  <2>2. FlagAwaitsWatcher' BY <1>1, <1>3, AccountKeeps DEF Inv, FlagAwaitsWatcher, game, falls
  <2>3. PaidOrPending'
    <3>1. hp' = 0 /\ own' = own /\ again' = again BY <1>1, <1>3 DEF game, falls
    <3>2. sends' * Threshold \in Nat /\ count' \in Nat
      BY <1>3, AccountKeeps, DeathLinkAssumption
    <3>3. sends' * Threshold + count' <= own + again
          /\ (last' = 1 => sends' * Threshold + count' + 1 <= own + again)
      BY <1>3, AccountKeeps
    <3>4. CASE last' = 1
      <4>1. Pending' \in {0, 1} BY DEF Pending
      <4>2. sends' * Threshold + count' + 1 <= own' + again' BY <3>1, <3>3, <3>4
      <4>3. own' + again' \in Nat BY <3>1 DEF Inv, TypeOK
      <4> HIDE DEF Pending
      <4> QED BY <3>1, <3>2, <3>3, <4>1, <4>2, <4>3 DEF PaidOrPending
    <3>5. CASE last' # 1
      <4>1. Pending' = 0 BY <3>5 DEF Pending
      <4> QED BY <3>1, <3>2, <3>3, <4>1 DEF PaidOrPending
    <3> QED BY <3>4, <3>5
  <2> QED BY <2>1, <2>2, <2>3 DEF Inv
<1>4. CASE place = "closed" \/ ~confirmed
  <2>1. last' = Unknown /\ UNCHANGED <<ignore, count, sends>> BY <1>4 DEF WatchHealth
  <2> QED BY <1>2, <2>1 DEF Unknown
<1>5. CASE ~(place = "closed" \/ ~confirmed)
  <2>1. PICK h \in Readings :
          IF last = 1 /\ h = 0
          THEN effect' = "none" /\ AccountForDeath
          ELSE /\ last' = IF h = Unknown THEN last ELSE h
               /\ UNCHANGED <<ignore, count, sends, effect>>
    BY <1>5 DEF WatchHealth
  <2>2. h \in {Unknown, hp} BY ReadsHealth
  <2>3. CASE last = 1 /\ h = 0 BY <1>3, <2>1, <2>2, <2>3 DEF Unknown
  <2>4. CASE ~(last = 1 /\ h = 0) BY <1>2, <2>1, <2>2, <2>4
  <2> QED BY <2>3, <2>4
<1> QED BY <1>4, <1>5

(* A turn of a kill task preserves the invariant: a poke that makes the
   health fall is one of a task that had not seen a zero. *)
LEMMA KillKeepsInv ==
    ASSUME Inv, TypeOK', NEW k \in Kills, KillTurn(k)
    PROVE  Inv'
<1>0. TypeOK BY DEF Inv
<1>1. k \in Alive /\ UNCHANGED <<effect, confirmed, watch, expired, sends, history>>
  BY <1>0, TurnEndsOrPokes
<1>2. CASE EndTask(k) /\ UNCHANGED <<game, falls>>
  <2>1. \A j \in Kills : kill'[j] = "unseen" /\ j \notin lifted' => kill[j] = "unseen" /\ j \notin lifted
    BY <1>0, <1>2, TaskEnds
  <2>2. FlagAwaitsPoke' BY <1>1, <1>2, <2>1 DEF Inv, FlagAwaitsPoke, game, watch
  <2>3. FlagAwaitsWatcher' /\ PaidOrPending'
    BY <1>1, <1>2 DEF Inv, FlagAwaitsWatcher, PaidOrPending, Pending, game, falls, watch
  <2> QED BY <2>2, <2>3 DEF Inv
<1>3. CASE /\ kill' \in {kill, [kill EXCEPT ![k] = "seen"]} /\ lifted' = lifted
           /\ UNCHANGED <<game, falls>>
  <2>1. \A j \in Kills : kill'[j] = "unseen" => kill[j] = "unseen" BY <1>0, <1>3 DEF TypeOK
  <2>2. FlagAwaitsPoke' BY <1>1, <1>3, <2>1 DEF Inv, FlagAwaitsPoke, game, watch
  <2>3. FlagAwaitsWatcher' /\ PaidOrPending'
    BY <1>1, <1>3 DEF Inv, FlagAwaitsWatcher, PaidOrPending, Pending, game, falls, watch
  <2> QED BY <2>2, <2>3 DEF Inv
<1>4. CASE PokeOf(k) /\ ~(hp = 1 /\ kill[k] = "seen")
  <2> DEFINE who == IF k \in lifted THEN "again" ELSE "link"
  <2>1. Poke(who) /\ who \in {"own", "link", "again"} BY <1>4 DEF PokeOf
  <2>2. hp' = 0 /\ (hp = 0 => UNCHANGED falls) /\ (hp = 1 => cause' = who)
    BY <1>0, <2>1, PokeEffect
  <2>3. hp \in {0, 1} BY <1>0 DEF TypeOK
  <2>4. FlagAwaitsPoke' BY <2>2 DEF FlagAwaitsPoke
  <2>5. FlagAwaitsWatcher'
    <3>1. CASE hp = 1 /\ k \notin lifted
      <4>1. kill[k] = "unseen" BY <1>1, <1>4, <3>1 DEF Alive
      <4> QED BY <1>1, <3>1, <4>1 DEF Inv, FlagAwaitsPoke, FlagAwaitsWatcher, watch
    <3>2. CASE hp = 1 /\ k \in lifted BY <2>2, <3>2 DEF FlagAwaitsWatcher
    <3>3. CASE hp = 0 BY <1>1, <2>2, <3>3 DEF Inv, FlagAwaitsWatcher, watch, falls
    <3> QED BY <2>3, <3>1, <3>2, <3>3
  <2>6. PaidOrPending'
    <3>1. UNCHANGED <<sends, count, last>> BY <1>1 DEF watch
    <3>2. CASE hp = 0
      <4>1. UNCHANGED <<own, again>> /\ Pending' = Pending
        BY <2>2, <3>1, <3>2 DEF Pending, falls
      <4>2. Pending' <= Pending BY <4>1 DEF Pending
      <4> QED BY <3>1, <4>1, <4>2, AccountStays
    <3>3. CASE hp = 1 /\ k \notin lifted
      <4>1. UNCHANGED <<own, again>> /\ cause' = "link" BY <2>1, <3>3 DEF Poke, Falls
      <4>2. Pending' = 0 /\ Pending = 0 BY <3>3, <4>1 DEF Pending
      <4>3. Pending' <= Pending BY <4>2 DEF Pending
      <4> QED BY <3>1, <4>1, <4>3, AccountStays
    <3>4. CASE hp = 1 /\ k \in lifted
      <4>1. own' + again' = own + again + 1
        <5>1. who # "link" BY <3>4
        <5> QED BY <1>0, <2>1, <3>4, <5>1, PokeEffect
      <4>2. Pending = 0 BY <3>4 DEF Pending
      <4> QED BY <3>1, <4>1, <4>2, AccountStays
    <3> QED BY <2>3, <3>2, <3>3, <3>4
  <2> QED BY <2>4, <2>5, <2>6 DEF Inv
<1> QED BY <1>0, <1>2, <1>3, <1>4, TurnEndsOrPokes

(* The client's other steps preserve the invariant. *)
LEMMA ClientKeepsInv ==
    ASSUME Inv, TypeOK',
           \/ PollTitle \/ Connected \/ OnDeathLink \/ EffectTick \/ EffectEnds
           \/ \E k \in Kills : KillDeadline(k)
           \/ \E kind \in {"heal", "poison"} : StartEffect(kind)
    PROVE  Inv'
<1>0. TypeOK BY DEF Inv
<1>1. CASE PollTitle \/ EffectEnds \/ \E kind \in {"heal", "poison"} : StartEffect(kind)
  BY <1>1 DEF PollTitle, EffectEnds, StartEffect, Inv, FlagAwaitsPoke, FlagAwaitsWatcher,
     PaidOrPending, Pending, game, watch, tasks, falls, history
<1>2. CASE Connected
  <2>1. FlagAwaitsPoke' /\ FlagAwaitsWatcher'
    BY <1>2 DEF Connected, Inv, FlagAwaitsPoke, FlagAwaitsWatcher, game, tasks, falls
  <2>2. PaidOrPending'
    <3>1. sends * Threshold \in Nat BY DeathLinkAssumption DEF Inv, TypeOK
    <3>2. count' = 0 /\ UNCHANGED <<sends, own, again, hp, cause, last>>
      BY <1>2 DEF Connected, game, falls
    <3>3. sends' * Threshold = sends * Threshold BY <3>2
    <3>4. Pending' = Pending /\ Pending \in Nat BY <3>2 DEF Pending
    <3>5. own + again \in Nat /\ count \in Nat BY DeathLinkAssumption DEF Inv, TypeOK
    <3> HIDE DEF Pending
    <3> QED BY <3>1, <3>2, <3>3, <3>4, <3>5 DEF Inv, PaidOrPending
  <2> QED BY <2>1, <2>2 DEF Inv
<1>3. CASE OnDeathLink
  <2>1. UNCHANGED <<game, falls, last, count, sends>> BY <1>3 DEF OnDeathLink
  <2>2. \/ UNCHANGED <<ignore, tasks>>
        \/ ignore' = TRUE
    BY <1>3 DEF OnDeathLink
  <2>3. FlagAwaitsPoke' /\ FlagAwaitsWatcher'
    BY <2>1, <2>2 DEF Inv, FlagAwaitsPoke, FlagAwaitsWatcher, game, tasks, falls
  <2>4. PaidOrPending' BY <2>1 DEF Inv, PaidOrPending, Pending, game, falls
  <2> QED BY <2>3, <2>4 DEF Inv
<1>4. ASSUME NEW k \in Kills, KillDeadline(k) PROVE Inv'
  <2>1. EndTask(k) /\ UNCHANGED <<game, falls, watch, sends>> BY <1>4 DEF KillDeadline
  <2>2. \A j \in Kills : kill'[j] = "unseen" /\ j \notin lifted' => kill[j] = "unseen" /\ j \notin lifted
    BY <1>0, <2>1, TaskEnds
  <2>3. FlagAwaitsPoke' BY <2>1, <2>2 DEF Inv, FlagAwaitsPoke, game, watch
  <2>4. FlagAwaitsWatcher' /\ PaidOrPending'
    BY <2>1 DEF Inv, FlagAwaitsWatcher, PaidOrPending, Pending, game, falls, watch
  <2> QED BY <2>3, <2>4 DEF Inv
<1>5. CASE EffectTick
  <2>1. UNCHANGED <<confirmed, watch, kill, expired, sends>> BY <1>5 DEF EffectTick
  <2>2. CASE Rises /\ UNCHANGED falls
    <3>1. FlagAwaitsPoke' /\ FlagAwaitsWatcher' /\ Pending' = 0
      BY <2>1, <2>2, RiseKeepsFlags DEF watch
    <3>2. Pending' <= Pending BY <3>1 DEF Pending
    <3>3. PaidOrPending' BY <2>1, <2>2, <3>2, AccountStays DEF watch, falls
    <3> QED BY <3>1, <3>3 DEF Inv
  <2>3. CASE hp = 1 /\ Poke("own")
    <3>1. hp' = 0 /\ cause' = "own" /\ own' + again' = own + again + 1
      BY <1>0, <2>3, PokeEffect
    <3>2. FlagAwaitsPoke' /\ FlagAwaitsWatcher'
      BY <3>1 DEF FlagAwaitsPoke, FlagAwaitsWatcher
    <3>3. Pending = 0 BY <2>3 DEF Pending
    <3>4. PaidOrPending' BY <2>1, <3>1, <3>3, AccountStays DEF watch
    <3> QED BY <3>2, <3>4 DEF Inv
  <2> QED BY <1>5, <2>2, <2>3 DEF EffectTick
<1> QED BY <1>1, <1>2, <1>3, <1>4, <1>5

LEMMA StepKeepsInv == ASSUME DeathIsLong, Inv, [Next]_vars PROVE Inv'
<1>0. TypeOK' BY StepKeepsTypes DEF Inv
<1>1. CASE UNCHANGED vars BY <1>1, StutterKeepsInv
<1>2. CASE Next
  BY <1>0, <1>2, GameKeepsInv, ClientKeepsInv, WatchKeepsInv, KillKeepsInv DEF Next
<1> QED BY <1>1, <1>2

LEMMA InitHasTypes == ASSUME Init PROVE TypeOK
<1> USE DeathLinkAssumption DEF Init
<1>1. kill \in [Kills -> {"off", "unseen", "seen", "stale"}] OBVIOUS
<1>2. count \in 0..Threshold-1 /\ sends \in Nat /\ own \in Nat /\ again \in Nat OBVIOUS
<1>3. links \in 0..MaxLinks /\ moves \in 0..MaxMoves OBVIOUS
<1>4. effects \in 0..MaxEffects /\ reconnects \in 0..MaxReconnects OBVIOUS
<1> QED BY <1>1, <1>2, <1>3, <1>4 DEF TypeOK, Unknown

LEMMA InitHasInv == ASSUME Init PROVE Inv
<1> USE DeathLinkAssumption DEF Init
<1>1. TypeOK BY InitHasTypes
<1>2. FlagAwaitsPoke /\ FlagAwaitsWatcher
  BY DEF FlagAwaitsPoke, FlagAwaitsWatcher, Unknown
<1>3. PaidOrPending
  <2>1. 0 * Threshold = 0 OBVIOUS
  <2> QED BY <2>1 DEF PaidOrPending, Pending, Unknown
<1> QED BY <1>1, <1>2, <1>3 DEF Inv

(* The inductive invariant, if a death outlasts the polling loops. *)
THEOREM FlagsInvariant == ASSUME DeathIsLong PROVE Spec => []Inv
<1>1. Init => Inv BY InitHasInv
<1>2. Inv /\ [Next]_vars => Inv' BY StepKeepsInv
<1> QED BY <1>1, <1>2, PTL DEF Spec

(* What was sent to the team is covered by deaths of our own and second falls. *)
THEOREM SentDeathsArePaidFor == ASSUME DeathIsLong PROVE Spec => []PaidFor
<1>1. Inv => PaidFor
  <2> SUFFICES ASSUME Inv PROVE PaidFor OBVIOUS
  <2>1. sends * Threshold \in Nat /\ count \in Nat /\ own + again \in Nat
    BY DeathLinkAssumption DEF Inv, TypeOK
  <2>2. Pending \in Nat BY DEF Pending
  <2> HIDE DEF Pending
  <2> QED BY <2>1, <2>2 DEF Inv, PaidOrPending, PaidFor
<1> QED BY <1>1, FlagsInvariant, PTL

(* A death that a kill task caused is never counted as one of ours. *)
THEOREM LinksAreNotEchoed == ASSUME DeathIsLong PROVE Spec => NeverEchoed
<1> DEFINE Counts == count' # count \/ sends' # sends
<1>1. ASSUME Inv, Next, Counts, ~Connects PROVE cause # "link"
  <2>1. WatchHealth
    <3>1. ~Connected BY <1>1 DEF Connected, Connects, Inv, TypeOK
    <3>2. \A k \in Kills : ~KillTurn(k) /\ ~KillDeadline(k)
      BY <1>1 DEF KillTurn, KillDeadline, watch
    <3>3. ~Die /\ ~Respawn /\ ~ToggleInvincible /\ ~Launch /\ ~LoadSave
      BY <1>1 DEF Die, Respawn, ToggleInvincible, Launch, LoadSave, watch
    <3>4. ~QuitToTitle /\ ~Close /\ ~PollTitle /\ ~OnDeathLink
      BY <1>1 DEF QuitToTitle, Close, PollTitle, OnDeathLink, watch
    <3>5. ~EffectTick /\ ~EffectEnds /\ \A kind \in {"heal", "poison"} : ~StartEffect(kind)
      BY <1>1 DEF EffectTick, EffectEnds, StartEffect, watch
    <3> QED BY <1>1, <3>1, <3>2, <3>3, <3>4, <3>5 DEF Next
  <2>2. last = 1 /\ hp = 0 /\ AccountForDeath BY <1>1, <2>1, ReadsHealth DEF WatchHealth, Unknown
  <2>3. ~ignore BY <1>1, <2>2 DEF AccountForDeath
  <2> QED BY <1>1, <2>2, <2>3 DEF Inv, FlagAwaitsWatcher
<1>2. Inv /\ [Next]_vars => [Counts /\ ~Connects => cause # "link"]_vars
  BY <1>1
<1> QED BY <1>2, FlagsInvariant, PTL DEF Spec, NeverEchoed
-----------------------------------------------------------------------------
(* Every variable keeps its type, whatever is assumed of the timing. *)
THEOREM TypeCorrect == Spec => []TypeOK
<1>1. Init => TypeOK BY InitHasTypes
<1>2. TypeOK /\ [Next]_vars => TypeOK' BY StepKeepsTypes
<1> QED BY <1>1, <1>2, PTL DEF Spec

(* A step that leaves the health and the tasks alone, or ends the danger:
   with the types NeverLeftAtZero is inductive, for the poke that a cutscene
   refuses is one of a task that goes on. *)
LEMMA StepKeepsRetried ==
    ASSUME TypeOK, NeverLeftAtZero, [Next]_vars
    PROVE  NeverLeftAtZero'
<1> USE DEF NeverLeftAtZero
<1>1. CASE Die \/ LoadSave \/ QuitToTitle \/ Close \/ Launch \/ Respawn
  BY <1>1 DEF Die, LoadSave, Rises, QuitToTitle, Close, Launch, Respawn
<1>2. CASE ToggleInvincible \/ PollTitle \/ Connected \/ EffectEnds
  BY <1>2 DEF ToggleInvincible, PollTitle, Connected, EffectEnds, Alive, game, tasks, falls
<1>3. CASE OnDeathLink
  <2>1. UNCHANGED <<game, falls>> BY <1>3 DEF OnDeathLink
  <2>2. \/ UNCHANGED tasks
        \/ \E k \in Kills : kill[k] = "off" /\ StartTask(k)
    BY <1>3 DEF OnDeathLink
  <2>3. CASE UNCHANGED tasks BY <2>1, <2>3 DEF Alive, game, tasks, falls
  <2>4. ASSUME NEW k \in Kills, StartTask(k) PROVE Alive' # {}
    <3>1. kill'[k] = "unseen" BY <2>4 DEF StartTask, TypeOK
    <3> QED BY <3>1 DEF Alive
  <2> QED BY <2>2, <2>3, <2>4
<1>4. CASE WatchHealth BY <1>4 DEF WatchHealth, Alive, game, tasks, falls
<1>5. ASSUME NEW k \in Kills, KillTurn(k) PROVE NeverLeftAtZero'
  <2>1. k \in Alive /\ UNCHANGED expired BY <1>5, TurnEndsOrPokes
  <2>2. CASE UNCHANGED <<game, falls>> /\ hp = 1 BY <2>2 DEF game
  <2>3. CASE UNCHANGED <<game, falls>> /\ place # "level" BY <2>3 DEF game
  <2>4. CASE kill' \in {kill, [kill EXCEPT ![k] = "seen"]}
    <3>1. k \in Alive' BY <2>1, <2>4 DEF Alive, TypeOK
    <3> QED BY <3>1
  <2> QED BY <1>5, <2>2, <2>3, <2>4, TurnEndsOrPokes
<1>6. ASSUME NEW k \in Kills, KillDeadline(k) PROVE NeverLeftAtZero'
  <2>1. EndTask(k) /\ UNCHANGED <<game, falls>>
        /\ expired' = IF k \in Alive THEN expired \cup {k} ELSE expired
    BY <1>6 DEF KillDeadline
  <2>2. Alive' = Alive \ {k} BY <2>1, TaskEnds
  <2> QED BY <2>1, <2>2 DEF game, falls
<1>7. ASSUME NEW kind \in {"heal", "poison"}, StartEffect(kind) PROVE NeverLeftAtZero'
  BY <1>7 DEF StartEffect, Alive, game, tasks, falls
<1>8. CASE EffectTick
  <2>1. CASE Rises BY <2>1 DEF Rises
  <2>2. CASE hp = 1 /\ Poke("own") BY <2>2, PokeEffect
  <2> QED BY <1>8, <2>1, <2>2 DEF EffectTick
<1>9. CASE UNCHANGED vars BY <1>9 DEF Alive, vars, game, tasks, falls
<1> QED BY <1>1, <1>2, <1>3, <1>4, <1>5, <1>6, <1>7, <1>8, <1>9 DEF Next

(* A player whose health a DeathLink has zeroed is dying, will be poked
   again, or was given up by a kill task at its deadline. *)
THEOREM ZeroHealthIsRetried == Spec => []NeverLeftAtZero
<1>1. Init => NeverLeftAtZero BY DEF Init, NeverLeftAtZero
<1>2. TypeOK /\ NeverLeftAtZero /\ [Next]_vars => NeverLeftAtZero' BY StepKeepsRetried
<1> QED BY <1>1, <1>2, TypeCorrect, PTL DEF Spec
=============================================================================
