--------------------------- MODULE InOrderDelivery ---------------------------
(***************************************************************************)
(* What the Archipelago client promises about received items, with nothing  *)
(* of how it does it: the server publishes a growing list, and the client   *)
(* handles items of that list so that an item is never handled before every *)
(* earlier one has been.  An item may be handled again (a reconnect resends *)
(* the list), and a client that restarts starts over.  ItemPipeline, the    *)
(* queue and the cursor of the client, implements this specification.       *)
(***************************************************************************)
EXTENDS Naturals

VARIABLES published,  \* how many items the server has assigned to the slot
          handled     \* how many of them, counted from the first, the client has handled

vars == <<published, handled>>

Init == published = 0 /\ handled = 0

(* The server assigns one more item to the slot. *)
Publish == published' = published + 1 /\ UNCHANGED handled

(* Item number i (counted from 0) is handled: the next one, or an old one again. *)
Handle(i) ==
    /\ i < published
    /\ i <= handled
    /\ handled' = IF i = handled THEN i + 1 ELSE handled
    /\ UNCHANGED published

(* The client process is restarted and knows nothing. *)
Forget == handled' = 0 /\ UNCHANGED published

Next == Publish \/ (\E i \in 0..handled : Handle(i)) \/ Forget

Spec == Init /\ [][Next]_vars
=============================================================================
