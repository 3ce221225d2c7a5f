----------------------------- MODULE SlotStore -----------------------------
(***************************************************************************)
(* What util::pool promises: slots are handed out one at a time, never to  *)
(* two holders, and a count says how many are out.                         *)
(***************************************************************************)
EXTENDS Naturals

CONSTANT Slots

VARIABLES live, count

Init == live = {} /\ count = 0

Acquire == \E s \in Slots \ live : live' = live \cup {s} /\ count' = count + 1

Release == \E s \in live : live' = live \ {s} /\ count' = count - 1

Next == Acquire \/ Release

Spec == Init /\ [][Next]_<<live, count>>
=============================================================================
