--------------------------- MODULE RollupFinality ---------------------------
(***************************************************************************)
(* What the settlement layer promises its users, with none of its tables:  *)
(* a batch is opened for dispute, may be contested while it is open, and   *)
(* becomes final only when a whole dispute window has passed since it was  *)
(* (last) opened and nobody contested it.  A final batch stays final.      *)
(*                                                                         *)
(* Settlement.tla implements this specification; the refinement mapping is *)
(* given there.                                                            *)
(***************************************************************************)
EXTENDS Integers

CONSTANTS Batches,   \* the batch identifiers
          Window,    \* length of the dispute window
          NotOpen    \* marks a batch that is not open for dispute

VARIABLES clock,      \* current time
          openedAt,   \* openedAt[b]: when b was opened, or NotOpen
          contested,  \* the open batches that have been contested
          final       \* the batches that are final

vars == <<clock, openedAt, contested, final>>

IsOpen(b) == openedAt[b] # NotOpen

Init ==
  /\ clock = 0
  /\ openedAt = [b \in Batches |-> NotOpen]
  /\ contested = {}
  /\ final = {}

Advance ==
  /\ clock' \in Nat /\ clock' > clock
  /\ UNCHANGED <<openedAt, contested, final>>

\* Opening an open batch again restarts its window and voids its disputes.
Open(b) ==
  /\ openedAt' = [openedAt EXCEPT ![b] = clock]
  /\ contested' = contested \ {b}
  /\ UNCHANGED <<clock, final>>

Contest(b) ==
  /\ IsOpen(b)
  /\ contested' = contested \cup {b}
  /\ UNCHANGED <<clock, openedAt, final>>

Finalise(B) ==
  /\ \A b \in B : IsOpen(b) /\ b \notin contested /\ clock - openedAt[b] > Window
  /\ openedAt' = [b \in Batches |-> IF b \in B THEN NotOpen ELSE openedAt[b]]
  /\ final' = final \cup B
  /\ UNCHANGED <<clock, contested>>

Next ==
  \/ Advance
  \/ \E b \in Batches : Open(b) \/ Contest(b)
  \/ \E B \in SUBSET Batches : Finalise(B)

Spec == Init /\ [][Next]_vars
=============================================================================
