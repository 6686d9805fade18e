----------------------------- MODULE DurableLog -----------------------------
(***************************************************************************)
(* What the node promises whoever sends a transfer, with none of its       *)
(* blocks, processes and crashes.  There is a log, which is only appended  *)
(* to, and never says anything twice.  An answer is given once, about a    *)
(* transfer that is in the log by then, unless something was in doubt:     *)
(* unless saving it gave an error.  Doubts are never resolved.             *)
(*                                                                         *)
(* Node.tla implements this specification; the refinement mapping is given *)
(* there.                                                                  *)
(***************************************************************************)
EXTENDS Integers, SequencesExt

CONSTANT Transfers

VARIABLES log,       \* a sequence
          answered,  \* the transfers that were answered
          doubtful   \* the transfers of which saving gave an error

vars == <<log, answered, doubtful>>

Appended == IsPrefix(log, log') /\ IsInjective(log')

-----------------------------------------------------------------------------
Init == log = <<>> /\ answered = {} /\ doubtful = {}

\* The log is begun.
Begin ==
  /\ log = <<>> /\ log' # <<>> /\ IsInjective(log')
  /\ Transfers \cap ToSet(log') = {}
  /\ UNCHANGED <<answered, doubtful>>

\* The log goes on, and the transfer is the last thing in it; or nobody knows.
Answer(t) ==
  /\ t \notin answered
  /\ answered' = answered \cup {t}
  /\ doubtful' \in {doubtful, doubtful \cup {t}}
  /\ \/ log' = log /\ doubtful' # {}
     \/ Appended /\ t \notin ToSet(log) /\ log' # <<>> /\ Last(log') = t

Doubt(t) ==
  /\ t \notin answered
  /\ doubtful' = doubtful \cup {t}
  /\ UNCHANGED <<log, answered>>

Next == Begin \/ \E t \in Transfers : Answer(t) \/ Doubt(t)

Spec == Init /\ [][Next]_vars
=============================================================================
