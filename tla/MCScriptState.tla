---------------------------- MODULE MCScriptState ----------------------------
(***************************************************************************)
(* Instances of ScriptState for TLC.                                       *)
(***************************************************************************)
EXTENDS ScriptState, TLC

CONSTANT a

MCHashes == {a} \X (0 .. MaxTime)

\* Another manager has one script, of the first second, whose state holds one
\* value of length 1 for every key, and no more fits.
MCForeign ==
  {[scripts |-> [h \in {<<a, 0>>} |-> [active |-> TRUE]],
    states  |-> [h \in {<<a, 0>>} |->
                   [entries |-> [k \in Keys |-> 1], size |-> Cardinality(Keys)]]]}

ThreadSymmetry == Permutations(Callers) \cup Permutations(Keys)
=============================================================================
