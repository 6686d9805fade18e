------------------------- MODULE MCAccountExecution -------------------------
(***************************************************************************)
(* Instances of AccountExecution for TLC: two accounts that start with two *)
(* coins each, one script, and state changes that fit one by one and not   *)
(* together.                                                               *)
(***************************************************************************)
EXTENDS AccountExecution, TLC

CONSTANTS a, b, code, k1, k2

MCHashes == {code} \X (0 .. MaxTime)

Pay(from, to, value, low) ==
  [kind |-> "transfer", from |-> from, to |-> to, value |-> value, low |-> low]

MCTransfers ==
  {Pay(a, b, 1, FALSE), Pay(a, b, 1, TRUE), Pay(b, a, 3, FALSE), Pay(a, a, 1, FALSE)}

MCChanges == {<<<<k1, 1>>, <<k2, 2>>>>, <<<<k2, 1>>>>}

OnScript(kind, hash, changes, answer, low) ==
  [kind |-> kind, hash |-> hash, changes |-> changes, answer |-> answer, low |-> low]

MCOtherTxs ==
  {[kind |-> "plain", ok |-> TRUE, low |-> FALSE],
   [kind |-> "deploy", code |-> code, low |-> FALSE],
   OnScript("call", <<code, 0>>, <<<<k1, 1>>, <<k2, 2>>>>, "failed", FALSE),
   OnScript("call", <<code, 0>>, <<<<k2, 1>>>>, "ok", TRUE),
   OnScript("update", <<code, 0>>, <<<<k1, 1>>, <<k2, 2>>>>, "ok", FALSE),
   OnScript("update", <<code, 0>>, <<<<k2, 1>>>>, "ok", FALSE)}

MCBatches ==
  {<<Pay(a, b, 1, FALSE), Pay(b, a, 3, FALSE)>>,
   <<[kind |-> "deploy", code |-> code, low |-> FALSE],
     OnScript("update", <<code, 0>>, <<<<k2, 1>>>>, "ok", FALSE)>>}
=============================================================================
