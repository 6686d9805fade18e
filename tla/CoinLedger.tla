----------------------------- MODULE CoinLedger -----------------------------
(***************************************************************************)
(* What the eUTXO execution layer promises whoever owns coins, with none   *)
(* of its transactions, receipts and contexts.  Coins are minted, under    *)
(* each name once.  They are moved: some go, others come, and what comes   *)
(* is worth no more than what goes, unless a coin was named more than once *)
(* among those that go, which forges its worth.  No step changes a coin    *)
(* that stays.  And the coins may be put back to the last checkpoint,      *)
(* which is used up.                                                       *)
(*                                                                         *)
(* UtxoExecution.tla implements this specification; the refinement mapping *)
(* is given there.                                                         *)
(***************************************************************************)
EXTENDS Integers, SequencesExt

CONSTANT Names  \* under which coins may be minted

VARIABLES coins,        \* a function from ids, pairs of a name and a number
          forged,       \* the worth of the coins named again so far
          checkpoints,  \* earlier values of coins and forged, the last one last
          minted        \* the names that were used

vars == <<coins, forged, checkpoints, minted>>

Worth(c) == FoldFunctionOnSet(LAMBDA coin, sum : coin.value + sum, 0, c, DOMAIN c)

Unchanged == \A id \in DOMAIN coins \cap DOMAIN coins' : coins'[id] = coins[id]

NewIds == DOMAIN coins' \ DOMAIN coins

Now == [coins |-> coins, forged |-> forged]

-----------------------------------------------------------------------------
Init == coins = <<>> /\ forged = 0 /\ checkpoints = <<>> /\ minted = {}

\* What is minted may be made a checkpoint at once.  Where there are no coins,
\* the count of what was forged may start over.
Mint(name) ==
  /\ name \notin minted
  /\ minted' = minted \cup {name}
  /\ DOMAIN coins \subseteq DOMAIN coins' /\ Unchanged
  /\ \A id \in NewIds : id[1] = name
  /\ forged' = forged \/ (DOMAIN coins = {} /\ forged' = 0)
  /\ checkpoints' \in {checkpoints, Append(checkpoints, Now')}

Move ==
  /\ Unchanged
  /\ \A id \in NewIds : id[1] \notin Names
  /\ forged' >= forged
  /\ Worth(coins') - Worth(coins) <= forged' - forged
  /\ UNCHANGED <<checkpoints, minted>>

Checkpoint ==
  /\ checkpoints' = Append(checkpoints, Now)
  /\ UNCHANGED <<coins, forged, minted>>

Restore ==
  /\ checkpoints # <<>>
  /\ Now' = Last(checkpoints)
  /\ checkpoints' = Front(checkpoints)
  /\ UNCHANGED minted

Next == (\E name \in Names : Mint(name)) \/ Move \/ Checkpoint \/ Restore

Spec == Init /\ [][Next]_vars
=============================================================================
