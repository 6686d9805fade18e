----------------------------- MODULE UtxoLedger -----------------------------
(***************************************************************************)
(* The data of the eUTXO execution layer and what one transaction does to  *)
(* a UTXO set (crates/execution/src/execution_engine.rs).                  *)
(*                                                                         *)
(* A transaction is identified by its hash; Body[h] is its contents:       *)
(*   inputs    the sequence of the ids it spends; nothing in the code      *)
(*             stops a transaction from listing an id more than once       *)
(*   outputs   the sequence of [value, locked] it creates; an output is    *)
(*             locked when its script is not empty                         *)
(*   fee       the fee                                                     *)
(*   range     validity_range: a set of slots                              *)
(* A UTXO id is <<source, index>>; its source is a transaction hash,       *)
(* the genesis, or a block for the coinbase of that block.  A UtxoSet is a *)
(* record of the UTXOs, a function on the ids present, and total_value.    *)
(* `forged` is a history variable of the set: the value of what the        *)
(* transactions that led to it listed again, after the first time.         *)
(*                                                                         *)
(* Amounts are natural numbers, far from the limits of u64, but an input   *)
(* listed again is taken from total_value again: total is an integer, and  *)
(* total_value is total modulo 2^64.  That is what a release build         *)
(* computes, and nothing is decided by it.  In a build that checks         *)
(* overflows the subtraction panics, the lock of the set is poisoned and   *)
(* every later call that takes it panics: such a build stops where this    *)
(* model goes on.                                                          *)
(***************************************************************************)
EXTENDS Integers, Sequences, FiniteSets, SequencesExt

CONSTANTS Txs,   \* transaction hashes
          Body   \* their contents

ASSUME TxAssumption ==
  \A h \in Txs :
    /\ Body[h].fee \in Nat
    /\ \A i \in DOMAIN Body[h].outputs : Body[h].outputs[i].value \in Nat

Inputs(h)  == ToSet(Body[h].inputs)
Outputs(h) == Body[h].outputs

EmptySet == [utxos |-> <<>>, total |-> 0, forged |-> 0]

Ids(set) == DOMAIN set.utxos

SumOf(values) == FoldLeft(+, 0, values)

Found(set, id) == IF id \in Ids(set) THEN set.utxos[id].value ELSE 0

\* The values of the inputs that are found, added up over the list: an input
\* that is listed again counts again.
InputValue(set, h) ==
  SumOf([i \in DOMAIN Body[h].inputs |-> Found(set, Body[h].inputs[i])])

\* What InputValue counts again.
ListedAgain(h, i) == \E j \in 1 .. i - 1 : Body[h].inputs[j] = Body[h].inputs[i]

RepeatValue(set, h) ==
  SumOf([i \in DOMAIN Body[h].inputs |->
           IF ListedAgain(h, i) THEN Found(set, Body[h].inputs[i]) ELSE 0])

OutputValue(h) == SumOf([i \in DOMAIN Outputs(h) |-> Outputs(h)[i].value])

\* Mutant: the fee is not asked for.
ValidWithoutFee(set, slot, h) ==
  /\ Body[h].inputs = <<>> => \A i \in DOMAIN Outputs(h) : Outputs(h)[i].value = 0
  /\ Inputs(h) \subseteq Ids(set)
  /\ InputValue(set, h) >= OutputValue(h)
  /\ \A id \in Inputs(h) : ~set.utxos[id].locked
  /\ slot \in Body[h].range

\* Every check of process_utxo_transaction; each one that fails clears
\* `success` and the others are still made.
Valid(set, slot, h) ==
  /\ Body[h].inputs = <<>> => \A i \in DOMAIN Outputs(h) : Outputs(h)[i].value = 0
  /\ Inputs(h) \subseteq Ids(set)
  /\ InputValue(set, h) >= OutputValue(h) + Body[h].fee
  /\ \A id \in Inputs(h) : ~set.utxos[id].locked
  /\ slot \in Body[h].range

\* The output index counts from 0, sequences from 1.
Created(h) == {<<h, i - 1>> : i \in DOMAIN Outputs(h)}

Insert(utxos, id, utxo) ==
  [x \in DOMAIN utxos \cup {id} |-> IF x = id THEN utxo ELSE utxos[x]]

\* Mutant: the inputs stay in the set.
ApplyKeepingInputs(set, h) ==
  [utxos |-> [id \in Ids(set) \cup Created(h) |->
                IF id \in Created(h) THEN Outputs(h)[id[2] + 1] ELSE set.utxos[id]],
   total |-> set.total - InputValue(set, h) + OutputValue(h),
   forged |-> set.forged + RepeatValue(set, h)]

\* The update made when every check passed: an input is removed once, and taken
\* from the total each time it is listed.
Apply(set, h) ==
  [utxos |-> [id \in (Ids(set) \ Inputs(h)) \cup Created(h) |->
                IF id \in Created(h) THEN Outputs(h)[id[2] + 1] ELSE set.utxos[id]],
   total |-> set.total - InputValue(set, h) + OutputValue(h),
   forged |-> set.forged + RepeatValue(set, h)]

\* process_utxo_transaction: the set it leaves, and the receipt it returns.
\* A failed transaction has a receipt too, which names its inputs.
Process(set, slot, h) ==
  LET success == Valid(set, slot, h)
  IN  [set     |-> IF success THEN Apply(set, h) ELSE set,
       receipt |-> [tx       |-> h,
                    success  |-> success,
                    consumed |-> Body[h].inputs,
                    created  |-> IF success THEN Created(h) ELSE {}]]

\* What a list of receipts says happened to the ids of a UTXO set.
Replay(ids, receipts) ==
  FoldLeft(LAMBDA acc, r : IF r.success THEN (acc \ ToSet(r.consumed)) \cup r.created ELSE acc,
           ids, receipts)

\* What the UTXOs of a set are worth.
Held(set) == FoldFunctionOnSet(LAMBDA utxo, acc : utxo.value + acc, 0, set.utxos, Ids(set))

\* total_value is what the set holds, less what was listed again.
TotalIsSumIn(set) == set.total + set.forged = Held(set)
=============================================================================
