--------------------------- MODULE UtxoExecution ---------------------------
(***************************************************************************)
(* The eUTXO execution layer, crates/execution/src/execution_engine.rs.    *)
(*                                                                         *)
(* All operations that change state take &mut self except advance_slot,    *)
(* which touches the slot only: each is one atomic action.                 *)
(***************************************************************************)
EXTENDS UtxoLedger

CONSTANTS Blocks,        \* hashes of the blocks a coinbase is created for
          Rewards,       \* the rewards create_coinbase_utxo may be given
          GenesisLists,  \* the lists initialize_genesis_utxo_set may be given
          BatchLists,    \* the lists of transactions of execute_utxo_batch
          MaxSlot,       \* bound on the slot
          MaxHistory,    \* bound on the length of the history
          MaxReceipts    \* bound on the receipts of a context

VARIABLES utxo_set,      \* utxo_set
          history,       \* utxo_set_history
          context,       \* execution_context
          current_slot,  \* current_slot
          batch,         \* what the last execute_utxo_batch returned
          asked          \* the genesis and coinbase calls made so far

\* execution_context is None, and no batch was executed yet.
NoContext == [none |-> TRUE]

NoBatch == [none |-> TRUE]

vars == <<utxo_set, history, context, current_slot, batch, asked>>

(***************************************************************************)
(* `asked` belongs to the caller.  src/main.rs initialises the genesis     *)
(* once, and a block has one coinbase: a second coinbase under the same    *)
(* hash would overwrite the first one and be counted twice.                *)
(***************************************************************************)
GenesisCall == "genesis"

MintedIds == ({GenesisCall} \cup Blocks) \X Nat

UtxoIds == (Txs \X Nat) \cup MintedIds

\* The genesis mints under its own name, a block under its hash; no hash of a
\* transaction is one of these.
ASSUME ExecutionAssumption ==
  /\ \A h \in Txs : /\ Body[h].inputs \in Seq(UtxoIds)
                   /\ Body[h].outputs \in Seq([value : Nat, locked : BOOLEAN])
  /\ Rewards \subseteq Nat /\ MaxSlot \in Nat
  /\ GenesisLists \subseteq Seq([key : {GenesisCall} \X Nat, id : UtxoIds, value : Nat,
                           locked : BOOLEAN])
  /\ BatchLists \subseteq Seq(Txs)
  /\ Txs \cap ({GenesisCall} \cup Blocks) = {}

Active == context # NoContext

Record(ctx, receipts) ==
  IF ctx = NoContext THEN NoContext
  ELSE [ctx EXCEPT !.executed = @ \o receipts]

RoomFor(n) == Active => Len(context.executed) + n <= MaxReceipts

-----------------------------------------------------------------------------
Init ==
  /\ utxo_set = EmptySet
  /\ history = <<>>
  /\ context = NoContext
  /\ current_slot = 0
  /\ batch = NoBatch
  /\ asked = {}

\* initialize_genesis_utxo_set.  Entries are checked one by one as they are
\* inserted: at the first bad one the call fails, and the entries before it
\* stay in the set without being counted in total_value.
GoodEntry(e) == e.key = e.id /\ e.value > 0

InsertAll(utxos, entries) ==
  FoldLeft(LAMBDA acc, e : Insert(acc, e.key, [value |-> e.value, locked |-> e.locked]),
           utxos, entries)

GoodPrefix(entries) ==
  LET bad == {i \in DOMAIN entries : ~GoodEntry(entries[i])}
  IN  IF bad = {} THEN entries
      ELSE SubSeq(entries, 1, (CHOOSE i \in bad : \A j \in bad : i <= j) - 1)

InitializeGenesis(entries) ==
  /\ GenesisCall \notin asked
  /\ Len(history) < MaxHistory
  /\ asked' = asked \cup {GenesisCall}
  /\ LET filled == InsertAll(<<>>, GoodPrefix(entries))
         full   == [utxos |-> filled, total |-> SumOf([i \in DOMAIN entries |-> entries[i].value]),
                    forged |-> 0]
     IN  \/ /\ Ids(utxo_set) # {}
            /\ UNCHANGED <<utxo_set, history>>
         \/ /\ Ids(utxo_set) = {}
            /\ GoodPrefix(entries) = entries
            /\ utxo_set' = full
            /\ history' = Append(history, full)
         \/ /\ Ids(utxo_set) = {}
            /\ GoodPrefix(entries) # entries
            /\ utxo_set' = [utxo_set EXCEPT !.utxos = filled]
            /\ UNCHANGED history
  /\ UNCHANGED <<context, current_slot, batch>>

\* create_coinbase_utxo: a reward of 0 is refused before anything changes; else
\* total_value grows by it in any case.
CreateCoinbase(b, reward, locked) ==
  /\ reward > 0
  /\ b \notin asked
  /\ asked' = asked \cup {b}
  /\ utxo_set' = [utxo_set EXCEPT
                    !.utxos = Insert(@, <<b, 0>>, [value |-> reward, locked |-> locked]),
                    !.total = @ + reward]
  /\ UNCHANGED <<history, context, current_slot, batch>>

ExecuteTransaction(h) ==
  /\ RoomFor(1)
  /\ LET done == Process(utxo_set, current_slot, h)
     IN  /\ utxo_set' = done.set
         /\ context' = Record(context, <<done.receipt>>)
  /\ UNCHANGED <<history, current_slot, batch, asked>>

\* execute_utxo_batch: the transactions one after the other.  No receipt is
\* an Err, so a batch is never cut short by a transaction that fails.
RunBatch(set, txs) ==
  FoldLeft(LAMBDA acc, h :
             LET done == Process(acc.set, current_slot, h)
             IN  [set |-> done.set, receipts |-> Append(acc.receipts, done.receipt)],
           [set |-> set, receipts |-> <<>>], txs)

ExecuteBatch(txs) ==
  /\ RoomFor(Len(txs))
  /\ LET done == RunBatch(utxo_set, txs)
     IN  /\ utxo_set' = done.set
         /\ context' = Record(context, done.receipts)
         /\ batch' = [prev |-> utxo_set.utxos, new |-> done.set.utxos,
                      receipts |-> done.receipts]
  /\ UNCHANGED <<history, current_slot, asked>>

AdvanceSlot ==
  /\ current_slot < MaxSlot
  /\ current_slot' = current_slot + 1
  /\ UNCHANGED <<utxo_set, history, context, batch, asked>>

\* begin_utxo_execution replaces a context that is still open, and takes no
\* snapshot of the set: only its hash goes into the context.
Begin ==
  /\ context' = [initial |-> utxo_set.utxos, executed |-> <<>>]
  /\ UNCHANGED <<utxo_set, history, current_slot, batch, asked>>

Commit ==
  /\ Len(history) < MaxHistory
  /\ context' = NoContext
  /\ history' = IF Active THEN Append(history, utxo_set) ELSE history
  /\ UNCHANGED <<utxo_set, current_slot, batch, asked>>

\* Mutant: the UTXOs are restored and total_value is not.
RollbackUtxosOnly ==
  /\ context' = NoContext
  /\ history' = IF history = <<>> THEN history ELSE Front(history)
  /\ utxo_set' = IF history = <<>> THEN utxo_set
                 ELSE [utxo_set EXCEPT !.utxos = Last(history).utxos]
  /\ UNCHANGED <<current_slot, batch, asked>>

\* Mutant: the context survives the rollback.
RollbackKeepsContext ==
  /\ history' = IF history = <<>> THEN history ELSE Front(history)
  /\ utxo_set' = IF history = <<>> THEN utxo_set ELSE Last(history)
  /\ UNCHANGED <<context, current_slot, batch, asked>>

\* Mutant: the set is copied from the history and stays there.
RollbackKeepingHistory ==
  /\ context' = NoContext
  /\ utxo_set' = IF history = <<>> THEN utxo_set ELSE Last(history)
  /\ UNCHANGED <<history, current_slot, batch, asked>>

\* rollback_utxo_execution: the last set of the history, if there is one.
Rollback ==
  /\ context' = NoContext
  /\ history' = IF history = <<>> THEN history ELSE Front(history)
  /\ utxo_set' = IF history = <<>> THEN utxo_set ELSE Last(history)
  /\ UNCHANGED <<current_slot, batch, asked>>

Next ==
  \/ \E entries \in GenesisLists : InitializeGenesis(entries)
  \/ \E b \in Blocks, reward \in Rewards, locked \in BOOLEAN : CreateCoinbase(b, reward, locked)
  \/ \E h \in Txs : ExecuteTransaction(h)
  \/ \E txs \in BatchLists : ExecuteBatch(txs)
  \/ AdvanceSlot
  \/ Begin
  \/ Commit
  \/ Rollback

Spec == Init /\ [][Next]_vars

-----------------------------------------------------------------------------
(***************************************************************************)
(* Properties                                                              *)
(***************************************************************************)
IsUtxoMap(utxos) ==
  /\ DOMAIN utxos \subseteq UtxoIds
  /\ \A id \in DOMAIN utxos : utxos[id].value \in Nat /\ utxos[id].locked \in BOOLEAN

IsReceipt(r) ==
  /\ r.tx \in Txs /\ r.success \in BOOLEAN
  /\ ToSet(r.consumed) \subseteq UtxoIds /\ r.created \subseteq UtxoIds

IsUtxoSet(set) == IsUtxoMap(set.utxos) /\ set.total \in Int /\ set.forged \in Nat

\* Every variable has its type.
TypeOK ==
  /\ IsUtxoSet(utxo_set)
  /\ \A i \in DOMAIN history : IsUtxoSet(history[i])
  /\ Active => /\ IsUtxoMap(context.initial)
               /\ \A i \in DOMAIN context.executed : IsReceipt(context.executed[i])
  /\ current_slot \in 0 .. MaxSlot
  /\ asked \subseteq {GenesisCall} \cup Blocks

\* Every variable has its type, and get_total_supply reports what the set holds,
\* less exactly what the transactions that led to it listed again: in the current
\* set, and in every set a rollback can bring back.
TotalIsSum ==
  /\ TypeOK
  /\ TotalIsSumIn(utxo_set)
  /\ \A i \in DOMAIN history : TotalIsSumIn(history[i])

\* No UTXO is spent by two transactions of one execution context.  (One
\* transaction may list it twice; SupplyIsExplained says what that makes.)
NoDoubleSpend ==
  Active =>
    \A i, j \in DOMAIN context.executed :
      LET r == context.executed[i]
          s == context.executed[j]
      IN  i # j /\ r.success /\ s.success
            => ToSet(r.consumed) \cap ToSet(s.consumed) = {}

\* The receipts of the context account for the UTXO set: starting from the
\* set the context began with, they lead to the present one (up to what
\* genesis and coinbase calls brought in, which have no receipt).  And the batch
\* handed to settlement is replayable: its receipts lead from
\* prev_utxo_set_hash to new_utxo_set_hash.
ReceiptsExplainSet ==
  /\ Active =>
       Ids(utxo_set) \ MintedIds =
         Replay(DOMAIN context.initial, context.executed) \ MintedIds
  /\ batch # NoBatch =>
       DOMAIN batch.new = Replay(DOMAIN batch.prev, batch.receipts)

\* What the last step appended to the context, and the fees it took.
NewReceipts ==
  IF Active /\ context' # NoContext
  THEN SubSeq(context'.executed, Len(context.executed) + 1, Len(context'.executed))
  ELSE <<>>

FeesOf(receipts) ==
  FoldLeft(LAMBDA sum, r : IF r.success THEN sum + Body[r.tx].fee ELSE sum, 0, receipts)

\* What the set holds grows by genesis, coinbase and rollback, and by what a
\* transaction lists again, nothing else: transactions, alone or in a batch, burn
\* the fees of those of them that succeed.
SupplyIsExplained ==
  [][asked' = asked /\ Len(history') >= Len(history)
       => Held(utxo_set') + FeesOf(NewReceipts)
            <= Held(utxo_set) + (utxo_set'.forged - utxo_set.forged)]_vars

\* The layer keeps the promise of CoinLedger: what it holds is minted once under
\* each name, moved with no gain but what is listed again, and put back as it was
\* at a checkpoint.
Ledger == INSTANCE CoinLedger WITH
  Names       <- {GenesisCall} \cup Blocks,
  coins       <- utxo_set.utxos,
  forged      <- utxo_set.forged,
  checkpoints <- [i \in DOMAIN history |->
                    [coins |-> history[i].utxos, forged |-> history[i].forged]],
  minted      <- asked

ImplementsLedger == Ledger!Spec
=============================================================================
