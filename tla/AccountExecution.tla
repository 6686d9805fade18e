-------------------------- MODULE AccountExecution --------------------------
(***************************************************************************)
(* The account-based execution layer, crates/execution/src/lib.rs, with    *)
(* the script state manager it owns (ScriptStore).                         *)
(*                                                                         *)
(* Every operation takes &mut self and is one action.  A transaction       *)
(* carries what the script engine answers when it is executed: the engine  *)
(* changes nothing itself, and its answer depends on nothing kept here.    *)
(* Gas is left out, but for a limit below the base cost.                   *)
(***************************************************************************)
EXTENDS ScriptStore, Sequences, SequencesExt

CONSTANTS Addresses,       \* account addresses
          Changes,         \* the lists of state changes of a transaction or a script
          Transfers,       \* transactions that move funds
          OtherTxs,        \* the others
          Batches,         \* sequences of transactions executed as a batch
          InitialBalance,  \* the 10000 a new sender is given
          MaxNonce,        \* bound on the nonces
          MaxReceipts,     \* bound on the receipts in a context
          GenesisRoot      \* "genesis_state_root"

Txs == Transfers \cup OtherTxs

TransferTx == [kind : {"transfer"}, from : Addresses, to : Addresses, value : Nat, low : BOOLEAN]

\* A change list names the value of each key in the order it is applied: for a
\* script, whose changes are a HashMap, any order.
ChangeList == Seq(Keys \X Lengths)

OtherTx ==
  [kind : {"plain"}, ok : BOOLEAN, low : BOOLEAN]
    \cup [kind : {"deploy"}, code : Codes, low : BOOLEAN]
    \cup [kind : {"call", "update"}, hash : ScriptHashes, changes : Changes,
          answer : {"ok", "failed", "error"}, low : BOOLEAN]

ASSUME AccountAssumption ==
  /\ Transfers \subseteq TransferTx
  /\ OtherTxs \subseteq OtherTx
  /\ Changes \subseteq ChangeList
  /\ Batches \subseteq Seq(Txs)
  /\ InitialBalance \in Nat /\ MaxNonce \in Nat /\ MaxReceipts \in Nat

VARIABLES accounts,    \* account_states
          state_root,  \* state_root; a root is the accounts it was made of
          context,     \* execution_context, or None
          funded       \* the addresses given their initial balance

vars == <<now, accounts, scripts, states, state_root, context, funded>>

-----------------------------------------------------------------------------
(***************************************************************************)
(* What one transaction does.  A world is what it works on: the accounts,  *)
(* scripts and states, and the addresses that were funded.                 *)
(***************************************************************************)
World ==
  [accounts |-> accounts, scripts |-> scripts, states |-> states, funded |-> funded,
   receipts |-> <<>>]

Account(table, address, balance) ==
  IF address \in DOMAIN table THEN table[address] ELSE [balance |-> balance, nonce |-> 0]

\* transfer: the sender is made, with a balance, before anything is checked.
WithSender(w, tx) ==
  [w EXCEPT !.accounts = Put(@, tx.from, Account(@, tx.from, InitialBalance)),
            !.funded = IF tx.from \in DOMAIN w.accounts THEN @ ELSE @ \cup {tx.from}]

\* Mutant: both balances are read before either is written.
MovedFromCopies(table, tx) ==
  LET from == [table[tx.from] EXCEPT !.balance = @ - tx.value, !.nonce = @ + 1]
      to   == [Account(table, tx.to, 0) EXCEPT !.balance = @ + tx.value]
  IN  Put(Put(table, tx.from, from), tx.to, to)

Moved(table, tx) ==
  LET paid == [table EXCEPT ![tx.from].balance = @ - tx.value, ![tx.from].nonce = @ + 1]
  IN  Put(paid, tx.to, [Account(paid, tx.to, 0) EXCEPT !.balance = @ + tx.value])

\* A gas limit below the base cost fails the transaction, and the funds move
\* all the same.
Transfer(w, tx) ==
  LET known == WithSender(w, tx)
      ok    == known.accounts[tx.from].balance >= tx.value
  IN  [world   |-> IF ok THEN [known EXCEPT !.accounts = Moved(@, tx)] ELSE known,
       success |-> ok /\ ~tx.low]

\* A WASM call or a contract deployment: no account and no state changes.
Plain(w, tx) == [world |-> w, success |-> tx.ok /\ ~tx.low]

\* Mutant: the state of a script that is deployed again is kept.
DeployKeepingState(w, tx) ==
  [world   |-> [w EXCEPT !.scripts = Deployed(@, <<tx.code, now>>)],
   success |-> ~tx.low]

Deploy(w, tx) ==
  [world   |-> [w EXCEPT !.scripts = Deployed(@, <<tx.code, now>>),
                         !.states = Initialised(@, <<tx.code, now>>)],
   success |-> ~tx.low]

\* One change after the other: on to the end, or up to the first that fails.
Apply(table, hash, changes, stopAtError) ==
  FoldLeft(
    LAMBDA acc, change :
      IF acc.error /\ stopAtError THEN acc
      ELSE IF CanUpdate(acc.states, hash, change[1], change[2])
           THEN [acc EXCEPT !.states = Updated(@, hash, change[1], change[2])]
           ELSE [acc EXCEPT !.error = TRUE],
    [states |-> table, error |-> FALSE], changes)

\* A script call takes its success from the script, whatever the gas limit, and
\* applies the script's changes whether or not it succeeded, without a look at
\* their errors.
Call(w, tx) ==
  IF tx.hash \notin DOMAIN w.scripts \/ tx.answer = "error"
  THEN [world |-> w, success |-> FALSE]
  ELSE [world   |-> [w EXCEPT !.states = Apply(@, tx.hash, tx.changes, FALSE).states],
        success |-> tx.answer = "ok"]

\* A state update keeps the changes before the first that fails.
Update(w, tx) ==
  LET done == Apply(w.states, tx.hash, tx.changes, TRUE)
  IN  [world |-> [w EXCEPT !.states = done.states], success |-> ~done.error /\ ~tx.low]

\* process_transaction
Process(w, tx) ==
  LET done == CASE tx.kind = "transfer" -> Transfer(w, tx)
                [] tx.kind = "plain"    -> Plain(w, tx)
                [] tx.kind = "deploy"   -> Deploy(w, tx)
                [] tx.kind = "call"     -> Call(w, tx)
                [] tx.kind = "update"   -> Update(w, tx)
  IN  [done.world EXCEPT !.receipts = Append(@, [tx |-> tx, success |-> done.success])]

-----------------------------------------------------------------------------
Init ==
  /\ now = 0
  /\ accounts = <<>> /\ scripts = <<>> /\ states = <<>>
  /\ state_root = GenesisRoot
  /\ context = None
  /\ funded = {}

Tick ==
  /\ now < MaxTime
  /\ now' = now + 1
  /\ UNCHANGED <<accounts, scripts, states, state_root, context, funded>>

\* The world after the transactions, and update_execution_context for each.
Become(w) ==
  /\ \A x \in DOMAIN w.accounts : w.accounts[x].nonce <= MaxNonce
  /\ accounts' = w.accounts /\ scripts' = w.scripts /\ states' = w.states
  /\ funded' = w.funded
  /\ context # None => Len(context.executed \o w.receipts) <= MaxReceipts
  /\ context' = IF context = None THEN None
                ELSE [context EXCEPT !.executed = @ \o w.receipts]

\* execute_transaction leaves the root alone.
ExecuteTransaction(tx) ==
  LET w == Process(World, tx)
  IN  /\ Become(w)
      /\ UNCHANGED <<now, state_root>>

ExecuteBatch(txs) ==
  LET w == FoldLeft(Process, World, txs)
  IN  /\ Become(w)
      /\ state_root' = w.accounts
      /\ UNCHANGED now

\* begin_execution replaces a context that is active.  It notes the root, which
\* is only logged about; noted here are the accounts, for the properties.
BeginExecution ==
  /\ context' = [executed |-> <<>>]
  /\ UNCHANGED <<now, accounts, scripts, states, state_root, funded>>

\* commit_execution; the pending changes of a context are always empty.
CommitExecution ==
  /\ context' = None
  /\ state_root' = accounts
  /\ UNCHANGED <<now, accounts, scripts, states, funded>>

\* rollback_execution
RollbackExecution ==
  /\ context' = None
  /\ UNCHANGED <<now, accounts, scripts, states, state_root, funded>>

\* deploy_script.  When the initialisation fails, the error is returned and the
\* script stays deployed; its changes are not applied either way.
DeployScript(code) ==
  /\ scripts' = Deployed(scripts, <<code, now>>)
  /\ states' = Initialised(states, <<code, now>>)
  /\ UNCHANGED <<now, accounts, state_root, context, funded>>

\* execute_script, of a script that is known and active and does not fail: the
\* changes up to the first that fails are applied.
ExecuteScript(hash, changes) ==
  /\ hash \in DOMAIN scripts /\ scripts[hash].active
  /\ states' = Apply(states, hash, changes, TRUE).states
  /\ UNCHANGED <<now, accounts, scripts, state_root, context, funded>>

Next ==
  \/ Tick
  \/ \E tx \in Txs : ExecuteTransaction(tx)
  \/ \E txs \in Batches : ExecuteBatch(txs)
  \/ BeginExecution
  \/ CommitExecution
  \/ RollbackExecution
  \/ \E code \in Codes : DeployScript(code)
  \/ \E hash \in ScriptHashes, changes \in Changes : ExecuteScript(hash, changes)

Spec == Init /\ [][Next]_vars

-----------------------------------------------------------------------------
(***************************************************************************)
(* Properties                                                              *)
(***************************************************************************)
IsAccounts(table) ==
  /\ DOMAIN table \subseteq Addresses
  /\ \A x \in DOMAIN table : table[x] \in [balance : Nat, nonce : Nat]

\* Every variable has its type; a balance never goes below zero (it is a u64).
TypeOK ==
  /\ now \in 0 .. MaxTime
  /\ IsAccounts(accounts) /\ IsScripts(scripts) /\ IsStates(states)
  /\ state_root # GenesisRoot => IsAccounts(state_root)
  /\ context # None => Len(context.executed) <= MaxReceipts
  /\ funded \subseteq Addresses

\* All the money there is was given to new senders: transfers, to oneself too,
\* transfers that fail and transfers without the gas make none and lose none.
MoneyIsConserved ==
  MapThenSumSet(LAMBDA x : accounts[x].balance, DOMAIN accounts)
    = InitialBalance * Cardinality(funded)

\* Every variable has its type; scripts and states are there for the same
\* hashes, and the size kept beside each state is that of its entries and within
\* the limit, whichever updates failed in the middle.
StatesAgree == TypeOK /\ DOMAIN scripts = DOMAIN states /\ SizesAgree(states)
=============================================================================
