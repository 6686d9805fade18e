# PolyTorus in TLA+

PolyTorus is a modular blockchain in Rust: an execution layer on extended UTXOs, a consensus
layer, a settlement layer in the style of an optimistic rollup, a data availability layer and a
WebRTC network, tied together by the command line program `polytorus`. This directory holds TLA+
models of those layers, the TLC configurations that check them on small instances, and TLAPS
proofs of their most important invariants for every instance. Paths are relative to the root of
the repository.

## 1. The system

### Inventory

| Component | State it keeps | Operations | Makes it correct |
|---|---|---|---|
| Settlement, `crates/settlement/src/lib.rs` | pending and settled batches, history, root; challenges (two mutexes) | settle, challenge, process a challenge, drop expired ones, finalise | nothing is settled inside its window or over a live challenge; table, history and root agree |
| eUTXO execution, `crates/execution/src/execution_engine.rs` | UTXO set with its total, history of sets, execution context, slot | genesis, coinbase, transaction, batch, begin, commit, rollback | no UTXO is spent by two transactions; the total is the sum, and transactions make no money, but for inputs listed twice; receipts explain the set |
| eUTXO consensus, `crates/consensus/src/consensus_engine.rs` | chain state, blocks, pool, difficulty, slot clock | submit, take, mine, validate, propose, add, restore | blocks form a tree with rising numbers and slots; height and slot are the tip's; a transaction is mined once |
| Node and storage, `src/main.rs` | one of each layer in memory; blocks and one state record in sled | start, genesis, send, deploy, call | what was answered is stored; the chain only grows; the genesis is spent once, over restarts |
| Data availability, `crates/data-availability/src/lib.rs` | data, Merkle tree, replicas, peers, cache of verifications (one lock each) | store, retrieve, broadcast, request, verify, prove, clean up | tree and store agree; proofs hold the right siblings; stale answers have an end |
| Script state manager, `crates/execution/src/script_state.rs` | scripts, states, snapshots (one mutex each) | deploy, update, delete, snapshot, roll back, export, import, clear | sizes are right and within the limit; scripts and states belong together |
| Account execution, `crates/execution/src/lib.rs` | accounts, a script state manager, state root, context | transfer, deploy, call, update, batch, begin, commit, rollback | transfers conserve money; scripts and states agree |
| WebRTC network, `crates/p2p-network/src/lib.rs`, `peer.rs` | peer table behind a RwLock, statistics, shutdown channel | start, connect, send, broadcast, disconnect, shut down; keep-alive and maintenance tasks | no send over a closing connection; shutdowns end; the count is right again in the end |
| Script engine, `crates/execution/src/script_engine.rs` | cache of compiled modules | execute, verify | not modelled |
| Discovery, DHT, connection pool, `crates/p2p-network/src/discovery.rs` | known peers behind a RwLock, pool, DHT table | listen, announce, discover, list, add, ping, clean up | whoever waits for the table gets it |
| Automatic discovery, `crates/p2p-network/src/auto_discovery.rs` | known peers with the time each was seen, a UDP socket | announce, ask, listen, add, clean up | hearsay is no sighting; what is fresh stays, what is old goes; nodes on the six known ports find who lives |
| Adaptive network, `crates/p2p-network/src/adaptive_network.rs` | none of its own | another start, with automatic discovery and its maintenance | as automatic discovery, over starts and stops |
| Signaling server, `crates/p2p-network/src/signaling.rs` | registered peers behind a RwLock, one channel for each connection, statistics | register, list, relay, disconnect | no gap in what a client gets; a slow client blocks nobody; writers end |
| Account-based consensus, `crates/consensus/src/lib.rs` | chain without slots | propose, validate, add, mine | not modelled; the node does not use it |
| Traits, `crates/traits/src/lib.rs`; library root, `src/lib.rs` | none | declarations, re-exports | not modelled |

### How they interact

`src/main.rs` owns an eUTXO execution layer, an eUTXO consensus layer, the network and the database,
and calls them in order. A transfer is executed (`execute_utxo_transaction`), mined into a block of
its own (`mine_utxo_block`), validated, saved (`save_block`), added (`add_utxo_block`), and the
state is saved (`save_blockchain_state`). Each command of the command line is a process of its own
that restores what the one before it stored. The network is started by a command and nothing of the
transfer path waits for it. The settlement and the data availability layer are libraries
(`src/lib.rs` re-exports them) that the node does not call yet: their callers are modelled as any
callers. The account layer owns a script state manager and asks the script engine what a script
answers. The network has two starts, `start` and `start_adaptive`; the second starts the automatic
discovery, adds the bootstrap peers to it and cleans its table up once a minute. The service of
`discovery.rs` and the signaling server are public and started by nobody in the repository: their
callers and clients are modelled as any.

### What is hard about it

* **Interleavings.** Most operations of settlement, execution and consensus take `&mut self`, so
  each is atomic. Not so those of the script state manager, the verifications and the clean-up of
  data availability, mining (which reads the clock twice), and the whole of the network: there a
  call is several lock sections or keeps a guard over an `await`. In discovery and in the signaling
  server tasks of many nodes or connections run beside each other.
* **Delivery.** Discovery sends datagrams that are lost, late or out of order, and passes on what it
  heard; a signaling channel that runs over loses its oldest message.
* **State kept twice.** The challenged flag and the table of challenges, `total_value` and the
  UTXOs, the height and the chain, `total_size` and the entries, the Merkle leaves and the store,
  `active_connections` and the peer table.
* **Sequences of calls.** Batches submitted again, contexts begun twice and rolled back twice,
  blocks added that were mined on a tip that moved.
* **Restarts.** Processes are killed between two writes, writes fail before or after they took
  effect, and a restart restores the chain and not the UTXO set.

The hazards, each at its line and with the properties that watch it, are in `PROJECT.json`.

## 2. The modules

Each module models a file, one action per operation, and names the operation above the action.
`map` in `PROJECT.json` gives the lines of each definition. Operators called *mutants* in comments
are variants of the definition after them with a plausible bug. No specification uses them; they
show that the properties would notice.

| Module | Models | Used by |
|---|---|---|
| `RollupFinality` | what settlement promises: abstract | `Settlement` (refinement) |
| `Settlement` | the settlement layer | `SettlementProofs` |
| `CoinLedger` | what the eUTXO execution layer promises: abstract | `UtxoExecution` (refinement) |
| `UtxoLedger` | validity and effect of a transaction on a UTXO set | `UtxoExecution` (EXTENDS), `Node` (INSTANCE) |
| `UtxoExecution` | the eUTXO execution layer | `UtxoExecutionProofs` |
| `UtxoChain` | the chain state: template, parent checks, add | `UtxoConsensus`, `Node` (EXTENDS) |
| `UtxoConsensus` | the eUTXO consensus layer | `UtxoConsensusProofs` |
| `DurableLog` | what the node promises who sends transfers: abstract | `Node` (refinement) |
| `Node` | processes of the node and the database they share | `NodeProofs` |
| `MerkleTree` | the tree, proofs and their verification | `DataAvailability` (EXTENDS) |
| `DataAvailability` | the data availability layer | `DataAvailabilityProofs` |
| `ScriptStore` | the maps of the script state manager, and what is done to them | `ScriptState`, `AccountExecution` (EXTENDS) |
| `ScriptState` | the manager, a lock section at a time | `AccountExecutionProofs` |
| `AccountExecution` | the account layer | `AccountExecutionProofs` |
| `P2PNetwork` | the peer table and the tasks around it | `P2PNetworkProofs` |
| `AutoDiscovery` | the tables, the datagrams and the clean-up of automatic discovery, on every node | `AdaptiveNetwork` (EXTENDS) |
| `AdaptiveNetwork` | start, maintenance and end of the nodes that run it | `AdaptiveNetworkProofs` |
| `Signaling` | the signaling server and its clients | `P2PNetworkProofs` |
| `PeerDiscovery` | the discovery service around its one lock | `P2PNetworkProofs` |

### Correspondence of state and actions

* **Settlement.** `pending`, `settled`, `history` and `root` are the fields of `SettlementState`,
  `challenges` is the second mutex. An absent HashMap entry is `None`. A hash is what is hashed.
  The period times ten seconds is `Window`, and windows end strictly after it. The HashMap is
  iterated in any order: finalising several batches at once extends the history in each order.
* **eUTXO execution.** A set is a record of the UTXOs and `total_value`, kept apart as in the code.
  A failed transaction has a receipt and never stops a batch. `begin` takes no snapshot, `commit`
  appends the set to the history, `rollback` pops the last one, with or without a context. `asked`
  is the caller's: genesis once, one coinbase per block. Scripts are a flag that says that spending
  fails, since a script that succeeds differs in nothing from an empty one. The inputs of a
  transaction are a list, in which a UTXO may occur more than once: the code looks each entry up
  and adds its value each time (`execution_engine.rs:224`), removes the UTXO once, and takes its
  value from `total_value` each time (`:321`). `forged`, a history variable, is the value that was
  listed again; the total is then behind the UTXOs by it. It is an integer here, of which
  `total_value` is the remainder modulo 2^64 in a release build; a build that checks for overflow
  panics where it would go below zero.
* **eUTXO consensus.** The hash of a block is a name, its proof of work a number of zeros. Mining is
  `StartMining` (tip and slot are read), then `FinishMining` (timestamp), or `FailMining`. Mined
  blocks (`mined`) and transactions taken from the pool (`taken`) are with the callers, and are
  lost with them. `ProposeBlock` validates; `AddBlock` does not, as `add_utxo_block` does not.
* **Node.** `phase` is how far the process got, `hand` the block it works on, `disk` the database
  (each block under its hash, and one state record). `SendTransaction`, `SaveBlock`, `AddBlock` are
  the three parts of `send_transaction` between which a kill makes a difference; `Stop` is enabled
  in all of them. A write may give an error before or after it took effect, which the code logs.
  Contract calls add their block in memory and store nothing. `answered`, `succeeded` and `unsaved`
  are history variables for the properties.
* **Data availability.** A verification is three steps, `Verify`, `PerformVerification` and
  `CacheResult`, for its three lock sections. `CleanupExpiredData` has two parameters that say
  which of its `try_lock`s succeed; the locks that nothing can hold at that moment are not among
  them. Peers always come and go together (`simulate_broadcast` connects the same ones each time),
  so one record stands for all.
* **Script state.** `call[c]` says which lock section of its call thread `c` comes to next;
  `rollback_to_snapshot` keeps the history mutex while it takes the other two. A value is its
  length. `import_state` takes what this manager exported last, or what another one did (`Foreign`).
  It checks nothing (`script_state.rs:339`): bytes with wrong sizes or states without scripts are
  taken too, and then nothing holds of the sizes. `ForeignAssumption` says that the bytes are from a
  manager with the same limit in which no calls overlapped. `overlapped` is a history variable:
  whether two calls ever overlapped.
* **Account execution.** A transaction carries what the script engine answers, and whether its gas
  limit is below the base cost. `Process` is `process_transaction` as a function on a record of the
  tables; a batch folds it. `funded` is a history variable.
* **Network.** A process (a caller, the thread in `start`, the keep-alive task) is a record of the
  call it is in. Who is in `"send"` holds a read guard, who is in `"close"` the write guard. The
  maintenance task is `upkeep`: list stale peers, remove them, read the count, set it, in four lock
  sections. Any set of peers may be found stale, because any time may pass between two steps.
* **Automatic discovery.** `known[n]` is the table of node `n`. A time is kept as an age, `now -
  last_seen`, which stops at `Oldest`, the age at which every clean-up removes: time has no bound,
  and the state space has one. `network` is a set of datagrams; of those sent, any part arrives,
  in any order, also one that a node sends to itself. Announcements and requests go to six fixed
  ports (`auto_discovery.rs:62`, `:116`, `:153`); the broadcast beside them (`:124`) fails, since the
  socket was not told to broadcast, and the error is ignored. `listed` are the nodes bound to one of
  these ports, chosen when a node starts; nobody addresses another one, but whoever it asks answers
  it. `cleanup_old_peers` reads the clock and waits
  for the lock: `cleaning[n]` is how long ago it read it. Where an entry is later than the reading, the
  subtraction of two u64 wraps (`Cleanup`) or panics (`CleanupPanics`), as the build has it.
  `stage` is how far the process of a node is, and `Stop` ends it at any time. `seen` is a history
  variable: the age of the last time anybody heard the peer itself.
* **Signaling.** `handler[c]` and `writer[c]` are the two tasks of a connection. A channel is three
  numbers: what was `sent`, what the writer is past (`next`), and what was `written`. A tokio
  broadcast channel never makes a sender wait; `recv` fails once when the receiver lagged, and the
  loop of the writer takes any failure for the end. Clients hang up and stall at any time.
* **Peer discovery.** `queue` is the fair queue of the RwLock, `guards` the guards kept over an
  `await`, `doing` what each task wants the lock for.

## 3. The runs

| Run | Instance | Shows |
|---|---|---|
| `MCSettlement` | 2 batches with 2 contents, 1 challenge, window 1, clock to 4 | flag and challenges agree; table, history and root agree; no settlement over a live challenge; `RollupFinality` is implemented |
| `MCUtxoExecution` | 5 transactions (chain, conflict, an input listed twice, script, range, short fee), 1 coinbase of reward 2 or, refused, 0, 2 batches, history of 2 | totals, double spends, receipts (a batch can be replayed from them) and supply over every order of begin, commit and rollback; `CoinLedger` is implemented |
| `MCUtxoConsensus` | 3 blocks, 2 in hand, 2 transactions, 2 difficulties, clock to 2 | the tree and the tip, one block per transaction, growth, valid tips, over unvalidated adds and restarts |
| `MCNode` | 3 transfers (one of which asks for too much), 1 contract call, 2 commands a process, I/O errors | what kills and failed writes leave in the database and bring back: the tip is known, the blocks are in line, answers are stored, the genesis is spent once; `DurableLog` is implemented |
| `MCDataAvailability` | 2 data, one the text of a pair of hashes of the other, 1 verifier, up to 2 leaves, clock to 2; every tree of up to 6 leaves | tree, store and replicas agree; stale answers are dated before the removal; proofs hold the right siblings, and that of the first leaf verifies |
| `MCScriptState` | 2 threads, 2 keys, lengths 1 and 2 with limit 2, 6 calls, 1 export of another manager | sizes, whatever overlaps; scripts with states, as long as nothing does |
| `MCAccountExecution` | 2 accounts, 1 script, 10 transactions, 2 batches | conservation of money; scripts and states agree after partial failures |
| `MCP2PNetwork` | 2 peers (1 bootstrap), 2 threads, 2 calls, 3 connections, 3 tasks | send safety, a clean table, shutdowns end, the count heals |
| `MCAdaptiveNetwork` | 2 nodes, each on a discovery port or on another, 1 bootstrap id, timeout 1, a clean-up that waits up to 1, 1 datagram in flight | hearsay is no sighting; fresh entries go in one race only; a node on a discovery port finds who lives, whoever cleans up; a node left alone forgets |
| `MCSignaling` | 2 connections, 2 ids, capacity 1, 3 lines | no gap, nobody blocked, everything written, no writer left behind |
| `MCPeerDiscovery` | 2 callers, the listening task, the clean-up, 1 peer | everybody is served, unless the service is stuck, and then it stays so |
| `MCDiscoveryForgets` | as the adaptive network | **violated**: two nodes hand a peer that is gone back to each other for ever |

The type invariant of a component is a conjunct of one of its properties: of `SettledIsLatestInHistory`,
`TotalIsSum`, `BlocksFormTree`, `TipIsKnown`, `StaleAnswersAreDated`, `SizeIsKept`, `StatesAgree`,
`TableIsClean`, `HearsayIsNoSighting` and `NoGaps`; `LockTypes` is a property of its own.

### The abstract specifications

* **`RollupFinality`**, of settlement: a batch is opened for dispute, may be contested, and becomes final
  when a whole window has passed since it was last opened and nobody contested it.
* **`CoinLedger`**, of execution: coins are minted under each name once; moved, so that some go and
  others come that are worth no more, but for what was `forged` by naming a coin again, and none
  that stays changes; or put back to the last
  checkpoint, which is used up. `coins` is the UTXO set, `checkpoints` the history, and `minted` the
  genesis and coinbase calls that were accepted; receipts, contexts and slots are mapped to nothing. A
  commit is a `Checkpoint`, a batch is one `Move` however many transactions it has.
* **`DurableLog`**, of the node: the log is appended to and says nothing twice; an answer is given once,
  about what is the last thing in the log by then, unless something is in doubt. The log is the chain
  that is stored, `doubtful` the transfers whose block or state gave an error. A kill is a stutter,
  and so are the start of the next process and every contract call.

### Bounds, and why they are enough

Every bound is a constant in a guard: `MaxTime`, `MaxSlot`, `MaxHistory`, `MaxReceipts`,
`MaxInHand`, `MaxLeaves`, `MaxAccesses`, `MaxRequests`, `MaxConns`, `MaxCalls`, `MaxNonce`,
`OpsPerProcess`, `MaxWait`, `MaxFlight`, `MaxLines`, and the finite sets of names.

* Settlement compares differences of the clock with the window. With window 1 and a clock to 4, a
  batch passes a whole window (2 seconds), is submitted again, and passes another. Two batches show
  finalising together and apart. Proofs: one that is upheld against a batch, one that is not.
* UTXOs: a chain of two and conflicts with it show every relation of two transactions, and an input
  listed twice that of a transaction with itself, alone and in a batch behind one that fails; a
  history of two shows rollbacks behind a rollback.
* Blocks: two in hand on one tip and a third behind them are the least that fork and then build on
  the fork. More than one slot passes between them.
* Node: two transfers that both fit are enough to spend the genesis twice, were that possible;
  a second command in one process starts from a set that another process would not have.
* Merkle: six leaves have an odd level under an even one and the other way round. Leaves and pairs
  are hashed alike (`crates/data-availability/src/lib.rs:267`, `:332`), and one datum is such that its
  leaf is the pair of two others. `MaxRequests` bounds the requests that were not taken back.
* Script state: the limit of 2 admits one value of length 2 or two of length 1, so replacing and
  deleting decide whether updates fit; 6 calls are enough for a snapshot, changes, a rollback of it
  and an overlapping call.
* Network: two connections under way for one id, a stale connection removed while a third is made,
  and two shutdowns beside each other all fit.
* Automatic discovery: with timeout 1 an entry is fresh, expired, and expired for a clean-up that
  waited. An entry may be passed on, removed, and come back from the other node, which is all that
  a third node could do to it as well; one datagram in flight already overtakes a clean-up, and
  the loss of all others is among the behaviours. What does not depend on the number of nodes and
  datagrams, the three safety properties, is proved.
* Signaling: with capacity 1 and 3 lines a channel is empty, full and run over. Two clients register
  under each other's ids, so that a connection loses its id before and after it is closed.
* Peer discovery: two callers, so that one discovers while the other waits to write.

`CHECK_DEADLOCK` is off where calls are bounded and the system may therefore stop
(`ScriptState`, `AccountExecution`, `P2PNetwork`, `Signaling`), and in `PeerDiscovery`, where the
code really gets stuck and `AllAreServed` says how; elsewhere deadlock is checked.
Symmetry is only used over names the specification and instance do not tell apart, in runs with
safety properties only.

### Fairness

The network modules state fairness, because only there something must happen by itself.

**`P2PNetwork`.** `WF(ReceiveSignal)`: the thread in `start` waits for the signal and nothing disables it.
`SF(Proceed(p))`: a call that has begun goes on. A send ends by its ten second timeout; tokio's
`RwLock` is fair, so that who waits for it gets it although others come and go, and the scheduler
polls every task. Closing a connection is assumed to return. `SF(Maintain)`: the maintenance task
runs on its timer once it is spawned. Nobody is assumed to begin a call, to connect successfully,
to call `start`, or to shut down. The message task, which blocks a worker thread (below), does not
starve the others on a runtime with several threads.

**`AdaptiveNetwork`.** `WF(Tick)`: time goes by. `WF(SpawnTasks)`, `WF(Listen)`, `WF(Maintain)`: tokio
polls every task that can run. `SF(GetsThrough(n, m))`: of the announcements that node `n` sends to
node `m` again and again, now and then one arrives. That is the usual assumption on a lossy
channel; the code repeats its announcements every 15 seconds and relies on it. The action is not
enabled while `m` is on none of the six ports, and so `LiveAreFound` promises nothing to a node
there, such as one with the default port of the command line, 8080: it is found, and finds nobody
by announcements. Nothing is assumed
of requests and responses, of how they are ordered against clean-ups, or of starts and stops. The
answer a node gives to its own request may be on its way across a clean-up and bring back what that
removed. Were it so at every clean-up, nothing would ever be forgotten, so `LoneForgets` is for
nodes where now and then a clean-up takes place with no answer on its way.

**`Signaling`.** `WF(Handle(c))` and `WF(WriterStep(c))`: tasks are polled. A write to a client that does
not read may never return, so `Write` is not enabled for a stalled one; a write to one that hung up
fails in the end.

**`PeerDiscovery`.** `WF(Advance(t))`: who is next for the lock gets it, as tokio's RwLock is fair.
Nobody is assumed to ask for it.

## 4. The proofs

Every safety property of a passing run is a theorem, proved by TLAPS for all values of the constants
that satisfy the named assumptions of the modules, which TLC evaluates in the runs; and so are the
three refinements of abstract specifications. Three theorems have a hypothesis besides, named below.

A few components share a proof module, which then extends them all; their definitions have names of
their own for that (`SignalingSpec`, `DiscoverySpec`, `ManagerSpec`).

* **`SettlementProofs`.** `SettlementTypeOK` by one step per action; the one that needs work is
  finalising, where the history is extended by results in an unknown order (`FinalisableResult`,
  `AppendedResults`). `ChallengeHolds`: `ChallengeHoldsBatch` is not inductive. A batch submitted
  again loses its flag, and the old challenge must then be seen not to be newer than the
  submission; that needs `NothingFromTheFuture` (no submission or challenge is dated later than the
  clock). The inductive invariant is `HoldInv == TypeOK /\ NothingFromTheFuture /\
  ChallengeHoldsBatch`. `NotSettledOverLiveChallenge` follows from it for every step. `RootCommits`
  and `SettledIsLatest`, which contains the types, are inductive with them; in the latter a batch may be in the history
  many times, and the results finalised together in any order.
  `SettlementImplementsRollup`: each action maps to an action of `RollupFinality` or a stutter
  (`RollupStep`), under the types.
* **`UtxoExecutionProofs`.** Who says that no UTXO is spent twice, when ids could come back? What is
  dead must stay dead, so the invariant follows where each UTXO came from. A set has a story, the
  UTXOs that died in it (`Lineage`): whatever is or was in it came from a genesis or coinbase call that
  was made, or from a transaction with a dead input, and nothing dead is in the set. `Fine` adds that
  UTXOs are as their transactions made them, and that the total and what was forged are together their
  sum. `Told` says that the
  receipts lead from the set at the beginning to the present one, and `SpentOnce` that inputs of a
  later receipt are new to earlier ones. `IInv` says it of the present set, of each set a rollback
  can bring back, of the context and of the last batch. `SpendsAreUnique`, `ReceiptsAccountForSet`
  and `TotalIsAlwaysSum` follow, and `SupplyIsAlwaysExplained` from the same step lemmas.
  `ExecutionImplementsLedger` rests on the same invariant. That what a transaction makes is new needs
  no checking in the code, which inserts blindly: an id that comes again would overwrite a coin, but
  `Fine` says that the coin there is the very same (`ProcessMoves`), so that a `Move` neither changes
  a coin nor makes value, and moves one after the other are one move (`MovesCompose`, `BatchMoves`).
  That a mint is new follows from its call being made once (`CallsMint`).
  None of the theorems assumes that a transaction lists an input once. `SpendsAreUnique` is about two
  transactions; one that lists a UTXO twice spends it once and is paid twice, and `forged` is by how
  much, in `TotalIsAlwaysSum`, in the steps of `SupplyIsAlwaysExplained` (`MovesWithoutGain`) and in the
  refinement.
  `SpendsAreUnique` needs `EveryTxSpends`, since two transactions without inputs may make the same id again after it was
  spent; the code admits them, and the other theorems do too. `TotalIsAlwaysSum` needs
  `GenesisCounted`, that genesis is accepted or refused at its first entry: with another list it is
  false of the code (section 5).
* **`UtxoConsensusProofs`.** `add_utxo_block` checks nothing, so why do the blocks form a tree?
  Because what callers hold was built on the chain: `HandsExtend` says that the template and each
  mined block extend a block that is there, and `GenesisStays` and `Chain` that blocks never go.
  With them, `BlocksFormTree`, of which `TipIsCurrent` is a part, is inductive (`IInv`, lemma
  `Inductive`), restarts
  included: a restart sets the slot clock back and drops what was in hand, and the next template
  still takes a slot after the tip's. `CanonicalGrows` needs the same invariant.
  `TransactionsMinedOnce` rests on `OnePlace`: a transaction waits, is with a caller, is in the template,
  in a mined block in hand, or in a stored block, in one of these and in no two blocks. `TipBlockStaysValid` rests on `HandsFit` (what is in hand fits in a block and
  is dated before now), and needs `TakeLimit <= MaxTxs`: a caller that takes more than a block may hold
  gets blocks that validation refuses.
* **`NodeProofs`.** `GenesisOnce`: a transaction succeeds only by using up the genesis UTXO
  (`ExecuteSpendsGenesis`), and the genesis is made only in a process that found no stored state.
  `IInv` relates the two: without a stored state nothing was executed, and while the genesis UTXO
  is in memory nothing succeeded. It holds over any number of processes and failing writes.
  `AnswersAreStored`, `StoredChainOnlyGrows` and `TipAlwaysKnown` share the invariant `Sound` on memory
  and disk: the stored chain is a prefix of the one in memory, so that saving extends it
  (`StoredIsPrefix`); the stored tip is stored with its block, at the height and slot beside it,
  unless saving that block gave an error (`StoredTipIsStored`); the block in hand is saved, or counted
  as unsaved, before a chain names it (`HandIsSaved`). The types of the UTXO set need `UtxoOK`:
  the genesis UTXO, while it is there, is all of the total, so that no subtraction goes below zero.
  `ChainStaysLinear` needs more about blocks that may never be added, or never be loaded: `InLine`. A
  chain is `Straight` when it is linear, its height counts it, its slot is none before those of its
  blocks and it names nothing twice; the one in memory is, and the one that would be restored now.
  What is stored of the chain in memory is known to the process, with the same contents (`StoredIsKnown`),
  so that a state saved now is one restored straight (`SavedIsStraight`), gaps and all
  (`LessKnownIsStraight`). And the block in hand fits the tip, and its transfer was not answered yet
  (`HandFits`). `NodeImplementsLog` follows from `Sound` and `InLine`, one lemma per step that is
  not a stutter; a transfer that is dropped is answered all the same, and is the case where `Sound` is
  needed: the tip was in doubt then.
* **`DataAvailabilityProofs`.** `StaleAnswersHaveDates` is not inductive: between two lock sections an
  answer is in no cache, and a clean-up cannot drop it. `CallsDated` says the same of the answers on
  their way, and adds that none is dated later than the clock. `StoreIsAvailable` is `TreeIsStore` and
  `StoreIsReplicated`, for data stored twice and clean-ups that lose any of their locks.
  `SiblingsLeadUp` is about the Merkle tree, for any number of leaves: levels halve down to one node, an
  odd one out moves up as it is, and so the hash on the way up from a leaf is, on each level, the
  node above it (`OneLevelUp`). `FirstLeafProves` is about `verify_proof`, which joins every sibling on
  the right: on the way up from the first leaf all of them are, so that its proof is accepted. Of the
  others nothing is said, and nothing is asked of the data, such as that the hash of a pair be no
  leaf. `ProofsAreSiblings` puts the two together for the trees that stores and clean-ups leave:
  the siblings of every datum that is kept lead to the present root, and the oldest is verified.
* **`AccountExecutionProofs`.** `MoneyIsNeverMade` and `ScriptsAndStatesAgree`. `process_transaction`
  undoes nothing when it fails in the middle, and a batch is a fold of it, so each must be kept by
  every prefix of every transaction: `Worlds` is the set of tables in which the money is what new
  senders were given, scripts and states have the same hashes, and each size is that of its
  entries. `DoneKeeps`, `ProcessKeeps` and `BatchKeeps` say that transactions and batches lead from
  `Worlds` to `Worlds`. The second half is about `ScriptState`. `ManagerKeepsSizes`: sizes are right in
  the states, in snapshots, in exports and in what calls carry between lock sections (`MTypes`), so
  overlapping calls tear scripts from states but never a size from its entries; what is imported
  from elsewhere is right by `ForeignAssumption`.
  `ManagerKeepsStates`: as long as nothing overlapped, whoever is in the middle of a call is alone, and
  its record says by what scripts and states differ (`Half`, `Agreement`).
* **`P2PNetworkProofs`.** `SendsAreSafe` and `TableStaysClean`, for any number of
  threads, peers and connections. Guards are modelled by the calls that hold them, so that mutual
  exclusion is a fact to be proved: `Inv` adds to the properties `OnlyMade` (a connection in use is
  one that was made) and `HeldApart` (a connection that is being made or closed is not in the table
  and not that of another call). Actions are grouped by what they may disturb (`QuietStep`,
  `StillStep`, `MakingStep`, `ClosingStep`).
  `SignalingHasNoGaps`: what is written to a client is a beginning of what was
  sent to it, and the count of connections is the number of handlers between start and end, for
  any number of clients, ids and capacity. That lagging ends the writer is what it rests on.
  `DiscoveryTypes` and `StuckForEver` are about the lock of the discovery service, for any number of
  tasks: guards are kept by who discovers, or answers and does not wait (`IInvOfLock`), and who is
  stuck stays so, `[](Stuck => []Stuck)`, since only the head of the queue is served and no writer over
  a guard.
* **`AdaptiveNetworkProofs`.** `HearsayStaysHearsay`, which contains the types, and `OnlyRaces`, for any number of
  nodes, datagrams in flight, timeout and wait. A response is a copy of a table at some time, and the
  table it is merged into has moved on since; that no copy is younger than the last sighting is
  kept because everything in the tables, in the network and in `seen` grows older by the same step,
  and ages stop at the same bound. The inductive invariant, `IInv`, says it of tables and of
  responses, and adds that a node is not in its own table, that datagrams are addressed to nodes
  that listen, and that a node that is down knows nobody (`DInv`, `ProcessType`). `OnlyRaces` is
  then a case split over the steps that take an entry away.

Sums and folds take a step of their own. The community modules define a fold as a function chosen on
subsets, or on positions; the library's induction theorems take an operator, which no prover here can
instantiate. The proofs state the property as a set of numbers, count up in it (`CountUp`, by a
least counterexample), get that the function exists, and that the result does not depend on the
order (`AnyOrder`). Sums then change by what is put in or taken out (`SumPut`, `SumWithout`, and for
UTXOs `Worth`).

Only model-checked: liveness (`ShutdownEnds`, `CountHeals`, `LiveAreFound`, `LoneForgets`,
`SlowClientsBlockNobody`, `SentIsWritten`, `NoWriterIsLeftBehind`, `AllAreServed`), which is beyond the
prover. Of the last, `StuckForEver` is the part without fairness.

## 5. Where the code and its description part

One run is meant to fail (`findings` in `PROJECT.json`). `crates/p2p-network/src/auto_discovery.rs:262`
says "Remove peers not seen for 5 minutes". A `PeerResponse` carries entries of any age, and they are
merged as they are (`auto_discovery.rs:219`). In `MCDiscoveryForgets` two nodes know a peer that is
gone; each cleans up in turn, asks the other, and gets the entry back before the other cleans up.
It goes on for ever, with no race: no answer is on its way at any clean-up, every node runs, and
every maintenance task is alive.

The models reproduce other behaviour that a reader may not expect. The passing properties are
stated so that they hold of it.

* A challenge that timed out leaves its batch marked as challenged
  (`crates/settlement/src/lib.rs:149`, "challenger loses"), so that the batch is never settled
  unless it is submitted again.
* After a restart the node executes on an empty UTXO set (`src/main.rs:288`), although
  `src/main.rs:27` speaks of persistent storage. Transfers fail from then on, are mined and
  reported all the same, and the total supply that is stored becomes 0.
* `rollback_execution` of the account layer (`crates/execution/src/lib.rs:550`) clears the context
  and restores nothing, although `README.md:15` speaks of rollback capabilities.
* A settled batch may be submitted and settled again with other contents; the table keeps the last.
* `rollback_utxo_execution` pops the last committed set even when nothing was begun; without any
  history it leaves what the context did.
* A genesis list rejected half way leaves the entries before the bad one in the set and out of the
  total. The instance uses a list that fails at its first entry, where this does not show.
* Blocks mined on one tip and both added follow one another in `canonical_chain`, although the
  second is not a child of the first; the height may then go down (`TipIsCurrent` still holds).
* The node mines and answers transactions whose receipts say that they failed.
* Blocks of contract calls are not stored, and a restart skips blocks it does not find.
* `verify_proof` takes every sibling for a right one (`crates/data-availability/src/lib.rs:296`). The
  proofs of the first leaf are accepted, those of the others refused in general, although
  `lib.rs:8`, `:80` and `:920` and `README.md:29` speak of the verification of proofs. No property asks
  for this: the siblings in a proof are right (`ProofsHoldSiblings`), and would do for a
  verification that knew the position.
* A transaction that lists a UTXO twice is accepted and may pay out twice what the UTXO holds
  (`crates/execution/src/execution_engine.rs:224`); `total_value` then falls behind what the set holds
  (`:321`). It wraps around, or panics, when it would fall below zero. `TotalIsSum`,
  `SupplyIsExplained` and `ImplementsLedger` account for it by `forged`.
* Nobody announces itself to a node whose port is none of the six discovery ports, and the default
  port of the command line is none (`src/main.rs`: 8080, and so 9080 for discovery). Two such nodes
  learn of each other only by asking a third that is on one of them.
* `import_state` replaces scripts and states by whatever it is given
  (`crates/execution/src/script_state.rs:339`), sizes that are wrong and states without scripts included.
* A negative verification cached before a datum was stored is answered after it was stored.
* A verification may insert its answer after a clean-up removed the datum from the cache; the answer
  lives for 300 seconds from the time its call began (`StaleAnswersAreDated`).
* Peers' statistics are dropped after a day although the peers stay connected, and not made again.
* Snapshots of one height made in one second share an id, and a rollback takes the oldest.
* Overlapping calls can leave a script without a state, or a state without a script, for good.
* `execute_transaction` leaves `state_root` as it was; a transfer with too little gas is reported as
  failed and moves the money; a script call takes its success from the script whatever its gas.
* `max_peers` of the network limits no connection. A second connection to an id replaces the first one
  without closing it, and both are counted until the next maintenance.
* `start_message_processing_task` locks one mutex twice in one statement and blocks, so that no
  received message is ever processed; the model leaves that task out.
* A second `shutdown` of a network that was never started waits for ever; `ShutdownEnds` speaks of
  a network that was started.
* An entry made while a clean-up waits for the table is removed by it (or ends the maintenance task
  for good, in a build that checks for overflow): a u64 subtraction (`auto_discovery.rs:262`,
  `OnlyRacesDropFresh`).
* A node answers its own request, if its port is one of the discovery ports.
* The signaling server removes at a disconnection an id that was never registered
  (`signaling.rs:234`, "Clean up peer on disconnect"); the registration under the client's own id
  stays until another client takes it, and messages to it are put into a channel that nobody reads.
* A signaling client that fell behind by more than the capacity is not told: its writer ends, and it
  stays connected and registered.
* `discover_peers` sleeps "for responses" (`discovery.rs:307`) with a read guard in hand, so that no
  response can be recorded meanwhile; it then asks for a second guard, and is stuck for ever, and
  everybody after it, if a response, an announcement or the clean-up waits for the table by then.

## 6. What is not modelled

* Contents that no property tells apart: hashes, signatures, scripts, WASM, gas amounts, latency,
  reputation, penalties, event texts.
* The script engine (sequential, its answers are inputs),
  traits and command line parsing (declarations), benchmarks, examples and shell scripts.
* The copying of discovered peers into the DHT by `start_adaptive`: the DHT is a map that is filled
  and whose size is logged. The connection pool of `discovery.rs`: nothing fills it. Pings there: a
  ping waits 100 milliseconds and takes no lock.
* The account-based consensus layer (`crates/consensus/src/lib.rs`): nothing constructs it, and what
  can go wrong in it, blocks added on one another in any order, is checked on the eUTXO layer.
* Addresses, ports and the contents of messages in discovery and signaling; the notice of a
  disconnection, which goes to a channel without receivers.
* The HD wallet of the node: each process makes a new one, and addresses do not matter to spending.
* Clocks that go back, and u64 that wrap around, but for the ages in the clean-up of automatic
  discovery: amounts and times are natural numbers. Where the code subtracts, the type invariants show
  that the result is not negative; the exception is `total_value` of the eUTXO layer after an input
  was listed twice, which is an integer in the model.
* A challenge or batch that is the same as another by a collision of hashes.

## 7. The plan

Modules were written in the order of what the program depends on most:

1. Settlement with its abstract specification, and its proofs (done).
2. The eUTXO ledger and execution; the chain and consensus, with proofs; the node that composes
   ledger, chain and database, with a proof (done).
3. Data availability on top of the Merkle tree; script state manager and the account layer that
   shares its store; the network, with proofs (done).
4. Automatic discovery and the adaptive network, with proofs; the signaling server, with a proof;
   the discovery service around its lock (done).
5. An abstract ledger that `UtxoExecution` implements, and an abstract log that `Node` implements, with
   proofs (done).

What could come next: the node over blocks with several transactions, once `send_transaction` mines
them; and `UtxoConsensus` as an abstraction of what `Node` does with its chain, for which the two would
have to agree on when a template is made.
