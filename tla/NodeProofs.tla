----------------------------- MODULE NodeProofs -----------------------------
(***************************************************************************)
(* Proofs about the node: for any transactions, number of commands and     *)
(* restarts, with a database that may fail at every write.                 *)
(***************************************************************************)
EXTENDS Node, TLAPS

GenesisId == <<GenesisTx, 0>>

\* Until a state is stored nothing was executed; while the genesis UTXO is in
\* the set nothing was executed with success.
IInv ==
  /\ phase \in {Down, Loaded} => GenesisId \notin DOMAIN utxo_set.utxos
  /\ GenesisId \in DOMAIN utxo_set.utxos => succeeded = {}
  /\ disk.state = None => succeeded = {} /\ phase \in {Down, Loaded}
  /\ DOMAIN disk = {"state", "blocks"}
  /\ GenesisSpentOnce

LEMMA EmptyHasNoGenesis == GenesisId \notin DOMAIN Ledger!EmptySet.utxos
BY DEF Ledger!EmptySet

LEMMA SnapshotIsNotNone == \A set, cs : Snapshot(set, cs) # None
<1>1. \A set, cs : "height" \in DOMAIN Snapshot(set, cs)
  BY DEF Snapshot
<1>2. "height" \notin DOMAIN None
  BY DEF None
<1> QED BY <1>1, <1>2

\* A transaction succeeds only on the genesis UTXO, and uses it up.
LEMMA ExecuteSpendsGenesis ==
  ASSUME NodeAssumption, NEW t \in Txs, Execute(t)
  PROVE  \/ /\ utxo_set' = utxo_set
            /\ succeeded' = succeeded
         \/ /\ GenesisId \in DOMAIN utxo_set.utxos
            /\ GenesisId \notin DOMAIN utxo_set'.utxos
            /\ succeeded' = succeeded \cup {t}
<1> DEFINE done == Ledger!Process(utxo_set, 0, t)
<1>1. /\ utxo_set' = done.set
      /\ succeeded' = IF done.receipt.success THEN succeeded \cup {t} ELSE succeeded
  BY DEF Execute
<1>2. done.receipt.success = Ledger!Valid(utxo_set, 0, t)
  BY DEF Ledger!Process
<1>3. done.set = IF Ledger!Valid(utxo_set, 0, t) THEN Ledger!Apply(utxo_set, t) ELSE utxo_set
  BY DEF Ledger!Process
<1>4. Ledger!Inputs(t) = {GenesisId}
  <2>1. NodeBody[t].inputs = <<GenesisId>>
    BY DEF NodeBody, GenesisId
  <2>2. DOMAIN <<GenesisId>> = {1} /\ <<GenesisId>>[1] = GenesisId
    OBVIOUS
  <2> QED BY <2>1, <2>2 DEF Ledger!Inputs, Ledger!ToSet
<1>5. GenesisId \notin Ledger!Created(t)
  <2>1. t # GenesisTx
    BY DEF NodeAssumption
  <2> QED BY <2>1 DEF Ledger!Created, GenesisId
<1>6. ASSUME Ledger!Valid(utxo_set, 0, t)
      PROVE  /\ GenesisId \in DOMAIN utxo_set.utxos
             /\ GenesisId \notin DOMAIN Ledger!Apply(utxo_set, t).utxos
  <2>1. GenesisId \in DOMAIN utxo_set.utxos
    BY <1>4, <1>6 DEF Ledger!Valid, Ledger!Ids
  <2>2. DOMAIN Ledger!Apply(utxo_set, t).utxos =
          (Ledger!Ids(utxo_set) \ Ledger!Inputs(t)) \cup Ledger!Created(t)
    BY DEF Ledger!Apply
  <2> QED BY <2>1, <2>2, <1>4, <1>5
<1> HIDE DEF done
<1>7. CASE Ledger!Valid(utxo_set, 0, t)
  BY <1>1, <1>2, <1>3, <1>6, <1>7
<1>8. CASE ~Ledger!Valid(utxo_set, 0, t)
  BY <1>1, <1>2, <1>3, <1>8
<1> QED BY <1>7, <1>8

LEMMA ExecuteKeeps ==
  ASSUME NodeAssumption, IInv, phase = Ready, NEW t \in Txs, Execute(t),
         UNCHANGED disk, phase' \notin {Down, Loaded}
  PROVE  IInv'
<1>1. \/ utxo_set' = utxo_set /\ succeeded' = succeeded
      \/ /\ GenesisId \in DOMAIN utxo_set.utxos
         /\ GenesisId \notin DOMAIN utxo_set'.utxos
         /\ succeeded' = succeeded \cup {t}
  BY ExecuteSpendsGenesis
<1>2. disk.state # None
  BY DEF IInv, Ready, Down, Loaded
<1> QED BY <1>1, <1>2 DEF IInv, GenesisSpentOnce

-----------------------------------------------------------------------------
\* The genesis UTXO is spent at most once, however often the node stops,
\* starts, and fails to write: it is made again only as long as nothing that
\* was executed could have been stored.
THEOREM GenesisOnce == Spec => []GenesisSpentOnce
<1> USE NodeAssumption
<1>1. Init => IInv
  BY EmptyHasNoGenesis DEF Init, IInv, GenesisSpentOnce, Down
<1>2. IInv /\ [Next]_vars => IInv'
  <2> SUFFICES ASSUME IInv, [Next]_vars PROVE IInv'
    OBVIOUS
  <2>1. CASE Start
    BY <2>1, EmptyHasNoGenesis
      DEF Start, IInv, GenesisSpentOnce, Down, Loaded
  <2>2. CASE Stop
    BY <2>2, EmptyHasNoGenesis DEF Stop, IInv, GenesisSpentOnce, Down
  <2>3. CASE InitializeGenesis
    <3>1. CASE disk.state # None
      BY <2>3, <3>1 DEF InitializeGenesis, IInv, GenesisSpentOnce, Ready, Down, Loaded
    <3>2. CASE disk.state = None
      <4>1. disk'.state # None /\ DOMAIN disk' = {"state", "blocks"}
        BY <2>3, <3>2, SnapshotIsNotNone DEF InitializeGenesis, IInv
      <4> QED
        BY <2>3, <3>2, <4>1 DEF InitializeGenesis, IInv, GenesisSpentOnce, Ready, Down, Loaded
    <3> QED BY <3>1, <3>2
  <2>4. CASE GenesisNotSaved
    <3>1. DOMAIN disk' = {"state", "blocks"}
      BY <2>4 DEF GenesisNotSaved, Write, IInv
    <3> QED
      BY <2>4, <3>1, EmptyHasNoGenesis DEF GenesisNotSaved, IInv, GenesisSpentOnce, Down
  <2>5. ASSUME NEW t \in Sends, RefuseSend(t) PROVE IInv'
    BY <2>5 DEF RefuseSend, Begin, IInv, GenesisSpentOnce
  <2>6. ASSUME NEW t \in Sends, NEW s \in Slots, SendTransaction(t, s) PROVE IInv'
    <3>1. phase = Ready /\ Execute(t) /\ UNCHANGED disk /\ t \in Txs
      BY <2>6 DEF SendTransaction, Begin, Txs
    <3>2. phase' \in {Ready, Mined}
      BY <2>6, <3>1 DEF SendTransaction
    <3>3. phase' \notin {Down, Loaded}
      BY <3>2 DEF Ready, Mined, Down, Loaded
    <3> QED BY <3>1, <3>3, ExecuteKeeps
  <2>7. CASE SaveBlock
    <3>1. disk'.state = disk.state /\ DOMAIN disk' = {"state", "blocks"}
      BY <2>7 DEF SaveBlock, Write, IInv
    <3> QED BY <2>7, <3>1 DEF SaveBlock, IInv, GenesisSpentOnce, Mined, Saved, Down, Loaded
  <2>8. CASE AddBlock
    <3>1. disk.state # None
      BY <2>8 DEF AddBlock, IInv, Saved, Down, Loaded
    <3>2. disk'.state # None /\ DOMAIN disk' = {"state", "blocks"}
      BY <2>8, <3>1, SnapshotIsNotNone DEF AddBlock, Write, IInv
    <3> QED BY <2>8, <3>2 DEF AddBlock, IInv, GenesisSpentOnce, Saved, Ready, Down, Loaded
  <2>9. ASSUME NEW t \in Calls, NEW s \in Slots, CallContract(t, s) PROVE IInv'
    <3>1. phase = Ready /\ Execute(t) /\ UNCHANGED <<disk, phase>> /\ t \in Txs
      BY <2>9 DEF CallContract, Begin, Txs
    <3> QED BY <3>1, ExecuteKeeps DEF Ready, Down, Loaded
  <2>10. CASE UNCHANGED vars
    BY <2>10 DEF vars, IInv, GenesisSpentOnce
  <2> QED BY <2>1, <2>2, <2>3, <2>4, <2>5, <2>6, <2>7, <2>8, <2>9, <2>10 DEF Next
<1>3. IInv => GenesisSpentOnce
  BY DEF IInv
<1> QED BY <1>1, <1>2, <1>3, PTL DEF Spec

-----------------------------------------------------------------------------
(***************************************************************************)
(* What is stored and what the process knows.  The stored chain is a       *)
(* prefix of the chain in memory, so saving the state extends it; and what *)
(* the next process restores is again current at its tip, because a tip    *)
(* that gave no error when it was saved is stored with its block, at the   *)
(* height and the slot beside it.  A block is saved before the state that  *)
(* names it, and its hash is in no chain before it is added.               *)
(***************************************************************************)
Blocks == [parent : Txs \cup {GenesisHash, NoParent}, number : Nat, slot : Nat]

Named(canonical) == \A i \in DOMAIN canonical : canonical[i] \in built \cup {GenesisHash}

DiskOK ==
  /\ disk = [state |-> disk.state, blocks |-> disk.blocks]
  /\ disk.state # None =>
       /\ disk.state.canonical \in Seq(Txs \cup {GenesisHash})
       /\ disk.state.height \in Nat /\ disk.state.slot \in Nat
       /\ Named(disk.state.canonical)
  /\ DOMAIN disk.blocks \subseteq Sends
  /\ \A h \in DOMAIN disk.blocks : disk.blocks[h] \in Blocks

ChainOK == ChainType(chain) /\ GenesisHash \in DOMAIN chain.blocks /\ Named(chain.canonical)

HandOK ==
  /\ phase \in {Mined, Saved} <=> hand # None
  /\ hand # None =>
       /\ hand.tx \in Sends \cap built /\ hand.block \in Blocks
       /\ \A i \in DOMAIN chain.canonical : chain.canonical[i] # hand.tx

SetsOK ==
  /\ phase \in Phases
  /\ answered \subseteq built /\ succeeded \subseteq built /\ unsaved \subseteq built
  /\ built \subseteq Txs

NewIsNew == phase = Loaded /\ disk.state = None => chain = NewChain

StateIsThere == disk.state = None => phase \in {Down, Loaded}

StoredIsPrefix ==
  phase # Down /\ disk.state # None => IsPrefixOf(disk.state.canonical, chain.canonical)

StoredTipIsStored ==
  disk.state # None /\ Tip(disk.state) \notin unsaved =>
    \/ /\ Tip(disk.state) = GenesisHash
       /\ disk.state.height = 0 /\ disk.state.slot = 0
    \/ /\ Tip(disk.state) \in DOMAIN disk.blocks
       /\ disk.state.height = disk.blocks[Tip(disk.state)].number
       /\ disk.state.slot = disk.blocks[Tip(disk.state)].slot

HandIsSaved ==
  phase = Saved /\ hand.tx \notin unsaved =>
    hand.tx \in DOMAIN disk.blocks /\ disk.blocks[hand.tx] = hand.block

TipIsCurrentNow == phase # Down /\ Tip(chain) \notin unsaved => TipIsCurrent(chain)

\* The inductive invariant of the chain and the database.
Sound ==
  /\ DiskOK /\ ChainOK /\ HandOK /\ SetsOK /\ NewIsNew /\ StateIsThere
  /\ StoredIsPrefix /\ StoredTipIsStored /\ HandIsSaved /\ TipIsCurrentNow
  /\ AnsweredSendsAreStored

-----------------------------------------------------------------------------
LEMMA PrefixFacts ==
  ASSUME NEW S, NEW s \in Seq(S), NEW t \in Seq(S), NEW e \in S
  PROVE  /\ IsPrefixOf(s, s)
         /\ IsPrefixOf(t, Append(t, e))
         /\ IsPrefixOf(s, t) => IsPrefixOf(s, Append(t, e))
         /\ IsPrefixOf(s, t) => \A i \in DOMAIN s : i \in DOMAIN t /\ t[i] = s[i]
<1>1. /\ Append(t, e) \in Seq(S) /\ Len(Append(t, e)) = Len(t) + 1
      /\ \A i \in 1 .. Len(t) : Append(t, e)[i] = t[i]
      /\ Len(s) \in Nat /\ Len(t) \in Nat
      /\ DOMAIN s = 1 .. Len(s) /\ DOMAIN t = 1 .. Len(t)
  OBVIOUS
<1>2. \A n \in 0 .. Len(t) :
        /\ SubSeq(t, 1, n) \in Seq(S) /\ Len(SubSeq(t, 1, n)) = n
        /\ \A i \in 1 .. n : SubSeq(t, 1, n)[i] = t[i]
  BY <1>1
<1>3. \A n \in 0 .. Len(t) :
        /\ SubSeq(Append(t, e), 1, n) \in Seq(S) /\ Len(SubSeq(Append(t, e), 1, n)) = n
        /\ \A i \in 1 .. n : SubSeq(Append(t, e), 1, n)[i] = Append(t, e)[i]
  BY <1>1
<1>4. \A n \in 0 .. Len(t) : SubSeq(Append(t, e), 1, n) = SubSeq(t, 1, n)
  BY <1>1, <1>2, <1>3
<1>5. SubSeq(s, 1, Len(s)) = s /\ SubSeq(t, 1, Len(t)) = t
  OBVIOUS
<1>6. IsPrefixOf(s, t) => Len(s) \in 0 .. Len(t) /\ s = SubSeq(t, 1, Len(s))
  BY <1>1 DEF IsPrefixOf
<1> QED BY <1>1, <1>2, <1>4, <1>5, <1>6 DEF IsPrefixOf

\* What the template mined on the tip is, wherever that is.
LEMMA TemplateFits ==
  ASSUME NodeAssumption, ChainOK, SetsOK, NEW s \in Slots
  PROVE  /\ Template(chain, s) \in Blocks
         /\ TipIsCurrent(chain) => ExtendsParent(chain, Template(chain, s))
<1>1. Tip(chain) \in Txs \cup {GenesisHash}
  BY DEF Tip, ChainOK, ChainType
<1>2. chain.height \in Nat /\ chain.slot \in Nat /\ s \in Nat
  BY DEF ChainOK, ChainType, NodeAssumption
<1>3. Later(chain.slot + 1, s) \in Nat /\ Later(chain.slot + 1, s) > chain.slot
  BY <1>2 DEF Later
<1> QED BY <1>1, <1>2, <1>3 DEF Template, Blocks, ExtendsParent, TipIsCurrent

\* A pushed block is at the tip, and the chain was a prefix of what it is now.
LEMMA PushFits ==
  ASSUME NodeAssumption, ChainOK, SetsOK, NEW t \in Txs, NEW block \in Blocks,
         built \subseteq built', t \in built', chain' = Push(chain, t, block)
  PROVE  /\ ChainOK'
         /\ Tip(chain') = t /\ TipIsCurrent(chain')
         /\ chain'.canonical = Append(chain.canonical, t)
         /\ chain'.height = block.number /\ chain'.slot = block.slot
         /\ chain'.blocks[t] = block
<1> DEFINE seq == Append(chain.canonical, t)
<1>1. /\ chain'.canonical = seq
      /\ DOMAIN chain'.blocks = DOMAIN chain.blocks \cup {t}
      /\ chain'.blocks[t] = block
      /\ \A h \in DOMAIN chain.blocks \ {t} : chain'.blocks[h] = chain.blocks[h]
      /\ chain'.height = block.number /\ chain'.slot = block.slot
  BY DEF Push
<1>2. chain.canonical \in Seq(Txs \cup {GenesisHash})
  BY DEF ChainOK, ChainType
<1>3. /\ seq \in Seq(Txs \cup {GenesisHash}) /\ Len(seq) = Len(chain.canonical) + 1
      /\ seq[Len(seq)] = t /\ seq # <<>>
      /\ DOMAIN seq = DOMAIN chain.canonical \cup {Len(seq)}
      /\ \A i \in DOMAIN chain.canonical : seq[i] = chain.canonical[i]
  BY <1>2
<1> HIDE DEF seq
<1>4. Tip(chain') = t
  BY <1>1, <1>3 DEF Tip
<1>5. TipIsCurrent(chain')
  BY <1>1, <1>4 DEF TipIsCurrent
<1>6. Named(chain.canonical)'
  BY <1>1, <1>3 DEF ChainOK, Named
<1>7. ChainType(chain')
  <2>1. block.number \in Nat /\ block.slot \in Nat
    BY DEF Blocks
  <2>2. \A h \in DOMAIN chain'.blocks : chain'.blocks[h] \in Blocks
    BY <1>1 DEF ChainOK, ChainType, Blocks
  <2> QED BY <1>1, <1>3, <2>1, <2>2 DEF ChainOK, ChainType, Blocks
<1> QED BY <1>1, <1>4, <1>5, <1>6, <1>7 DEF ChainOK, seq

LEMMA NewChainFits ==
  ASSUME NodeAssumption
  PROVE  /\ ChainType(NewChain) /\ GenesisHash \in DOMAIN NewChain.blocks
         /\ Named(NewChain.canonical)
         /\ Tip(NewChain) = GenesisHash /\ TipIsCurrent(NewChain)
         /\ NewChain.height = 0 /\ NewChain.slot = 0
<1>1. /\ NewChain.canonical = <<GenesisHash>> /\ NewChain.height = 0 /\ NewChain.slot = 0
      /\ DOMAIN NewChain.blocks = {GenesisHash}
      /\ NewChain.blocks[GenesisHash] = GenesisBlock
  BY DEF NewChain
<1>2. Tip(NewChain) = GenesisHash
  BY <1>1 DEF Tip
<1>3. NewChain.canonical \in Seq(Txs \cup {GenesisHash})
  BY <1>1
<1>4. \A i \in DOMAIN NewChain.canonical : NewChain.canonical[i] = GenesisHash
  BY <1>1
<1> QED
  BY <1>1, <1>2, <1>3, <1>4 DEF ChainType, TipIsCurrent, GenesisBlock, Named

\* What a process restores is current at its tip, if that was saved.
LEMMA RestoredFits ==
  ASSUME NodeAssumption, DiskOK, SetsOK, StoredTipIsStored, disk.state # None
  PROVE  /\ ChainType(RestoredChain) /\ GenesisHash \in DOMAIN RestoredChain.blocks
         /\ RestoredChain.canonical = disk.state.canonical
         /\ Tip(RestoredChain) \notin unsaved => TipIsCurrent(RestoredChain)
<1> DEFINE known == Range(disk.state.canonical) \cap DOMAIN disk.blocks
<1>1. PICK cs : cs = RestoredChain
  OBVIOUS
<1>2. /\ cs.canonical = disk.state.canonical
      /\ cs.height = disk.state.height /\ cs.slot = disk.state.slot
      /\ DOMAIN cs.blocks = known \cup {GenesisHash}
      /\ \A h \in known : cs.blocks[h] = disk.blocks[h]
      /\ GenesisHash \notin known => cs.blocks[GenesisHash] = GenesisBlock
  BY <1>1 DEF RestoredChain
<1>3. known \subseteq Sends /\ GenesisHash \notin known
  BY DEF DiskOK, NodeAssumption, Txs
<1>4. Tip(cs) = Tip(disk.state)
  BY <1>2 DEF Tip
<1>5. disk.state.canonical \in Seq(Txs \cup {GenesisHash})
  BY DEF DiskOK
<1>6. Tip(cs) = GenesisHash \/ Tip(cs) \in Range(disk.state.canonical)
  <2>1. disk.state.canonical # <<>> =>
          Len(disk.state.canonical) \in DOMAIN disk.state.canonical
    BY <1>5
  <2> QED BY <1>4, <2>1 DEF Tip, Range
<1>7. ChainType(cs)
  <2>1. \A h \in DOMAIN cs.blocks : cs.blocks[h] \in Blocks
    BY <1>2, <1>3 DEF DiskOK, GenesisBlock, Blocks
  <2> QED BY <1>2, <1>3, <1>5, <2>1 DEF ChainType, DiskOK, Blocks, Txs
<1>8. Tip(cs) \notin unsaved => TipIsCurrent(cs)
  <2> SUFFICES ASSUME Tip(cs) \notin unsaved PROVE TipIsCurrent(cs)
    OBVIOUS
  <2>1. CASE Tip(cs) = GenesisHash
    <3>1. GenesisHash \notin DOMAIN disk.blocks
      BY DEF DiskOK, NodeAssumption, Txs
    <3>2. cs.height = 0 /\ cs.slot = 0
      BY <1>2, <1>4, <2>1, <3>1 DEF StoredTipIsStored
    <3> QED BY <1>2, <1>3, <2>1, <3>2 DEF TipIsCurrent, GenesisBlock
  <2>2. CASE Tip(cs) # GenesisHash
    <3>1. Tip(cs) \in known
      BY <1>4, <1>6, <2>2 DEF StoredTipIsStored
    <3> QED BY <1>2, <1>4, <2>2, <3>1 DEF TipIsCurrent, StoredTipIsStored
  <2> QED BY <2>1, <2>2
<1> QED BY <1>1, <1>2, <1>7, <1>8

-----------------------------------------------------------------------------
LEMMA InitSound ==
  ASSUME NodeAssumption, Init
  PROVE  Sound
<1>1. ChainOK
  BY NewChainFits DEF Init, ChainOK
<1>2. Down \in Phases /\ Down \notin {Loaded, Ready, Mined, Saved}
  BY DEF Down, Loaded, Ready, Mined, Saved, Phases
<1>3. DiskOK
  BY DEF Init, DiskOK
<1> QED
  BY <1>1, <1>2, <1>3
    DEF Init, Sound, HandOK, SetsOK, NewIsNew, StateIsThere, StoredIsPrefix,
        StoredTipIsStored, HandIsSaved, TipIsCurrentNow, AnsweredSendsAreStored

LEMMA StartSound ==
  ASSUME NodeAssumption, Sound, Start
  PROVE  Sound'
<1> USE DEF Sound
<1>1. /\ phase = Down /\ phase' = Loaded
      /\ chain' = IF disk.state = None THEN NewChain ELSE RestoredChain
      /\ UNCHANGED <<hand, ops, built, disk, answered, succeeded, unsaved>>
  BY DEF Start
<1>2. Loaded \in Phases /\ Loaded \notin {Down, Ready, Mined, Saved} /\ Down \notin {Mined, Saved}
  BY DEF Down, Loaded, Ready, Mined, Saved, Phases
<1>3. ChainOK' /\ TipIsCurrentNow' /\ StoredIsPrefix' /\ NewIsNew'
  <2>1. CASE disk.state = None
    <3>1. chain' = NewChain
      BY <1>1, <2>1
    <3>2. ChainOK'
      BY <1>1, <3>1, NewChainFits DEF ChainOK, Named
    <3>3. TipIsCurrentNow'
      BY <3>1, NewChainFits DEF TipIsCurrentNow
    <3> QED BY <1>1, <1>2, <2>1, <3>1, <3>2, <3>3 DEF StoredIsPrefix, NewIsNew
  <2>2. CASE disk.state # None
    <3>1. PICK cs : cs = RestoredChain
      OBVIOUS
    <3>2. /\ ChainType(cs) /\ GenesisHash \in DOMAIN cs.blocks
          /\ cs.canonical = disk.state.canonical
          /\ Tip(cs) \notin unsaved => TipIsCurrent(cs)
      BY <2>2, <3>1, RestoredFits
    <3>3. chain' = cs
      BY <1>1, <2>2, <3>1
    <3>4. ChainOK'
      BY <1>1, <2>2, <3>2, <3>3 DEF ChainOK, DiskOK, Named
    <3>5. IsPrefixOf(cs.canonical, cs.canonical)
      <4>1. cs.canonical \in Seq(Txs \cup {GenesisHash})
        BY <2>2, <3>2 DEF DiskOK
      <4> QED BY <4>1, PrefixFacts
    <3>6. TipIsCurrentNow'
      BY <1>1, <3>2, <3>3 DEF TipIsCurrentNow
    <3> QED BY <1>1, <2>2, <3>2, <3>3, <3>4, <3>5, <3>6 DEF StoredIsPrefix, NewIsNew
  <2> QED BY <2>1, <2>2
<1>4. HandOK'
  BY <1>1, <1>2 DEF HandOK
<1> QED
  BY <1>1, <1>2, <1>3, <1>4
    DEF DiskOK, Named, SetsOK, StateIsThere, StoredTipIsStored, HandIsSaved,
        AnsweredSendsAreStored

\* The process goes down: with the database as it was, or with a state saved
\* that names the chain of the process.
LEMMA DownSound ==
  ASSUME NodeAssumption, Sound, phase' = Down, chain' = NewChain, hand' = None,
         UNCHANGED <<built, answered, succeeded, unsaved>>,
         \/ disk' = disk
         \/ /\ phase = Loaded /\ disk.state = None
            /\ disk' = [disk EXCEPT !.state = Snapshot(GenesisSet, chain)]
  PROVE  Sound'
<1> USE DEF Sound
<1>1. Down \in Phases /\ Down \notin {Loaded, Ready, Mined, Saved}
  BY DEF Down, Loaded, Ready, Mined, Saved, Phases
<1>2. ChainOK'
  BY NewChainFits DEF ChainOK, Named
<1>3. DiskOK' /\ StoredTipIsStored' /\ AnsweredSendsAreStored'
  <2>1. CASE disk' = disk
    BY <2>1 DEF DiskOK, Named, StoredTipIsStored, AnsweredSendsAreStored
  <2>2. CASE /\ phase = Loaded /\ disk.state = None
             /\ disk' = [disk EXCEPT !.state = Snapshot(GenesisSet, chain)]
    <3>1. chain = NewChain
      BY <2>2 DEF NewIsNew
    <3>2. PICK state : state = Snapshot(GenesisSet, chain)
      OBVIOUS
    <3>3. disk' = [state |-> state, blocks |-> disk.blocks]
      BY <2>2, <3>2 DEF DiskOK
    <3>4. state.height = 0 /\ state.slot = 0 /\ state.canonical = NewChain.canonical
      BY <3>1, <3>2, NewChainFits DEF Snapshot
    <3>5. Tip(state) = GenesisHash
      BY <3>4, NewChainFits DEF Tip
    <3>6. StoredTipIsStored'
      BY <3>3, <3>4, <3>5 DEF StoredTipIsStored, Tip
    <3>7. DiskOK'
      BY <3>3, <3>4, NewChainFits DEF DiskOK, Named, ChainType
    <3>8. AnsweredSendsAreStored'
      BY <2>2 DEF AnsweredSendsAreStored
    <3> QED BY <3>6, <3>7, <3>8
  <2> QED BY <2>1, <2>2
<1>4. HandOK'
  BY <1>1 DEF HandOK
<1> QED
  BY <1>1, <1>2, <1>3, <1>4
    DEF SetsOK, NewIsNew, StateIsThere, StoredIsPrefix, HandIsSaved, TipIsCurrentNow

LEMMA InitializeGenesisSound ==
  ASSUME NodeAssumption, Sound, InitializeGenesis
  PROVE  Sound'
<1> USE DEF Sound
<1>1. /\ phase = Loaded /\ phase' = Ready
      /\ UNCHANGED <<chain, hand, ops, built, answered, succeeded, unsaved>>
  BY DEF InitializeGenesis
<1>2. /\ Ready \in Phases /\ Ready \notin {Down, Loaded, Mined, Saved}
      /\ Loaded \notin {Down, Mined, Saved}
  BY DEF Down, Loaded, Ready, Mined, Saved, Phases
<1>3. CASE disk.state # None
  BY <1>1, <1>2, <1>3
    DEF InitializeGenesis, DiskOK, Named, ChainOK, HandOK, SetsOK, NewIsNew, StateIsThere,
        StoredIsPrefix, StoredTipIsStored, HandIsSaved, TipIsCurrentNow,
        AnsweredSendsAreStored
<1>4. CASE disk.state = None
  <2>1. chain = NewChain
    BY <1>1, <1>4 DEF NewIsNew
  <2>2. PICK state : state = Snapshot(GenesisSet, chain)
    OBVIOUS
  <2>3. disk' = [state |-> state, blocks |-> disk.blocks] /\ state # None
    BY <1>4, <2>2, SnapshotIsNotNone DEF InitializeGenesis, DiskOK
  <2>4. state.height = 0 /\ state.slot = 0 /\ state.canonical = chain.canonical
    BY <2>1, <2>2, NewChainFits DEF Snapshot
  <2>5. Tip(state) = GenesisHash
    BY <2>1, <2>4, NewChainFits DEF Tip
  <2>6. DiskOK' /\ StoredTipIsStored'
    BY <1>1, <2>3, <2>4, <2>5 DEF DiskOK, Named, ChainOK, ChainType, StoredTipIsStored, Tip
  <2>7. IsPrefixOf(chain.canonical, chain.canonical)
    BY PrefixFacts DEF ChainOK, ChainType
  <2>8. StoredIsPrefix'
    BY <1>1, <2>3, <2>4, <2>7 DEF StoredIsPrefix
  <2>9. AnsweredSendsAreStored'
    BY <1>1, <1>4 DEF AnsweredSendsAreStored
  <2>10. HandOK' /\ ChainOK'
    BY <1>1, <1>2 DEF HandOK, ChainOK, Named
  <2> QED
    BY <1>1, <1>2, <2>3, <2>6, <2>8, <2>9, <2>10
      DEF SetsOK, NewIsNew, StateIsThere, HandIsSaved, TipIsCurrentNow
<1> QED BY <1>3, <1>4

\* A transaction is begun: it is built, and nothing is stored.
LEMMA BeginFacts ==
  ASSUME NodeAssumption, Sound, NEW t \in Txs, Begin(t), UNCHANGED <<disk, unsaved>>
  PROVE  /\ phase = Ready /\ hand = None /\ disk.state # None
         /\ built \subseteq built' /\ t \in built' /\ built' \subseteq Txs
         /\ \A i \in DOMAIN chain.canonical : chain.canonical[i] # t
         /\ DiskOK' /\ StoredTipIsStored'
<1>1. /\ phase = Ready /\ t \notin built /\ built' = built \cup {t}
  BY DEF Begin
<1>2. Ready \notin {Down, Loaded, Mined, Saved}
  BY DEF Down, Loaded, Ready, Mined, Saved
<1>3. t # GenesisHash
  BY DEF NodeAssumption
<1> QED
  BY <1>1, <1>2, <1>3
    DEF Sound, HandOK, StateIsThere, SetsOK, ChainOK, Named, DiskOK, StoredTipIsStored

\* A transfer is executed and mined, or executed and dropped.
LEMMA SendSound ==
  ASSUME NodeAssumption, Sound, NEW t \in Sends, NEW s \in Slots, SendTransaction(t, s),
         succeeded' \in {succeeded, succeeded \cup {t}}
  PROVE  Sound'
<1> USE DEF Sound
<1>1. Begin(t) /\ t \in Txs /\ UNCHANGED <<chain, disk, unsaved>>
  BY DEF SendTransaction, Txs
<1>2. /\ phase = Ready /\ hand = None /\ disk.state # None
      /\ built \subseteq built' /\ t \in built' /\ built' \subseteq Txs
      /\ \A i \in DOMAIN chain.canonical : chain.canonical[i] # t
      /\ DiskOK' /\ StoredTipIsStored'
  BY <1>1, BeginFacts
<1>3. /\ Ready \in Phases /\ Ready \notin {Down, Loaded, Mined, Saved}
      /\ Mined \in Phases /\ Mined \notin {Down, Loaded, Ready, Saved}
  BY DEF Down, Loaded, Ready, Mined, Saved, Phases
<1>4. ChainOK'
  BY <1>1, <1>2 DEF ChainOK, Named
<1>5. PICK block : block = Template(chain, s)
  OBVIOUS
<1>6. block \in Blocks /\ (TipIsCurrent(chain) => ExtendsParent(chain, block))
  BY <1>5, TemplateFits
<1>7. \/ phase' = Mined /\ hand' = [tx |-> t, block |-> block] /\ answered' = answered
      \/ /\ phase' = Ready /\ hand' = None /\ answered' = answered \cup {t}
         /\ ~ExtendsParent(chain, block)
  BY <1>2, <1>5 DEF SendTransaction
<1>8. HandOK'
  <2>1. CASE phase' = Ready /\ hand' = None
    BY <1>3, <2>1 DEF HandOK
  <2>2. CASE phase' = Mined /\ hand' = [tx |-> t, block |-> block]
    <3>1. [tx |-> t, block |-> block] # None
      BY DEF None
    <3> QED BY <1>1, <1>2, <1>3, <1>6, <2>2, <3>1 DEF HandOK
  <2> QED BY <1>7, <2>1, <2>2
<1>9. phase' \in {Ready, Mined} /\ TipIsCurrentNow'
  BY <1>1, <1>2, <1>3, <1>7 DEF TipIsCurrentNow
<1>10. AnsweredSendsAreStored'
  <2>1. CASE answered' = answered
    BY <1>1, <2>1 DEF AnsweredSendsAreStored
  <2>2. CASE ~ExtendsParent(chain, block)
    <3>1. unsaved # {}
      BY <1>2, <1>3, <1>6, <2>2 DEF TipIsCurrentNow
    <3> QED BY <1>1, <3>1 DEF AnsweredSendsAreStored
  <2> QED BY <1>7, <2>1, <2>2
<1>11. SetsOK'
  BY <1>1, <1>2, <1>3, <1>7, <1>9 DEF SetsOK
<1> QED
  BY <1>1, <1>2, <1>3, <1>4, <1>8, <1>9, <1>10, <1>11
    DEF NewIsNew, StateIsThere, StoredIsPrefix, HandIsSaved

LEMMA SaveBlockSound ==
  ASSUME NodeAssumption, Sound, SaveBlock
  PROVE  Sound'
<1> USE DEF Sound
<1>1. /\ phase = Mined /\ phase' = Saved /\ hand # None
      /\ UNCHANGED <<chain, hand, built, answered, succeeded>>
  BY DEF SaveBlock, HandOK
<1>2. /\ Saved \in Phases /\ Saved \notin {Down, Loaded, Ready, Mined}
      /\ Mined \notin {Down, Loaded}
  BY DEF Down, Loaded, Ready, Mined, Saved, Phases
<1>3. hand.tx \in Sends \cap built /\ hand.block \in Blocks
  BY <1>1 DEF HandOK
<1> DEFINE more == [h \in DOMAIN disk.blocks \cup {hand.tx} |->
                      IF h = hand.tx THEN hand.block ELSE disk.blocks[h]]
           after == [state |-> disk.state, blocks |-> more]
<1>4. PICK w \in Write(disk, after) :
        /\ disk' = w.db
        /\ unsaved' = IF w.ok THEN unsaved ELSE unsaved \cup {hand.tx}
  <2>1. [disk EXCEPT !.blocks = more] = after
    BY DEF DiskOK
  <2> QED BY <2>1 DEF SaveBlock
<1>5. \/ w.ok = TRUE /\ w.db = after
      \/ w.ok = FALSE /\ w.db \in {disk, after}
  BY DEF Write
<1>6. /\ DOMAIN more = DOMAIN disk.blocks \cup {hand.tx}
      /\ more[hand.tx] = hand.block
      /\ \A h \in DOMAIN disk.blocks \ {hand.tx} : more[h] = disk.blocks[h]
  OBVIOUS
<1> HIDE DEF more
<1>7. /\ disk' = [state |-> disk.state, blocks |-> disk'.blocks]
      /\ disk'.blocks \in {disk.blocks, more}
      /\ unsaved' \in {unsaved, unsaved \cup {hand.tx}}
      /\ hand.tx \notin unsaved' => disk'.blocks = more /\ unsaved' = unsaved
  BY <1>4, <1>5 DEF DiskOK
<1>8. disk.state # None
  BY <1>1, <1>2 DEF StateIsThere
<1>9. DiskOK'
  BY <1>1, <1>3, <1>6, <1>7 DEF DiskOK, Named
<1>10. Tip(disk.state) # hand.tx
  <2>1. disk.state.canonical \in Seq(Txs \cup {GenesisHash})
    BY <1>8 DEF DiskOK
  <2>2. IsPrefixOf(disk.state.canonical, chain.canonical)
    BY <1>1, <1>2, <1>8 DEF StoredIsPrefix
  <2>3. \A i \in DOMAIN disk.state.canonical : disk.state.canonical[i] # hand.tx
    BY <1>1, <2>1, <2>2, PrefixFacts DEF ChainOK, ChainType, HandOK
  <2>4. hand.tx # GenesisHash
    BY <1>3 DEF NodeAssumption, Txs
  <2>5. disk.state.canonical # <<>> =>
          Len(disk.state.canonical) \in DOMAIN disk.state.canonical
    BY <2>1
  <2> QED BY <2>3, <2>4, <2>5 DEF Tip
<1>11. StoredTipIsStored'
  <2>1. disk'.state = disk.state
    BY <1>7
  <2>2. Tip(disk.state) \notin unsaved' => Tip(disk.state) \notin unsaved
    BY <1>7
  <2> QED BY <1>6, <1>7, <1>10, <2>1, <2>2 DEF StoredTipIsStored, Tip
<1>12. HandOK' /\ SetsOK' /\ ChainOK'
  BY <1>1, <1>2, <1>3, <1>7 DEF HandOK, SetsOK, ChainOK, Named
<1>13. HandIsSaved'
  BY <1>1, <1>6, <1>7 DEF HandIsSaved
<1>14. TipIsCurrentNow'
  BY <1>1, <1>2, <1>7 DEF TipIsCurrentNow
<1>15. AnsweredSendsAreStored'
  BY <1>1, <1>6, <1>7 DEF AnsweredSendsAreStored
<1>16. StoredIsPrefix' /\ NewIsNew' /\ StateIsThere'
  BY <1>1, <1>2, <1>7, <1>8 DEF StoredIsPrefix, NewIsNew, StateIsThere
<1> QED
  BY <1>9, <1>11, <1>12, <1>13, <1>14, <1>15, <1>16

LEMMA AddBlockSound ==
  ASSUME NodeAssumption, Sound, AddBlock
  PROVE  Sound'
<1> USE DEF Sound
<1>1. /\ phase = Saved /\ phase' = Ready /\ hand' = None /\ hand # None
      /\ chain' = Push(chain, hand.tx, hand.block)
      /\ answered' = answered \cup {hand.tx}
      /\ UNCHANGED <<built, succeeded>>
  BY DEF AddBlock, HandOK
<1>2. /\ Ready \in Phases /\ Ready \notin {Down, Loaded, Mined, Saved}
      /\ Saved \notin {Down, Loaded}
  BY DEF Down, Loaded, Ready, Mined, Saved, Phases
<1>3. hand.tx \in Sends \cap built /\ hand.block \in Blocks /\ hand.tx \in Txs
  BY <1>1 DEF HandOK, Txs
<1>4. /\ ChainOK' /\ Tip(chain') = hand.tx /\ TipIsCurrent(chain')
      /\ chain'.canonical = Append(chain.canonical, hand.tx)
      /\ chain'.height = hand.block.number /\ chain'.slot = hand.block.slot
  <2>1. built \subseteq built' /\ hand.tx \in built'
    BY <1>1, <1>3
  <2>2. PICK t \in Txs, block \in Blocks : t = hand.tx /\ block = hand.block
    BY <1>3
  <2>3. chain' = Push(chain, t, block) /\ t \in built'
    BY <1>1, <2>1, <2>2
  <2> QED BY <2>1, <2>2, <2>3, PushFits
<1>5. disk.state # None
  BY <1>1, <1>2 DEF StateIsThere
<1>6. PICK state : state = Snapshot(utxo_set, chain')
  OBVIOUS
<1>7. /\ state.canonical = chain'.canonical /\ state # None
      /\ state.height = chain'.height /\ state.slot = chain'.slot
  BY <1>6, SnapshotIsNotNone DEF Snapshot
<1> DEFINE after == [state |-> state, blocks |-> disk.blocks]
<1>8. PICK w \in Write(disk, after) :
        /\ disk' = w.db
        /\ unsaved' = IF w.ok THEN unsaved ELSE unsaved \cup {hand.tx}
  <2>1. [disk EXCEPT !.state = state] = after
    BY DEF DiskOK
  <2> QED BY <1>6, <2>1 DEF AddBlock
<1>9. \/ w.ok = TRUE /\ w.db = after
      \/ w.ok = FALSE /\ w.db \in {disk, after}
  BY DEF Write
<1>10. /\ disk' = [state |-> disk'.state, blocks |-> disk.blocks]
       /\ disk'.state \in {disk.state, state}
       /\ unsaved' \in {unsaved, unsaved \cup {hand.tx}}
       /\ hand.tx \notin unsaved' => disk'.state = state /\ unsaved' = unsaved
  BY <1>8, <1>9 DEF DiskOK
<1>11. DiskOK'
  <2>1. /\ disk'.state.canonical \in Seq(Txs \cup {GenesisHash})
        /\ disk'.state.height \in Nat /\ disk'.state.slot \in Nat
        /\ \A i \in DOMAIN disk'.state.canonical :
             disk'.state.canonical[i] \in built' \cup {GenesisHash}
    <3>1. CASE disk'.state = disk.state
      BY <1>1, <1>5, <3>1 DEF DiskOK, Named
    <3>2. CASE disk'.state = state
      BY <1>4, <1>7, <3>2 DEF ChainOK, ChainType, Named
    <3> QED BY <1>10, <3>1, <3>2
  <2>2. disk'.blocks = disk.blocks
    BY <1>10
  <2> QED BY <1>10, <2>1, <2>2 DEF DiskOK, Named
<1>12. Tip(state) = hand.tx
  BY <1>4, <1>7 DEF Tip
<1>13. StoredTipIsStored'
  <2>1. CASE disk'.state = disk.state
    BY <1>5, <1>10, <2>1 DEF StoredTipIsStored, Tip
  <2>2. CASE disk'.state = state
    <3>1. Tip(disk'.state) = hand.tx
      BY <1>12, <2>2 DEF Tip
    <3>2. ASSUME hand.tx \notin unsaved'
          PROVE  hand.tx \in DOMAIN disk.blocks /\ disk.blocks[hand.tx] = hand.block
      BY <1>1, <1>10, <3>2 DEF HandIsSaved
    <3>3. /\ disk'.state.height = hand.block.number
          /\ disk'.state.slot = hand.block.slot /\ disk'.blocks = disk.blocks
      BY <1>4, <1>7, <1>10, <2>2
    <3> QED BY <3>1, <3>2, <3>3 DEF StoredTipIsStored, Tip
  <2> QED BY <1>10, <2>1, <2>2
<1>14. /\ IsPrefixOf(chain.canonical, chain'.canonical)
       /\ IsPrefixOf(disk.state.canonical, chain'.canonical)
       /\ IsPrefixOf(chain'.canonical, chain'.canonical)
  <2>1. /\ chain.canonical \in Seq(Txs \cup {GenesisHash})
        /\ disk.state.canonical \in Seq(Txs \cup {GenesisHash})
        /\ chain'.canonical \in Seq(Txs \cup {GenesisHash})
    BY <1>4, <1>5 DEF ChainOK, ChainType, DiskOK
  <2>2. IsPrefixOf(disk.state.canonical, chain.canonical)
    BY <1>1, <1>2, <1>5 DEF StoredIsPrefix
  <2>3. PICK e \in Txs \cup {GenesisHash} : e = hand.tx
    BY <1>3
  <2>4. chain'.canonical = Append(chain.canonical, e)
    BY <1>4, <2>3
  <2> DEFINE S == Txs \cup {GenesisHash}
  <2>5. PICK old \in Seq(S), now \in Seq(S), new \in Seq(S) :
          old = disk.state.canonical /\ now = chain.canonical /\ new = chain'.canonical
    BY <2>1
  <2>6. new = Append(now, e) /\ IsPrefixOf(old, now)
    BY <2>2, <2>4, <2>5
  <2> HIDE DEF S
  <2>7. IsPrefixOf(now, Append(now, e)) /\ IsPrefixOf(old, Append(now, e))
    <3>1. e \in S
      BY DEF S
    <3> QED BY <2>6, <3>1, PrefixFacts
  <2>8. IsPrefixOf(new, new)
    <3>1. e \in S
      BY DEF S
    <3> QED BY <3>1, PrefixFacts
  <2> QED BY <2>5, <2>6, <2>7, <2>8
<1>15. StoredIsPrefix'
  BY <1>7, <1>10, <1>14 DEF StoredIsPrefix
<1>16. AnsweredSendsAreStored'
  <2> SUFFICES ASSUME unsaved' = {}
               PROVE  \A t \in answered' \cap Sends :
                        t \in Range(disk'.state.canonical) /\ t \in DOMAIN disk'.blocks
    BY <1>5, <1>7, <1>10 DEF AnsweredSendsAreStored, Range
  <2>1. disk'.state = state /\ disk'.blocks = disk.blocks /\ unsaved = {}
    BY <1>10
  <2>2. hand.tx \in DOMAIN disk.blocks
    BY <1>1, <2>1 DEF HandIsSaved
  <2>3. Len(chain'.canonical) \in DOMAIN chain'.canonical
        /\ chain'.canonical[Len(chain'.canonical)] = hand.tx
    BY <1>3, <1>4 DEF ChainOK, ChainType
  <2>4. hand.tx \in Range(disk'.state.canonical)
    BY <1>7, <2>1, <2>3 DEF Range
  <2>5. ASSUME NEW t \in answered \cap Sends
        PROVE  t \in Range(disk'.state.canonical) /\ t \in DOMAIN disk.blocks
    <3>1. PICK i \in DOMAIN disk.state.canonical : disk.state.canonical[i] = t
      BY <2>1 DEF AnsweredSendsAreStored, Range
    <3>2. i \in DOMAIN chain'.canonical /\ chain'.canonical[i] = t
      <4>1. /\ disk.state.canonical \in Seq(Txs \cup {GenesisHash})
            /\ chain'.canonical \in Seq(Txs \cup {GenesisHash})
        BY <1>4, <1>5 DEF ChainOK, ChainType, DiskOK
      <4> QED BY <1>3, <1>14, <3>1, <4>1, PrefixFacts
    <3>3. t \in DOMAIN disk.blocks
      BY <2>1 DEF AnsweredSendsAreStored
    <3> QED BY <1>7, <2>1, <3>2, <3>3 DEF Range
  <2> QED BY <1>1, <2>1, <2>2, <2>4, <2>5
<1>17. HandOK' /\ NewIsNew' /\ HandIsSaved' /\ TipIsCurrentNow'
  BY <1>1, <1>2, <1>4 DEF HandOK, NewIsNew, HandIsSaved, TipIsCurrentNow
<1>18. SetsOK'
  BY <1>1, <1>2, <1>3, <1>10 DEF SetsOK
<1>19. StateIsThere'
  BY <1>5, <1>7, <1>10 DEF StateIsThere
<1> QED
  BY <1>4, <1>11, <1>13, <1>15, <1>16, <1>17, <1>18, <1>19

LEMMA CallContractSound ==
  ASSUME NodeAssumption, Sound, NEW t \in Calls, NEW s \in Slots, CallContract(t, s),
         succeeded' \in {succeeded, succeeded \cup {t}}
  PROVE  Sound'
<1> USE DEF Sound
<1>1. /\ Begin(t) /\ t \in Txs /\ UNCHANGED <<phase, hand, disk, unsaved>>
      /\ answered' = answered \cup {t}
  BY DEF CallContract, Txs
<1>2. /\ phase = Ready /\ hand = None /\ disk.state # None
      /\ built \subseteq built' /\ t \in built' /\ built' \subseteq Txs
      /\ DiskOK' /\ StoredTipIsStored'
  BY <1>1, BeginFacts
<1>3. Ready \in Phases /\ Ready \notin {Down, Loaded, Mined, Saved}
  BY DEF Down, Loaded, Ready, Mined, Saved, Phases
<1>4. PICK block : block = Template(chain, s)
  OBVIOUS
<1>5. block \in Blocks /\ (TipIsCurrent(chain) => ExtendsParent(chain, block))
  BY <1>4, TemplateFits
<1>6. ChainOK' /\ TipIsCurrentNow' /\ StoredIsPrefix'
  <2>1. CASE chain' = chain
    BY <1>1, <1>2, <2>1 DEF ChainOK, Named, TipIsCurrentNow, StoredIsPrefix
  <2>2. CASE chain' = Push(chain, t, block)
    <3>1. /\ ChainOK' /\ TipIsCurrent(chain')
          /\ chain'.canonical = Append(chain.canonical, t)
      BY <1>1, <1>2, <1>5, <2>2, PushFits
    <3>2. IsPrefixOf(disk.state.canonical, chain'.canonical)
      <4>1. /\ chain.canonical \in Seq(Txs \cup {GenesisHash})
            /\ disk.state.canonical \in Seq(Txs \cup {GenesisHash})
            /\ t \in Txs \cup {GenesisHash}
        BY <1>1, <1>2 DEF ChainOK, ChainType, DiskOK
      <4>2. IsPrefixOf(disk.state.canonical, chain.canonical)
        BY <1>2, <1>3 DEF StoredIsPrefix
      <4> QED BY <3>1, <4>1, <4>2, PrefixFacts
    <3> QED BY <1>1, <3>1, <3>2 DEF TipIsCurrentNow, StoredIsPrefix
  <2>3. chain' \in {chain, Push(chain, t, block)}
    BY <1>4 DEF CallContract
  <2> QED BY <2>1, <2>2, <2>3
<1>7. AnsweredSendsAreStored'
  <2>1. t \notin Sends
    BY DEF NodeAssumption
  <2> QED BY <1>1, <2>1 DEF AnsweredSendsAreStored
<1>8. HandOK' /\ SetsOK'
  BY <1>1, <1>2, <1>3 DEF HandOK, SetsOK
<1> QED
  BY <1>1, <1>2, <1>3, <1>6, <1>7, <1>8 DEF NewIsNew, StateIsThere, HandIsSaved

LEMMA ExecuteNotes ==
  ASSUME NEW t, Execute(t)
  PROVE  succeeded' \in {succeeded, succeeded \cup {t}}
<1>1. PICK done : succeeded' = IF done.receipt.success THEN succeeded \cup {t} ELSE succeeded
  BY DEF Execute
<1> QED BY <1>1

LEMMA SoundStep == NodeAssumption /\ Sound /\ [Next]_vars => Sound'
<1> SUFFICES ASSUME NodeAssumption, Sound, [Next]_vars PROVE Sound'
  OBVIOUS
<1>1. CASE Start
  BY <1>1, StartSound
<1>2. CASE Stop
  BY <1>2, DownSound DEF Stop
<1>3. CASE InitializeGenesis
  BY <1>3, InitializeGenesisSound
<1>4. CASE GenesisNotSaved
  <2>1. disk' \in {disk, [disk EXCEPT !.state = Snapshot(GenesisSet, chain)]}
    BY <1>4 DEF GenesisNotSaved, Write
  <2>2. hand' = None
    <3>1. Loaded \notin {Mined, Saved}
      BY DEF Loaded, Mined, Saved
    <3> QED BY <1>4, <3>1 DEF GenesisNotSaved, Sound, HandOK
  <2> QED BY <1>4, <2>1, <2>2, DownSound DEF GenesisNotSaved
<1>5. ASSUME NEW t \in Sends, RefuseSend(t) PROVE Sound'
  <2>1. /\ Begin(t) /\ t \in Txs
        /\ UNCHANGED <<phase, chain, hand, disk, answered, succeeded, unsaved>>
    BY <1>5 DEF RefuseSend, Txs
  <2>2. /\ phase = Ready /\ built \subseteq built' /\ built' \subseteq Txs
        /\ DiskOK' /\ StoredTipIsStored'
    BY <2>1, BeginFacts
  <2>3. ChainOK' /\ HandOK' /\ SetsOK' /\ AnsweredSendsAreStored'
    BY <2>1, <2>2 DEF Sound, ChainOK, Named, HandOK, SetsOK, AnsweredSendsAreStored
  <2> QED
    BY <2>1, <2>2, <2>3
      DEF Sound, NewIsNew, StateIsThere, StoredIsPrefix, HandIsSaved, TipIsCurrentNow
<1>6. ASSUME NEW t \in Sends, NEW s \in Slots, SendTransaction(t, s) PROVE Sound'
  BY <1>6, SendSound, ExecuteNotes DEF SendTransaction
<1>7. CASE SaveBlock
  BY <1>7, SaveBlockSound
<1>8. CASE AddBlock
  BY <1>8, AddBlockSound
<1>9. ASSUME NEW t \in Calls, NEW s \in Slots, CallContract(t, s) PROVE Sound'
  BY <1>9, CallContractSound, ExecuteNotes DEF CallContract
<1>10. CASE UNCHANGED vars
  BY <1>10
    DEF vars, Sound, DiskOK, ChainOK, HandOK, SetsOK, NewIsNew, StateIsThere, Named,
        StoredIsPrefix, StoredTipIsStored, HandIsSaved, TipIsCurrentNow,
        AnsweredSendsAreStored
<1> QED
  BY <1>1, <1>2, <1>3, <1>4, <1>5, <1>6, <1>7, <1>8, <1>9, <1>10 DEF Next

-----------------------------------------------------------------------------
\* As long as no block and no state failed to be saved, a transfer whose hash
\* send_transaction returned is in the stored chain, in a stored block, whatever
\* stopped since: the tip is always known then, and no block is dropped.
THEOREM AnswersAreStored == Spec => []AnsweredSendsAreStored
<1>1. Init => Sound
  BY InitSound, NodeAssumption
<1>2. Sound /\ [Next]_vars => Sound'
  BY SoundStep, NodeAssumption
<1>3. Sound => AnsweredSendsAreStored
  BY DEF Sound
<1> QED BY <1>1, <1>2, <1>3, PTL DEF Spec

\* The state that is stored names a chain that continues the one before: through
\* crashes between the block and the state, and writes that fail before or after
\* they took effect.
THEOREM StoredChainOnlyGrows == Spec => StoredChainGrows
<1>1. Init => Sound
  BY InitSound, NodeAssumption
<1>2. Sound /\ [Next]_vars => Sound'
  BY SoundStep, NodeAssumption
<1> DEFINE Grows == disk.state # None =>
                      /\ disk'.state # None
                      /\ IsPrefixOf(disk.state.canonical, disk'.state.canonical)
<1>3. ASSUME Sound, Next, disk.state # None
      PROVE  /\ disk'.state # None
             /\ IsPrefixOf(disk.state.canonical, disk'.state.canonical)
  <2>1. CASE disk'.state = disk.state
    <3>1. disk.state.canonical \in Seq(Txs \cup {GenesisHash})
      BY <1>3 DEF Sound, DiskOK
    <3>2. GenesisHash \in Txs \cup {GenesisHash}
      OBVIOUS
    <3>3. PICK S : S = Txs \cup {GenesisHash}
      OBVIOUS
    <3>4. PICK c \in Seq(S) : c = disk.state.canonical
      BY <3>1, <3>3
    <3>5. IsPrefixOf(c, c)
      BY <3>2, <3>3, PrefixFacts
    <3> QED BY <1>3, <2>1, <3>4, <3>5
  <2>2. CASE AddBlock /\ disk'.state # disk.state
    <3>1. disk'.state = Snapshot(utxo_set, chain')
      BY <1>3, <2>2 DEF AddBlock, Write, Sound, DiskOK
    <3>2. disk'.state # None /\ disk'.state.canonical = chain'.canonical
      BY <3>1, SnapshotIsNotNone DEF Snapshot
    <3>3. chain'.canonical = Append(chain.canonical, hand.tx)
      BY <2>2 DEF AddBlock, Push
    <3>4. IsPrefixOf(disk.state.canonical, chain.canonical) /\ hand.tx \in Txs
      BY <1>3, <2>2
        DEF AddBlock, Sound, StoredIsPrefix, Saved, Down, HandOK, Txs, Mined
    <3>5. /\ disk.state.canonical \in Seq(Txs \cup {GenesisHash})
          /\ chain.canonical \in Seq(Txs \cup {GenesisHash})
          /\ hand.tx \in Txs \cup {GenesisHash}
      BY <1>3, <3>4 DEF Sound, DiskOK, ChainOK, ChainType
    <3> QED BY <3>2, <3>3, <3>4, <3>5, PrefixFacts
  <2>3. Start \/ Stop \/ InitializeGenesis \/ GenesisNotSaved => disk'.state = disk.state
    BY <1>3 DEF Start, Stop, InitializeGenesis, GenesisNotSaved
  <2>4. SaveBlock => disk'.state = disk.state
    BY <1>3 DEF SaveBlock, Write, Sound, DiskOK
  <2>5. \A t \in Sends, s \in Slots :
          RefuseSend(t) \/ SendTransaction(t, s) => disk'.state = disk.state
    BY DEF RefuseSend, SendTransaction
  <2>6. \A t \in Sends : RefuseSend(t) => disk'.state = disk.state
    BY DEF RefuseSend
  <2>7. \A t \in Calls, s \in Slots : CallContract(t, s) => disk'.state = disk.state
    BY DEF CallContract
  <2> QED BY <1>3, <2>1, <2>2, <2>3, <2>4, <2>5, <2>6, <2>7 DEF Next
<1>4. Sound /\ [Next]_vars => [Grows]_vars
  BY <1>3
<1> QED BY <1>1, <1>2, <1>4, PTL DEF Spec, StoredChainGrows

-----------------------------------------------------------------------------
(***************************************************************************)
(* The UTXO set of the process: amounts never go below zero.  The genesis  *)
(* UTXO, as long as it is there, is all of the total.                      *)
(***************************************************************************)
UtxoOK ==
  /\ utxo_set.total \in Nat
  /\ \A id \in DOMAIN utxo_set.utxos : utxo_set.utxos[id].value \in Nat
  /\ GenesisId \in DOMAIN utxo_set.utxos =>
       utxo_set.utxos[GenesisId].value = GenesisValue /\ utxo_set.total >= GenesisValue

\* The sums of this node are of two amounts at most.
LEMMA SmallSums ==
  ASSUME NEW n \in 0 .. 2, NEW f, DOMAIN f = 1 .. n, \A i \in 1 .. n : f[i] \in Nat
  PROVE  Ledger!SumOf(f) \in Nat /\ (n = 1 => Ledger!SumOf(f) = f[1])
<1> DEFINE
      Adds(g) == g = [s \in SUBSET (DOMAIN f) |->
                        IF s = {} THEN 0
                        ELSE LET x == Ledger!Max(s) IN g[s \ {x}] + f[x]]
      h == [s \in SUBSET (DOMAIN f) |->
              (IF 1 \in s THEN f[1] ELSE 0) + (IF 2 \in s THEN f[2] ELSE 0)]
<1>1. Ledger!SumOf(f) = (CHOOSE g : Adds(g))[DOMAIN f]
  BY DEF Ledger!SumOf, Ledger!FoldLeft, Ledger!MapThenFoldSet
<1>2. ASSUME NEW s \in SUBSET (DOMAIN f), s # {}
      PROVE  h[s] = h[s \ {Ledger!Max(s)}] + f[Ledger!Max(s)]
  <2>1. CASE 2 \in s
    <3>1. Ledger!Max(s) = 2
      BY <2>1 DEF Ledger!Max
    <3> QED BY <2>1, <3>1
  <2>2. CASE 2 \notin s
    <3>1. s = {1} /\ n >= 1
      BY <1>2, <2>2
    <3>2. Ledger!Max(s) = 1
      BY <3>1 DEF Ledger!Max
    <3> QED BY <2>2, <3>1, <3>2
  <2> QED BY <2>1, <2>2
<1>3. h = [s \in SUBSET (DOMAIN f) |-> h[s]]
  OBVIOUS
<1>4. h[{}] = 0
  <2>1. {} \in SUBSET (DOMAIN f) /\ 1 \notin {} /\ 2 \notin {}
    OBVIOUS
  <2> QED BY <2>1
<1> HIDE DEF h
<1>5. Adds(h)
  <2>1. ASSUME NEW s \in SUBSET (DOMAIN f)
        PROVE  h[s] = IF s = {} THEN 0 ELSE LET x == Ledger!Max(s) IN h[s \ {x}] + f[x]
    BY <1>2, <1>4
  <2> QED BY <1>3, <2>1
<1>6. PICK g : g = (CHOOSE k : Adds(k)) /\ Adds(g)
  BY <1>5
<1>7. g[{}] = 0
  BY <1>6
<1>8. CASE n = 0
  BY <1>1, <1>6, <1>7, <1>8
<1>9. n >= 1 => g[{1}] = f[1]
  <2> SUFFICES ASSUME n >= 1 PROVE g[{1}] = f[1]
    OBVIOUS
  <2>1. {1} \in SUBSET (DOMAIN f) /\ {1} # {} /\ Ledger!Max({1}) = 1
    BY DEF Ledger!Max
  <2>2. g[{1}] = g[{1} \ {1}] + f[1]
    BY <1>6, <2>1
  <2>3. {1} \ {1} = {}
    OBVIOUS
  <2>4. g[{1}] = 0 + f[1]
    BY <1>7, <2>2, <2>3, Zenon
  <2>5. f[1] \in Nat
    OBVIOUS
  <2> QED BY <2>4, <2>5
<1>10. CASE n = 1
  <2>1. DOMAIN f = {1}
    BY <1>10
  <2> QED BY <1>1, <1>6, <1>9, <1>10, <2>1
<1>11. CASE n = 2
  <2>1. DOMAIN f = {1, 2} /\ {1, 2} # {} /\ Ledger!Max({1, 2}) = 2
    BY <1>11 DEF Ledger!Max
  <2>2. g[{1, 2}] = g[{1, 2} \ {2}] + f[2]
    BY <1>6, <2>1
  <2>3. {1, 2} \ {2} = {1} /\ f[1] \in Nat /\ f[2] \in Nat
    BY <1>11
  <2>4. g[{1, 2}] = f[1] + f[2]
    <3>1. g[{1}] = f[1]
      BY <1>9, <1>11
    <3> QED BY <2>2, <2>3, <3>1, Zenon
  <2>5. Ledger!SumOf(f) = g[{1, 2}]
    BY <1>1, <1>6, <2>1
  <2> QED BY <1>11, <2>3, <2>4, <2>5
<1> QED BY <1>8, <1>10, <1>11

LEMMA ExecuteAmounts ==
  ASSUME NodeAssumption, UtxoOK, NEW t \in Txs,
         t \in Sends => Amount[t] + Fee <= GenesisValue, Execute(t)
  PROVE  UtxoOK'
<1>1. CASE utxo_set' = utxo_set
  BY <1>1 DEF UtxoOK
<1>2. CASE utxo_set' # utxo_set
  <2>1. Ledger!Valid(utxo_set, 0, t) /\ utxo_set' = Ledger!Apply(utxo_set, t)
    BY <1>2 DEF Execute, Ledger!Process
  <2>2. /\ NodeBody[t].inputs = <<GenesisId>>
        /\ NodeBody[t].outputs = IF t \in Sends
             THEN <<Unlocked(Amount[t]), Unlocked(GenesisValue - Amount[t] - Fee)>> ELSE <<>>
    BY DEF NodeBody, GenesisId
  <2>3. GenesisId \in DOMAIN utxo_set.utxos
    <3>1. Ledger!Inputs(t) = {GenesisId}
      BY <2>2 DEF Ledger!Inputs, Ledger!ToSet
    <3> QED BY <2>1, <3>1 DEF Ledger!Valid, Ledger!Ids
  <2>4. Ledger!InputValue(utxo_set, t) = GenesisValue
    <3> DEFINE f == [i \in DOMAIN NodeBody[t].inputs |->
                       Ledger!Found(utxo_set, NodeBody[t].inputs[i])]
    <3>1. DOMAIN f = 1 .. 1 /\ f[1] = GenesisValue
      <4>1. DOMAIN f = 1 .. 1 /\ f[1] = Ledger!Found(utxo_set, GenesisId)
        BY <2>2
      <4>2. Ledger!Found(utxo_set, GenesisId) = GenesisValue
        BY <2>3 DEF UtxoOK, Ledger!Found, Ledger!Ids
      <4> QED BY <4>1, <4>2
    <3>2. Ledger!InputValue(utxo_set, t) = Ledger!SumOf(f)
      BY DEF Ledger!InputValue
    <3> HIDE DEF f
    <3>3. \A i \in 1 .. 1 : f[i] \in Nat
      BY <3>1 DEF NodeAssumption
    <3> QED BY <3>1, <3>2, <3>3, SmallSums
  <2>5. \A i \in DOMAIN NodeBody[t].outputs : NodeBody[t].outputs[i].value \in Nat
    BY <2>2 DEF NodeAssumption, Unlocked
  <2>6. Ledger!OutputValue(t) \in Nat
    <3> DEFINE f == [i \in DOMAIN NodeBody[t].outputs |-> NodeBody[t].outputs[i].value]
    <3>1. PICK n \in 0 .. 2 : DOMAIN NodeBody[t].outputs = 1 .. n
      BY <2>2
    <3>2. DOMAIN f = 1 .. n /\ \A i \in 1 .. n : f[i] \in Nat
      BY <2>5, <3>1
    <3>3. Ledger!OutputValue(t) = Ledger!SumOf(f)
      BY DEF Ledger!OutputValue, Ledger!Outputs
    <3> HIDE DEF f
    <3> QED BY <3>2, <3>3, SmallSums
  <2>7. utxo_set'.total \in Nat
    BY <2>1, <2>3, <2>4, <2>6 DEF UtxoOK, Ledger!Apply, NodeAssumption
  <2>8. GenesisId \notin DOMAIN utxo_set'.utxos
    BY <2>1, <2>3, <1>2, ExecuteSpendsGenesis
  <2>9. ASSUME NEW id \in DOMAIN utxo_set'.utxos PROVE utxo_set'.utxos[id].value \in Nat
    <3>1. /\ DOMAIN utxo_set'.utxos =
               (Ledger!Ids(utxo_set) \ Ledger!Inputs(t)) \cup Ledger!Created(t)
          /\ utxo_set'.utxos[id] = IF id \in Ledger!Created(t)
               THEN NodeBody[t].outputs[id[2] + 1] ELSE utxo_set.utxos[id]
      BY <2>1, <2>9 DEF Ledger!Apply, Ledger!Outputs
    <3>2. CASE id \in Ledger!Created(t)
      <4>1. PICK i \in DOMAIN NodeBody[t].outputs : id = <<t, i - 1>>
        BY <3>2 DEF Ledger!Created, Ledger!Outputs
      <4>2. id[2] + 1 = i
        BY <2>2, <4>1
      <4> QED BY <2>5, <3>1, <3>2, <4>2
    <3>3. CASE id \notin Ledger!Created(t)
      BY <2>9, <3>1, <3>3 DEF UtxoOK, Ledger!Ids
    <3> QED BY <3>2, <3>3
  <2> QED BY <2>7, <2>8, <2>9 DEF UtxoOK
<1> QED BY <1>1, <1>2

LEMMA UtxoStep == NodeAssumption /\ UtxoOK /\ [Next]_vars => UtxoOK'
<1> SUFFICES ASSUME NodeAssumption, UtxoOK, [Next]_vars PROVE UtxoOK'
  OBVIOUS
<1>1. CASE utxo_set' = utxo_set
  BY <1>1 DEF UtxoOK
<1>2. CASE utxo_set' = Ledger!EmptySet
  BY <1>2 DEF UtxoOK, Ledger!EmptySet
<1>3. CASE utxo_set' = GenesisSet
  BY <1>3 DEF UtxoOK, GenesisSet, GenesisId, Unlocked, NodeAssumption
<1>4. ASSUME NEW t \in Sends, NEW s \in Slots, SendTransaction(t, s) PROVE UtxoOK'
  BY <1>4, ExecuteAmounts DEF SendTransaction, Txs
<1>5. ASSUME NEW t \in Calls, NEW s \in Slots, CallContract(t, s) PROVE UtxoOK'
  <2>1. t \notin Sends /\ t \in Txs
    BY DEF NodeAssumption, Txs
  <2> QED BY <1>5, <2>1, ExecuteAmounts DEF CallContract
<1> QED
  BY <1>1, <1>2, <1>3, <1>4, <1>5
    DEF Next, vars, Start, Stop, InitializeGenesis, GenesisNotSaved, RefuseSend, SaveBlock,
        AddBlock

\* The variables keep their types; and after any crash, restart or failed write
\* the process knows the block at its tip, at the height and the slot stored
\* beside it, unless that very block gave an error when it was saved.
THEOREM TipAlwaysKnown == Spec => []TipIsKnown
<1>1. Init => Sound
  BY InitSound, NodeAssumption
<1>2. Sound /\ [Next]_vars => Sound'
  BY SoundStep, NodeAssumption
<1>3. Init => UtxoOK
  BY DEF Init, UtxoOK, Ledger!EmptySet
<1>4. UtxoOK /\ [Next]_vars => UtxoOK'
  BY UtxoStep, NodeAssumption
<1>5. Sound /\ UtxoOK => TipIsKnown
  BY DEF Sound, UtxoOK, TipIsKnown, TipIsCurrentNow, TypeOK, ChainOK, HandOK, SetsOK, DiskOK
<1> QED BY <1>1, <1>2, <1>3, <1>4, <1>5, PTL DEF Spec

-----------------------------------------------------------------------------
(***************************************************************************)
(* The order of the chain.  A chain is straight when it is linear, its     *)
(* height counts its blocks, its slot is none before those of its blocks,  *)
(* and it names nothing twice.  A block in hand fits its end.  And what a  *)
(* process knows of its chain is at least what is stored: so that a state  *)
(* saved now would be restored straight.                                   *)
(***************************************************************************)
Straight(cs) ==
  /\ IsLinear(cs)
  /\ cs.canonical # <<>> /\ cs.height = Len(cs.canonical) - 1
  /\ \A i, j \in DOMAIN cs.canonical : cs.canonical[i] = cs.canonical[j] => i = j
  /\ \A i \in DOMAIN cs.canonical :
       cs.canonical[i] \in DOMAIN cs.blocks => cs.blocks[cs.canonical[i]].slot <= cs.slot
  /\ GenesisHash \in DOMAIN cs.blocks /\ cs.blocks[GenesisHash] = GenesisBlock

HandFits ==
  hand # None =>
    /\ hand.tx \notin answered
    /\ hand.block.parent = Tip(chain)
    /\ hand.block.number = chain.height + 1
    /\ hand.block.slot > chain.slot
    /\ hand.tx \in DOMAIN disk.blocks => disk.blocks[hand.tx] = hand.block

StoredIsKnown ==
  \A i \in DOMAIN chain.canonical : chain.canonical[i] \in DOMAIN disk.blocks =>
    /\ chain.canonical[i] \in DOMAIN chain.blocks
    /\ chain.blocks[chain.canonical[i]] = disk.blocks[chain.canonical[i]]

InLine ==
  /\ Straight(chain) /\ HandFits /\ StoredIsKnown
  /\ DOMAIN disk.blocks \subseteq built
  /\ disk.state # None => Straight(RestoredChain)

\* A chain some of whose blocks are not known any more is straight still.
LEMMA LessKnownIsStraight ==
  ASSUME NEW S, NEW cs, NEW less, cs.canonical \in Seq(S), Straight(cs),
         less.canonical = cs.canonical, less.height = cs.height, less.slot = cs.slot,
         GenesisHash \in DOMAIN less.blocks,
         \A h \in DOMAIN less.blocks :
           h = GenesisHash \/ (\E i \in DOMAIN cs.canonical : cs.canonical[i] = h) =>
             h \in DOMAIN cs.blocks /\ less.blocks[h] = cs.blocks[h]
  PROVE  Straight(less)
<1>1. \A i \in DOMAIN less.canonical : less.canonical[i] \in DOMAIN less.blocks =>
        /\ cs.canonical[i] \in DOMAIN cs.blocks
        /\ less.blocks[less.canonical[i]] = cs.blocks[cs.canonical[i]]
  OBVIOUS
<1>2. IsLinear(less)
  <2> SUFFICES ASSUME NEW i \in DOMAIN less.canonical,
                      less.canonical[i] \in DOMAIN less.blocks
               PROVE  /\ less.blocks[less.canonical[i]].number = i - 1
                      /\ i > 1 => less.blocks[less.canonical[i]].parent = less.canonical[i - 1]
                      /\ \A j \in 1 .. i - 1 : less.canonical[j] \in DOMAIN less.blocks =>
                           less.blocks[less.canonical[j]].slot
                             < less.blocks[less.canonical[i]].slot
    BY DEF IsLinear
  <2> QED BY <1>1 DEF Straight, IsLinear
<1> QED BY <1>1, <1>2 DEF Straight

\* A block that fits the end of a straight chain keeps it straight.
LEMMA PushedIsStraight ==
  ASSUME NodeAssumption, NEW cs, NEW t \in Txs, NEW block \in Blocks,
         ChainType(cs), Straight(cs),
         \A i \in DOMAIN cs.canonical : cs.canonical[i] # t,
         block.parent = Tip(cs), block.number = cs.height + 1, block.slot > cs.slot
  PROVE  Straight(Push(cs, t, block))
<1> DEFINE seq == Append(cs.canonical, t)
<1>1. PICK new : new = Push(cs, t, block)
  OBVIOUS
<1>2. /\ new.canonical = seq
      /\ DOMAIN new.blocks = DOMAIN cs.blocks \cup {t}
      /\ new.blocks[t] = block
      /\ \A h \in DOMAIN cs.blocks \ {t} : new.blocks[h] = cs.blocks[h]
      /\ new.height = block.number /\ new.slot = block.slot
  BY <1>1 DEF Push
<1>3. cs.canonical \in Seq(Txs \cup {GenesisHash}) /\ cs.canonical # <<>>
  BY DEF ChainType, Straight
<1>4. PICK n \in Nat : n = Len(cs.canonical) /\ DOMAIN cs.canonical = 1 .. n /\ n >= 1
  BY <1>3
<1>5. /\ Len(seq) = n + 1 /\ DOMAIN seq = 1 .. n + 1 /\ seq[n + 1] = t /\ seq # <<>>
      /\ \A i \in 1 .. n : seq[i] = cs.canonical[i] /\ seq[i] # t
  BY <1>3, <1>4
<1>6. /\ block.parent = cs.canonical[n] /\ block.number = n
      /\ block.number \in Nat /\ block.slot \in Nat /\ cs.slot \in Nat
  <2>1. block.parent = cs.canonical[n]
    BY <1>3, <1>4 DEF Tip
  <2>2. block.number = n
    BY <1>4 DEF Straight
  <2> QED BY <2>1, <2>2 DEF Blocks, ChainType
<1> HIDE DEF seq
<1>7. \A i \in 1 .. n : /\ seq[i] \in DOMAIN new.blocks <=> cs.canonical[i] \in DOMAIN cs.blocks
                        /\ new.blocks[seq[i]] = IF cs.canonical[i] \in DOMAIN cs.blocks
                                                THEN cs.blocks[cs.canonical[i]]
                                                ELSE new.blocks[seq[i]]
  BY <1>2, <1>5
<1>8. \A i \in 1 .. n : seq[i] \in DOMAIN new.blocks =>
        new.blocks[seq[i]].slot \in Nat /\ new.blocks[seq[i]].slot < block.slot
  <2>1. \A i \in 1 .. n : cs.canonical[i] \in DOMAIN cs.blocks =>
          cs.blocks[cs.canonical[i]].slot \in Nat /\ cs.blocks[cs.canonical[i]].slot <= cs.slot
    BY <1>4 DEF ChainType, Straight
  <2> QED BY <1>5, <1>6, <1>7, <2>1
<1>9. IsLinear(new)
  <2> SUFFICES ASSUME NEW i \in 1 .. n + 1, seq[i] \in DOMAIN new.blocks
               PROVE  /\ new.blocks[seq[i]].number = i - 1
                      /\ i > 1 => new.blocks[seq[i]].parent = seq[i - 1]
                      /\ \A j \in 1 .. i - 1 : seq[j] \in DOMAIN new.blocks =>
                           new.blocks[seq[j]].slot < new.blocks[seq[i]].slot
    BY <1>2, <1>5 DEF IsLinear
  <2>1. CASE i = n + 1
    BY <1>2, <1>4, <1>5, <1>6, <1>8, <2>1
  <2>2. CASE i \in 1 .. n
    <3>1. /\ cs.blocks[cs.canonical[i]].number = i - 1
          /\ i > 1 => cs.blocks[cs.canonical[i]].parent = cs.canonical[i - 1]
          /\ \A j \in 1 .. i - 1 : cs.canonical[j] \in DOMAIN cs.blocks =>
               cs.blocks[cs.canonical[j]].slot < cs.blocks[cs.canonical[i]].slot
      BY <1>4, <1>7, <2>2 DEF Straight, IsLinear
    <3>2. new.blocks[seq[i]] = cs.blocks[cs.canonical[i]]
      BY <1>7, <2>2
    <3>3. i > 1 => i - 1 \in 1 .. n
      BY <1>4, <2>2
    <3>4. \A j \in 1 .. i - 1 : j \in 1 .. n
      BY <1>4, <2>2
    <3> QED BY <1>5, <1>7, <3>1, <3>2, <3>3, <3>4
  <2> QED BY <1>4, <2>1, <2>2
<1>10. new.height = Len(new.canonical) - 1 /\ new.canonical # <<>>
  BY <1>2, <1>4, <1>5, <1>6
<1>11. \A i, j \in DOMAIN new.canonical : new.canonical[i] = new.canonical[j] => i = j
  <2>1. \A i, j \in 1 .. n : cs.canonical[i] = cs.canonical[j] => i = j
    BY <1>4 DEF Straight
  <2>2. \A i \in 1 .. n + 1 : i \in 1 .. n \/ i = n + 1
    BY <1>4
  <2> QED BY <1>2, <1>5, <2>1, <2>2
<1>12. \A i \in DOMAIN new.canonical :
         new.canonical[i] \in DOMAIN new.blocks => new.blocks[new.canonical[i]].slot <= new.slot
  <2>2. \A i \in 1 .. n + 1 : i \in 1 .. n \/ i = n + 1
    BY <1>4
  <2> QED BY <1>2, <1>5, <1>6, <1>8, <2>2
<1>13. GenesisHash \in DOMAIN new.blocks /\ new.blocks[GenesisHash] = GenesisBlock
  <2>1. GenesisHash # t
    BY DEF NodeAssumption
  <2> QED BY <1>2, <2>1 DEF Straight
<1> QED BY <1>1, <1>9, <1>10, <1>11, <1>12, <1>13 DEF Straight

LEMMA NewIsStraight == Straight(NewChain)
<1>1. /\ NewChain.canonical = <<GenesisHash>> /\ NewChain.height = 0 /\ NewChain.slot = 0
      /\ DOMAIN NewChain.blocks = {GenesisHash}
      /\ NewChain.blocks[GenesisHash] = GenesisBlock
  BY DEF NewChain
<1>2. /\ Len(<<GenesisHash>>) = 1 /\ DOMAIN <<GenesisHash>> = {1}
      /\ <<GenesisHash>>[1] = GenesisHash /\ <<GenesisHash>> # <<>>
  OBVIOUS
<1>3. GenesisBlock.number = 0 /\ GenesisBlock.slot = 0
  BY DEF GenesisBlock
<1>4. IsLinear(NewChain)
  BY <1>1, <1>2, <1>3 DEF IsLinear
<1> QED BY <1>1, <1>2, <1>3, <1>4 DEF Straight

\* A state that was saved beside the blocks there are would be restored straight.
LEMMA SavedIsStraight ==
  ASSUME NodeAssumption, NEW cs, NEW set, ChainType(cs), Straight(cs),
         disk'.state = Snapshot(set, cs),
         DOMAIN disk'.blocks \subseteq Sends,
         \A i \in DOMAIN cs.canonical : cs.canonical[i] \in DOMAIN disk'.blocks =>
           /\ cs.canonical[i] \in DOMAIN cs.blocks
           /\ cs.blocks[cs.canonical[i]] = disk'.blocks[cs.canonical[i]]
  PROVE  Straight(RestoredChain')
<1>1. /\ disk'.state.canonical = cs.canonical
      /\ disk'.state.height = cs.height /\ disk'.state.slot = cs.slot
  BY DEF Snapshot
<1>2. PICK less : less = RestoredChain'
  OBVIOUS
<1> DEFINE known == Range(cs.canonical) \cap DOMAIN disk'.blocks
<1>3. /\ less.canonical = cs.canonical
      /\ less.height = cs.height /\ less.slot = cs.slot
      /\ DOMAIN less.blocks = known \cup {GenesisHash}
      /\ \A h \in known : less.blocks[h] = disk'.blocks[h]
      /\ GenesisHash \notin known => less.blocks[GenesisHash] = GenesisBlock
  BY <1>1, <1>2 DEF RestoredChain
<1>4. GenesisHash \notin known
  BY DEF NodeAssumption, Txs
<1>5. \A h \in DOMAIN less.blocks : h \in DOMAIN cs.blocks /\ less.blocks[h] = cs.blocks[h]
  BY <1>3, <1>4 DEF Straight, Range
<1>6. cs.canonical \in Seq(Txs \cup {GenesisHash})
  BY DEF ChainType
<1> QED BY <1>2, <1>3, <1>5, <1>6, LessKnownIsStraight

\* Nothing that matters to the line of the chain changes.
LEMMA SameLine ==
  ASSUME InLine, UNCHANGED <<chain, disk>>, built \subseteq built', HandFits'
  PROVE  InLine'
BY DEF InLine, StoredIsKnown, RestoredChain

\* Every chain is as new, and so is what is stored, if anything is.
LEMMA DownInLine ==
  ASSUME NodeAssumption, Sound, InLine, phase' = Down, chain' = NewChain, hand' = None,
         UNCHANGED <<built, answered, succeeded, unsaved>>,
         \/ disk' = disk
         \/ /\ phase = Loaded /\ disk.state = None
            /\ disk' = [disk EXCEPT !.state = Snapshot(GenesisSet, chain)]
  PROVE  InLine'
<1>1. /\ DOMAIN disk.blocks \subseteq Sends \cap built
      /\ disk'.blocks = disk.blocks
  BY DEF Sound, DiskOK, InLine
<1>2. Straight(chain')
  BY NewIsStraight
<1>3. \A i \in DOMAIN NewChain.canonical : NewChain.canonical[i] \notin DOMAIN disk.blocks
  <2>1. \A i \in DOMAIN NewChain.canonical : NewChain.canonical[i] = GenesisHash
    BY DEF NewChain
  <2> QED BY <1>1, <2>1 DEF NodeAssumption, Txs
<1>4. disk'.state # None => Straight(RestoredChain')
  <2>1. CASE disk' = disk
    BY <2>1 DEF InLine, RestoredChain
  <2>2. CASE /\ phase = Loaded /\ disk.state = None
             /\ disk' = [disk EXCEPT !.state = Snapshot(GenesisSet, chain)]
    <3>1. chain = NewChain
      BY <2>2 DEF Sound, NewIsNew
    <3>2. disk'.state = Snapshot(GenesisSet, NewChain)
      BY <2>2, <3>1 DEF Sound, DiskOK
    <3> QED BY <1>1, <1>3, <3>2, NewChainFits, NewIsStraight, SavedIsStraight
  <2> QED BY <2>1, <2>2
<1> QED BY <1>1, <1>2, <1>3, <1>4 DEF InLine, HandFits, StoredIsKnown

LEMMA StartInLine ==
  ASSUME NodeAssumption, Sound, InLine, Start
  PROVE  InLine'
<1>1. /\ phase = Down /\ chain' = IF disk.state = None THEN NewChain ELSE RestoredChain
      /\ UNCHANGED <<hand, built, disk, answered>>
  BY DEF Start
<1>2. hand = None
  BY <1>1 DEF Sound, HandOK, Down, Mined, Saved
<1>3. GenesisHash \notin DOMAIN disk.blocks
  BY DEF Sound, DiskOK, NodeAssumption, Txs
<1>4. CASE disk.state = None
  <2>1. \A i \in DOMAIN NewChain.canonical : NewChain.canonical[i] = GenesisHash
    BY DEF NewChain
  <2> QED BY <1>1, <1>2, <1>3, <1>4, <2>1, NewIsStraight DEF InLine, HandFits, StoredIsKnown
<1>5. CASE disk.state # None
  <2>1. PICK cs : cs = RestoredChain
    OBVIOUS
  <2>2. Straight(cs) /\ chain' = cs
    BY <1>1, <1>5, <2>1 DEF InLine
  <2>3. \A i \in DOMAIN cs.canonical : cs.canonical[i] \in DOMAIN disk.blocks =>
          /\ cs.canonical[i] \in DOMAIN cs.blocks
          /\ cs.blocks[cs.canonical[i]] = disk.blocks[cs.canonical[i]]
    BY <2>1 DEF RestoredChain, Range
  <2>4. StoredIsKnown'
    BY <1>1, <2>2, <2>3 DEF StoredIsKnown
  <2>5. disk'.state # None => Straight(RestoredChain')
    BY <1>1 DEF InLine, RestoredChain
  <2> QED BY <1>1, <1>2, <2>2, <2>4, <2>5 DEF InLine, HandFits
<1> QED BY <1>4, <1>5

LEMMA GenesisInLine ==
  ASSUME NodeAssumption, Sound, InLine, InitializeGenesis
  PROVE  InLine'
<1>1. /\ phase = Loaded
      /\ UNCHANGED <<chain, hand, built, answered>>
  BY DEF InitializeGenesis
<1>2. hand = None
  BY <1>1 DEF Sound, HandOK, Loaded, Mined, Saved
<1>3. CASE disk.state # None
  BY <1>1, <1>2, <1>3, SameLine DEF InitializeGenesis, HandFits
<1>4. CASE disk.state = None
  <2>1. disk'.state = Snapshot(GenesisSet, chain) /\ disk'.blocks = disk.blocks
    BY <1>4 DEF InitializeGenesis, Sound, DiskOK
  <2>2. Straight(RestoredChain')
    BY <2>1, SavedIsStraight DEF Sound, DiskOK, ChainOK, InLine, StoredIsKnown
  <2> QED BY <1>1, <1>2, <2>1, <2>2 DEF InLine, HandFits, StoredIsKnown
<1> QED BY <1>3, <1>4

LEMMA SendInLine ==
  ASSUME NodeAssumption, Sound, InLine, NEW t \in Sends, NEW s \in Slots, SendTransaction(t, s)
  PROVE  InLine'
<1>1. Begin(t) /\ t \in Txs /\ UNCHANGED <<chain, disk, unsaved>>
  BY DEF SendTransaction, Txs
<1>2. /\ hand = None /\ t \notin built /\ built' = built \cup {t} /\ built \subseteq built'
  BY <1>1, BeginFacts DEF Begin
<1>3. PICK block : block = Template(chain, s)
  OBVIOUS
<1>4. \/ hand' = [tx |-> t, block |-> block] /\ answered' = answered
      \/ hand' = None
  BY <1>2, <1>3 DEF SendTransaction
<1>5. /\ block.parent = Tip(chain) /\ block.number = chain.height + 1
      /\ block.slot > chain.slot
  <2>1. chain.slot \in Nat /\ s \in Nat
    BY DEF Sound, ChainOK, ChainType, NodeAssumption
  <2>2. Later(chain.slot + 1, s) > chain.slot
    BY <2>1 DEF Later
  <2> QED BY <1>3, <2>2 DEF Template
<1>6. t \notin answered /\ t \notin DOMAIN disk.blocks
  BY <1>2 DEF Sound, SetsOK, InLine
<1>7. HandFits'
  BY <1>1, <1>4, <1>5, <1>6 DEF HandFits
<1> QED BY <1>1, <1>2, <1>7, SameLine

LEMMA SaveBlockInLine ==
  ASSUME NodeAssumption, Sound, InLine, SaveBlock
  PROVE  InLine'
<1>1. /\ hand # None /\ UNCHANGED <<chain, hand, built, answered>>
      /\ hand.tx \in Sends \cap built
      /\ \A i \in DOMAIN chain.canonical : chain.canonical[i] # hand.tx
      /\ disk.state # None /\ phase # Down
  BY DEF SaveBlock, Sound, HandOK, StateIsThere, Mined, Down, Loaded
<1> DEFINE more == [h \in DOMAIN disk.blocks \cup {hand.tx} |->
                      IF h = hand.tx THEN hand.block ELSE disk.blocks[h]]
<1>2. disk'.state = disk.state /\ disk'.blocks \in {disk.blocks, more}
  BY DEF SaveBlock, Write, Sound, DiskOK
<1>3. /\ DOMAIN more = DOMAIN disk.blocks \cup {hand.tx}
      /\ more[hand.tx] = hand.block
      /\ \A h \in DOMAIN disk.blocks \ {hand.tx} : more[h] = disk.blocks[h]
  OBVIOUS
<1> HIDE DEF more
<1>4. CASE disk'.blocks = disk.blocks
  <2>1. disk' = disk
    BY <1>2, <1>4 DEF SaveBlock, Write, Sound, DiskOK
  <2>2. HandFits'
    BY <1>1, <2>1 DEF InLine, HandFits
  <2> QED BY <1>1, <2>1, <2>2, SameLine
<1>5. CASE disk'.blocks = more
  <2>1. HandFits'
    BY <1>1, <1>3, <1>5 DEF InLine, HandFits
  <2>2. StoredIsKnown'
    BY <1>1, <1>3, <1>5 DEF InLine, StoredIsKnown
  <2>3. hand.tx \notin Range(disk.state.canonical)
    <3>1. IsPrefixOf(disk.state.canonical, chain.canonical)
      BY <1>1 DEF Sound, StoredIsPrefix
    <3>2. /\ disk.state.canonical \in Seq(Txs \cup {GenesisHash})
          /\ chain.canonical \in Seq(Txs \cup {GenesisHash})
      BY <1>1 DEF Sound, DiskOK, ChainOK, ChainType
    <3>3. \A i \in DOMAIN disk.state.canonical :
            i \in DOMAIN chain.canonical /\ chain.canonical[i] = disk.state.canonical[i]
      <4>1. GenesisHash \in Txs \cup {GenesisHash}
        OBVIOUS
      <4> QED BY <3>1, <3>2, <4>1, PrefixFacts
    <3> QED BY <1>1, <3>3 DEF Range
  <2>4. RestoredChain' = RestoredChain
    <3>1. Range(disk.state.canonical) \cap DOMAIN more
            = Range(disk.state.canonical) \cap DOMAIN disk.blocks
      BY <1>3, <2>3
    <3>2. \A h \in Range(disk.state.canonical) \cap DOMAIN disk.blocks :
            more[h] = disk.blocks[h]
      BY <1>3, <2>3
    <3> DEFINE known == Range(disk.state.canonical) \cap DOMAIN disk.blocks
               old == [h \in known \cup {GenesisHash} |->
                         IF h \in known THEN disk.blocks[h] ELSE GenesisBlock]
               new == [h \in known \cup {GenesisHash} |->
                         IF h \in known THEN more[h] ELSE GenesisBlock]
    <3>3. old = new
      BY <3>2
    <3>4. RestoredChain.blocks = old /\ RestoredChain'.blocks = new
      BY <1>2, <1>5, <3>1 DEF RestoredChain
    <3>5. /\ RestoredChain = [canonical |-> disk.state.canonical, blocks |-> old,
                              height |-> disk.state.height, slot |-> disk.state.slot]
          /\ RestoredChain' = [canonical |-> disk.state.canonical, blocks |-> new,
                               height |-> disk.state.height, slot |-> disk.state.slot]
      BY <1>2, <1>5, <3>1 DEF RestoredChain
    <3> HIDE DEF old, new
    <3> QED BY <3>3, <3>5
  <2> QED BY <1>1, <1>2, <1>3, <1>5, <2>1, <2>2, <2>4 DEF InLine
<1> QED BY <1>2, <1>4, <1>5

\* A block is added to the chain of the process, whatever is stored.
LEMMA AddedInLine ==
  ASSUME NodeAssumption, Sound, InLine, NEW t \in Txs, NEW block \in Blocks,
         \A i \in DOMAIN chain.canonical : chain.canonical[i] # t,
         block.parent = Tip(chain), block.number = chain.height + 1,
         block.slot > chain.slot,
         t \in DOMAIN disk.blocks => disk.blocks[t] = block,
         chain' = Push(chain, t, block), disk'.blocks = disk.blocks
  PROVE  Straight(chain') /\ StoredIsKnown'
<1>1. Straight(chain')
  BY PushedIsStraight DEF Sound, ChainOK, InLine
<1>2. /\ chain'.canonical = Append(chain.canonical, t)
      /\ DOMAIN chain'.blocks = DOMAIN chain.blocks \cup {t}
      /\ chain'.blocks[t] = block
      /\ \A h \in DOMAIN chain.blocks \ {t} : chain'.blocks[h] = chain.blocks[h]
  BY DEF Push
<1>3. chain.canonical \in Seq(Txs \cup {GenesisHash})
  BY DEF Sound, ChainOK, ChainType
<1>4. \A i \in DOMAIN chain'.canonical :
        \/ chain'.canonical[i] = t
        \/ i \in DOMAIN chain.canonical /\ chain'.canonical[i] = chain.canonical[i]
  BY <1>2, <1>3
<1>5. StoredIsKnown'
  BY <1>2, <1>4 DEF InLine, StoredIsKnown
<1> QED BY <1>1, <1>5

LEMMA AddBlockInLine ==
  ASSUME NodeAssumption, Sound, InLine, AddBlock
  PROVE  InLine'
<1>1. /\ hand # None /\ hand' = None /\ UNCHANGED built
      /\ hand.tx \in Txs \cap built /\ hand.block \in Blocks
      /\ \A i \in DOMAIN chain.canonical : chain.canonical[i] # hand.tx
      /\ chain' = Push(chain, hand.tx, hand.block)
  BY DEF AddBlock, Sound, HandOK, Txs
<1>2. /\ hand.block.parent = Tip(chain) /\ hand.block.number = chain.height + 1
      /\ hand.block.slot > chain.slot
      /\ hand.tx \in DOMAIN disk.blocks => disk.blocks[hand.tx] = hand.block
  BY <1>1 DEF InLine, HandFits
<1>3. PICK state : state = Snapshot(utxo_set, chain')
  OBVIOUS
<1>4. disk'.blocks = disk.blocks /\ (disk' = disk \/ disk'.state = state)
  BY <1>3 DEF AddBlock, Write, Sound, DiskOK
<1>5. Straight(chain') /\ StoredIsKnown'
  <2>1. PICK t \in Txs, block \in Blocks : t = hand.tx /\ block = hand.block
    BY <1>1
  <2> QED BY <1>1, <1>2, <1>4, <2>1, AddedInLine
<1>6. ChainType(chain')
  BY SoundStep DEF Next, Sound, ChainOK
<1>7. disk'.state # None => Straight(RestoredChain')
  <2>1. CASE disk' = disk
    BY <2>1 DEF InLine, RestoredChain
  <2>2. CASE disk'.state = Snapshot(utxo_set, chain')
    <3>1. DOMAIN disk'.blocks \subseteq Sends
      BY <1>4 DEF Sound, DiskOK
    <3>2. PICK cs : cs = chain'
      OBVIOUS
    <3> QED BY <1>5, <1>6, <2>2, <3>1, <3>2, SavedIsStraight DEF StoredIsKnown
  <2> QED BY <1>3, <1>4, <2>1, <2>2
<1> QED BY <1>1, <1>4, <1>5, <1>7 DEF InLine, HandFits

LEMMA CallInLine ==
  ASSUME NodeAssumption, Sound, InLine, NEW t \in Calls, NEW s \in Slots, CallContract(t, s)
  PROVE  InLine'
<1>1. /\ Begin(t) /\ t \in Txs /\ UNCHANGED <<hand, disk, unsaved>>
  BY DEF CallContract, Txs
<1>2. /\ hand = None /\ built \subseteq built'
      /\ \A i \in DOMAIN chain.canonical : chain.canonical[i] # t
  BY <1>1, BeginFacts
<1>3. HandFits'
  BY <1>1, <1>2 DEF HandFits
<1>4. PICK block : block = Template(chain, s)
  OBVIOUS
<1>5. chain' \in {chain, Push(chain, t, block)}
  BY <1>4 DEF CallContract
<1>6. CASE chain' = chain
  BY <1>1, <1>2, <1>3, <1>6, SameLine
<1>7. CASE chain' = Push(chain, t, block)
  <2>1. block \in Blocks
    BY <1>4, TemplateFits DEF Sound
  <2>2. /\ block.parent = Tip(chain) /\ block.number = chain.height + 1
        /\ block.slot > chain.slot
    <3>1. chain.slot \in Nat /\ s \in Nat
      BY DEF Sound, ChainOK, ChainType, NodeAssumption
    <3>2. Later(chain.slot + 1, s) > chain.slot
      BY <3>1 DEF Later
    <3> QED BY <1>4, <3>2 DEF Template
  <2>3. t \notin DOMAIN disk.blocks
    BY DEF Sound, DiskOK, NodeAssumption
  <2>4. Straight(chain') /\ StoredIsKnown'
    BY <1>1, <1>2, <1>7, <2>1, <2>2, <2>3, AddedInLine
  <2> QED BY <1>1, <1>2, <1>3, <2>4 DEF InLine, RestoredChain
<1> QED BY <1>5, <1>6, <1>7

LEMMA InLineStep == NodeAssumption /\ Sound /\ InLine /\ [Next]_vars => InLine'
<1> SUFFICES ASSUME NodeAssumption, Sound, InLine, [Next]_vars PROVE InLine'
  OBVIOUS
<1>1. CASE Start
  BY <1>1, StartInLine
<1>2. CASE Stop
  BY <1>2, DownInLine DEF Stop
<1>3. CASE InitializeGenesis
  BY <1>3, GenesisInLine
<1>4. CASE GenesisNotSaved
  <2>1. disk' \in {disk, [disk EXCEPT !.state = Snapshot(GenesisSet, chain)]}
    BY <1>4 DEF GenesisNotSaved, Write
  <2>2. hand' = None
    BY <1>4 DEF GenesisNotSaved, Sound, HandOK, Loaded, Mined, Saved
  <2> QED BY <1>4, <2>1, <2>2, DownInLine DEF GenesisNotSaved
<1>5. ASSUME NEW t \in Sends, RefuseSend(t) PROVE InLine'
  <2>1. UNCHANGED <<chain, disk, hand, answered>> /\ built \subseteq built'
    BY <1>5 DEF RefuseSend, Begin
  <2> QED BY <2>1, SameLine DEF InLine, HandFits
<1>6. ASSUME NEW t \in Sends, NEW s \in Slots, SendTransaction(t, s) PROVE InLine'
  BY <1>6, SendInLine
<1>7. CASE SaveBlock
  BY <1>7, SaveBlockInLine
<1>8. CASE AddBlock
  BY <1>8, AddBlockInLine
<1>9. ASSUME NEW t \in Calls, NEW s \in Slots, CallContract(t, s) PROVE InLine'
  BY <1>9, CallInLine
<1>10. CASE UNCHANGED vars
  <2>1. UNCHANGED <<chain, disk, hand, answered, built>>
    BY <1>10 DEF vars
  <2> QED BY <2>1, SameLine DEF InLine, HandFits
<1> QED
  BY <1>1, <1>2, <1>3, <1>4, <1>5, <1>6, <1>7, <1>8, <1>9, <1>10 DEF Next

LEMMA InitInLine ==
  ASSUME Init
  PROVE  InLine
<1>1. chain = NewChain /\ hand = None /\ disk = [state |-> None, blocks |-> <<>>]
  BY DEF Init
<1>2. DOMAIN disk.blocks = {} /\ disk.state = None
  BY <1>1
<1> QED BY <1>1, <1>2, NewIsStraight DEF InLine, HandFits, StoredIsKnown

\* In every process, the blocks it knows of its chain are numbered by their place,
\* each on the block before it and later than those before: although what calls of
\* contracts added is not stored, so that chains are restored with gaps, and what
\* was mined may be lost before it is added.
THEOREM ChainStaysLinear == Spec => []ChainIsLinear
<1>1. Init => Sound /\ InLine
  BY InitSound, InitInLine, NodeAssumption
<1>2. Sound /\ InLine /\ [Next]_vars => Sound' /\ InLine'
  BY SoundStep, InLineStep, NodeAssumption
<1>3. InLine => ChainIsLinear
  BY DEF InLine, Straight, ChainIsLinear
<1> QED BY <1>1, <1>2, <1>3, PTL DEF Spec

-----------------------------------------------------------------------------
(***************************************************************************)
(* The refinement of DurableLog.                                           *)
(***************************************************************************)
LEMMA LogStutters ==
  ASSUME disk'.state = disk.state, unsaved' = unsaved,
         answered' \cap Sends = answered \cap Sends
  PROVE  UNCHANGED Log!vars
BY DEF Log!vars, StoredLog

\* The first state that is stored begins the log.
LEMMA LogBegins ==
  ASSUME NodeAssumption, Sound, disk.state = None, phase = Loaded,
         disk'.state = Snapshot(GenesisSet, chain), UNCHANGED <<answered, unsaved>>
  PROVE  Log!Begin
<1>1. StoredLog = <<>>
  BY DEF StoredLog
<1>2. StoredLog' = NewChain.canonical
  <2>1. chain = NewChain
    BY DEF Sound, NewIsNew
  <2>2. disk'.state # None
    BY SnapshotIsNotNone
  <2>3. Snapshot(GenesisSet, chain).canonical = chain.canonical
    BY DEF Snapshot
  <2>4. disk'.state.canonical = NewChain.canonical
    BY <2>1, <2>3
  <2> QED BY <2>2, <2>4 DEF StoredLog
<1>3. NewChain.canonical = <<GenesisHash>>
  BY DEF NewChain
<1>4. StoredLog' = <<GenesisHash>>
  BY <1>2, <1>3
<1>5. DOMAIN <<GenesisHash>> = {1} /\ <<GenesisHash>>[1] = GenesisHash /\ <<GenesisHash>> # <<>>
  OBVIOUS
<1>6. Log!IsInjective(StoredLog')
  BY <1>4, <1>5 DEF Log!IsInjective
<1>7. Log!ToSet(StoredLog') = {GenesisHash}
  BY <1>4, <1>5 DEF Log!ToSet
<1>8. Sends \cap Log!ToSet(StoredLog') = {}
  BY <1>7 DEF NodeAssumption, Txs
<1> QED BY <1>1, <1>4, <1>5, <1>6, <1>8 DEF Log!Begin

\* A transfer that is dropped is answered all the same: its tip was in doubt.
LEMMA LogSends ==
  ASSUME NodeAssumption, Sound, NEW t \in Sends, NEW s \in Slots, SendTransaction(t, s)
  PROVE  Log!Answer(t) \/ UNCHANGED Log!vars
<1>1. /\ phase = Ready /\ t \notin built /\ UNCHANGED <<chain, disk, unsaved>>
  BY DEF SendTransaction, Begin
<1>2. PICK block : block = Template(chain, s)
  OBVIOUS
<1>3. CASE answered' = answered
  BY <1>1, <1>3, LogStutters
<1>4. CASE ~ExtendsParent(chain, block) /\ answered' = answered \cup {t}
  <2>1. ~TipIsCurrent(chain)
    BY <1>2, <1>4, TemplateFits DEF Sound
  <2>2. unsaved # {}
    BY <1>1, <2>1 DEF Sound, TipIsCurrentNow, Ready, Down
  <2>3. t \notin answered
    BY <1>1 DEF Sound, SetsOK
  <2>4. answered' \cap Sends = (answered \cap Sends) \cup {t}
    BY <1>4
  <2>5. StoredLog' = StoredLog
    BY <1>1 DEF StoredLog
  <2> QED BY <1>1, <2>2, <2>3, <2>4, <2>5 DEF Log!Answer
<1> QED BY <1>2, <1>3, <1>4 DEF SendTransaction

LEMMA LogSaves ==
  ASSUME NodeAssumption, Sound, InLine, SaveBlock
  PROVE  (\E t \in Sends : Log!Doubt(t)) \/ UNCHANGED Log!vars
<1>1. /\ hand # None /\ hand.tx \in Sends /\ hand.tx \notin answered
      /\ answered' = answered
  BY DEF SaveBlock, Sound, HandOK, InLine, HandFits
<1>2. disk'.state = disk.state /\ unsaved' \in {unsaved, unsaved \cup {hand.tx}}
  BY DEF SaveBlock, Write, Sound, DiskOK
<1>3. StoredLog' = StoredLog
  BY <1>2 DEF StoredLog
<1>4. unsaved' = unsaved \cup {hand.tx} => Log!Doubt(hand.tx)
  BY <1>1, <1>3 DEF Log!Doubt
<1> QED BY <1>1, <1>2, <1>4, LogStutters

LEMMA AppendEnds ==
  ASSUME NEW S, NEW s \in Seq(S), NEW e \in S
  PROVE  Append(s, e) # <<>> /\ Append(s, e)[Len(Append(s, e))] = e
<1>1. Len(Append(s, e)) = Len(s) + 1 /\ Len(s) \in Nat
  OBVIOUS
<1>2. Append(s, e)[Len(s) + 1] = e
  OBVIOUS
<1>3. Append(s, e) # <<>>
  BY <1>1
<1> QED BY <1>1, <1>2, <1>3, Zenon

\* The state that is saved with a transfer has it as the last thing of a chain
\* that goes on where the stored one ends.
LEMMA LogAdds ==
  ASSUME NodeAssumption, Sound, InLine, AddBlock
  PROVE  \E t \in Sends : Log!Answer(t)
<1>1. /\ hand # None /\ hand.tx \in Sends /\ hand.tx \notin answered /\ phase = Saved
      /\ answered' = answered \cup {hand.tx}
      /\ \A i \in DOMAIN chain.canonical : chain.canonical[i] # hand.tx
  BY DEF AddBlock, Sound, HandOK, InLine, HandFits
<1>2. answered' \cap Sends = (answered \cap Sends) \cup {hand.tx}
  BY <1>1
<1>3. PICK state : state = Snapshot(utxo_set, chain')
  OBVIOUS
<1>4. PICK w \in Write(disk, [disk EXCEPT !.state = state]) :
        /\ disk' = w.db
        /\ unsaved' = IF w.ok THEN unsaved ELSE unsaved \cup {hand.tx}
  BY <1>3 DEF AddBlock
<1>5. \/ disk'.state = state /\ unsaved' \in {unsaved, unsaved \cup {hand.tx}}
      \/ disk' = disk /\ unsaved' = unsaved \cup {hand.tx}
  BY <1>4 DEF Write, Sound, DiskOK
<1>6. CASE disk' = disk /\ unsaved' = unsaved \cup {hand.tx}
  <2>1. StoredLog' = StoredLog
    BY <1>6 DEF StoredLog
  <2> QED BY <1>1, <1>2, <1>6, <2>1 DEF Log!Answer
<1>7. CASE disk'.state = state /\ unsaved' \in {unsaved, unsaved \cup {hand.tx}}
  <2>1. disk.state # None
    BY <1>1 DEF Sound, StateIsThere, Saved, Down, Loaded
  <2>2. state # None /\ state.canonical = chain'.canonical
    BY <1>3, SnapshotIsNotNone DEF Snapshot
  <2>3. StoredLog = disk.state.canonical /\ StoredLog' = chain'.canonical
    BY <1>7, <2>1, <2>2 DEF StoredLog
  <2>4. chain'.canonical = Append(chain.canonical, hand.tx)
    BY DEF AddBlock, Push
  <2>5. IsPrefixOf(disk.state.canonical, chain.canonical)
    BY <1>1, <2>1 DEF Sound, StoredIsPrefix, Saved, Down
  <2> DEFINE S == Txs \cup {GenesisHash}
  <2>6. disk.state.canonical \in Seq(S) /\ chain.canonical \in Seq(S) /\ hand.tx \in S
    BY <1>1, <2>1 DEF Sound, DiskOK, ChainOK, ChainType, Txs
  <2>7. PICK old \in Seq(S), now \in Seq(S), e \in S :
          old = StoredLog /\ now = chain.canonical /\ e = hand.tx
    BY <2>3, <2>6
  <2>9. IsPrefixOf(old, now)
    BY <2>3, <2>5, <2>7
  <2> HIDE DEF S
  <2>8. Append(now, e) # <<>> /\ Append(now, e)[Len(Append(now, e))] = e
    BY <2>7, AppendEnds
  <2>10. IsPrefixOf(old, Append(now, e)) /\ \A i \in DOMAIN old : i \in DOMAIN now /\ now[i] = old[i]
    BY <2>7, <2>9, PrefixFacts
  <2>11. Log!IsPrefix(old, Append(now, e))
    <3>1. SubSeq(old, 1, Len(old)) = old
      BY <2>7
    <3> QED BY <2>10, <3>1 DEF IsPrefixOf, Log!IsPrefix
  <2>12. Log!IsInjective(Append(now, e))
    <3>1. Straight(chain')
      BY InLineStep DEF Next, InLine
    <3> QED BY <2>4, <2>7, <3>1 DEF Straight, Log!IsInjective
  <2>13. e \notin Log!ToSet(old)
    BY <1>1, <2>7, <2>10 DEF Log!ToSet
  <2>14. Log!Last(Append(now, e)) = e
    BY <2>8 DEF Log!Last
  <2>15. StoredLog' = Append(now, e)
    BY <2>3, <2>4, <2>7
  <2>16. Log!Appended
    BY <2>7, <2>11, <2>12, <2>15 DEF Log!Appended
  <2>17. unsaved' \in {unsaved, unsaved \cup {e}} /\ e \notin answered \cap Sends
    BY <1>1, <1>7, <2>7
  <2>18. Log!Answer(e)
    BY <1>2, <2>7, <2>8, <2>13, <2>14, <2>15, <2>16, <2>17 DEF Log!Answer
  <2> QED BY <1>1, <2>7, <2>18
<1> QED BY <1>5, <1>6, <1>7

LEMMA LogStep == NodeAssumption /\ Sound /\ InLine /\ [Next]_vars => [Log!Next]_(Log!vars)
<1> SUFFICES ASSUME NodeAssumption, Sound, InLine, [Next]_vars
             PROVE  Log!Next \/ UNCHANGED Log!vars
  OBVIOUS
<1>1. CASE Start
  BY <1>1, LogStutters DEF Start
<1>2. CASE Stop
  BY <1>2, LogStutters DEF Stop
<1>3. CASE InitializeGenesis
  <2>1. CASE disk.state # None
    BY <1>3, <2>1, LogStutters DEF InitializeGenesis
  <2>2. CASE disk.state = None
    <3>1. disk'.state = Snapshot(GenesisSet, chain)
      BY <1>3, <2>2 DEF InitializeGenesis, Sound, DiskOK
    <3> QED BY <1>3, <2>2, <3>1, LogBegins DEF InitializeGenesis, Log!Next
  <2> QED BY <2>1, <2>2
<1>4. CASE GenesisNotSaved
  <2>1. disk' = disk \/ disk'.state = Snapshot(GenesisSet, chain)
    BY <1>4 DEF GenesisNotSaved, Write, Sound, DiskOK
  <2>2. CASE disk' = disk
    BY <1>4, <2>2, LogStutters DEF GenesisNotSaved
  <2>3. CASE disk'.state = Snapshot(GenesisSet, chain)
    BY <1>4, <2>3, LogBegins DEF GenesisNotSaved, Log!Next
  <2> QED BY <2>1, <2>2, <2>3
<1>5. ASSUME NEW t \in Sends, RefuseSend(t) PROVE UNCHANGED Log!vars
  BY <1>5, LogStutters DEF RefuseSend
<1>6. ASSUME NEW t \in Sends, NEW s \in Slots, SendTransaction(t, s)
      PROVE  Log!Next \/ UNCHANGED Log!vars
  BY <1>6, LogSends DEF Log!Next
<1>7. CASE SaveBlock
  BY <1>7, LogSaves DEF Log!Next
<1>8. CASE AddBlock
  BY <1>8, LogAdds DEF Log!Next
<1>9. ASSUME NEW t \in Calls, NEW s \in Slots, CallContract(t, s) PROVE UNCHANGED Log!vars
  <2>1. UNCHANGED <<disk, unsaved>> /\ answered' \cap Sends = answered \cap Sends
    BY <1>9 DEF CallContract, NodeAssumption
  <2> QED BY <2>1, LogStutters
<1>10. CASE UNCHANGED vars
  BY <1>10, LogStutters DEF vars
<1> QED
  BY <1>1, <1>2, <1>3, <1>4, <1>5, <1>6, <1>7, <1>8, <1>9, <1>10 DEF Next

\* For whoever sends transfers the node is a log that is only appended to: an
\* answer means that the transfer is in it, just once and for good, unless saving
\* it, or one before, gave an error; through crashes between any two steps, chains
\* restored with gaps, and writes that fail before or after they took effect.
THEOREM NodeImplementsLog == Spec => ImplementsLog
<1>1. Init => Log!Init
  BY DEF Init, Log!Init, StoredLog
<1>2. Init => Sound /\ InLine
  BY InitSound, InitInLine, NodeAssumption
<1>3. Sound /\ InLine /\ [Next]_vars => Sound' /\ InLine'
  BY SoundStep, InLineStep, NodeAssumption
<1>4. Sound /\ InLine /\ [Next]_vars => [Log!Next]_(Log!vars)
  BY LogStep, NodeAssumption
<1> QED BY <1>1, <1>2, <1>3, <1>4, PTL DEF Spec, ImplementsLog, Log!Spec
=============================================================================
