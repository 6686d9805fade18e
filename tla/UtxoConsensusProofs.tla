------------------------ MODULE UtxoConsensusProofs ------------------------
(***************************************************************************)
(* Proofs about the eUTXO consensus layer: for any number of blocks,       *)
(* callers, difficulties and restarts.                                     *)
(*                                                                         *)
(* That blocks form a tree is not inductive by itself: it rests on what is *)
(* known of the blocks that are not yet in the chain.  A template, and a   *)
(* mined block a caller holds, extend a block that is stored, and stored   *)
(* blocks stay; and no two blocks in hand or stored share a hash, so none  *)
(* is written over.                                                        *)
(***************************************************************************)
EXTENDS UtxoConsensus, SequenceTheorems, FiniteSetTheorems, TLAPS

Chain ==
  /\ chain = [canonical |-> chain.canonical, blocks |-> chain.blocks,
              height |-> chain.height, slot |-> chain.slot]
  /\ chain.blocks = [h \in DOMAIN chain.blocks |-> chain.blocks[h]]

GenesisStays ==
  /\ chain.blocks[GenesisHash].number = 0
  /\ chain.blocks[GenesisHash].slot = 0

HandsExtend ==
  /\ template # Idle => ExtendsParent(chain, template.block)
  /\ \A m \in mined : ExtendsParent(chain, m.block) /\ m.hash \notin DOMAIN chain.blocks
  /\ \A m, n \in mined : m.hash = n.hash => m = n

Tree == IsBlockTree(chain)

TipNow == TipIsCurrent(chain)

\* The inductive invariant.
IInv == TypeOK /\ Chain /\ GenesisStays /\ HandsExtend /\ Tree /\ TipNow

-----------------------------------------------------------------------------
LEMMA SlotIsNat ==
  ASSUME ConsensusAssumption, now \in Nat, genesis_time \in Nat
  PROVE  TimestampToSlot(now) \in Nat
<1>1. CASE now < genesis_time
  BY <1>1 DEF TimestampToSlot
<1>2. CASE ~(now < genesis_time)
  <2>1. now - genesis_time \in Nat /\ SlotTime \in Nat \ {0}
    BY <1>2 DEF ConsensusAssumption
  <2>2. (now - genesis_time) \div SlotTime \in Nat
    BY <2>1, Z3
  <2> QED BY <1>2, <2>2 DEF TimestampToSlot
<1> QED BY <1>1, <1>2

\* What a template taken from the tip is.
LEMMA TemplateExtends ==
  ASSUME IInv, NEW s \in Nat
  PROVE  /\ Template(chain, s) \in
              [parent : Hashes \cup {GenesisHash}, number : Nat, slot : Nat]
         /\ ExtendsParent(chain, Template(chain, s))
<1>1. Tip(chain) \in DOMAIN chain.blocks /\ Tip(chain) \in Hashes \cup {GenesisHash}
  BY DEF IInv, TipNow, TipIsCurrent, TypeOK
<1>2. /\ chain.height = chain.blocks[Tip(chain)].number /\ chain.height \in Nat
      /\ chain.slot = chain.blocks[Tip(chain)].slot /\ chain.slot \in Nat
  BY DEF IInv, TipNow, TipIsCurrent, TypeOK
<1>3. Later(chain.slot + 1, s) \in Nat /\ Later(chain.slot + 1, s) > chain.slot
  BY <1>2 DEF Later
<1> QED BY <1>1, <1>2, <1>3 DEF Template, ExtendsParent

\* Pushing a block that is in hand keeps the chain sound, and leaves what
\* extends it extending it.
LEMMA PushKeeps ==
  ASSUME IInv, ConsensusAssumption, NEW m \in mined
  PROVE  LET after == Push(chain, m.hash, m.block)
         IN  /\ IsBlockTree(after)
             /\ TipIsCurrent(after)
             /\ DOMAIN after.blocks = DOMAIN chain.blocks \cup {m.hash}
             /\ \A h \in DOMAIN chain.blocks : after.blocks[h] = chain.blocks[h]
             /\ after.blocks[m.hash] = m.block
             /\ after.canonical \in Seq(Hashes \cup {GenesisHash})
             /\ \A b : ExtendsParent(chain, b) => ExtendsParent(after, b)
<1> DEFINE after == Push(chain, m.hash, m.block)
<1>1. /\ m.hash \in Hashes /\ m.hash \notin DOMAIN chain.blocks /\ m.block \in Block
      /\ ExtendsParent(chain, m.block)
      /\ chain.canonical \in Seq(Hashes \cup {GenesisHash})
  BY DEF IInv, HandsExtend, TypeOK
<1>2. /\ DOMAIN after.blocks = DOMAIN chain.blocks \cup {m.hash}
      /\ \A h \in DOMAIN chain.blocks : after.blocks[h] = chain.blocks[h]
      /\ after.blocks[m.hash] = m.block
  BY <1>1 DEF Push
<1>3. /\ after.canonical = Append(chain.canonical, m.hash)
      /\ after.height = m.block.number /\ after.slot = m.block.slot
  BY DEF Push
<1>4. \A b : ExtendsParent(chain, b) => ExtendsParent(after, b)
  BY <1>2 DEF ExtendsParent
<1>5. IsBlockTree(after)
  BY <1>1, <1>2, <1>4 DEF IsBlockTree, IInv, Tree
<1>6. Tip(after) = m.hash /\ after.canonical \in Seq(Hashes \cup {GenesisHash})
  <2>1. /\ after.canonical \in Seq(Hashes \cup {GenesisHash})
        /\ Len(after.canonical) = Len(chain.canonical) + 1
        /\ after.canonical[Len(chain.canonical) + 1] = m.hash
        /\ Len(chain.canonical) \in Nat
    BY <1>1, <1>3
  <2>2. after.canonical # <<>>
    BY <2>1
  <2> QED BY <2>1, <2>2 DEF Tip
<1>7. TipIsCurrent(after)
  BY <1>2, <1>3, <1>6 DEF TipIsCurrent
<1> QED BY <1>2, <1>4, <1>5, <1>6, <1>7

-----------------------------------------------------------------------------
LEMMA InitIInv ==
  ASSUME ConsensusAssumption, Init
  PROVE  IInv
<1>1. /\ chain.blocks = [h \in {GenesisHash} |-> GenesisBlock(0)]
      /\ chain.canonical = <<GenesisHash>>
      /\ chain.height = 0 /\ chain.slot = 0
      /\ chain.blocks[GenesisHash] = GenesisBlock(0)
      /\ DOMAIN chain.blocks = {GenesisHash}
  BY DEF Init
<1>2. GenesisBlock(0) \in Block /\ GenesisBlock(0).number = 0 /\ GenesisBlock(0).slot = 0
  BY DEF GenesisBlock, Block
<1>3. Tip(chain) = GenesisHash
  BY <1>1 DEF Tip
<1>4. Tree
  BY <1>1 DEF Tree, IsBlockTree
<1>5. TipNow
  BY <1>1, <1>2, <1>3 DEF TipNow, TipIsCurrent
<1>6. TypeOK
  <2>1. chain.canonical \in Seq(Hashes \cup {GenesisHash})
    BY <1>1
  <2>2. pool \in Seq(PoolTxs)
    BY DEF Init
  <2>3. difficulty \in Nat
    BY DEF Init, ConsensusAssumption
  <2> QED BY <1>1, <1>2, <2>1, <2>2, <2>3 DEF TypeOK, Init
<1>7. Chain /\ GenesisStays /\ HandsExtend
  BY <1>1, <1>2 DEF Init, Chain, GenesisStays, HandsExtend
<1> QED BY <1>4, <1>5, <1>6, <1>7 DEF IInv

\* A block in hand is pushed, by ProposeBlock or by AddBlock.
LEMMA PushStep ==
  ASSUME IInv, ConsensusAssumption, NEW m \in mined, template = Idle,
         mined' = mined \ {m}, chain' = Push(chain, m.hash, m.block),
         UNCHANGED <<now, genesis_time, pool, difficulty, template, taken>>
  PROVE  IInv'
<1>1. /\ m.hash \in Hashes /\ m.hash \notin DOMAIN chain.blocks /\ m.block \in Block
      /\ m.hash # GenesisHash /\ GenesisHash \in DOMAIN chain.blocks
  BY DEF IInv, HandsExtend, TypeOK, Tree, IsBlockTree
<1>2. /\ IsBlockTree(chain)' /\ TipIsCurrent(chain)'
      /\ DOMAIN chain'.blocks = DOMAIN chain.blocks \cup {m.hash}
      /\ \A h \in DOMAIN chain.blocks : chain'.blocks[h] = chain.blocks[h]
      /\ chain'.blocks[m.hash] = m.block
      /\ chain'.canonical \in Seq(Hashes \cup {GenesisHash})
      /\ \A b : ExtendsParent(chain, b) => ExtendsParent(chain', b)
  <2>1. PICK after : after = Push(chain, m.hash, m.block)
    OBVIOUS
  <2>2. /\ IsBlockTree(after) /\ TipIsCurrent(after)
        /\ DOMAIN after.blocks = DOMAIN chain.blocks \cup {m.hash}
        /\ \A h \in DOMAIN chain.blocks : after.blocks[h] = chain.blocks[h]
        /\ after.blocks[m.hash] = m.block
        /\ after.canonical \in Seq(Hashes \cup {GenesisHash})
        /\ \A b : ExtendsParent(chain, b) => ExtendsParent(after, b)
    BY <2>1, PushKeeps, Zenon
  <2>3. after = chain'
    BY <2>1
  <2> QED BY <2>2, <2>3 DEF IsBlockTree, TipIsCurrent, Tip, ExtendsParent
<1>3. Chain'
  <2>1. PICK after : after = Push(chain, m.hash, m.block)
    OBVIOUS
  <2>2. /\ after = [canonical |-> after.canonical, blocks |-> after.blocks,
                    height |-> after.height, slot |-> after.slot]
        /\ after.blocks = [h \in DOMAIN after.blocks |-> after.blocks[h]]
    BY <2>1 DEF Push
  <2> QED BY <2>1, <2>2 DEF Chain
<1>4. GenesisStays'
  BY <1>1, <1>2 DEF GenesisStays, IInv
<1>5. HandsExtend'
  BY <1>1, <1>2 DEF HandsExtend, IInv
<1>6. chain'.height \in Nat /\ chain'.slot \in Nat
  BY <1>1 DEF Push, Block
<1>7. TypeOK'
  BY <1>1, <1>2, <1>6 DEF TypeOK, IInv
<1> QED BY <1>2, <1>3, <1>4, <1>5, <1>7 DEF IInv, Tree, TipNow

THEOREM Inductive ==
  ASSUME IInv, ConsensusAssumption, [Next]_vars
  PROVE  IInv'
<1> SUFFICES ASSUME IInv, ConsensusAssumption, Next PROVE IInv'
  <2>1. CASE UNCHANGED vars
    BY <2>1 DEF vars, IInv, TypeOK, Chain, GenesisStays, HandsExtend, Tree,
      IsBlockTree, TipNow, TipIsCurrent, Tip, ExtendsParent
  <2> QED BY <2>1
<1> USE DEF IInv
<1>1. CASE Tick
  BY <1>1 DEF Tick, TypeOK, Chain, GenesisStays, HandsExtend, Tree, TipNow
<1>2. ASSUME NEW t \in PoolTxs, AddPending(t) PROVE IInv'
  BY <1>2 DEF AddPending, TypeOK, Chain, GenesisStays, HandsExtend, Tree, TipNow
<1>3. CASE TakePending
  <2>1. /\ pool' \in Seq(PoolTxs) /\ taken' \subseteq PoolTxs
    <3> DEFINE keep == IF Len(pool) < TakeLimit THEN 0 ELSE Len(pool) - TakeLimit
    <3>1. pool' = SubSeq(pool, 1, keep) /\ taken' = {pool[i] : i \in (keep + 1) .. Len(pool)}
      BY <1>3 DEF TakePending
    <3>2. Len(pool) \in Nat /\ keep \in 0 .. Len(pool)
      BY DEF TypeOK, ConsensusAssumption
    <3>3. \A i \in 1 .. Len(pool) : pool[i] \in PoolTxs
      BY DEF TypeOK
    <3>4. SubSeq(pool, 1, keep) \in Seq(PoolTxs)
      <4>1. \A i \in 1 .. keep : pool[i] \in PoolTxs
        BY <3>2, <3>3
      <4> HIDE DEF keep
      <4> QED BY <3>2, <4>1, SubSeqProperties DEF TypeOK
    <3>5. taken' \subseteq PoolTxs
      BY <3>1, <3>2, <3>3
    <3> QED BY <3>1, <3>4, <3>5
  <2> QED
    BY <1>3, <2>1
      DEF TakePending, TypeOK, Chain, GenesisStays, HandsExtend, Tree, TipNow
<1>4. CASE StartMining
  <2>1. TimestampToSlot(now) \in Nat
    BY SlotIsNat DEF TypeOK
  <2>2. PICK t : t = Template(chain, TimestampToSlot(now))
    OBVIOUS
  <2>3. /\ t \in [parent : Hashes \cup {GenesisHash}, number : Nat, slot : Nat]
        /\ ExtendsParent(chain, t)
    BY <2>1, <2>2, TemplateExtends
  <2>4. template' = [block |-> t, txs |-> taken]
    BY <1>4, <2>2 DEF StartMining
  <2> QED
    BY <1>4, <2>3, <2>4
      DEF StartMining, TypeOK, Chain, GenesisStays, HandsExtend, Tree, TipNow
<1>5. ASSUME NEW hash \in Hashes, NEW work \in Difficulties, FinishMining(hash, work)
      PROVE  IInv'
  <2> DEFINE new ==
        [hash |-> hash,
         block |-> [parent |-> template.block.parent, number |-> template.block.number,
                    slot |-> template.block.slot, timestamp |-> now,
                    txs |-> template.txs, work |-> work]]
  <2>1. mined' = mined \cup {new} /\ template' = Idle /\ template # Idle
    BY <1>5 DEF FinishMining
  <2>2. work \in Nat
    BY DEF ConsensusAssumption
  <2>3. new.block \in Block
    BY <2>1, <2>2 DEF TypeOK, Block
  <2>4. new \in [hash : Hashes, block : Block]
    BY <2>3
  <2>5. ExtendsParent(chain, new.block) /\ new.hash = hash
    BY <2>1 DEF HandsExtend, ExtendsParent
  <2>6. hash \notin DOMAIN chain.blocks /\ \A m \in mined : m.hash # hash
    BY <1>5 DEF FinishMining, Fresh
  <2>7. UNCHANGED <<now, genesis_time, chain, pool, difficulty, taken>>
    BY <1>5 DEF FinishMining
  <2> HIDE DEF new
  <2>8. HandsExtend'
    BY <2>1, <2>5, <2>6, <2>7 DEF HandsExtend
  <2>9. TypeOK'
    BY <2>1, <2>4, <2>7 DEF TypeOK
  <2> QED
    BY <2>7, <2>8, <2>9 DEF Chain, GenesisStays, Tree, TipNow
<1>6. CASE FailMining
  BY <1>6 DEF FailMining, TypeOK, Chain, GenesisStays, HandsExtend, Tree, TipNow
<1>7. ASSUME NEW m \in mined, ProposeBlock(m) PROVE IInv'
  <2>1. CASE Valid(m.block)
    BY <1>7, <2>1, PushStep DEF ProposeBlock
  <2>2. CASE ~Valid(m.block)
    BY <1>7, <2>2
      DEF ProposeBlock, TypeOK, Chain, GenesisStays, HandsExtend, Tree, TipNow
  <2> QED BY <2>1, <2>2
<1>8. ASSUME NEW m \in mined, AddBlock(m) PROVE IInv'
  BY <1>8, PushStep DEF AddBlock
<1>9. ASSUME NEW d \in Difficulties, SetDifficulty(d) PROVE IInv'
  <2>1. d \in Nat
    BY DEF ConsensusAssumption
  <2> QED
    BY <1>9, <2>1
      DEF SetDifficulty, TypeOK, Chain, GenesisStays, HandsExtend, Tree, TipNow
<1>10. CASE Restore
  <2>1. GenesisHash \in DOMAIN chain.blocks
    BY DEF Tree, IsBlockTree
  <2>2. /\ GenesisBlock(now) \in Block
        /\ GenesisBlock(now).number = 0 /\ GenesisBlock(now).slot = 0
    BY DEF TypeOK, Block, GenesisBlock
  <2>3. /\ chain'.canonical = chain.canonical
        /\ chain'.height = chain.height /\ chain'.slot = chain.slot
        /\ chain'.blocks = [chain.blocks EXCEPT ![GenesisHash] = GenesisBlock(now)]
    BY <1>10 DEF Restore, Chain
  <2>4. Chain'
    BY <1>10, <2>3 DEF Restore, Chain
  <2>5. /\ DOMAIN chain'.blocks = DOMAIN chain.blocks
        /\ chain'.blocks[GenesisHash] = GenesisBlock(now)
        /\ \A h \in DOMAIN chain.blocks \ {GenesisHash} : chain'.blocks[h] = chain.blocks[h]
    BY <2>1, <2>3 DEF Chain
  <2>6. \A h \in DOMAIN chain.blocks :
          /\ chain'.blocks[h].number = chain.blocks[h].number
          /\ chain'.blocks[h].slot = chain.blocks[h].slot
    BY <2>2, <2>5 DEF GenesisStays
  <2>7. Tip(chain') = Tip(chain)
    BY <2>3 DEF Tip
  <2>8. Tree'
    BY <2>5, <2>6 DEF Tree, IsBlockTree, ExtendsParent
  <2>9. TipNow'
    BY <2>3, <2>5, <2>6, <2>7 DEF TipNow, TipIsCurrent, Tip
  <2>10. pool' \in Seq(PoolTxs)
    BY <1>10 DEF Restore
  <2>11. TypeOK'
    BY <1>10, <2>2, <2>3, <2>5, <2>10 DEF Restore, TypeOK
  <2>12. GenesisStays' /\ HandsExtend'
    BY <1>10, <2>2, <2>5 DEF Restore, GenesisStays, HandsExtend
  <2> QED BY <2>4, <2>8, <2>9, <2>11, <2>12
<1> QED
  BY <1>1, <1>2, <1>3, <1>4, <1>5, <1>6, <1>7, <1>8, <1>9, <1>10 DEF Next

\* However callers mine, hold, propose and add blocks, and however often the
\* node restarts, the variables keep their types, the stored blocks form a tree
\* under the genesis block, with numbers and slots going up from parent to child,
\* and the height and the slot, which get_block_height and get_current_slot
\* return and the node stores on their own, are those of the last block.
THEOREM TreeOfBlocks == Spec => []BlocksFormTree
<1>1. Init => IInv
  BY InitIInv, ConsensusAssumption
<1>2. IInv /\ [Next]_vars => IInv'
  BY Inductive, ConsensusAssumption
<1>3. IInv => BlocksFormTree
  BY DEF IInv, Tree, TipNow, BlocksFormTree
<1> QED BY <1>1, <1>2, <1>3, PTL DEF Spec

-----------------------------------------------------------------------------
LEMMA SeqKeepsPrefix ==
  ASSUME NEW S, NEW s \in Seq(S)
  PROVE  /\ SubSeq(s, 1, Len(s)) = s
         /\ \A e \in S : SubSeq(Append(s, e), 1, Len(s)) = s
<1>1. SubSeq(s, 1, Len(s)) = s
  OBVIOUS
<1>2. ASSUME NEW e \in S PROVE SubSeq(Append(s, e), 1, Len(s)) = s
  <2>1. Append(s, e) \in Seq(S) /\ Len(Append(s, e)) = Len(s) + 1 /\ Len(s) \in Nat
    OBVIOUS
  <2>2. \A i \in 1 .. Len(s) : Append(s, e)[i] = s[i]
    OBVIOUS
  <2>3. /\ SubSeq(Append(s, e), 1, Len(s)) \in Seq(S)
        /\ Len(SubSeq(Append(s, e), 1, Len(s))) = Len(s)
        /\ \A i \in 1 .. Len(s) : SubSeq(Append(s, e), 1, Len(s))[i] = s[i]
    BY <2>1, <2>2, SubSeqProperties
  <2> QED BY <2>3, SeqEqual
<1> QED BY <1>1, <1>2

LEMMA PushGrows ==
  ASSUME IInv, NEW m \in mined, chain' = Push(chain, m.hash, m.block)
  PROVE  ChainGrows
<1>1. m.hash \in Hashes /\ m.hash \notin DOMAIN chain.blocks
  BY DEF IInv, HandsExtend, TypeOK
<1>2. /\ chain'.canonical = Append(chain.canonical, m.hash)
      /\ \A h \in DOMAIN chain.blocks :
           h \in DOMAIN chain'.blocks /\ chain'.blocks[h] = chain.blocks[h]
  BY <1>1 DEF Push
<1>3. chain.canonical \in Seq(Hashes \cup {GenesisHash})
  BY DEF IInv, TypeOK
<1>4. /\ Len(chain'.canonical) >= Len(chain.canonical)
      /\ SubSeq(chain'.canonical, 1, Len(chain.canonical)) = chain.canonical
  <2>1. Len(chain'.canonical) = Len(chain.canonical) + 1 /\ Len(chain.canonical) \in Nat
    BY <1>1, <1>2, <1>3
  <2> QED BY <2>1, <1>1, <1>2, <1>3, SeqKeepsPrefix
<1> QED BY <1>2, <1>4 DEF ChainGrows

\* Nothing that is in the canonical chain ever leaves it or changes: neither
\* another block nor a restart of the node.
THEOREM CanonicalGrows == Spec => CanonicalOnlyGrows
<1>1. Init => IInv
  BY InitIInv, ConsensusAssumption
<1>2. IInv /\ [Next]_vars => IInv'
  BY Inductive, ConsensusAssumption
<1>3. ASSUME IInv, UNCHANGED <<chain.canonical, chain.blocks>> PROVE ChainGrows
  <2>1. chain.canonical \in Seq(Hashes \cup {GenesisHash})
    BY <1>3 DEF IInv, TypeOK
  <2>2. Len(chain.canonical) \in Nat
    BY <2>1
  <2> QED BY <1>3, <2>1, <2>2, SeqKeepsPrefix DEF ChainGrows
<1>4. ASSUME IInv, Next PROVE ChainGrows
  <2>1. ASSUME NEW m \in mined, ProposeBlock(m) \/ AddBlock(m) PROVE ChainGrows
    <3>1. chain' = Push(chain, m.hash, m.block) \/ chain' = chain
      BY <2>1 DEF ProposeBlock, AddBlock
    <3> QED BY <1>4, <3>1, <1>3, PushGrows
  <2>2. CASE Restore
    <3>1. /\ chain'.canonical = chain.canonical
          /\ chain'.blocks = [chain.blocks EXCEPT ![GenesisHash] = GenesisBlock(now)]
      BY <1>4, <2>2 DEF Restore, IInv, Chain
    <3>2. \A h \in DOMAIN chain.blocks \ {GenesisHash} :
            h \in DOMAIN chain'.blocks /\ chain'.blocks[h] = chain.blocks[h]
      BY <1>4, <3>1 DEF IInv, Chain
    <3>3. chain.canonical \in Seq(Hashes \cup {GenesisHash})
      BY <1>4 DEF IInv, TypeOK
    <3>4. Len(chain.canonical) \in Nat
      BY <3>3
    <3> QED BY <3>1, <3>2, <3>3, <3>4, SeqKeepsPrefix DEF ChainGrows
  <2>3. CASE UNCHANGED chain
    BY <1>3, <1>4, <2>3
  <2> QED
    BY <1>4, <2>1, <2>2, <2>3
      DEF Next, Tick, AddPending, TakePending, StartMining, FinishMining, FailMining,
          SetDifficulty
<1>5. IInv /\ [Next]_vars => [ChainGrows]_vars
  BY <1>4
<1> QED BY <1>1, <1>2, <1>5, PTL DEF Spec, CanonicalOnlyGrows

-----------------------------------------------------------------------------
(***************************************************************************)
(* Where a transaction is.  It waits in the pool, or is in the hands of a  *)
(* caller, in the block being mined, in a mined block, or in a stored one; *)
(* and in one of these places only, which is what mined-once rests on.     *)
(***************************************************************************)
Waiting == {pool[i] : i \in DOMAIN pool}

Building == IF template = Idle THEN {} ELSE template.txs

InHand == UNION {m.block.txs : m \in mined}

Stored == UNION {chain.blocks[h].txs : h \in DOMAIN chain.blocks}

OnePlace ==
  /\ \A i, j \in DOMAIN pool : pool[i] = pool[j] => i = j
  /\ Waiting \cap (taken \cup Building \cup InHand \cup Stored) = {}
  /\ taken \cap (Building \cup InHand \cup Stored) = {}
  /\ Building \cap (InHand \cup Stored) = {}
  /\ InHand \cap Stored = {}
  /\ \A m, n \in mined : m # n => m.block.txs \cap n.block.txs = {}
  /\ \A g, h \in DOMAIN chain.blocks :
       g # h => chain.blocks[g].txs \cap chain.blocks[h].txs = {}

\* What TakePending hands out and what it leaves behind, in sets.
LEMMA TakeSplits ==
  ASSUME TypeOK, ConsensusAssumption, OnePlace, TakePending
  PROVE  /\ taken' \subseteq Waiting
         /\ Waiting' \subseteq Waiting
         /\ Waiting' \cap taken' = {}
         /\ \A i, j \in DOMAIN pool' : pool'[i] = pool'[j] => i = j
<1> DEFINE keep == IF Len(pool) < TakeLimit THEN 0 ELSE Len(pool) - TakeLimit
<1>1. pool' = SubSeq(pool, 1, keep) /\ taken' = {pool[i] : i \in (keep + 1) .. Len(pool)}
  BY DEF TakePending
<1>2. Len(pool) \in Nat /\ keep \in 0 .. Len(pool) /\ DOMAIN pool = 1 .. Len(pool)
  BY DEF TypeOK, ConsensusAssumption
<1>3. \A i \in 1 .. keep : pool[i] \in PoolTxs
  BY <1>2 DEF TypeOK
<1> HIDE DEF keep
<1>4. /\ pool' \in Seq(PoolTxs) /\ Len(pool') = keep
      /\ \A i \in 1 .. keep : pool'[i] = pool[i]
  BY <1>1, <1>2, <1>3, SubSeqProperties
<1>5. DOMAIN pool' = 1 .. keep
  BY <1>4
<1> QED BY <1>1, <1>2, <1>4, <1>5 DEF Waiting, OnePlace

LEMMA PushKeepsPlaces ==
  ASSUME IInv, OnePlace, ConsensusAssumption, NEW m \in mined, template = Idle,
         mined' = mined \ {m}, chain' = Push(chain, m.hash, m.block),
         UNCHANGED <<pool, template, taken>>
  PROVE  OnePlace'
<1>1. m.hash \notin DOMAIN chain.blocks
  BY DEF IInv, HandsExtend
<1>2. /\ DOMAIN chain'.blocks = DOMAIN chain.blocks \cup {m.hash}
      /\ \A h \in DOMAIN chain.blocks : chain'.blocks[h] = chain.blocks[h]
      /\ chain'.blocks[m.hash] = m.block
  BY <1>1 DEF Push
<1>3. Stored' = Stored \cup m.block.txs
  BY <1>1, <1>2 DEF Stored
<1>4. m.block.txs \subseteq InHand /\ InHand' \subseteq InHand
  BY DEF InHand
<1>5. InHand' \cap m.block.txs = {}
  BY DEF InHand, OnePlace
<1>6. \A h \in DOMAIN chain.blocks : chain.blocks[h].txs \subseteq Stored
  BY DEF Stored
<1>7. \A h \in DOMAIN chain.blocks : chain.blocks[h].txs \cap m.block.txs = {}
  BY <1>4, <1>6 DEF OnePlace
<1>8. \A g, h \in DOMAIN chain'.blocks :
        g # h => chain'.blocks[g].txs \cap chain'.blocks[h].txs = {}
  BY <1>2, <1>7 DEF OnePlace
<1>9. Waiting' = Waiting /\ Building' = Building
  BY DEF Waiting, Building
<1> QED BY <1>3, <1>4, <1>5, <1>8, <1>9 DEF OnePlace

LEMMA PlacesKept ==
  ASSUME IInv, OnePlace, ConsensusAssumption, [Next]_vars
  PROVE  OnePlace'
<1> SUFFICES ASSUME Next PROVE OnePlace'
  BY DEF vars, OnePlace, Waiting, Building, InHand, Stored
<1>1. CASE Tick
  BY <1>1 DEF Tick, OnePlace, Waiting, Building, InHand, Stored
<1>2. ASSUME NEW t \in PoolTxs, AddPending(t) PROVE OnePlace'
  <2>1. pool' = Append(pool, t) /\ pool \in Seq(PoolTxs) /\ Len(pool) \in Nat
    BY <1>2 DEF AddPending, IInv, TypeOK
  <2>2. /\ DOMAIN pool' = DOMAIN pool \cup {Len(pool) + 1}
        /\ DOMAIN pool = 1 .. Len(pool)
        /\ \A i \in DOMAIN pool : pool'[i] = pool[i]
        /\ pool'[Len(pool) + 1] = t
    BY <2>1
  <2>3. t \notin Waiting \cup taken \cup Building \cup InHand \cup Stored
    <3>1. Submitted = Waiting \cup taken \cup Stored \cup InHand \cup Building
      BY DEF Submitted, Waiting, Building, InHand, Stored
    <3> QED BY <1>2, <3>1 DEF AddPending
  <2>4. Waiting' = Waiting \cup {t}
    BY <2>2 DEF Waiting
  <2>5. taken' = taken /\ Building' = Building /\ InHand' = InHand /\ Stored' = Stored
    BY <1>2 DEF AddPending, Building, InHand, Stored
  <2>6. \A i, j \in DOMAIN pool' : pool'[i] = pool'[j] => i = j
    BY <2>2, <2>3 DEF OnePlace, Waiting
  <2> QED BY <1>2, <2>3, <2>4, <2>5, <2>6 DEF OnePlace, AddPending
<1>3. CASE TakePending
  <2>1. /\ taken = {} /\ taken' \subseteq Waiting /\ Waiting' \subseteq Waiting
        /\ Waiting' \cap taken' = {}
        /\ \A i, j \in DOMAIN pool' : pool'[i] = pool'[j] => i = j
    BY <1>3, TakeSplits DEF IInv, TakePending
  <2>2. Building' = Building /\ InHand' = InHand /\ Stored' = Stored
    BY <1>3 DEF TakePending, Building, InHand, Stored
  <2> QED BY <1>3, <2>1, <2>2 DEF OnePlace, TakePending
<1>4. CASE StartMining
  <2>1. Building' \subseteq taken /\ taken' = {} /\ Building = {}
    BY <1>4 DEF StartMining, Building
  <2>2. Waiting' = Waiting /\ InHand' = InHand /\ Stored' = Stored
    BY <1>4 DEF StartMining, Waiting, InHand, Stored
  <2> QED BY <1>4, <2>1, <2>2 DEF OnePlace, StartMining
<1>5. ASSUME NEW hash \in Hashes, NEW work \in Difficulties, FinishMining(hash, work)
      PROVE  OnePlace'
  <2>1. PICK new : /\ mined' = mined \cup {new}
                   /\ new.block.txs = template.txs
    <3> DEFINE b == [parent |-> template.block.parent, number |-> template.block.number,
                     slot |-> template.block.slot, timestamp |-> now,
                     txs |-> template.txs, work |-> work]
               new == [hash |-> hash, block |-> b]
    <3>1. mined' = mined \cup {new}
      BY <1>5 DEF FinishMining
    <3>2. new.block.txs = template.txs /\ new.block.timestamp = now
      OBVIOUS
    <3> HIDE DEF new
    <3> QED BY <3>1, <3>2
  <2>2. Building = template.txs /\ Building' = {}
    BY <1>5 DEF FinishMining, Building
  <2>3. InHand' = InHand \cup Building
    BY <2>1, <2>2 DEF InHand
  <2>4. \A m \in mined : m.block.txs \subseteq InHand
    BY DEF InHand
  <2>5. \A m, n \in mined' : m # n => m.block.txs \cap n.block.txs = {}
    BY <2>1, <2>2, <2>4 DEF OnePlace
  <2>6. Waiting' = Waiting /\ Stored' = Stored
    BY <1>5 DEF FinishMining, Waiting, Stored
  <2> QED BY <1>5, <2>2, <2>3, <2>5, <2>6 DEF OnePlace, FinishMining
<1>6. CASE FailMining
  <2>1. Building' = {} /\ Waiting' = Waiting /\ InHand' = InHand /\ Stored' = Stored
    BY <1>6 DEF FailMining, Building, Waiting, InHand, Stored
  <2> QED BY <1>6, <2>1 DEF OnePlace, FailMining
<1>7. ASSUME NEW m \in mined, ProposeBlock(m) PROVE OnePlace'
  <2>1. CASE Valid(m.block)
    BY <1>7, <2>1, PushKeepsPlaces DEF ProposeBlock
  <2>2. CASE ~Valid(m.block)
    <3>1. /\ InHand' \subseteq InHand /\ Stored' = Stored
          /\ Building' = Building /\ Waiting' = Waiting
      BY <1>7, <2>2 DEF ProposeBlock, InHand, Stored, Building, Waiting
    <3> QED BY <1>7, <2>2, <3>1 DEF OnePlace, ProposeBlock
  <2> QED BY <2>1, <2>2
<1>8. ASSUME NEW m \in mined, AddBlock(m) PROVE OnePlace'
  BY <1>8, PushKeepsPlaces DEF AddBlock
<1>9. ASSUME NEW d \in Difficulties, SetDifficulty(d) PROVE OnePlace'
  BY <1>9 DEF SetDifficulty, OnePlace, Waiting, Building, InHand, Stored
<1>10. CASE Restore
  <2>1. chain'.blocks = [chain.blocks EXCEPT ![GenesisHash] = GenesisBlock(now)]
    BY <1>10 DEF Restore, IInv, Chain
  <2>2. /\ DOMAIN chain'.blocks = DOMAIN chain.blocks
        /\ \A h \in DOMAIN chain.blocks :
             chain'.blocks[h].txs = chain.blocks[h].txs \/ chain'.blocks[h].txs = {}
    BY <2>1 DEF IInv, Chain, GenesisBlock
  <2>3. Waiting' = {} /\ Building' = {} /\ InHand' = {} /\ taken' = {} /\ mined' = {}
    BY <1>10 DEF Restore, Waiting, Building, InHand
  <2>4. \A i, j \in DOMAIN pool' : pool'[i] = pool'[j] => i = j
    BY <1>10 DEF Restore
  <2>5. \A g, h \in DOMAIN chain'.blocks :
          g # h => chain'.blocks[g].txs \cap chain'.blocks[h].txs = {}
    BY <2>2 DEF OnePlace
  <2> QED BY <2>3, <2>4, <2>5 DEF OnePlace
<1> QED
  BY <1>1, <1>2, <1>3, <1>4, <1>5, <1>6, <1>7, <1>8, <1>9, <1>10 DEF Next

\* A transaction given to add_pending_utxo_transaction is in one stored block at
\* most, and never in a block while it waits in the pool, whatever callers take
\* from the pool, mine, drop, propose twice over or lose in a restart.
THEOREM TransactionsMinedOnce == Spec => []MinedOnce
<1>1. Init => IInv
  BY InitIInv, ConsensusAssumption
<1>2. IInv /\ [Next]_vars => IInv'
  BY Inductive, ConsensusAssumption
<1>3. Init => OnePlace
  <2> SUFFICES ASSUME Init PROVE OnePlace
    OBVIOUS
  <2>1. DOMAIN chain.blocks = {GenesisHash} /\ pool = <<>> /\ taken = {} /\ mined = {}
    BY DEF Init
  <2>2. Building = {} /\ Waiting = {} /\ InHand = {}
    BY <2>1 DEF Init, Building, Waiting, InHand
  <2> QED BY <2>1, <2>2 DEF OnePlace
<1>4. IInv /\ OnePlace /\ [Next]_vars => OnePlace'
  BY PlacesKept, ConsensusAssumption
<1>5. OnePlace => MinedOnce
  <2> SUFFICES ASSUME OnePlace PROVE MinedOnce
    OBVIOUS
  <2>1. \A h \in DOMAIN chain.blocks, i \in DOMAIN pool : pool[i] \notin chain.blocks[h].txs
    BY DEF OnePlace, Waiting, Stored
  <2> QED BY <2>1 DEF MinedOnce, OnePlace
<1> QED BY <1>1, <1>2, <1>3, <1>4, <1>5, PTL DEF Spec

-----------------------------------------------------------------------------
(***************************************************************************)
(* What a caller holds fits in a block, and was made before now.           *)
(***************************************************************************)
Fits(txs) == Cardinality(txs) <= MaxTxs

HandsFit ==
  /\ Fits(taken)
  /\ template # Idle => Fits(template.txs)
  /\ \A m \in mined : Fits(m.block.txs) /\ m.block.timestamp <= now

\* split_off hands out no more than it was asked for.
LEMMA TakesAtMostLimit ==
  ASSUME TypeOK, ConsensusAssumption, TakePending
  PROVE  Cardinality(taken') <= TakeLimit /\ Cardinality(taken') \in Nat
<1> DEFINE keep == IF Len(pool) < TakeLimit THEN 0 ELSE Len(pool) - TakeLimit
           I == (keep + 1) .. Len(pool)
           f == [i \in I |-> pool[i]]
<1>1. Len(pool) \in Nat /\ keep \in Nat /\ TakeLimit \in Nat /\ keep + TakeLimit >= Len(pool)
  BY DEF TypeOK, ConsensusAssumption
<1>2. taken' = {pool[i] : i \in I}
  BY DEF TakePending
<1> HIDE DEF keep
<1>3. IsFiniteSet(I) /\ Cardinality(I) = IF keep + 1 > Len(pool) THEN 0 ELSE Len(pool) - keep
  <2>1. PICK lo \in Int, hi \in Int : lo = keep + 1 /\ hi = Len(pool)
    BY <1>1
  <2>2. IsFiniteSet(lo .. hi) /\ Cardinality(lo .. hi) = IF lo > hi THEN 0 ELSE hi - lo + 1
    BY FS_Interval
  <2>3. IsFiniteSet(I) /\ Cardinality(I) = IF lo > hi THEN 0 ELSE hi - lo + 1
    BY <2>1, <2>2
  <2> QED BY <1>1, <2>1, <2>3
<1>4. f \in Surjection(I, taken')
  BY <1>2 DEF Surjection
<1>5. Cardinality(taken') <= Cardinality(I) /\ IsFiniteSet(taken')
  BY <1>3, <1>4, FS_Surjection
<1>6. Cardinality(taken') \in Nat
  BY <1>5, FS_CardinalityType
<1>7. Cardinality(I) <= TakeLimit /\ Cardinality(I) \in Nat
  BY <1>1, <1>3
<1> QED BY <1>1, <1>5, <1>6, <1>7

LEMMA FitKept ==
  ASSUME IInv, HandsFit, ConsensusAssumption, TakeLimit <= MaxTxs, [Next]_vars
  PROVE  HandsFit'
<1> SUFFICES ASSUME Next PROVE HandsFit'
  BY DEF vars, HandsFit, Fits
<1>1. now \in Nat /\ \A m \in mined : m.block.timestamp \in Nat
  BY DEF IInv, TypeOK, Block
<1>2. Fits({})
  BY FS_EmptySet DEF Fits, ConsensusAssumption
<1>3. CASE Tick
  BY <1>1, <1>3 DEF Tick, HandsFit, Fits
<1>4. CASE TakePending
  <2>1. Fits(taken')
    <3>1. Cardinality(taken') <= TakeLimit /\ Cardinality(taken') \in Nat
      BY <1>4, TakesAtMostLimit DEF IInv
    <3> QED BY <3>1 DEF Fits, ConsensusAssumption
  <2> QED BY <1>4, <2>1 DEF TakePending, HandsFit
<1>5. CASE StartMining
  BY <1>2, <1>5 DEF StartMining, HandsFit
<1>6. ASSUME NEW hash \in Hashes, NEW work \in Difficulties, FinishMining(hash, work)
      PROVE  HandsFit'
  <2>1. PICK new : /\ mined' = mined \cup {new}
                   /\ new.block.txs = template.txs /\ new.block.timestamp = now
    <3> DEFINE b == [parent |-> template.block.parent, number |-> template.block.number,
                     slot |-> template.block.slot, timestamp |-> now,
                     txs |-> template.txs, work |-> work]
               new == [hash |-> hash, block |-> b]
    <3>1. mined' = mined \cup {new}
      BY <1>6 DEF FinishMining
    <3>2. new.block.txs = template.txs /\ new.block.timestamp = now
      OBVIOUS
    <3> HIDE DEF new
    <3> QED BY <3>1, <3>2
  <2> QED BY <1>1, <1>6, <2>1 DEF FinishMining, HandsFit
<1>7. ASSUME NEW m \in mined, ProposeBlock(m) \/ AddBlock(m) PROVE HandsFit'
  BY <1>7 DEF ProposeBlock, AddBlock, HandsFit
<1>8. CASE Restore
  BY <1>2, <1>8 DEF Restore, HandsFit
<1>9. CASE UNCHANGED <<now, mined, taken>> /\ template' \in {template, Idle}
  BY <1>9 DEF HandsFit
<1> QED
  BY <1>3, <1>4, <1>5, <1>6, <1>7, <1>8, <1>9
    DEF Next, AddPending, FailMining, SetDifficulty

\* As long as callers take no more transactions from the pool than a block may
\* hold, a block mined on the tip passes validate_utxo_block for as long as its
\* parent is the tip and the difficulty was not raised: whatever was proposed,
\* refused or restarted while it was held.
THEOREM TipBlockStaysValid ==
  ASSUME TakeLimit <= MaxTxs
  PROVE  Spec => []TipBlockIsValid
<1>1. Init => IInv
  BY InitIInv, ConsensusAssumption
<1>2. IInv /\ [Next]_vars => IInv'
  BY Inductive, ConsensusAssumption
<1>3. Init => HandsFit
  BY FS_EmptySet, ConsensusAssumption DEF Init, HandsFit, Fits, ConsensusAssumption
<1>4. IInv /\ HandsFit /\ [Next]_vars => HandsFit'
  BY FitKept, ConsensusAssumption
<1>5. IInv /\ HandsFit => TipBlockIsValid
  <2> SUFFICES ASSUME IInv, HandsFit, NEW m \in mined, ~Strict, m.block.work >= difficulty
               PROVE  Valid(m.block)
    BY DEF TipBlockIsValid
  <2>1. Cardinality(m.block.txs) <= MaxTxs /\ ExtendsParent(chain, m.block)
    BY DEF HandsFit, Fits, IInv, HandsExtend
  <2>2. m.block.timestamp <= now + 5 * SlotTime
    <3>1. m.block.timestamp \in Nat /\ now \in Nat /\ SlotTime \in Nat /\ m.block.timestamp <= now
      BY ConsensusAssumption DEF HandsFit, IInv, TypeOK, Block, ConsensusAssumption
    <3> QED BY <3>1
  <2> QED BY <2>1, <2>2 DEF Valid
<1> QED BY <1>1, <1>2, <1>3, <1>4, <1>5, PTL DEF Spec
=============================================================================
