----------------------------- MODULE MerkleTree -----------------------------
(***************************************************************************)
(* The Merkle tree of the data availability layer                          *)
(* (crates/data-availability/src/lib.rs, MerkleTree).                      *)
(*                                                                         *)
(* The state is the sequence of leaves: rebuild_tree derives the levels    *)
(* and the root from it after every change.  Hashing is free of            *)
(* collisions: the hash of a datum d is <<d>>.  The hash of a pair is that *)
(* of the text of the two hashes, which may be a datum as well: nothing    *)
(* keeps the leaves apart from the pairs.                                  *)
(***************************************************************************)
EXTENDS Integers, Sequences, FiniteSets, SequencesExt

CONSTANT Data   \* the data that are stored

VARIABLE leaves   \* leaves, and through it tree and root

Leaf(d) == <<d>>

\* The text of two hashes, one after the other.
Joined(left, right) == <<left, right>>

HashPair(left, right) == Leaf(Joined(left, right))

\* One round of rebuild_tree: pairs are hashed, and an odd one out moves up.
NextLevel(level) ==
  [i \in 1 .. (Len(level) + 1) \div 2 |->
     IF 2 * i <= Len(level) THEN HashPair(level[2 * i - 1], level[2 * i])
     ELSE level[2 * i - 1]]

\* The levels from the leaves up.  A level of one hash stays as it is.
Levels(ls) ==
  LET level[k \in 0 .. Len(ls)] == IF k = 0 THEN ls ELSE NextLevel(level[k - 1])
  IN  level

\* The number of the first level of one hash.
RootLevel(ls) ==
  CHOOSE k \in DOMAIN Levels(ls) :
    /\ Len(Levels(ls)[k]) = 1
    /\ \A j \in 0 .. k - 1 : Len(Levels(ls)[j]) > 1

\* get_root, of a tree that is not empty.
Root(ls) == Levels(ls)[RootLevel(ls)][1]

\* The first position of a hash, counted from 0.
Position(ls, hash) ==
  (CHOOSE i \in DOMAIN ls : ls[i] = hash /\ \A j \in 1 .. i - 1 : ls[j] # hash) - 1

\* get_proof halves the index on every level.
Index(ls, position, k) ==
  LET index[j \in 0 .. Len(ls)] == IF j = 0 THEN position ELSE index[j - 1] \div 2
  IN  index[k]

\* Mutant: the neighbour to the right is always taken.
SiblingToTheRight(ls, position, k) ==
  IF Index(ls, position, k) + 1 < Len(Levels(ls)[k])
  THEN <<Levels(ls)[k][Index(ls, position, k) + 2]>>
  ELSE <<>>

\* The sibling on level k, as a sequence of one hash or, where the level ends,
\* of none.
Sibling(ls, position, k) ==
  LET index   == Index(ls, position, k)
      sibling == IF index % 2 = 0 THEN index + 1 ELSE index - 1
  IN  IF sibling < Len(Levels(ls)[k]) THEN <<Levels(ls)[k][sibling + 1]>> ELSE <<>>

\* get_proof, for the leaf at a position: the siblings on the way up.
Proof(ls, position) ==
  FlattenSeq([k \in 1 .. RootLevel(ls) |-> Sibling(ls, position, k - 1)])

\* verify_proof: every sibling is taken for a right one.
VerifyProof(hash, proof, root) == FoldLeft(HashPair, hash, proof) = root

\* What a verification that knows the position does with the siblings.
RootFromSiblings(ls, position) ==
  LET hash[k \in 0 .. RootLevel(ls)] ==
        IF k = 0 THEN ls[position + 1]
        ELSE LET sibling == Sibling(ls, position, k - 1)
             IN  IF sibling = <<>> THEN hash[k - 1]
                 ELSE IF Index(ls, position, k - 1) % 2 = 0
                      THEN HashPair(hash[k - 1], sibling[1])
                      ELSE HashPair(sibling[1], hash[k - 1])
  IN  hash[RootLevel(ls)]

-----------------------------------------------------------------------------
CONSTANT MaxLeaves   \* bound on the number of leaves

InitTree == leaves = <<>>

\* add_leaf
AddLeaf(hash) ==
  /\ Len(leaves) < MaxLeaves
  /\ leaves' = Append(leaves, hash)

\* Vec::retain: what is left of each prefix.
Retained(ls, hashes) ==
  LET kept[k \in 0 .. Len(ls)] ==
        IF k = 0 THEN <<>>
        ELSE IF ls[k] \in hashes THEN kept[k - 1] ELSE Append(kept[k - 1], ls[k])
  IN  kept

\* The retain of cleanup_expired_data: every leaf of a hash that expired goes.
RemoveLeaves(hashes) == leaves' = Retained(leaves, hashes)[Len(leaves)]

-----------------------------------------------------------------------------
\* The siblings get_proof collects are the right ones: put on the side they
\* come from, they lead from every leaf to the root.
SiblingsLeadToRoot(ls) ==
  \A i \in DOMAIN ls : RootFromSiblings(ls, i - 1) = Root(ls)
=============================================================================
