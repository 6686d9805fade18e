-------------------------- MODULE SettlementProofs --------------------------
(***************************************************************************)
(* Theorems about Settlement, for every set of batches and challenges and  *)
(* every challenge period.                                                 *)
(***************************************************************************)
EXTENDS Settlement, FiniteSetTheorems, TLAPS

\* A batch that may be finalised is pending, and its result is a typed
\* settlement result.
LEMMA FinalisableResult ==
  ASSUME TypeOK, NEW b \in Finalisable
  PROVE  /\ b \in BatchIds
         /\ pending[b] \in PendingBatch
         /\ ResultOf(b) \in SettlementResult
  BY DEF Finalisable, IsPending, TypeOK, PendingBatch, ResultOf, BatchRoot, SettlementResult

\* What finalize_unchallenged_batches appends is a sequence of results, all
\* of them made now.
LEMMA AppendedResults ==
  ASSUME TypeOK, NEW order \in Orderings(Finalisable)
  PROVE  LET appended == [i \in 1 .. Cardinality(Finalisable) |-> ResultOf(order[i])]
         IN  /\ appended \in Seq(SettlementResult)
             /\ \A i \in 1 .. Len(appended) : appended[i].timestamp = now
<1>1. IsFiniteSet(Finalisable)
  BY SettlementAssumption, FS_Subset DEF Finalisable
<1>2. Cardinality(Finalisable) \in Nat
  BY <1>1, FS_CardinalityType
<1>3. \A i \in 1 .. Cardinality(Finalisable) : order[i] \in Finalisable
  BY DEF Orderings
<1>4. \A i \in 1 .. Cardinality(Finalisable) :
        ResultOf(order[i]) \in SettlementResult /\ ResultOf(order[i]).timestamp = now
  BY <1>3, FinalisableResult DEF ResultOf
<1> QED
  BY <1>2, <1>4

-----------------------------------------------------------------------------
\* The challenge a process_challenge call judges gets a status of the type.
LEMMA VerdictType == \A c \in ChallengeIds : Verdict(c) \in ChallengeStatus
  BY DEF Verdict, ChallengeStatus

LEMMA TypeStep ==
  ASSUME TypeOK, [Next]_vars
  PROVE  TypeOK'
<1> USE SettlementAssumption DEF TypeOK
<1>1. CASE Tick
  BY <1>1 DEF Tick
<1>2. ASSUME NEW b \in BatchIds, NEW content \in Contents, SettleBatch(b, content)
      PROVE  TypeOK'
  <2>1. [content |-> content, submitted |-> now, challenged |-> FALSE] \in PendingBatch
    BY DEF PendingBatch
  <2> QED
    BY <1>2, <2>1 DEF SettleBatch
<1>3. ASSUME NEW c \in ChallengeIds, NEW b \in BatchIds, NEW proof \in Proofs,
             SubmitChallenge(c, b, proof)
      PROVE  TypeOK'
  <2>1. [batch |-> b, proof |-> proof, start |-> now, status |-> "Pending"] \in ActiveChallenge
    BY DEF ActiveChallenge, ChallengeStatus
  <2>2. IsPending(b) => [pending[b] EXCEPT !.challenged = TRUE] \in PendingBatch
    BY DEF IsPending, PendingBatch
  <2>3. pending' \in [BatchIds -> PendingBatch \cup {None}]
    BY <1>3, <2>2 DEF SubmitChallenge
  <2> QED
    BY <1>3, <2>1, <2>3 DEF SubmitChallenge
<1>4. ASSUME NEW c \in ChallengeIds, ProcessChallenge(c)
      PROVE  TypeOK'
  <2>1. [challenges[c] EXCEPT !.status = Verdict(c)] \in ActiveChallenge
    BY <1>4, VerdictType DEF ProcessChallenge, IsActive, ActiveChallenge
  <2> QED
    BY <1>4, <2>1 DEF ProcessChallenge
<1>5. CASE ProcessExpiredChallenges
  BY <1>5 DEF ProcessExpiredChallenges
<1>6. CASE FinalizeUnchallengedBatches
  <2>1. settled' \in [BatchIds -> SettlementResult \cup {None}]
    BY <1>6, FinalisableResult DEF FinalizeUnchallengedBatches
  <2>2. history' \in Seq(SettlementResult)
    <3>1. PICK order \in Orderings(Finalisable) :
            history' = history \o [i \in 1 .. Cardinality(Finalisable) |-> ResultOf(order[i])]
      BY <1>6 DEF FinalizeUnchallengedBatches
    <3>2. [i \in 1 .. Cardinality(Finalisable) |-> ResultOf(order[i])] \in Seq(SettlementResult)
      BY AppendedResults
    <3> QED
      BY <3>1, <3>2
  <2>3. UNCHANGED <<now, challenges>> /\ pending' \in [BatchIds -> PendingBatch \cup {None}]
    BY <1>6 DEF FinalizeUnchallengedBatches
  <2> QED
    BY <2>1, <2>2, <2>3
<1>7. CASE UNCHANGED vars
  BY <1>7 DEF vars
<1> QED
  BY <1>1, <1>2, <1>3, <1>4, <1>5, <1>6, <1>7 DEF Next

\* Type correctness of the settlement layer's tables (lib.rs:47-76).
THEOREM SettlementTypeOK == Spec => []TypeOK
<1>1. Init => TypeOK
  BY DEF Init, TypeOK
<1>2. TypeOK /\ [Next]_vars => TypeOK'
  BY TypeStep
<1> QED
  BY <1>1, <1>2, PTL DEF Spec

\* No entry carries a time the clock has not reached.
NothingFromTheFuture ==
  /\ \A b \in BatchIds : IsPending(b) => pending[b].submitted <= now
  /\ \A c \in ChallengeIds : IsActive(c) => challenges[c].start <= now
  /\ \A i \in 1 .. Len(history) : history[i].timestamp <= now

-----------------------------------------------------------------------------
(***************************************************************************)
(* A live challenge holds its batch.                                       *)
(*                                                                         *)
(* ChallengeHoldsBatch is not inductive: settle_batch clears the flag, and *)
(* only the fact that no challenge starts later than now makes the new     *)
(* submission time late enough.                                            *)
(***************************************************************************)
HoldInv == TypeOK /\ NothingFromTheFuture /\ ChallengeHoldsBatch

LEMMA HoldStep ==
  ASSUME HoldInv, [Next]_vars
  PROVE  HoldInv'
<1> USE DEF HoldInv, TypeOK, NothingFromTheFuture, ChallengeHoldsBatch, HeldBy,
           IsPending, IsActive
<1>0. TypeOK'
  BY TypeStep
<1>1. CASE Tick
  <2>1. now' \in Nat /\ now <= now'
    BY <1>1, SettlementAssumption DEF Tick
  <2>2. NothingFromTheFuture'
    <3>1. \A b \in BatchIds : pending[b] # None => pending[b].submitted \in Nat
      BY DEF PendingBatch
    <3>2. \A c \in ChallengeIds : challenges[c] # None => challenges[c].start \in Nat
      BY DEF ActiveChallenge
    <3>3. \A i \in 1 .. Len(history) : history[i].timestamp \in Nat
      <4>1. \A i \in 1 .. Len(history) : history[i] \in SettlementResult
        OBVIOUS
      <4> QED
        BY <4>1 DEF SettlementResult
    <3>4. UNCHANGED <<pending, challenges, history>>
      BY <1>1 DEF Tick
    <3> QED
      BY <2>1, <3>1, <3>2, <3>3, <3>4
  <2>3. ChallengeHoldsBatch'
    BY <1>1 DEF Tick
  <2> QED
    BY <1>0, <2>2, <2>3
<1>2. ASSUME NEW b \in BatchIds, NEW content \in Contents, SettleBatch(b, content)
      PROVE  HoldInv'
  <2>1. NothingFromTheFuture'
    BY <1>2 DEF SettleBatch
  <2>2. ChallengeHoldsBatch'
    BY <1>2 DEF SettleBatch, ActiveChallenge
  <2> QED
    BY <1>0, <2>1, <2>2
<1>3. ASSUME NEW c \in ChallengeIds, NEW b \in BatchIds, NEW proof \in Proofs,
             SubmitChallenge(c, b, proof)
      PROVE  HoldInv'
  <2>1. \A x \in BatchIds :
          /\ pending'[x] # None <=> pending[x] # None
          /\ pending[x] # None => pending'[x].submitted = pending[x].submitted
          /\ pending[x] # None /\ pending[x].challenged => pending'[x].challenged
    BY <1>3, NoneAssumption DEF SubmitChallenge, PendingBatch
  <2>2. pending'[b] # None => pending'[b].challenged
    BY <1>3, NoneAssumption DEF SubmitChallenge, PendingBatch
  <2>3. NothingFromTheFuture'
    BY <1>3, <2>1 DEF SubmitChallenge
  <2>4. ChallengeHoldsBatch'
    BY <1>3, <2>1, <2>2 DEF SubmitChallenge, ActiveChallenge
  <2> QED
    BY <1>0, <2>3, <2>4
<1>4. ASSUME NEW c \in ChallengeIds, ProcessChallenge(c)
      PROVE  HoldInv'
  <2>1. \A d \in ChallengeIds : challenges'[d] # None =>
          /\ challenges[d] # None
          /\ challenges'[d].start = challenges[d].start
          /\ challenges'[d].batch = challenges[d].batch
    BY <1>4, NoneAssumption DEF ProcessChallenge, ActiveChallenge
  <2>2. UNCHANGED <<now, pending, history>>
    BY <1>4 DEF ProcessChallenge
  <2> QED
    BY <1>0, <2>1, <2>2
<1>5. CASE ProcessExpiredChallenges
  BY <1>0, <1>5 DEF ProcessExpiredChallenges
<1>6. CASE FinalizeUnchallengedBatches
  <2>1. \A b \in BatchIds : pending'[b] # None => pending'[b] = pending[b]
    BY <1>6 DEF FinalizeUnchallengedBatches
  <2>2. UNCHANGED <<now, challenges>>
    BY <1>6 DEF FinalizeUnchallengedBatches
  <2>3. \A i \in 1 .. Len(history') : history'[i].timestamp <= now
    <3>1. PICK order \in Orderings(Finalisable) :
            history' = history \o [i \in 1 .. Cardinality(Finalisable) |-> ResultOf(order[i])]
      BY <1>6 DEF FinalizeUnchallengedBatches
    <3> DEFINE appended == [i \in 1 .. Cardinality(Finalisable) |-> ResultOf(order[i])]
    <3>2. appended \in Seq(SettlementResult)
      BY AppendedResults
    <3>3. \A i \in 1 .. Len(appended) : appended[i].timestamp = now
      BY AppendedResults
    <3> HIDE DEF appended
    <3>4. history' = history \o appended
      BY <3>1 DEF appended
    <3>5. ASSUME NEW i \in 1 .. Len(history')
          PROVE  history'[i].timestamp <= now
      <4>1. CASE i \in 1 .. Len(history)
        BY <3>2, <3>4, <4>1
      <4>2. CASE i \notin 1 .. Len(history)
        <5>1. i - Len(history) \in 1 .. Len(appended)
          BY <3>2, <3>4, <4>2
        <5>2. history'[i] = appended[i - Len(history)]
          BY <3>2, <3>4, <4>2
        <5> QED
          BY <3>3, <5>1, <5>2
      <4> QED
        BY <4>1, <4>2
    <3> QED
      BY <3>5
  <2> QED
    BY <1>0, <2>1, <2>2, <2>3 DEF ActiveChallenge
<1>7. CASE UNCHANGED vars
  BY <1>7 DEF vars
<1> QED
  BY <1>1, <1>2, <1>3, <1>4, <1>5, <1>6, <1>7 DEF Next

LEMMA HoldInvariant == Spec => []HoldInv
<1>1. Init => HoldInv
  BY DEF Init, HoldInv, TypeOK, NothingFromTheFuture, ChallengeHoldsBatch, HeldBy,
           IsPending, IsActive
<1>2. HoldInv /\ [Next]_vars => HoldInv'
  BY HoldStep
<1> QED
  BY <1>1, <1>2, PTL DEF Spec

\* The flag finalize_unchallenged_batches reads and the challenge table agree:
\* a challenge filed after a submission marks it as long as both are present
\* (submit_challenge, lib.rs:283-311).
THEOREM ChallengeHolds == Spec => []ChallengeHoldsBatch
  BY HoldInvariant, PTL DEF HoldInv

\* No step settles a batch while a challenge filed against its submission is in
\* the table (finalize_unchallenged_batches, lib.rs:173-219).
THEOREM NotSettledOverLiveChallenge == Spec => NeverSettledOverLiveChallenge
<1>1. HoldInv /\ [Next]_vars => [SettlementRespectsChallenges]_vars
  <2> SUFFICES ASSUME HoldInv, Next, NEW b \in BatchIds, NEW c \in ChallengeIds,
                      HeldBy(b, c)
               PROVE  settled'[b] = settled[b]
    BY DEF SettlementRespectsChallenges
  <2>1. b \notin Finalisable
    BY DEF HoldInv, ChallengeHoldsBatch, Finalisable, HeldBy
  <2>2. CASE FinalizeUnchallengedBatches
    BY <2>1, <2>2 DEF FinalizeUnchallengedBatches
  <2>3. CASE UNCHANGED settled
    BY <2>3
  <2> QED
    BY <2>2, <2>3 DEF Next, Tick, SettleBatch, SubmitChallenge, ProcessChallenge,
                      ProcessExpiredChallenges
<1> QED
  BY <1>1, HoldInvariant, PTL DEF Spec, NeverSettledOverLiveChallenge

-----------------------------------------------------------------------------
\* The published root commits to the settled batches and to nothing else
\* (calculate_current_settlement_root, lib.rs:231-244).
THEOREM RootCommits == Spec => []RootCommitsToSettled
<1> USE DEF RootCommitsToSettled, IsSettled
<1>1. Init => RootCommitsToSettled
  BY DEF Init
<1>2. TypeOK /\ RootCommitsToSettled /\ [Next]_vars => RootCommitsToSettled'
  <2> SUFFICES ASSUME TypeOK, RootCommitsToSettled, [Next]_vars
               PROVE  RootCommitsToSettled'
    OBVIOUS
  <2>1. CASE FinalizeUnchallengedBatches
    <3>1. PICK b \in Finalisable : TRUE
      BY <2>1 DEF FinalizeUnchallengedBatches
    <3>2. b \in BatchIds /\ settled'[b] # None
      BY <2>1, FinalisableResult, NoneAssumption DEF FinalizeUnchallengedBatches
    <3>3. root' = CurrentRoot(settled')
      BY <2>1 DEF FinalizeUnchallengedBatches
    <3> QED
      BY <3>2, <3>3 DEF CurrentRoot
  <2>2. CASE UNCHANGED <<root, settled>>
    BY <2>2 DEF CurrentRoot
  <2> QED
    BY <2>1, <2>2 DEF Next, Tick, SettleBatch, SubmitChallenge, ProcessChallenge,
                      ProcessExpiredChallenges, vars
<1> QED
  BY <1>1, <1>2, SettlementTypeOK, PTL DEF Spec

-----------------------------------------------------------------------------
(***************************************************************************)
(* The table and the log of what was settled.  TableIsLatestOfLog is *)
(* inductive with TypeOK; what its step needs is where the last entry of a *)
(* batch is found in a log that has grown.                                 *)
(***************************************************************************)
\* The last entry of a log for a batch.
IsLast(i, b, h) ==
  i \in 1 .. Len(h) /\ h[i].batch = b /\ \A j \in (i + 1) .. Len(h) : h[j].batch # b

Logged(b, h) == \E i \in 1 .. Len(h) : h[i].batch = b

\* A batch that was logged has a last entry: the one with the fewest entries
\* behind it.
LEMMA LastExists ==
  ASSUME NEW T, NEW h \in Seq(T), NEW b, Logged(b, h)
  PROVE  \E i : IsLast(i, b, h)
<1> DEFINE left == {k \in Nat : \E i \in 1 .. Len(h) : h[i].batch = b /\ k = Len(h) - i}
<1>1. \A x, y \in Nat : <<y, x>> \in OpToRel(<, Nat) <=> y < x
  BY DEF OpToRel
<1>2. Len(h) \in Nat
  OBVIOUS
<1>3. left # {} /\ left \subseteq Nat
  <2>1. PICK i \in 1 .. Len(h) : h[i].batch = b
    BY DEF Logged
  <2>2. Len(h) - i \in left
    BY <1>2, <2>1
  <2> QED BY <2>2
<1> HIDE DEF left
<1>4. PICK k \in left : \A y \in left : ~(<<y, k>> \in OpToRel(<, Nat))
  BY <1>3, WFMin, NatLessThanWellFounded
<1>5. k \in Nat /\ \A y \in left : ~(y < k)
  BY <1>1, <1>3, <1>4
<1>6. PICK i \in 1 .. Len(h) : h[i].batch = b /\ k = Len(h) - i
  BY <1>4 DEF left
<1>7. ASSUME NEW j \in (i + 1) .. Len(h), h[j].batch = b PROVE FALSE
  <2>1. j \in 1 .. Len(h) /\ Len(h) - j \in Nat
    BY <1>2, <1>6
  <2>2. PICK r \in Nat : r = Len(h) - j
    BY <2>1
  <2>3. r \in left
    BY <1>7, <2>1, <2>2 DEF left
  <2>4. r < k
    BY <1>2, <1>6, <2>1, <2>2
  <2> QED BY <1>5, <2>3, <2>4
<1> QED BY <1>6, <1>7 DEF IsLast

\* LatestOf finds it: there is only one last entry for a batch.
LEMMA LatestIsLast ==
  ASSUME NEW T, NEW h \in Seq(T), NEW b, NEW i, IsLast(i, b, h)
  PROVE  LatestOf(b, h) = h[i]
<1>1. Len(h) \in Nat
  OBVIOUS
<1>2. ASSUME NEW j \in 1 .. Len(h), h[j].batch = b, \A k \in (j + 1) .. Len(h) : h[k].batch # b
      PROVE  j = i
  BY <1>1, <1>2 DEF IsLast
<1>3. i \in 1 .. Len(h) /\ h[i].batch = b /\ \A k \in (i + 1) .. Len(h) : h[k].batch # b
  BY DEF IsLast
<1>4. (CHOOSE j \in 1 .. Len(h) : h[j].batch = b /\ \A k \in (j + 1) .. Len(h) : h[k].batch # b) = i
  BY <1>2, <1>3
<1> QED BY <1>4 DEF LatestOf

\* A log that grows: what is new is looked at first.
LEMMA LatestInAppended ==
  ASSUME NEW T, NEW h \in Seq(T), NEW more \in Seq(T), NEW b
  PROVE  /\ Logged(b, h \o more) <=> Logged(b, h) \/ Logged(b, more)
         /\ Logged(b, more) => \E i \in 1 .. Len(more) :
                                 more[i].batch = b /\ LatestOf(b, h \o more) = more[i]
         /\ Logged(b, h) /\ ~Logged(b, more) => LatestOf(b, h \o more) = LatestOf(b, h)
<1> DEFINE both == h \o more
           n == Len(h)
           m == Len(more)
<1>1. /\ both \in Seq(T) /\ n \in Nat /\ m \in Nat /\ Len(both) = n + m
      /\ \A i \in 1 .. n : both[i] = h[i]
      /\ \A i \in 1 .. m : both[n + i] = more[i]
  OBVIOUS
<1>2. \A i \in 1 .. n + m : i \in 1 .. n \/ (i - n \in 1 .. m /\ n + (i - n) = i)
  BY <1>1
<1> HIDE DEF both
<1>3. Logged(b, both) <=> Logged(b, h) \/ Logged(b, more)
  <2>1. ASSUME Logged(b, both) PROVE Logged(b, h) \/ Logged(b, more)
    BY <1>1, <1>2, <2>1 DEF Logged
  <2>2. ASSUME Logged(b, h) PROVE Logged(b, both)
    BY <1>1, <2>2 DEF Logged
  <2>3. ASSUME Logged(b, more) PROVE Logged(b, both)
    <3>1. PICK i \in 1 .. m : more[i].batch = b
      BY <2>3 DEF Logged
    <3>2. n + i \in 1 .. n + m /\ both[n + i].batch = b
      BY <1>1, <3>1
    <3> QED BY <1>1, <3>2 DEF Logged
  <2> QED BY <2>1, <2>2, <2>3
<1>4. ASSUME Logged(b, more)
      PROVE  \E i \in 1 .. m : more[i].batch = b /\ LatestOf(b, both) = more[i]
  <2>1. PICK i : IsLast(i, b, more)
    BY <1>4, LastExists
  <2>2. i \in 1 .. m /\ more[i].batch = b /\ \A j \in (i + 1) .. m : more[j].batch # b
    BY <2>1 DEF IsLast
  <2>3. IsLast(n + i, b, both)
    <3>1. n + i \in 1 .. Len(both) /\ both[n + i].batch = b
      BY <1>1, <2>2
    <3>2. ASSUME NEW j \in (n + i + 1) .. Len(both) PROVE both[j].batch # b
      <4>1. j - n \in (i + 1) .. m /\ j - n \in 1 .. m /\ n + (j - n) = j
        BY <1>1, <2>2
      <4> QED BY <1>1, <2>2, <4>1
    <3> QED BY <3>1, <3>2 DEF IsLast
  <2>4. LatestOf(b, both) = both[n + i]
    BY <1>1, <2>3, LatestIsLast
  <2> QED BY <1>1, <2>2, <2>4
<1>5. ASSUME Logged(b, h), ~Logged(b, more) PROVE LatestOf(b, both) = LatestOf(b, h)
  <2>1. PICK i : IsLast(i, b, h)
    BY <1>5, LastExists
  <2>2. i \in 1 .. n /\ h[i].batch = b /\ \A j \in (i + 1) .. n : h[j].batch # b
    BY <2>1 DEF IsLast
  <2>3. IsLast(i, b, both)
    <3>1. i \in 1 .. Len(both) /\ both[i].batch = b
      BY <1>1, <2>2
    <3>2. ASSUME NEW j \in (i + 1) .. Len(both) PROVE both[j].batch # b
      <4>1. CASE j \in 1 .. n
        BY <1>1, <2>2, <4>1
      <4>2. CASE j \notin 1 .. n
        <5>1. j - n \in 1 .. m /\ both[j] = more[j - n]
          BY <1>1, <1>2, <2>2, <4>2
        <5> QED BY <1>5, <5>1 DEF Logged
      <4> QED BY <4>1, <4>2
    <3> QED BY <3>1, <3>2 DEF IsLast
  <2>4. LatestOf(b, both) = both[i] /\ LatestOf(b, h) = h[i]
    BY <1>1, <2>1, <2>3, LatestIsLast
  <2> QED BY <1>1, <2>2, <2>4
<1> QED BY <1>3, <1>4, <1>5 DEF both

\* finalize_unchallenged_batches appends one result for each batch it writes,
\* and nothing else touches the table or the log.
LEMMA LatestStep ==
  ASSUME TypeOK, TableIsLatestOfLog, [Next]_vars
  PROVE  TableIsLatestOfLog'
<1>1. CASE FinalizeUnchallengedBatches
  <2>1. PICK order \in Orderings(Finalisable) :
          history' = history \o [i \in 1 .. Cardinality(Finalisable) |-> ResultOf(order[i])]
    BY <1>1 DEF FinalizeUnchallengedBatches
  <2>2. PICK more : more = [i \in 1 .. Cardinality(Finalisable) |-> ResultOf(order[i])]
    OBVIOUS
  <2>3. more \in Seq(SettlementResult) /\ history \in Seq(SettlementResult)
    BY <2>2, AppendedResults DEF TypeOK
  <2>4. Cardinality(Finalisable) \in Nat
    BY SettlementAssumption, FS_Subset, FS_CardinalityType DEF Finalisable
  <2>5. Len(more) = Cardinality(Finalisable)
    BY <2>2, <2>4
  <2>6. \A i \in 1 .. Len(more) : order[i] \in Finalisable /\ more[i] = ResultOf(order[i])
    BY <2>2, <2>5 DEF Orderings
  <2>7. \A x : ResultOf(x).batch = x
    BY DEF ResultOf
  <2>8. \A x : Logged(x, more) <=> x \in Finalisable
    <3>1. \A x \in Finalisable : \E i \in 1 .. Len(more) : order[i] = x
      BY <2>5 DEF Orderings
    <3> QED BY <2>6, <2>7, <3>1 DEF Logged
  <2>9. ASSUME NEW b \in BatchIds
        PROVE  /\ settled'[b] # None <=> Logged(b, history')
               /\ Logged(b, history') => settled'[b] = LatestOf(b, history')
    <3>1. /\ settled[b] # None <=> Logged(b, history)
          /\ Logged(b, history) => settled[b] = LatestOf(b, history)
      BY DEF TableIsLatestOfLog, IsSettled, Logged
    <3>2. settled'[b] = IF b \in Finalisable THEN ResultOf(b) ELSE settled[b]
      BY <1>1 DEF FinalizeUnchallengedBatches
    <3>3. history' = history \o more
      BY <2>1, <2>2
    <3>4. CASE b \in Finalisable
      <4>1. Logged(b, more)
        BY <2>8, <3>4
      <4>2. Logged(b, history \o more)
        BY <2>3, <4>1, LatestInAppended
      <4>3. PICK i \in 1 .. Len(more) : more[i].batch = b /\ LatestOf(b, history \o more) = more[i]
        BY <2>3, <4>1, LatestInAppended
      <4>4. more[i] = ResultOf(b)
        BY <2>6, <2>7, <4>3
      <4>5. ResultOf(b) # None
        BY <3>4, FinalisableResult, NoneAssumption
      <4> QED BY <3>2, <3>3, <3>4, <4>2, <4>3, <4>4, <4>5
    <3>5. CASE b \notin Finalisable
      <4>1. ~Logged(b, more)
        BY <2>8, <3>5
      <4>2. Logged(b, history \o more) <=> Logged(b, history)
        BY <2>3, <4>1, LatestInAppended
      <4>3. Logged(b, history) => LatestOf(b, history \o more) = LatestOf(b, history)
        BY <2>3, <4>1, LatestInAppended
      <4> QED BY <3>1, <3>2, <3>3, <3>5, <4>2, <4>3
    <3> QED BY <3>4, <3>5
  <2> QED BY <2>9 DEF TableIsLatestOfLog, IsSettled, Logged
<1>2. CASE UNCHANGED <<settled, history>>
  BY <1>2 DEF TableIsLatestOfLog, IsSettled, LatestOf
<1> QED BY <1>1, <1>2 DEF Next, Tick, SettleBatch, SubmitChallenge, ProcessChallenge,
                         ProcessExpiredChallenges, vars

\* The table of settled batches and the log of settlements agree about what was
\* settled last, for batches that are settled again and again and whatever
\* order finalize_unchallenged_batches takes them in (lib.rs:173-219).
THEOREM SettledIsLatest == Spec => []SettledIsLatestInHistory
<1>1. Init => TableIsLatestOfLog
  BY DEF Init, TableIsLatestOfLog, IsSettled
<1>2. TypeOK /\ TableIsLatestOfLog /\ [Next]_vars => TableIsLatestOfLog'
  BY LatestStep
<1> QED
  BY <1>1, <1>2, SettlementTypeOK, PTL DEF Spec, SettledIsLatestInHistory

-----------------------------------------------------------------------------
(***************************************************************************)
(* The settlement layer implements RollupFinality.  Tick is Advance,       *)
(* settle_batch is Open, a challenge of a pending batch is Contest, and    *)
(* finalize_unchallenged_batches is Finalise of all the batches that may   *)
(* be finalised; every other step stutters.                                *)
(***************************************************************************)
OpenedAt(p)  == [b \in BatchIds |-> IF p[b] # None THEN p[b].submitted ELSE None]
Contested(p) == {b \in BatchIds : p[b] # None /\ p[b].challenged}
Final(s)     == {b \in BatchIds : s[b] # None}

LEMMA RollupStep ==
  ASSUME TypeOK, [Next]_vars
  PROVE  [Rollup!Next]_(Rollup!vars)
<1> USE DEF Rollup!vars, IsPending, IsSettled
<1>1. CASE Tick
  <2>1. now' \in Nat /\ now' > now
    BY <1>1 DEF Tick, TypeOK
  <2> QED
    BY <1>1, <2>1 DEF Tick, Rollup!Next, Rollup!Advance
<1>2. ASSUME NEW b \in BatchIds, NEW content \in Contents, SettleBatch(b, content)
      PROVE  [Rollup!Next]_(Rollup!vars)
  <2>1. [content |-> content, submitted |-> now, challenged |-> FALSE] # None
    <3>1. [content |-> content, submitted |-> now, challenged |-> FALSE] \in PendingBatch
      BY DEF PendingBatch, TypeOK
    <3> QED
      BY <3>1, NoneAssumption
  <2>2. OpenedAt(pending') = [OpenedAt(pending) EXCEPT ![b] = now]
    BY <1>2, <2>1 DEF SettleBatch, TypeOK, OpenedAt
  <2>3. Contested(pending') = Contested(pending) \ {b}
    BY <1>2, <2>1 DEF SettleBatch, TypeOK, Contested
  <2>4. UNCHANGED <<now, settled>>
    BY <1>2 DEF SettleBatch
  <2>5. Rollup!Open(b)
    BY <2>2, <2>3, <2>4 DEF Rollup!Open, OpenedAt, Contested
  <2> QED
    BY <2>5 DEF Rollup!Next
<1>3. ASSUME NEW c \in ChallengeIds, NEW b \in BatchIds, NEW proof \in Proofs,
             SubmitChallenge(c, b, proof)
      PROVE  [Rollup!Next]_(Rollup!vars)
  <2>1. UNCHANGED <<now, settled>>
    BY <1>3 DEF SubmitChallenge
  <2>2. CASE IsPending(b)
    <3>1. [pending[b] EXCEPT !.challenged = TRUE] \in PendingBatch
      BY <2>2 DEF TypeOK, PendingBatch
    <3>2. /\ pending' = [pending EXCEPT ![b] = [@ EXCEPT !.challenged = TRUE]]
          /\ [pending[b] EXCEPT !.challenged = TRUE] # None
          /\ [pending[b] EXCEPT !.challenged = TRUE].submitted = pending[b].submitted
          /\ [pending[b] EXCEPT !.challenged = TRUE].challenged = TRUE
      BY <1>3, <2>2, <3>1, NoneAssumption DEF SubmitChallenge, TypeOK, PendingBatch
    <3>3. OpenedAt(pending') = OpenedAt(pending)
      BY <2>2, <3>2 DEF TypeOK, OpenedAt
    <3>4. Contested(pending') = Contested(pending) \cup {b}
      BY <2>2, <3>2 DEF TypeOK, Contested
    <3>5. OpenedAt(pending)[b] # None
      BY <2>2, NoneAssumption DEF OpenedAt, TypeOK, PendingBatch
    <3>6. Rollup!Contest(b)
      BY <2>1, <3>3, <3>4, <3>5 DEF Rollup!Contest, Rollup!IsOpen, OpenedAt, Contested
    <3> QED
      BY <3>6 DEF Rollup!Next
  <2>3. CASE ~IsPending(b)
    <3>1. pending' = pending
      BY <1>3, <2>3 DEF SubmitChallenge, TypeOK
    <3> QED
      BY <2>1, <3>1
  <2> QED
    BY <2>2, <2>3
<1>4. ASSUME NEW c \in ChallengeIds, ProcessChallenge(c)
      PROVE  [Rollup!Next]_(Rollup!vars)
  BY <1>4 DEF ProcessChallenge
<1>5. CASE ProcessExpiredChallenges
  BY <1>5 DEF ProcessExpiredChallenges
<1>6. CASE FinalizeUnchallengedBatches
  <2>1. \A b \in Finalisable :
          /\ OpenedAt(pending)[b] # None /\ b \notin Contested(pending)
          /\ now - OpenedAt(pending)[b] > Window
    BY NoneAssumption DEF Finalisable, OpenedAt, Contested, Expired, TypeOK, PendingBatch
  <2>2. Finalisable \in SUBSET BatchIds
    BY DEF Finalisable
  <2>3. OpenedAt(pending') =
          [b \in BatchIds |-> IF b \in Finalisable THEN None ELSE OpenedAt(pending)[b]]
    BY <1>6 DEF FinalizeUnchallengedBatches, OpenedAt
  <2>4. Contested(pending') = Contested(pending)
    BY <1>6, <2>1 DEF FinalizeUnchallengedBatches, Contested
  <2>5. Final(settled') = Final(settled) \cup Finalisable
    BY <1>6, <2>2, FinalisableResult, NoneAssumption DEF FinalizeUnchallengedBatches, Final
  <2>6. now' = now
    BY <1>6 DEF FinalizeUnchallengedBatches
  <2>7. PICK B \in SUBSET BatchIds : B = Finalisable
    BY <2>2
  <2>8. Rollup!Finalise(B)
    BY <2>1, <2>3, <2>4, <2>5, <2>6, <2>7
       DEF Rollup!Finalise, Rollup!IsOpen, OpenedAt, Contested, Final
  <2> QED
    BY <2>8 DEF Rollup!Next
<1>7. CASE UNCHANGED vars
  BY <1>7 DEF vars
<1> QED
  BY <1>1, <1>2, <1>3, <1>4, <1>5, <1>6, <1>7 DEF Next

\* The tables of the settlement layer implement the promise of RollupFinality:
\* nothing becomes final inside its dispute window or while contested, and
\* what is final stays final (lib.rs:1-7, 127-311).
THEOREM SettlementImplementsRollup == Spec => ImplementsRollup
<1>1. Init => Rollup!Init
  BY DEF Init, Rollup!Init, IsPending, IsSettled
<1>2. TypeOK /\ [Next]_vars => [Rollup!Next]_(Rollup!vars)
  BY RollupStep
<1> QED
  BY <1>1, <1>2, SettlementTypeOK, PTL DEF Spec, ImplementsRollup, Rollup!Spec
=============================================================================
