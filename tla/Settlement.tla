----------------------------- MODULE Settlement -----------------------------
(***************************************************************************)
(* The settlement layer, crates/settlement/src/lib.rs.                     *)
(*                                                                         *)
(* Every operation is one atomic action: settle_batch, submit_challenge    *)
(* and process_challenge take &mut self and so exclude all the others,     *)
(* and the two &self operations that may overlap each touch one lock only. *)
(***************************************************************************)
EXTENDS Integers, Sequences, FiniteSets

CONSTANTS BatchIds,         \* batch identifiers
          Contents,         \* what a batch with a given id may contain
          ChallengeIds,     \* challenge identifiers
          Proofs,           \* the fraud proofs a challenge may carry
          ChallengePeriod,  \* SettlementConfig.challenge_period, in blocks
          SecondsPerBlock,  \* the literal 10 of the code
          MaxTime,          \* bound on the clock
          None,             \* absent entry of a HashMap
          GenesisRoot       \* "genesis_settlement_root"

ASSUME SettlementAssumption ==
  /\ IsFiniteSet(BatchIds)
  /\ Proofs \subseteq [rootsDiffer : BOOLEAN, hasData : BOOLEAN, batch : BatchIds]
  /\ ChallengePeriod \in Nat
  /\ SecondsPerBlock \in Nat
  /\ MaxTime \in Nat

VARIABLES now,         \* SystemTime::now(), in seconds
          pending,     \* state.pending_batches
          settled,     \* state.settled_batches
          history,     \* state.settlement_history
          root,        \* state.settlement_root
          challenges   \* the active challenges

vars == <<now, pending, settled, history, root, challenges>>

(***************************************************************************)
(* The data.  A hash is modelled by what is hashed.                        *)
(***************************************************************************)
Window == ChallengePeriod * SecondsPerBlock

PendingBatch == [content : Contents, submitted : Nat, challenged : BOOLEAN]

\* calculate_settlement_root: the hash of the batch id and its contents.
BatchRoot(b, content) == [batch |-> b, content |-> content]

SettlementResult ==
  [root : [batch : BatchIds, content : Contents], batch : BatchIds, timestamp : Nat]

ChallengeStatus == {"Pending", "UnderReview", "Upheld", "Rejected"}

ActiveChallenge ==
  [batch : BatchIds, proof : Proofs, start : Nat, status : ChallengeStatus]

\* None is told apart from every entry of the three tables and from a time.
ASSUME NoneAssumption ==
  /\ None \notin Nat
  /\ None \notin PendingBatch
  /\ None \notin SettlementResult
  /\ None \notin ActiveChallenge

IsPending(b)   == pending[b] # None
IsSettled(b)   == settled[b] # None
IsActive(c)    == challenges[c] # None

\* calculate_current_settlement_root: the hash of every settled batch's root.
CurrentRoot(table) ==
  [b \in {x \in BatchIds : table[x] # None} |-> table[b].root]

\* verify_fraud_proof
FraudProofHolds(proof, b) ==
  proof.rootsDiffer /\ proof.hasData /\ proof.batch = b

\* Mutant: the window is over one second early.
ExpiredEarly(time) == now - time >= Window

Expired(time) == now - time > Window

-----------------------------------------------------------------------------
Init ==
  /\ now = 0
  /\ pending = [b \in BatchIds |-> None]
  /\ settled = [b \in BatchIds |-> None]
  /\ history = <<>>
  /\ root = GenesisRoot
  /\ challenges = [c \in ChallengeIds |-> None]

Tick ==
  /\ \E t \in (now + 1) .. MaxTime : now' = t
  /\ UNCHANGED <<pending, settled, history, root, challenges>>

\* settle_batch never looks at the tables: it overwrites an entry that is
\* pending, and accepts a batch that is settled already.
SettleBatch(b, content) ==
  /\ pending' = [pending EXCEPT ![b] =
                   [content |-> content, submitted |-> now, challenged |-> FALSE]]
  /\ UNCHANGED <<now, settled, history, root, challenges>>

\* Mutant: the batch is not marked.
SubmitChallengeUnmarked(c, b, proof) ==
  /\ challenges' = [challenges EXCEPT ![c] =
                      [batch |-> b, proof |-> proof, start |-> now, status |-> "Pending"]]
  /\ UNCHANGED <<now, pending, settled, history, root>>

\* submit_challenge: the batch need not be pending, the id need not be new.
SubmitChallenge(c, b, proof) ==
  /\ pending' = [pending EXCEPT ![b] =
                   IF IsPending(b) THEN [@ EXCEPT !.challenged = TRUE] ELSE None]
  /\ challenges' = [challenges EXCEPT ![c] =
                      [batch |-> b, proof |-> proof, start |-> now, status |-> "Pending"]]
  /\ UNCHANGED <<now, settled, history, root>>

\* process_challenge: the status is set to UnderReview first and stays so
\* when the batch is not pending (the call then fails with an error).
Verdict(c) ==
  IF ~IsPending(challenges[c].batch) THEN "UnderReview"
  ELSE IF FraudProofHolds(challenges[c].proof, challenges[c].batch) THEN "Upheld"
  ELSE "Rejected"

ProcessChallenge(c) ==
  /\ IsActive(c)
  /\ challenges' = [challenges EXCEPT ![c].status = Verdict(c)]
  /\ UNCHANGED <<now, pending, settled, history, root>>

\* process_expired_challenges removes the challenges only: the batches keep
\* their challenged flag.
ExpiredChallenges == {c \in ChallengeIds : IsActive(c) /\ Expired(challenges[c].start)}

ProcessExpiredChallenges ==
  /\ ExpiredChallenges # {}
  /\ challenges' = [c \in ChallengeIds |->
                      IF c \in ExpiredChallenges THEN None ELSE challenges[c]]
  /\ UNCHANGED <<now, pending, settled, history, root>>

\* Mutant: the challenged flag is not looked at.
FinalisableIgnoringChallenges ==
  {b \in BatchIds : IsPending(b) /\ Expired(pending[b].submitted)}

\* finalize_unchallenged_batches.  The HashMap is iterated in any order, and
\* the history is extended in that order.
Finalisable ==
  {b \in BatchIds : IsPending(b) /\ Expired(pending[b].submitted) /\ ~pending[b].challenged}

Orderings(S) ==
  {s \in [1 .. Cardinality(S) -> S] : \A x \in S : \E i \in 1 .. Cardinality(S) : s[i] = x}

ResultOf(b) ==
  [root |-> BatchRoot(b, pending[b].content), batch |-> b, timestamp |-> now]

\* Mutants: an entry that is settled already is kept; the root is computed
\* before the table is updated.
FinalizeKeepsSettled ==
  /\ Finalisable # {}
  /\ settled' = [b \in BatchIds |->
                   IF b \in Finalisable /\ ~IsSettled(b) THEN ResultOf(b) ELSE settled[b]]
  /\ \E order \in Orderings(Finalisable) :
       history' = history \o [i \in 1 .. Cardinality(Finalisable) |-> ResultOf(order[i])]
  /\ pending' = [b \in BatchIds |-> IF b \in Finalisable THEN None ELSE pending[b]]
  /\ root' = CurrentRoot(settled')
  /\ UNCHANGED <<now, challenges>>

FinalizeWithOldRoot ==
  /\ Finalisable # {}
  /\ settled' = [b \in BatchIds |-> IF b \in Finalisable THEN ResultOf(b) ELSE settled[b]]
  /\ \E order \in Orderings(Finalisable) :
       history' = history \o [i \in 1 .. Cardinality(Finalisable) |-> ResultOf(order[i])]
  /\ pending' = [b \in BatchIds |-> IF b \in Finalisable THEN None ELSE pending[b]]
  /\ root' = CurrentRoot(settled)
  /\ UNCHANGED <<now, challenges>>

FinalizeUnchallengedBatches ==
  /\ Finalisable # {}
  /\ settled' = [b \in BatchIds |-> IF b \in Finalisable THEN ResultOf(b) ELSE settled[b]]
  /\ \E order \in Orderings(Finalisable) :
       history' = history \o [i \in 1 .. Cardinality(Finalisable) |-> ResultOf(order[i])]
  /\ pending' = [b \in BatchIds |-> IF b \in Finalisable THEN None ELSE pending[b]]
  /\ root' = CurrentRoot(settled')
  /\ UNCHANGED <<now, challenges>>

Next ==
  \/ Tick
  \/ \E b \in BatchIds, content \in Contents : SettleBatch(b, content)
  \/ \E c \in ChallengeIds, b \in BatchIds, proof \in Proofs : SubmitChallenge(c, b, proof)
  \/ \E c \in ChallengeIds : ProcessChallenge(c)
  \/ ProcessExpiredChallenges
  \/ FinalizeUnchallengedBatches

Spec == Init /\ [][Next]_vars

-----------------------------------------------------------------------------
(***************************************************************************)
(* Properties                                                              *)
(***************************************************************************)

\* Every variable has its type; an absent HashMap entry is None.
TypeOK ==
  /\ now \in Nat
  /\ pending \in [BatchIds -> PendingBatch \cup {None}]
  /\ settled \in [BatchIds -> SettlementResult \cup {None}]
  /\ history \in Seq(SettlementResult)
  /\ challenges \in [ChallengeIds -> ActiveChallenge \cup {None}]

\* Challenge c was filed against the submission of b that is pending: later
\* than it.  (One filed in the very second of a resubmission may precede it,
\* hence the strict comparison.)
HeldBy(b, c) ==
  /\ IsActive(c) /\ challenges[c].batch = b
  /\ IsPending(b)
  /\ challenges[c].start > pending[b].submitted

\* A challenge filed against a submission holds the batch back for as long as
\* it is in the table: the flag that finalize_unchallenged_batches reads and
\* the challenge table, kept under two locks, agree.
ChallengeHoldsBatch ==
  \A b \in BatchIds, c \in ChallengeIds : HeldBy(b, c) => pending[b].challenged

\* Each entry of settled_batches is the latest entry of the history for that
\* batch, and the history mentions no batch that is not settled: the table
\* and the log never disagree about what was settled last.
LatestOf(b, h) ==
  h[CHOOSE i \in 1 .. Len(h) :
      h[i].batch = b /\ \A j \in (i + 1) .. Len(h) : h[j].batch # b]

TableIsLatestOfLog ==
  \A b \in BatchIds :
    LET logged == \E i \in 1 .. Len(history) : history[i].batch = b
    IN  /\ IsSettled(b) <=> logged
        /\ logged => settled[b] = LatestOf(b, history)

\* That, and every variable has its type.
SettledIsLatestInHistory == TypeOK /\ TableIsLatestOfLog

\* The published settlement root commits to exactly the settled batches.
RootCommitsToSettled ==
  root = IF \E b \in BatchIds : IsSettled(b) THEN CurrentRoot(settled) ELSE GenesisRoot

\* finalize_unchallenged_batches never settles a batch over the head of a
\* live challenge that was filed against the submission being settled.
SettlementRespectsChallenges ==
  \A b \in BatchIds, c \in ChallengeIds : HeldBy(b, c) => settled'[b] = settled[b]

NeverSettledOverLiveChallenge == [][SettlementRespectsChallenges]_vars

\* The settlement layer keeps the promise of RollupFinality.
Rollup == INSTANCE RollupFinality WITH
  Batches   <- BatchIds,
  Window    <- Window,
  NotOpen   <- None,
  clock     <- now,
  openedAt  <- [b \in BatchIds |-> IF IsPending(b) THEN pending[b].submitted ELSE None],
  contested <- {b \in BatchIds : IsPending(b) /\ pending[b].challenged},
  final     <- {b \in BatchIds : IsSettled(b)}

ImplementsRollup == Rollup!Spec
=============================================================================
