-------------------------- MODULE DataAvailability --------------------------
(***************************************************************************)
(* The data availability layer, crates/data-availability/src/lib.rs.       *)
(*                                                                         *)
(* store_data, broadcast_data and request_data take &mut self, so they     *)
(* exclude every other call.  The rest goes through &self: verifications   *)
(* run concurrently with cleanups, in three lock sections, and a cleanup   *)
(* takes its locks with try_lock and skips what it does not get.  The      *)
(* store lock is held by get_availability_proof as long as it holds the    *)
(* tree, and by a verification as long as it holds store and network, so a *)
(* cleanup that has the store finds the tree free; the cache and the       *)
(* network may be taken by others.                                         *)
(*                                                                         *)
(* Data are not corrupted in memory: the checksum of an entry matches.     *)
(* Every broadcast goes to the same peers, "peer_0" and on, which are      *)
(* therefore known as one.                                                 *)
(***************************************************************************)
EXTENDS MerkleTree

CONSTANTS Verifiers,        \* threads that call verify_data_comprehensive
          RetentionPeriod,  \* config.retention_period
          CacheTime,        \* 300 seconds
          PeerTime,         \* 24 hours
          MaxTime,          \* bound on the clock
          MaxAccesses,      \* bound on access_count
          MaxRequests,      \* bound on the requests not taken back
          TreeSize,         \* bound on the trees whose proofs are looked at
          Never,            \* no statistics, no request, never removed
          Idle              \* a thread with no call under way

ASSUME AvailabilityAssumption ==
  /\ RetentionPeriod \in Nat /\ CacheTime \in Nat /\ PeerTime \in Nat
  /\ MaxTime \in Nat /\ MaxLeaves \in Nat /\ TreeSize \in Nat
  /\ MaxAccesses \in Nat /\ MaxRequests \in Nat
  /\ Never \notin Nat

VARIABLES now,        \* the clock
          store,      \* data_store: timestamp and access_count of the data kept
          replicas,   \* data_replicas: the data known to be with the peers
          requests,   \* data_requests and pending_requests
          peers,      \* connected_peers, peer_reputation, bandwidth_usage
          cache,      \* verification_cache
          call,       \* the verification each thread is in
          removed     \* when each datum was last removed from the store

vars == <<leaves, now, store, replicas, requests, peers, cache, call, removed>>

Entries == [timestamp : Nat, accesses : Nat]

Expired(entry) == now > entry.timestamp + RetentionPeriod

Put(f, key, value) == [x \in DOMAIN f \cup {key} |-> IF x = key THEN value ELSE f[x]]

Without(f, keys) == [x \in DOMAIN f \ keys |-> f[x]]

\* No call is under way that holds &self.
Exclusive == \A v \in Verifiers : call[v] = Idle

-----------------------------------------------------------------------------
Init ==
  /\ InitTree
  /\ now = 0
  /\ store = <<>>
  /\ replicas = {}
  /\ requests = [d \in Data |-> [count |-> 0, pending |-> Never]]
  /\ peers = [connected |-> FALSE, reputation |-> Never, bandwidth |-> Never]
  /\ cache = <<>>
  /\ call = [v \in Verifiers |-> Idle]
  /\ removed = [d \in Data |-> Never]

Tick ==
  /\ now < MaxTime
  /\ now' = now + 1
  /\ UNCHANGED <<leaves, store, replicas, requests, peers, cache, call, removed>>

\* simulate_broadcast: peers that are connected already only have their
\* bandwidth updated, if there is an entry for it.
SimulateBroadcast(d) ==
  /\ replicas' = replicas \cup {d}
  /\ peers' = IF peers.connected
              THEN [peers EXCEPT !.bandwidth = IF @ = Never THEN Never ELSE now]
              ELSE [connected |-> TRUE, reputation |-> now, bandwidth |-> now]

\* store_data, of a datum that is not too large.  The cache is left alone.
StoreData(d) ==
  /\ Exclusive
  /\ store' = Put(store, d, [timestamp |-> now, accesses |-> 0])
  /\ AddLeaf(Leaf(d))
  /\ SimulateBroadcast(d)
  /\ UNCHANGED <<now, requests, cache, call, removed>>

\* retrieve_data, of a datum that is kept and has not expired.
RetrieveData(d) ==
  /\ d \in DOMAIN store
  /\ ~Expired(store[d])
  /\ store[d].accesses < MaxAccesses
  /\ store' = [store EXCEPT ![d].accesses = @ + 1]
  /\ UNCHANGED <<leaves, now, replicas, requests, peers, cache, call, removed>>

BroadcastData(d) ==
  /\ Exclusive
  /\ SimulateBroadcast(d)
  /\ UNCHANGED <<leaves, now, store, requests, cache, call, removed>>

\* request_data; nothing ever takes the request back but a cleanup of the datum.
RequestData(d) ==
  /\ Exclusive
  /\ MapThenSumSet(LAMBDA x : requests[x].count, Data) < MaxRequests
  /\ requests' = [requests EXCEPT ![d] = [count |-> @.count + 1, pending |-> now]]
  /\ UNCHANGED <<leaves, now, store, replicas, peers, cache, call, removed>>

\* verify_data_comprehensive takes the time and looks into the cache; an entry
\* that is recent enough is the answer.
CachedFor(d) == d \in DOMAIN cache /\ now - cache[d].at < CacheTime

Verify(v, d) ==
  /\ call[v] = Idle
  /\ ~CachedFor(d)
  /\ call' = [call EXCEPT ![v] = [stage |-> "perform", datum |-> d, at |-> now]]
  /\ UNCHANGED <<leaves, now, store, replicas, requests, peers, cache, removed>>

\* perform_comprehensive_verification, under the locks of store and network.
\* It does not ask whether the datum has expired.
Available(d) == d \in DOMAIN store /\ d \in replicas

PerformVerification(v) ==
  /\ call[v] # Idle /\ call[v].stage = "perform"
  /\ call' = [call EXCEPT ![v] =
                [stage |-> "insert", datum |-> @.datum, at |-> @.at,
                 valid |-> Available(@.datum)]]
  /\ UNCHANGED <<leaves, now, store, replicas, requests, peers, cache, removed>>

\* Mutant: the result is stamped with the time it enters the cache.
CacheResultStampedLate(v) ==
  /\ call[v] # Idle /\ call[v].stage = "insert"
  /\ cache' = Put(cache, call[v].datum, [valid |-> call[v].valid, at |-> now])
  /\ call' = [call EXCEPT ![v] = Idle]
  /\ UNCHANGED <<leaves, now, store, replicas, requests, peers, removed>>

\* The result enters the cache, with the time the call began.
CacheResult(v) ==
  /\ call[v] # Idle /\ call[v].stage = "insert"
  /\ cache' = Put(cache, call[v].datum, [valid |-> call[v].valid, at |-> call[v].at])
  /\ call' = [call EXCEPT ![v] = Idle]
  /\ UNCHANGED <<leaves, now, store, replicas, requests, peers, removed>>

ExpiredData == {d \in DOMAIN store : Expired(store[d])}

\* Old statistics are dropped, and connected_peers is left alone.
ForgetOldPeers ==
  [peers EXCEPT
     !.reputation = IF @ # Never /\ now - @ < PeerTime THEN @ ELSE Never,
     !.bandwidth  = IF @ # Never /\ now - @ < PeerTime THEN @ ELSE Never]

\* Mutant: the tree is left alone.
CleanupKeepingTree(cacheFree, networkFree) ==
  /\ ExpiredData # {}
  /\ LET gone == ExpiredData
     IN  /\ store' = Without(store, gone)
         /\ cache' = IF cacheFree THEN Without(cache, gone) ELSE cache
         /\ replicas' = IF networkFree THEN replicas \ gone ELSE replicas
         /\ removed' = [d \in Data |-> IF d \in gone THEN now ELSE removed[d]]
  /\ UNCHANGED <<leaves, now, requests, peers, call>>

\* cleanup_expired_data, when it gets the store lock and something has expired;
\* otherwise it does nothing.
CleanupExpiredData(cacheFree, networkFree) ==
  /\ ExpiredData # {}
  /\ LET gone == ExpiredData
     IN  /\ store' = Without(store, gone)
         /\ RemoveLeaves({Leaf(d) : d \in gone})
         /\ cache' = IF cacheFree THEN Without(cache, gone) ELSE cache
         /\ IF networkFree
            THEN /\ replicas' = replicas \ gone
                 /\ requests' = [d \in Data |->
                                   IF d \in gone THEN [count |-> 0, pending |-> Never]
                                   ELSE requests[d]]
                 /\ peers' = ForgetOldPeers
            ELSE UNCHANGED <<replicas, requests, peers>>
         /\ removed' = [d \in Data |-> IF d \in gone THEN now ELSE removed[d]]
  /\ UNCHANGED <<now, call>>

Next ==
  \/ Tick
  \/ \E d \in Data : StoreData(d)
  \/ \E d \in Data : RetrieveData(d)
  \/ \E d \in Data : BroadcastData(d)
  \/ \E d \in Data : RequestData(d)
  \/ \E v \in Verifiers, d \in Data : Verify(v, d)
  \/ \E v \in Verifiers : PerformVerification(v)
  \/ \E v \in Verifiers : CacheResult(v)
  \/ \E cacheFree, networkFree \in BOOLEAN : CleanupExpiredData(cacheFree, networkFree)

Spec == Init /\ [][Next]_vars

-----------------------------------------------------------------------------
(***************************************************************************)
(* Properties                                                              *)
(***************************************************************************)
Times == Nat \cup {Never}

\* Every variable has its type.
TypeOK ==
  /\ now \in Nat
  /\ leaves \in Seq({Leaf(d) : d \in Data})
  /\ DOMAIN store \subseteq Data /\ \A d \in DOMAIN store : store[d] \in Entries
  /\ replicas \subseteq Data
  /\ requests \in [Data -> [count : Nat, pending : Times]]
  /\ peers \in [connected : BOOLEAN, reputation : Times, bandwidth : Times]
  /\ DOMAIN cache \subseteq Data
  /\ \A d \in DOMAIN cache : cache[d] \in [valid : BOOLEAN, at : Nat]
  /\ \A v \in Verifiers : call[v] # Idle =>
       \/ call[v] \in [stage : {"perform"}, datum : Data, at : Nat]
       \/ call[v] \in [stage : {"insert"}, datum : Data, at : Nat, valid : BOOLEAN]
  /\ removed \in [Data -> Times]

\* What is in the store is in the tree and the other way round, so that a datum
\* that is kept always has a leaf to be proved by, and it verifies, unless the
\* answer is taken from the cache: through data stored twice, and cleanups that
\* lose the race for every lock they may lose.
StoredIsAvailable ==
  /\ ToSet(leaves) = {Leaf(d) : d \in DOMAIN store}
  /\ \A d \in DOMAIN store : Available(d)

\* get_availability_proof, which takes the siblings of the first leaf of the hash,
\* has the right ones for every datum that is kept: put on the side they come from
\* they lead to the present root, whatever was stored twice or removed before.  What
\* verify_proof accepts is another matter, since it takes every sibling for a right
\* one: it does accept the oldest leaf of the tree.  And in every tree of up to
\* TreeSize leaves, which Init has evaluated once, the siblings lead to the root
\* from every leaf.
ProofsHoldSiblings ==
  /\ \A d \in DOMAIN store :
       LET position == Position(leaves, Leaf(d))
       IN  /\ RootFromSiblings(leaves, position) = Root(leaves)
           /\ position = 0 => VerifyProof(Leaf(d), Proof(leaves, position), Root(leaves))
  /\ Init => \A ls \in SeqOf({Leaf(d) : d \in Data}, TreeSize) : SiblingsLeadToRoot(ls)

\* Every variable has its type, and a positive answer of the cache about a datum
\* that is gone was true when its call began: it is dated before the removal,
\* and so it lasts for CacheTime after it at most.
StaleAnswersAreDated ==
  /\ TypeOK
  /\ \A d \in DOMAIN cache :
       cache[d].valid /\ d \notin DOMAIN store => removed[d] # Never /\ cache[d].at <= removed[d]
=============================================================================
