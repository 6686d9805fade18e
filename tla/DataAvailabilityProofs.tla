----------------------- MODULE DataAvailabilityProofs -----------------------
(***************************************************************************)
(* Proofs about the data availability layer: for any data, any number of   *)
(* threads that verify, any clock and any order in which cleanups win or   *)
(* lose their locks.                                                       *)
(*                                                                         *)
(* That stale answers are dated is not inductive: between the two lock     *)
(* sections of a verification its answer is in nobody's cache, and a       *)
(* cleanup that runs there cannot drop it.  So the same has to hold of the *)
(* answers on their way, and no answer may be dated in the future.         *)
(*                                                                         *)
(* At the end, the Merkle tree, for any number of leaves: what its proofs  *)
(* hold, and that the one of the first leaf is accepted.  Nothing there    *)
(* asks that the hash of a pair be no leaf.                                *)
(***************************************************************************)
EXTENDS DataAvailability, WellFoundedInduction, TLAPS

\* An answer, in the cache or on its way there.
Dated(answer, d) ==
  /\ answer.at <= now
  /\ answer.valid /\ d \notin DOMAIN store => removed[d] # Never /\ answer.at <= removed[d]

CallsDated ==
  \A v \in Verifiers : call[v] # Idle =>
    /\ call[v].at <= now
    /\ call[v].stage = "insert" => Dated(call[v], call[v].datum)

CacheDated == \A d \in DOMAIN cache : Dated(cache[d], d)

TreeIsStore == ToSet(leaves) = {Leaf(d) : d \in DOMAIN store}

StoreIsReplicated == DOMAIN store \subseteq replicas

IInv ==
  /\ TypeOK
  /\ call = [v \in Verifiers |-> call[v]]
  /\ CallsDated
  /\ CacheDated
  /\ TreeIsStore
  /\ StoreIsReplicated

-----------------------------------------------------------------------------
\* Counting from 0 to n, a property of numbers being given as a set.
LEMMA CountUp ==
  ASSUME NEW n \in Nat, NEW S, 0 \in S, \A k \in 0 .. n - 1 : k \in S => k + 1 \in S
  PROVE  \A k \in 0 .. n : k \in S
<1> DEFINE bad == {k \in 0 .. n : k \notin S}
<1> SUFFICES ASSUME bad # {} PROVE FALSE
  OBVIOUS
<1>1. bad \subseteq Nat
  OBVIOUS
<1>2. \A x, y \in Nat : <<y, x>> \in OpToRel(<, Nat) <=> y < x
  BY DEF OpToRel
<1> HIDE DEF bad
<1>3. PICK x \in bad : \A y \in bad : ~(<<y, x>> \in OpToRel(<, Nat))
  BY <1>1, WFMin, NatLessThanWellFounded
<1>4. x \in Nat /\ \A y \in bad : ~(y < x)
  BY <1>1, <1>2, <1>3
<1>5. x \in 0 .. n /\ x \notin S
  BY <1>3 DEF bad
<1>6. x # 0
  BY <1>5
<1>7. x - 1 \in 0 .. n - 1 /\ x - 1 \notin bad
  BY <1>4, <1>5, <1>6
<1>8. x - 1 \in S
  BY <1>7 DEF bad
<1> QED BY <1>5, <1>7, <1>8

\* What is kept of the prefix of length k.
Keeps(ls, hashes, k, kept) ==
  kept[k] = IF k = 0 THEN <<>>
            ELSE IF ls[k] \in hashes THEN kept[k - 1] ELSE Append(kept[k - 1], ls[k])

\* One more hash in a list of hashes.
LEMMA AppendSet ==
  ASSUME NEW T, NEW ls \in Seq(T), NEW l \in T
  PROVE  Append(ls, l) \in Seq(T) /\ ToSet(Append(ls, l)) = ToSet(ls) \cup {l}
<1> DEFINE more == Append(ls, l)
<1>1. /\ more \in Seq(T) /\ Len(more) = Len(ls) + 1 /\ Len(ls) \in Nat
      /\ more[Len(ls) + 1] = l /\ \A i \in 1 .. Len(ls) : more[i] = ls[i]
  OBVIOUS
<1>2. DOMAIN more = 1 .. Len(ls) + 1 /\ DOMAIN ls = 1 .. Len(ls)
  BY <1>1
<1> HIDE DEF more
<1>3. ToSet(more) = ToSet(ls) \cup {l}
  BY <1>1, <1>2 DEF ToSet
<1> QED BY <1>1, <1>3 DEF more

\* There is such a list of prefixes.
LEMMA RetainedExists ==
  ASSUME NEW T, NEW ls \in Seq(T), NEW hashes
  PROVE  \E kept \in [0 .. Len(ls) -> Seq(T)] : \A k \in 0 .. Len(ls) : Keeps(ls, hashes, k, kept)
<1> DEFINE n == Len(ls)
           Upto(k, f) == f \in [0 .. k -> Seq(T)] /\ \A j \in 0 .. k : Keeps(ls, hashes, j, f)
           S == {k \in 0 .. n : \E f : Upto(k, f)}
<1>1. n \in Nat /\ \A i \in 1 .. n : ls[i] \in T
  OBVIOUS
<1> HIDE DEF n
<1>2. 0 \in S
  <2> DEFINE f == [j \in 0 .. 0 |-> <<>>]
  <2>1. <<>> \in Seq(T)
    OBVIOUS
  <2>2. Upto(0, f)
    BY <2>1 DEF Keeps
  <2> HIDE DEF f, Upto
  <2> QED BY <1>1, <2>2
<1>3. ASSUME NEW k \in 0 .. n - 1, k \in S PROVE k + 1 \in S
  <2>1. PICK f : Upto(k, f)
    BY <1>3
  <2>2. k + 1 \in 1 .. n /\ k + 1 \in 0 .. n /\ (k + 1) - 1 = k /\ k \in 0 .. k
    BY <1>1
  <2>3. PICK last \in Seq(T) :
          last = IF ls[k + 1] \in hashes THEN f[k] ELSE Append(f[k], ls[k + 1])
    <3>1. PICK old \in Seq(T), l \in T : old = f[k] /\ l = ls[k + 1]
      BY <1>1, <2>1, <2>2
    <3>2. Append(old, l) \in Seq(T)
      BY AppendSet
    <3> QED BY <3>1, <3>2
  <2> DEFINE g == [j \in 0 .. k + 1 |-> IF j = k + 1 THEN last ELSE f[j]]
  <2>4. g \in [0 .. k + 1 -> Seq(T)]
    BY <2>1
  <2>5. \A j \in 0 .. k : g[j] = f[j]
    OBVIOUS
  <2>6. g[k + 1] = last
    BY <2>2
  <2> HIDE DEF g
  <2>7. ASSUME NEW j \in 0 .. k + 1 PROVE Keeps(ls, hashes, j, g)
    <3>1. CASE j = k + 1
      BY <2>2, <2>3, <2>5, <2>6, <3>1 DEF Keeps
    <3>2. CASE j \in 0 .. k
      <4>1. Keeps(ls, hashes, j, f) /\ g[j] = f[j]
        BY <2>1, <2>5, <3>2
      <4>2. j # 0 => g[j - 1] = f[j - 1]
        BY <2>5, <3>2
      <4> QED BY <4>1, <4>2 DEF Keeps
    <3> QED BY <3>1, <3>2
  <2>8. Upto(k + 1, g)
    BY <2>4, <2>7
  <2> HIDE DEF Upto
  <2> QED BY <2>2, <2>8
<1> HIDE DEF S
<1>4. n \in S
  <2>1. \A k \in 0 .. n : k \in S
    BY <1>1, <1>2, <1>3, CountUp
  <2> QED BY <1>1, <2>1
<1> QED BY <1>4 DEF S, n

\* The hashes that are retained are those that did not expire.
LEMMA RetainedSet ==
  ASSUME NEW T, NEW ls \in Seq(T), NEW hashes
  PROVE  /\ Retained(ls, hashes)[Len(ls)] \in Seq(T)
         /\ ToSet(Retained(ls, hashes)[Len(ls)]) = ToSet(ls) \ hashes
<1> DEFINE n == Len(ls)
           R(f) == f = [k \in 0 .. n |->
                          IF k = 0 THEN <<>>
                          ELSE IF ls[k] \in hashes THEN f[k - 1] ELSE Append(f[k - 1], ls[k])]
<1>1. Retained(ls, hashes) = CHOOSE f : R(f)
  BY DEF Retained
<1>2. \E f : R(f)
  <2>1. PICK f \in [0 .. n -> Seq(T)] : \A k \in 0 .. n : Keeps(ls, hashes, k, f)
    BY RetainedExists
  <2>2. R(f)
    BY <2>1 DEF Keeps
  <2> QED BY <2>2
<1>3. PICK kept : kept = Retained(ls, hashes) /\ R(kept)
  BY <1>1, <1>2
<1>4. n \in Nat /\ \A i \in 1 .. n : ls[i] \in T
  OBVIOUS
<1>5. kept[0] = <<>> /\ \A k \in 1 .. n : kept[k] =
        IF ls[k] \in hashes THEN kept[k - 1] ELSE Append(kept[k - 1], ls[k])
  <2>1. \A k \in 0 .. n : Keeps(ls, hashes, k, kept)
    <3> HIDE DEF n
    <3> QED BY <1>3, Zenon DEF Keeps
  <2>2. 0 \in 0 .. n /\ \A k \in 1 .. n : k \in 0 .. n /\ k # 0
    BY <1>4
  <2> QED BY <2>1, <2>2 DEF Keeps
<1> HIDE DEF n, R
<1> DEFINE S == {k \in 0 .. n : /\ kept[k] \in Seq(T)
                                /\ ToSet(kept[k]) = {ls[i] : i \in 1 .. k} \ hashes}
<1>6. 0 \in S
  <2>1. {ls[i] : i \in 1 .. 0} = {}
    OBVIOUS
  <2>2. ToSet(<<>>) = {} /\ <<>> \in Seq(T)
    BY DEF ToSet
  <2>3. kept[0] \in Seq(T) /\ ToSet(kept[0]) = {}
    BY <1>5, <2>2
  <2>4. 0 \in 0 .. n
    BY <1>4
  <2> QED BY <2>1, <2>3, <2>4
<1>7. ASSUME NEW k \in 0 .. n - 1, k \in S PROVE k + 1 \in S
  <2>1. k + 1 \in 1 .. n /\ k + 1 \in 0 .. n /\ (k + 1) - 1 = k
    BY <1>4
  <2>2. PICK old \in Seq(T), l \in T : old = kept[k] /\ l = ls[k + 1]
    BY <1>4, <1>7, <2>1
  <2>3. ToSet(old) = {ls[i] : i \in 1 .. k} \ hashes
    BY <1>7, <2>2
  <2>4. {ls[i] : i \in 1 .. k + 1} = {ls[i] : i \in 1 .. k} \cup {l}
    BY <2>1, <2>2
  <2>5. kept[k + 1] = IF l \in hashes THEN old ELSE Append(old, l)
    BY <1>5, <2>1, <2>2
  <2>6. Append(old, l) \in Seq(T) /\ ToSet(Append(old, l)) = ToSet(old) \cup {l}
    BY AppendSet
  <2>7. kept[k + 1] \in Seq(T)
    BY <2>5, <2>6
  <2>8. ToSet(kept[k + 1]) = {ls[i] : i \in 1 .. k + 1} \ hashes
    BY <2>3, <2>4, <2>5, <2>6
  <2> QED BY <2>1, <2>7, <2>8
<1> HIDE DEF S
<1>8. n \in S
  <2>1. \A k \in 0 .. n : k \in S
    BY <1>4, <1>6, <1>7, CountUp
  <2> QED BY <1>4, <2>1
<1>9. kept[n] \in Seq(T) /\ ToSet(kept[n]) = {ls[i] : i \in 1 .. n} \ hashes
  BY <1>8 DEF S
<1>10. ToSet(ls) = {ls[i] : i \in 1 .. n}
  BY DEF ToSet, n
<1> QED BY <1>3, <1>9, <1>10 DEF n

-----------------------------------------------------------------------------
\* What a broadcast does: the datum is with the peers, and nothing leaves them.
LEMMA BroadcastFacts ==
  ASSUME TypeOK, NEW d \in Data, SimulateBroadcast(d)
  PROVE  /\ replicas' = replicas \cup {d} /\ replicas' \subseteq Data
         /\ peers' \in [connected : BOOLEAN, reputation : Times, bandwidth : Times]
BY DEF TypeOK, SimulateBroadcast, Times

LEMMA InitFine == Init => IInv
<1> SUFFICES ASSUME Init PROVE IInv
  OBVIOUS
<1>1. /\ leaves = <<>> /\ now = 0 /\ store = <<>> /\ replicas = {} /\ cache = <<>>
      /\ requests = [d \in Data |-> [count |-> 0, pending |-> Never]]
      /\ peers = [connected |-> FALSE, reputation |-> Never, bandwidth |-> Never]
      /\ call = [v \in Verifiers |-> Idle] /\ removed = [d \in Data |-> Never]
  BY DEF Init, InitTree
<1>2. TypeOK
  BY <1>1 DEF TypeOK, Times
<1>3. CallsDated /\ CacheDated /\ StoreIsReplicated
  BY <1>1 DEF CallsDated, CacheDated, StoreIsReplicated
<1>4. TreeIsStore
  BY <1>1 DEF TreeIsStore, ToSet
<1> QED BY <1>1, <1>2, <1>3, <1>4 DEF IInv

\* The time passes: what is in the past stays there.
LEMMA TickFine == ASSUME IInv, Tick PROVE IInv'
<1>1. /\ now' = now + 1 /\ now \in Nat
      /\ UNCHANGED <<leaves, store, replicas, requests, peers, cache, call, removed>>
  BY DEF Tick, IInv, TypeOK
<1>2. TypeOK'
  BY <1>1 DEF IInv, TypeOK
<1>3. CallsDated'
  <2> SUFFICES ASSUME NEW v \in Verifiers, call[v] # Idle
               PROVE  /\ call[v].at <= now'
                      /\ call[v].stage = "insert" => Dated(call[v], call[v].datum)'
    BY <1>1 DEF CallsDated
  <2>1. /\ call[v].at <= now /\ call[v].at \in Nat
        /\ call[v].stage = "insert" => Dated(call[v], call[v].datum)
    BY DEF IInv, TypeOK, CallsDated
  <2>2. call[v].at <= now'
    BY <1>1, <2>1
  <2>3. ASSUME call[v].stage = "insert" PROVE Dated(call[v], call[v].datum)'
    <3>1. Dated(call[v], call[v].datum)
      BY <2>1, <2>3
    <3> QED BY <1>1, <2>2, <3>1 DEF Dated
  <2> QED BY <2>2, <2>3
<1>4. CacheDated'
  <2> SUFFICES ASSUME NEW d \in DOMAIN cache PROVE Dated(cache[d], d)'
    BY <1>1 DEF CacheDated
  <2>1. cache[d].at \in Nat /\ Dated(cache[d], d)
    BY DEF IInv, TypeOK, CacheDated
  <2> QED BY <1>1, <2>1 DEF Dated
<1> QED BY <1>1, <1>2, <1>3, <1>4 DEF IInv, TreeIsStore, StoreIsReplicated

\* store_data: a datum more in the store, in the tree and with the peers.
LEMMA StoreFine == ASSUME IInv, NEW d \in Data, StoreData(d) PROVE IInv'
<1>1. /\ store' = Put(store, d, [timestamp |-> now, accesses |-> 0])
      /\ leaves' = Append(leaves, Leaf(d))
      /\ SimulateBroadcast(d)
      /\ UNCHANGED <<now, requests, cache, call, removed>>
  BY DEF StoreData, AddLeaf
<1>2. leaves \in Seq({Leaf(x) : x \in Data}) /\ Leaf(d) \in {Leaf(x) : x \in Data}
  BY DEF IInv, TypeOK
<1>3. /\ leaves' \in Seq({Leaf(x) : x \in Data})
      /\ ToSet(leaves') = ToSet(leaves) \cup {Leaf(d)}
  BY <1>1, <1>2, AppendSet
<1>4. DOMAIN store' = DOMAIN store \cup {d}
      /\ \A x \in DOMAIN store' : store'[x] \in Entries
  <2>1. PICK entry \in Entries : entry = [timestamp |-> now, accesses |-> 0]
    BY DEF IInv, TypeOK, Entries
  <2>2. store' = Put(store, d, entry)
    BY <1>1, <2>1
  <2>3. \A x \in DOMAIN store : store[x] \in Entries
    BY DEF IInv, TypeOK
  <2> QED BY <2>2, <2>3 DEF Put
<1>5. replicas' = replicas \cup {d} /\ replicas' \subseteq Data
      /\ peers' \in [connected : BOOLEAN, reputation : Times, bandwidth : Times]
  BY <1>1, BroadcastFacts DEF IInv
<1>6. TypeOK'
  BY <1>1, <1>3, <1>4, <1>5 DEF IInv, TypeOK
<1>7. CallsDated' /\ CacheDated'
  BY <1>1, <1>4 DEF IInv, CallsDated, CacheDated, Dated
<1>8. TreeIsStore'
  BY <1>3, <1>4 DEF IInv, TreeIsStore
<1> QED BY <1>1, <1>4, <1>5, <1>6, <1>7, <1>8 DEF IInv, StoreIsReplicated

\* retrieve_data counts the access.
LEMMA RetrieveFine == ASSUME IInv, NEW d \in Data, RetrieveData(d) PROVE IInv'
<1>1. /\ d \in DOMAIN store /\ store' = [store EXCEPT ![d].accesses = @ + 1]
      /\ UNCHANGED <<leaves, now, replicas, requests, peers, cache, call, removed>>
  BY DEF RetrieveData
<1>2. DOMAIN store' = DOMAIN store
  BY <1>1
<1>3. ASSUME NEW x \in DOMAIN store PROVE store'[x] \in Entries
  <2>1. store[x] \in Entries /\ store[d] \in Entries
    BY <1>1 DEF IInv, TypeOK
  <2>2. CASE x = d
    <3>1. store'[d] = [store[d] EXCEPT !.accesses = @ + 1]
      BY <1>1
    <3> QED BY <2>1, <2>2, <3>1 DEF Entries
  <2>3. CASE x # d
    BY <1>1, <2>1, <2>3
  <2> QED BY <2>2, <2>3
<1> QED BY <1>1, <1>2, <1>3
       DEF IInv, TypeOK, CallsDated, CacheDated, Dated, TreeIsStore, StoreIsReplicated

\* broadcast_data
LEMMA BroadcastFine == ASSUME IInv, NEW d \in Data, BroadcastData(d) PROVE IInv'
<1>1. SimulateBroadcast(d) /\ UNCHANGED <<leaves, now, store, requests, cache, call, removed>>
  BY DEF BroadcastData
<1>2. replicas' = replicas \cup {d} /\ replicas' \subseteq Data
      /\ peers' \in [connected : BOOLEAN, reputation : Times, bandwidth : Times]
  BY <1>1, BroadcastFacts DEF IInv
<1> QED BY <1>1, <1>2
       DEF IInv, TypeOK, CallsDated, CacheDated, Dated, TreeIsStore, StoreIsReplicated

\* request_data
LEMMA RequestFine == ASSUME IInv, NEW d \in Data, RequestData(d) PROVE IInv'
<1>1. /\ requests' = [requests EXCEPT ![d] = [count |-> @.count + 1, pending |-> now]]
      /\ UNCHANGED <<leaves, now, store, replicas, peers, cache, call, removed>>
  BY DEF RequestData
<1>2. requests' \in [Data -> [count : Nat, pending : Times]]
  BY <1>1 DEF IInv, TypeOK, Times
<1> QED BY <1>1, <1>2
       DEF IInv, TypeOK, CallsDated, CacheDated, Dated, TreeIsStore, StoreIsReplicated

\* The first lock section of a verification: it is dated with the present.
LEMMA VerifyFine == ASSUME IInv, NEW v \in Verifiers, NEW d \in Data, Verify(v, d) PROVE IInv'
<1>1. /\ call' = [call EXCEPT ![v] = [stage |-> "perform", datum |-> d, at |-> now]]
      /\ UNCHANGED <<leaves, now, store, replicas, requests, peers, cache, removed>>
  BY DEF Verify
<1>2. /\ call'[v] = [stage |-> "perform", datum |-> d, at |-> now]
      /\ call' = [w \in Verifiers |-> call'[w]]
      /\ \A w \in Verifiers : w # v => call'[w] = call[w]
  BY <1>1 DEF IInv
<1>3. TypeOK'
  BY <1>1, <1>2 DEF IInv, TypeOK
<1>4. CallsDated'
  BY <1>1, <1>2 DEF IInv, TypeOK, CallsDated, Dated
<1> QED BY <1>1, <1>2, <1>3, <1>4 DEF IInv, CacheDated, Dated, TreeIsStore, StoreIsReplicated

\* The second one: the answer is positive only for a datum that is there.
LEMMA PerformFine == ASSUME IInv, NEW v \in Verifiers, PerformVerification(v) PROVE IInv'
<1>1. /\ call[v] # Idle /\ call[v].stage = "perform"
      /\ call' = [call EXCEPT ![v] = [stage |-> "insert", datum |-> @.datum, at |-> @.at,
                                      valid |-> Available(@.datum)]]
      /\ UNCHANGED <<leaves, now, store, replicas, requests, peers, cache, removed>>
  BY DEF PerformVerification
<1>2. call[v].datum \in Data /\ call[v].at \in Nat /\ call[v].at <= now
  BY <1>1 DEF IInv, TypeOK, CallsDated
<1>3. PICK yes \in BOOLEAN : yes = Available(call[v].datum)
  BY DEF Available
<1>4. /\ call'[v] = [stage |-> "insert", datum |-> call[v].datum, at |-> call[v].at, valid |-> yes]
      /\ call' = [w \in Verifiers |-> call'[w]]
      /\ \A w \in Verifiers : w # v => call'[w] = call[w]
  BY <1>1, <1>3 DEF IInv
<1>5. TypeOK'
  BY <1>1, <1>2, <1>4 DEF IInv, TypeOK
<1>6. CallsDated'
  BY <1>1, <1>2, <1>3, <1>4 DEF IInv, CallsDated, Dated, Available
<1> QED BY <1>1, <1>4, <1>5, <1>6 DEF IInv, CacheDated, Dated, TreeIsStore, StoreIsReplicated

\* The third one: an answer that is dated enters the cache.
LEMMA CacheFine == ASSUME IInv, NEW v \in Verifiers, CacheResult(v) PROVE IInv'
<1>1. /\ call[v] # Idle /\ call[v].stage = "insert"
      /\ cache' = Put(cache, call[v].datum, [valid |-> call[v].valid, at |-> call[v].at])
      /\ call' = [call EXCEPT ![v] = Idle]
      /\ UNCHANGED <<leaves, now, store, replicas, requests, peers, removed>>
  BY DEF CacheResult
<1>2. PICK d \in Data, at \in Nat, yes \in BOOLEAN :
        d = call[v].datum /\ at = call[v].at /\ yes = call[v].valid
  BY <1>1 DEF IInv, TypeOK
<1>3. Dated([valid |-> yes, at |-> at], d)
  BY <1>1, <1>2 DEF IInv, CallsDated, Dated
<1>4. /\ DOMAIN cache' = DOMAIN cache \cup {d}
      /\ cache'[d] = [valid |-> yes, at |-> at]
      /\ \A x \in DOMAIN cache : x # d => cache'[x] = cache[x]
  <2>1. PICK answer : answer = [valid |-> yes, at |-> at]
    OBVIOUS
  <2>2. cache' = Put(cache, d, answer)
    BY <1>1, <1>2, <2>1
  <2> QED BY <2>1, <2>2 DEF Put
<1>5. /\ call' = [w \in Verifiers |-> call'[w]]
      /\ \A w \in Verifiers : call'[w] = call[w] \/ call'[w] = Idle
  BY <1>1 DEF IInv
<1>6. TypeOK'
  <2>1. cache'[d] \in [valid : BOOLEAN, at : Nat]
    BY <1>4
  <2>2. DOMAIN cache' \subseteq Data /\ \A x \in DOMAIN cache' : cache'[x] \in [valid : BOOLEAN, at : Nat]
    BY <1>4, <2>1 DEF IInv, TypeOK
  <2> QED BY <1>1, <1>5, <2>2 DEF IInv, TypeOK
<1>7. CallsDated'
  BY <1>1, <1>5 DEF IInv, CallsDated, Dated
<1>8. CacheDated'
  BY <1>1, <1>3, <1>4 DEF IInv, CacheDated, Dated
<1> QED BY <1>1, <1>5, <1>6, <1>7, <1>8 DEF IInv, TreeIsStore, StoreIsReplicated

\* cleanup_expired_data, whatever locks it gets: what goes is removed now, and
\* no answer about it is dated later.
LEMMA CleanupFine ==
  ASSUME IInv, NEW cacheFree \in BOOLEAN, NEW networkFree \in BOOLEAN,
         CleanupExpiredData(cacheFree, networkFree)
  PROVE  IInv'
<1>1. PICK gone : gone = ExpiredData
  OBVIOUS
<1>2. /\ store' = Without(store, gone)
      /\ leaves' = Retained(leaves, {Leaf(d) : d \in gone})[Len(leaves)]
      /\ cache' = IF cacheFree THEN Without(cache, gone) ELSE cache
      /\ removed' = [d \in Data |-> IF d \in gone THEN now ELSE removed[d]]
      /\ UNCHANGED <<now, call>>
  BY <1>1 DEF CleanupExpiredData, RemoveLeaves
<1>3. replicas' \subseteq replicas /\ replicas \ gone \subseteq replicas'
  BY <1>1 DEF CleanupExpiredData
<1>4. /\ requests' \in [Data -> [count : Nat, pending : Times]]
      /\ peers' \in [connected : BOOLEAN, reputation : Times, bandwidth : Times]
  <2>1. /\ requests \in [Data -> [count : Nat, pending : Times]]
        /\ peers \in [connected : BOOLEAN, reputation : Times, bandwidth : Times]
        /\ [count |-> 0, pending |-> Never] \in [count : Nat, pending : Times]
    BY DEF IInv, TypeOK, Times
  <2>2. CASE networkFree
    <3>1. /\ requests' = [d \in Data |-> IF d \in gone THEN [count |-> 0, pending |-> Never]
                                          ELSE requests[d]]
          /\ peers' = ForgetOldPeers
      BY <1>1, <2>2 DEF CleanupExpiredData
    <3>2. requests' \in [Data -> [count : Nat, pending : Times]]
      BY <2>1, <3>1
    <3>3. peers' \in [connected : BOOLEAN, reputation : Times, bandwidth : Times]
      BY <2>1, <3>1 DEF ForgetOldPeers, Times
    <3> QED BY <3>2, <3>3
  <2>3. CASE ~networkFree
    BY <2>1, <2>3 DEF CleanupExpiredData
  <2> QED BY <2>2, <2>3
<1>5. gone \subseteq DOMAIN store /\ gone \subseteq Data
  BY <1>1 DEF ExpiredData, IInv, TypeOK
<1>6. DOMAIN store' = DOMAIN store \ gone /\ \A x \in DOMAIN store' : store'[x] = store[x]
  <2>1. store' = Without(store, gone)
    BY <1>2
  <2> QED BY <2>1 DEF Without
<1>7. DOMAIN cache' \subseteq DOMAIN cache /\ \A x \in DOMAIN cache' : cache'[x] = cache[x]
  <2>1. cache' = Without(cache, gone) \/ cache' = cache
    BY <1>2
  <2> QED BY <2>1 DEF Without
<1>8. /\ leaves' \in Seq({Leaf(d) : d \in Data})
      /\ ToSet(leaves') = ToSet(leaves) \ {Leaf(d) : d \in gone}
  <2>1. leaves \in Seq({Leaf(d) : d \in Data})
    BY DEF IInv, TypeOK
  <2> QED BY <1>2, <2>1, RetainedSet
<1>9. \A d \in Data : IF d \in gone THEN removed'[d] = now ELSE removed'[d] = removed[d]
  BY <1>2
<1>10. TypeOK'
  <2>1. removed' \in [Data -> Times]
    BY <1>2 DEF IInv, TypeOK, Times
  <2> QED BY <1>2, <1>3, <1>4, <1>6, <1>7, <1>8, <2>1 DEF IInv, TypeOK
<1>11. ASSUME NEW answer, NEW d \in Data, Dated(answer, d) PROVE Dated(answer, d)'
  <2>1. now # Never
    BY AvailabilityAssumption DEF IInv, TypeOK
  <2> QED BY <1>2, <1>6, <1>9, <1>11, <2>1 DEF Dated
<1>12. CallsDated'
  <2> SUFFICES ASSUME NEW v \in Verifiers, call[v] # Idle
               PROVE  /\ call[v].at <= now
                      /\ call[v].stage = "insert" => Dated(call[v], call[v].datum)'
    BY <1>2 DEF CallsDated
  <2>1. /\ call[v].at <= now /\ call[v].datum \in Data
        /\ call[v].stage = "insert" => Dated(call[v], call[v].datum)
    BY DEF IInv, TypeOK, CallsDated
  <2>2. PICK answer, d : answer = call[v] /\ d = call[v].datum
    OBVIOUS
  <2>3. call[v].stage = "insert" => Dated(answer, d)'
    BY <1>11, <2>1, <2>2
  <2> QED BY <1>2, <2>1, <2>2, <2>3 DEF Dated
<1>13. CacheDated'
  <2>1. ASSUME NEW d, d \in DOMAIN cache' PROVE Dated(cache[d], d)'
    <3>1. d \in Data /\ Dated(cache[d], d) /\ cache'[d] = cache[d]
      BY <1>7, <2>1 DEF IInv, TypeOK, CacheDated
    <3>2. PICK answer : answer = cache[d]
      OBVIOUS
    <3>3. Dated(answer, d)'
      BY <1>11, <3>1, <3>2
    <3> QED BY <3>1, <3>2, <3>3 DEF Dated
  <2> QED BY <2>1 DEF CacheDated
<1>14. TreeIsStore'
  <2>1. \A x, y : Leaf(x) = Leaf(y) => x = y
    BY DEF Leaf
  <2> QED BY <1>5, <1>6, <1>8, <2>1 DEF IInv, TreeIsStore
<1> QED BY <1>2, <1>3, <1>6, <1>10, <1>12, <1>13, <1>14 DEF IInv, StoreIsReplicated

\* Every step.
LEMMA StepFine == IInv /\ [Next]_vars => IInv'
<1> SUFFICES ASSUME IInv, [Next]_vars PROVE IInv'
  OBVIOUS
<1>1. CASE Tick
  BY <1>1, TickFine
<1>2. ASSUME NEW d \in Data, StoreData(d) PROVE IInv'
  BY <1>2, StoreFine
<1>3. ASSUME NEW d \in Data, RetrieveData(d) PROVE IInv'
  BY <1>3, RetrieveFine
<1>4. ASSUME NEW d \in Data, BroadcastData(d) PROVE IInv'
  BY <1>4, BroadcastFine
<1>5. ASSUME NEW d \in Data, RequestData(d) PROVE IInv'
  BY <1>5, RequestFine
<1>6. ASSUME NEW v \in Verifiers, NEW d \in Data, Verify(v, d) PROVE IInv'
  BY <1>6, VerifyFine
<1>7. ASSUME NEW v \in Verifiers, PerformVerification(v) PROVE IInv'
  BY <1>7, PerformFine
<1>8. ASSUME NEW v \in Verifiers, CacheResult(v) PROVE IInv'
  BY <1>8, CacheFine
<1>9. ASSUME NEW cacheFree \in BOOLEAN, NEW networkFree \in BOOLEAN,
             CleanupExpiredData(cacheFree, networkFree)
      PROVE  IInv'
  BY <1>9, CleanupFine
<1>10. CASE UNCHANGED vars
  BY <1>10 DEF vars, IInv, TypeOK, CallsDated, CacheDated, Dated, TreeIsStore, StoreIsReplicated
<1> QED BY <1>1, <1>2, <1>3, <1>4, <1>5, <1>6, <1>7, <1>8, <1>9, <1>10 DEF Next

\* The invariant holds always.
LEMMA InvHolds == Spec => []IInv
BY InitFine, StepFine, PTL DEF Spec

\* Every variable has its type, and a positive answer of the cache about a datum
\* that is gone is dated before the removal, however many verifications are
\* between their lock sections when a cleanup passes.
THEOREM StaleAnswersHaveDates == Spec => []StaleAnswersAreDated
<1>1. IInv => StaleAnswersAreDated
  BY DEF IInv, CacheDated, Dated, StaleAnswersAreDated
<1> QED BY <1>1, InvHolds, PTL

\* The tree holds the leaves of the data in the store and no others, and every
\* datum in the store is with the peers too, after any number of data, stored
\* twice or more, and any cleanups.
THEOREM StoreIsAvailable == Spec => []StoredIsAvailable
<1>1. IInv => StoredIsAvailable
  BY DEF IInv, TreeIsStore, StoreIsReplicated, StoredIsAvailable, Available
<1> QED BY <1>1, InvHolds, PTL

-----------------------------------------------------------------------------
(***************************************************************************)
(* The Merkle tree, for every number of leaves.                            *)
(***************************************************************************)
\* A level of m hashes.
HasLength(level, m) == m \in Nat \ {0} /\ DOMAIN level = 1 .. m /\ Len(level) = m

\* Pairing leaves half of them, rounded up.
LEMMA NextLength ==
  ASSUME NEW level, NEW m, HasLength(level, m)
  PROVE  /\ HasLength(NextLevel(level), (m + 1) \div 2)
         /\ (m + 1) \div 2 < m \/ m = 1
         /\ (m + 1) \div 2 <= m
<1>1. m \in Nat \ {0} /\ Len(level) = m
  BY DEF HasLength
<1>2. PICK q \in Nat \ {0} : q = (m + 1) \div 2 /\ q <= m /\ (q < m \/ m = 1)
  <2>1. (m + 1) \div 2 \in Nat \ {0} /\ (m + 1) \div 2 <= m /\ ((m + 1) \div 2 < m \/ m = 1)
    BY <1>1, Z3
  <2> QED BY <2>1
<1>3. NextLevel(level) = [i \in 1 .. q |->
                            IF 2 * i <= m THEN HashPair(level[2 * i - 1], level[2 * i])
                            ELSE level[2 * i - 1]]
  BY <1>1, <1>2 DEF NextLevel
<1>4. DOMAIN NextLevel(level) = 1 .. q /\ Len(NextLevel(level)) = q
  BY <1>3
<1> QED BY <1>2, <1>4 DEF HasLength

\* The levels are what rebuild_tree makes, one after the other.
AreLevels(ls, n, level) ==
  /\ level = [k \in 0 .. n |-> level[k]]
  /\ level[0] = ls
  /\ \A k \in 1 .. n : level[k] = NextLevel(level[k - 1])

LEMMA LevelsExist ==
  ASSUME NEW ls, NEW n \in Nat PROVE \E level : AreLevels(ls, n, level)
<1> DEFINE S == {k \in 0 .. n : \E f : AreLevels(ls, k, f)}
<1>1. 0 \in S
  <2> DEFINE f == [j \in 0 .. 0 |-> ls]
  <2>1. f = [j \in 0 .. 0 |-> f[j]] /\ f[0] = ls
    OBVIOUS
  <2> HIDE DEF f
  <2>2. AreLevels(ls, 0, f)
    BY <2>1 DEF AreLevels
  <2> QED BY <2>2
<1>2. ASSUME NEW k \in 0 .. n - 1, k \in S PROVE k + 1 \in S
  <2>1. PICK f : AreLevels(ls, k, f)
    BY <1>2
  <2>2. PICK top : top = NextLevel(f[k])
    OBVIOUS
  <2> DEFINE g == [j \in 0 .. k + 1 |-> IF j = k + 1 THEN top ELSE f[j]]
  <2>3. /\ g = [j \in 0 .. k + 1 |-> g[j]]
        /\ \A j \in 0 .. k : g[j] = f[j]
        /\ g[k + 1] = top
    OBVIOUS
  <2> HIDE DEF g
  <2>4. \A j \in 1 .. k + 1 : g[j] = NextLevel(g[j - 1])
    <3> TAKE j \in 1 .. k + 1
    <3>1. CASE j = k + 1
      <4>1. j - 1 = k /\ k \in 0 .. k
        BY <3>1
      <4>2. g[j - 1] = f[k] /\ g[j] = top
        BY <2>3, <3>1, <4>1
      <4> QED BY <2>2, <4>2
    <3>2. CASE j \in 1 .. k
      <4>1. j - 1 \in 0 .. k /\ j \in 0 .. k
        BY <3>2
      <4>2. g[j - 1] = f[j - 1] /\ g[j] = f[j]
        BY <2>3, <4>1
      <4>3. f[j] = NextLevel(f[j - 1])
        BY <2>1, <3>2 DEF AreLevels
      <4> QED BY <4>2, <4>3
    <3> QED BY <3>1, <3>2
  <2>5. g[0] = ls
    BY <2>1, <2>3 DEF AreLevels
  <2>6. AreLevels(ls, k + 1, g)
    BY <2>3, <2>4, <2>5 DEF AreLevels
  <2>7. k + 1 \in 0 .. n
    OBVIOUS
  <2> QED BY <2>6, <2>7
<1> HIDE DEF S
<1>3. n \in S
  <2>1. \A k \in 0 .. n : k \in S
    BY <1>1, <1>2, CountUp
  <2> QED BY <2>1
<1> QED BY <1>3 DEF S

LEMMA LevelsAre ==
  ASSUME NEW T, NEW ls \in Seq(T) PROVE AreLevels(ls, Len(ls), Levels(ls))
<1> DEFINE n == Len(ls)
           R(f) == f = [k \in 0 .. n |-> IF k = 0 THEN ls ELSE NextLevel(f[k - 1])]
<1>1. n \in Nat
  OBVIOUS
<1>2. Levels(ls) = CHOOSE f : R(f)
  BY DEF Levels
<1> HIDE DEF n
<1>3. PICK f : AreLevels(ls, n, f)
  BY <1>1, LevelsExist
<1>4. R(f)
  <2>1. f = [k \in 0 .. n |-> f[k]]
    BY <1>3 DEF AreLevels
  <2>2. \A k \in 0 .. n : f[k] = IF k = 0 THEN ls ELSE NextLevel(f[k - 1])
    BY <1>1, <1>3 DEF AreLevels
  <2> QED BY <2>1, <2>2
<1>5. R(Levels(ls))
  BY <1>2, <1>4
<1>6. AreLevels(ls, n, Levels(ls))
  <2>1. DOMAIN Levels(ls) = 0 .. n
    BY <1>5
  <2>2. Levels(ls) = [k \in 0 .. n |-> Levels(ls)[k]]
    BY <1>5
  <2>3. \A k \in 0 .. n : Levels(ls)[k] = IF k = 0 THEN ls ELSE NextLevel(Levels(ls)[k - 1])
    BY <1>5
  <2> QED BY <1>1, <2>2, <2>3 DEF AreLevels
<1> QED BY <1>6 DEF n

\* So they have lengths, which go down to 1.
LEMMA LevelLengths ==
  ASSUME NEW T, NEW ls \in Seq(T), ls # <<>>
  PROVE  \A k \in 0 .. Len(ls) :
           \E m : HasLength(Levels(ls)[k], m) /\ (m = 1 \/ m <= Len(ls) - k)
<1> DEFINE n == Len(ls)
           S == {k \in 0 .. n : \E m : HasLength(Levels(ls)[k], m) /\ (m = 1 \/ m <= n - k)}
<1>1. n \in Nat \ {0} /\ DOMAIN ls = 1 .. n
  OBVIOUS
<1>2. AreLevels(ls, n, Levels(ls))
  BY LevelsAre
<1>3. 0 \in S
  <2>1. HasLength(Levels(ls)[0], n)
    BY <1>1, <1>2 DEF HasLength, AreLevels
  <2>2. n <= n - 0
    BY <1>1
  <2> QED BY <1>1, <2>1, <2>2
<1> HIDE DEF n
<1>4. ASSUME NEW k \in 0 .. n - 1, k \in S PROVE k + 1 \in S
  <2>1. PICK m : HasLength(Levels(ls)[k], m) /\ (m = 1 \/ m <= n - k)
    BY <1>4
  <2>2. k + 1 \in 0 .. n /\ k + 1 \in 1 .. n /\ (k + 1) - 1 = k
    BY <1>1
  <2>3. Levels(ls)[k + 1] = NextLevel(Levels(ls)[k])
    BY <1>2, <2>2 DEF AreLevels
  <2>4. PICK q : /\ q = (m + 1) \div 2
                 /\ HasLength(Levels(ls)[k + 1], q)
                 /\ q < m \/ m = 1
                 /\ q <= m
    BY <2>1, <2>3, NextLength
  <2>5. q \in Nat \ {0} /\ m \in Nat \ {0}
    BY <2>1, <2>4 DEF HasLength
  <2>6. q = 1 \/ q <= n - (k + 1)
    BY <1>1, <2>1, <2>4, <2>5
  <2> QED BY <2>2, <2>4, <2>6
<1>5. \A k \in 0 .. n : k \in S
  <2> HIDE DEF S
  <2> QED BY <1>1, <1>3, <1>4, CountUp
<1> QED BY <1>5 DEF n

\* The tree ends in a level of one hash, and the ones before have more.
LEMMA RootLevelIs ==
  ASSUME NEW T, NEW ls \in Seq(T), ls # <<>>
  PROVE  /\ RootLevel(ls) \in 0 .. Len(ls)
         /\ Len(Levels(ls)[RootLevel(ls)]) = 1
         /\ \A j \in 0 .. RootLevel(ls) - 1 : Len(Levels(ls)[j]) > 1
<1> DEFINE n == Len(ls)
           ends == {k \in 0 .. n : Len(Levels(ls)[k]) = 1}
<1>1. n \in Nat \ {0}
  OBVIOUS
<1>2. AreLevels(ls, n, Levels(ls))
  BY LevelsAre
<1>3. \A k \in 0 .. n : \E m : HasLength(Levels(ls)[k], m) /\ (m = 1 \/ m <= n - k)
  BY LevelLengths
<1> HIDE DEF n
<1>4. n \in ends
  <2>1. PICK m : HasLength(Levels(ls)[n], m) /\ (m = 1 \/ m <= n - n)
    BY <1>1, <1>3
  <2>2. m = 1
    BY <1>1, <2>1 DEF HasLength
  <2> QED BY <1>1, <2>1, <2>2 DEF HasLength
<1>5. \A x, y \in Nat : <<y, x>> \in OpToRel(<, Nat) <=> y < x
  BY DEF OpToRel
<1>6. ends \subseteq Nat /\ ends \subseteq 0 .. n
  OBVIOUS
<1>7. PICK k \in ends : \A y \in ends : ~(<<y, k>> \in OpToRel(<, Nat))
  <2> HIDE DEF ends
  <2> QED BY <1>4, <1>6, WFMin, NatLessThanWellFounded
<1>8. k \in 0 .. n /\ Len(Levels(ls)[k]) = 1
  BY <1>7
<1>9. \A y \in ends : ~(y < k)
  BY <1>5, <1>6, <1>7
<1>10. \A j \in 0 .. k - 1 : Len(Levels(ls)[j]) > 1
  <2> TAKE j \in 0 .. k - 1
  <2>1. j \in 0 .. n /\ j < k
    BY <1>1, <1>8
  <2>2. j \notin ends
    BY <1>9, <2>1
  <2>3. PICK m : HasLength(Levels(ls)[j], m)
    BY <1>3, <2>1
  <2>4. Len(Levels(ls)[j]) # 1
    BY <2>1, <2>2
  <2>5. Len(Levels(ls)[j]) = m /\ m \in Nat \ {0}
    BY <2>3 DEF HasLength
  <2> QED BY <2>4, <2>5
<1>11. DOMAIN Levels(ls) = 0 .. n
  BY <1>2 DEF AreLevels
<1>12. k \in DOMAIN Levels(ls) /\ Len(Levels(ls)[k]) = 1 /\ \A j \in 0 .. k - 1 : Len(Levels(ls)[j]) > 1
  BY <1>8, <1>10, <1>11
<1>13. /\ RootLevel(ls) \in DOMAIN Levels(ls)
       /\ Len(Levels(ls)[RootLevel(ls)]) = 1
       /\ \A j \in 0 .. RootLevel(ls) - 1 : Len(Levels(ls)[j]) > 1
  BY <1>12 DEF RootLevel
<1> QED BY <1>11, <1>13 DEF n

\* The index of get_proof on each level: half of the one below, and within the
\* level.
LEMMA IndexSteps ==
  ASSUME NEW T, NEW ls \in Seq(T), NEW p \in Nat
  PROVE  /\ Index(ls, p, 0) = p
         /\ \A k \in 0 .. Len(ls) : Index(ls, p, k) \in Nat
         /\ \A k \in 1 .. Len(ls) : Index(ls, p, k) = Index(ls, p, k - 1) \div 2
<1> DEFINE n == Len(ls)
           R(f) == f = [j \in 0 .. n |-> IF j = 0 THEN p ELSE f[j - 1] \div 2]
           Upto(k, f) ==
             /\ f \in [0 .. k -> Nat] /\ f[0] = p
             /\ \A j \in 1 .. k : f[j] = f[j - 1] \div 2
           S == {k \in 0 .. n : \E f : Upto(k, f)}
<1>1. n \in Nat
  OBVIOUS
<1>2. \A k : Index(ls, p, k) = (CHOOSE f : R(f))[k]
  BY DEF Index
<1> HIDE DEF n
<1>3. 0 \in S
  <2> DEFINE f == [j \in 0 .. 0 |-> p]
  <2>1. Upto(0, f)
    OBVIOUS
  <2> HIDE DEF f, Upto
  <2> QED BY <1>1, <2>1
<1>4. ASSUME NEW k \in 0 .. n - 1, k \in S PROVE k + 1 \in S
  <2>1. PICK f : Upto(k, f)
    BY <1>4
  <2>2. PICK half \in Nat : half = f[k] \div 2
    <3>1. f[k] \in Nat
      BY <2>1
    <3>2. \A x \in Nat : x \div 2 \in Nat
      BY Z3
    <3> QED BY <3>1, <3>2
  <2> DEFINE g == [j \in 0 .. k + 1 |-> IF j = k + 1 THEN half ELSE f[j]]
  <2>3. /\ g \in [0 .. k + 1 -> Nat] /\ g[k + 1] = half
        /\ \A j \in 0 .. k : g[j] = f[j]
    BY <2>1
  <2> HIDE DEF g
  <2>4. \A j \in 1 .. k + 1 : g[j] = g[j - 1] \div 2
    <3> TAKE j \in 1 .. k + 1
    <3>1. CASE j = k + 1
      <4>1. j - 1 = k /\ k \in 0 .. k
        BY <3>1
      <4> QED BY <2>2, <2>3, <3>1, <4>1
    <3>2. CASE j \in 1 .. k
      <4>1. j - 1 \in 0 .. k /\ j \in 0 .. k
        BY <3>2
      <4>2. f[j] = f[j - 1] \div 2
        BY <2>1, <3>2
      <4> QED BY <2>3, <4>1, <4>2
    <3> QED BY <3>1, <3>2
  <2>5. g[0] = p
    BY <2>1, <2>3
  <2>6. Upto(k + 1, g)
    BY <2>3, <2>4, <2>5
  <2>7. k + 1 \in 0 .. n
    BY <1>1
  <2> HIDE DEF Upto
  <2> QED BY <2>6, <2>7
<1>5. PICK f : Upto(n, f)
  <2> HIDE DEF S, Upto
  <2>1. \A k \in 0 .. n : k \in S
    BY <1>1, <1>3, <1>4, CountUp
  <2>2. n \in S
    BY <1>1, <2>1
  <2> QED BY <2>2 DEF S
<1>6. R(f)
  <2>1. f = [j \in 0 .. n |-> f[j]]
    BY <1>5
  <2>2. \A j \in 0 .. n : f[j] = IF j = 0 THEN p ELSE f[j - 1] \div 2
    BY <1>1, <1>5
  <2> QED BY <2>1, <2>2
<1>7. PICK h : h = (CHOOSE x : R(x)) /\ R(h)
  BY <1>6
<1> HIDE DEF S, Upto
<1>14. \A j \in 0 .. n : h[j] = IF j = 0 THEN p ELSE h[j - 1] \div 2
  BY <1>7
<1> HIDE DEF R
<1>8. h[0] = p
  BY <1>1, <1>14
<1>9. \A j \in 1 .. n : h[j] = h[j - 1] \div 2
  BY <1>1, <1>14
<1> DEFINE N == {k \in 0 .. n : h[k] \in Nat}
<1>10. 0 \in N
  BY <1>1, <1>8
<1>11. ASSUME NEW k \in 0 .. n - 1, k \in N PROVE k + 1 \in N
  <2>1. k + 1 \in 1 .. n /\ k + 1 \in 0 .. n /\ (k + 1) - 1 = k
    BY <1>1
  <2>2. h[k + 1] = h[k] \div 2 /\ h[k] \in Nat
    BY <1>9, <1>11, <2>1
  <2>3. \A x \in Nat : x \div 2 \in Nat
    BY Z3
  <2> QED BY <2>1, <2>2, <2>3
<1>12. \A k \in 0 .. n : h[k] \in Nat
  <2> HIDE DEF N
  <2>1. \A k \in 0 .. n : k \in N
    BY <1>1, <1>10, <1>11, CountUp
  <2> QED BY <2>1 DEF N
<1>13. \A k : Index(ls, p, k) = h[k]
  BY <1>2, <1>7
<1> QED BY <1>8, <1>9, <1>12, <1>13 DEF n

\* The hash that a level of m hashes has at an index, paired with its sibling,
\* is the one the next level has at half of that index.
LEMMA PairedUp ==
  ASSUME NEW level, NEW m, HasLength(level, m), m > 1, NEW p \in 0 .. m - 1
  PROVE  /\ p \div 2 \in 0 .. (m + 1) \div 2 - 1
         /\ p % 2 = 0 =>
              /\ p + 1 < m => NextLevel(level)[p \div 2 + 1] = HashPair(level[p + 1], level[p + 2])
              /\ ~(p + 1 < m) => NextLevel(level)[p \div 2 + 1] = level[p + 1]
         /\ p % 2 # 0 =>
              /\ p - 1 < m /\ p - 1 \in Nat
              /\ NextLevel(level)[p \div 2 + 1] = HashPair(level[p], level[p + 1])
<1>1. m \in Nat \ {0} /\ Len(level) = m
  BY DEF HasLength
<1>2. PICK h \in Nat, q \in Nat : h = p \div 2 /\ q = (m + 1) \div 2
  <2>1. p \div 2 \in Nat /\ (m + 1) \div 2 \in Nat
    BY <1>1, Z3
  <2> QED BY <2>1
<1>3. \/ p % 2 = 0 /\ p = 2 * h
      \/ p % 2 # 0 /\ p = 2 * h + 1
  BY <1>1, <1>2, Z3
<1>4. h + 1 <= q
  BY <1>1, <1>2, Z3
<1>5. NextLevel(level)[h + 1] =
        IF 2 * (h + 1) <= m THEN HashPair(level[2 * (h + 1) - 1], level[2 * (h + 1)])
        ELSE level[2 * (h + 1) - 1]
  <2>1. NextLevel(level) = [i \in 1 .. q |->
                            IF 2 * i <= m THEN HashPair(level[2 * i - 1], level[2 * i])
                            ELSE level[2 * i - 1]]
    BY <1>1, <1>2 DEF NextLevel
  <2>2. h + 1 \in 1 .. q
    BY <1>2, <1>4
  <2> QED BY <2>1, <2>2
<1>6. CASE p % 2 = 0 /\ p = 2 * h
  <2>1. 2 * (h + 1) - 1 = p + 1 /\ 2 * (h + 1) = p + 2 /\ (2 * (h + 1) <= m <=> p + 1 < m)
    BY <1>1, <1>2, <1>6
  <2> QED BY <1>2, <1>4, <1>5, <1>6, <2>1
<1>7. CASE p % 2 # 0 /\ p = 2 * h + 1
  <2>1. 2 * (h + 1) - 1 = p /\ 2 * (h + 1) = p + 1 /\ 2 * (h + 1) <= m /\ p - 1 < m /\ p - 1 \in Nat
    BY <1>1, <1>2, <1>7
  <2> QED BY <1>2, <1>4, <1>5, <1>7, <2>1
<1> QED BY <1>3, <1>6, <1>7

\* One step of the verification that knows the position: the hash of level k,
\* put together with its sibling there.
OneUp(ls, p, k, hash) ==
  LET sibling == Sibling(ls, p, k)
  IN  IF sibling = <<>> THEN hash
      ELSE IF Index(ls, p, k) % 2 = 0 THEN HashPair(hash, sibling[1])
           ELSE HashPair(sibling[1], hash)

\* The hash of level k on the way up from position p.
OnTheWay(ls, p, k) == Levels(ls)[k][Index(ls, p, k) + 1]

\* The way up stays within the levels.
LEMMA WithinLevels ==
  ASSUME NEW T, NEW ls \in Seq(T), NEW p \in 0 .. Len(ls) - 1
  PROVE  \A k \in 0 .. RootLevel(ls) : Index(ls, p, k) \in 0 .. Len(Levels(ls)[k]) - 1
<1> DEFINE r == RootLevel(ls)
           S == {k \in 0 .. r : Index(ls, p, k) \in 0 .. Len(Levels(ls)[k]) - 1}
<1>1. ls # <<>> /\ Len(ls) \in Nat \ {0} /\ p \in Nat
  OBVIOUS
<1>2. r \in 0 .. Len(ls) /\ \A j \in 0 .. r - 1 : Len(Levels(ls)[j]) > 1
  BY <1>1, RootLevelIs
<1>3. AreLevels(ls, Len(ls), Levels(ls))
  BY LevelsAre
<1>4. \A k \in 0 .. Len(ls) : \E m : HasLength(Levels(ls)[k], m)
  BY <1>1, LevelLengths
<1>5. /\ Index(ls, p, 0) = p
      /\ \A k \in 1 .. Len(ls) : Index(ls, p, k) = Index(ls, p, k - 1) \div 2
  BY <1>1, IndexSteps
<1> HIDE DEF r
<1>6. 0 \in S
  <2>1. Levels(ls)[0] = ls
    BY <1>3 DEF AreLevels
  <2> QED BY <1>2, <1>5, <2>1
<1>7. ASSUME NEW k \in 0 .. r - 1, k \in S PROVE k + 1 \in S
  <2>1. /\ k \in 0 .. Len(ls) /\ k + 1 \in 1 .. Len(ls) /\ k + 1 \in 0 .. r
        /\ (k + 1) - 1 = k
    BY <1>1, <1>2
  <2>2. PICK m : HasLength(Levels(ls)[k], m)
    BY <1>4, <2>1
  <2>3. m \in Nat \ {0} /\ Len(Levels(ls)[k]) = m /\ m > 1
    BY <1>2, <2>2 DEF HasLength
  <2>4. PICK i \in 0 .. m - 1 : i = Index(ls, p, k)
    BY <1>7, <2>3
  <2>5. i \div 2 \in 0 .. (m + 1) \div 2 - 1
    BY <2>2, <2>3, <2>4, PairedUp
  <2>6. Index(ls, p, k + 1) = i \div 2
    BY <1>5, <2>1, <2>4
  <2>7. Levels(ls)[k + 1] = NextLevel(Levels(ls)[k])
    BY <1>3, <2>1 DEF AreLevels
  <2>8. Len(Levels(ls)[k + 1]) = (m + 1) \div 2
    <3>1. HasLength(Levels(ls)[k + 1], (m + 1) \div 2)
      BY <2>2, <2>7, NextLength
    <3> QED BY <3>1 DEF HasLength
  <2> QED BY <2>1, <2>5, <2>6, <2>8
<1> HIDE DEF S
<1>8. \A k \in 0 .. r : k \in S
  <2>1. r \in Nat
    BY <1>1, <1>2
  <2> QED BY <1>6, <1>7, <2>1, CountUp
<1> QED BY <1>8 DEF S, r

\* And it takes each level to the next.
LEMMA OneLevelUp ==
  ASSUME NEW T, NEW ls \in Seq(T), NEW p \in 0 .. Len(ls) - 1,
         NEW k \in 0 .. RootLevel(ls) - 1
  PROVE  OneUp(ls, p, k, OnTheWay(ls, p, k)) = OnTheWay(ls, p, k + 1)
<1>1. ls # <<>> /\ Len(ls) \in Nat \ {0} /\ p \in Nat
  OBVIOUS
<1>2. RootLevel(ls) \in 0 .. Len(ls) /\ Len(Levels(ls)[k]) > 1
  BY <1>1, RootLevelIs
<1>3. /\ k \in 0 .. Len(ls) /\ k + 1 \in 1 .. Len(ls) /\ k \in 0 .. RootLevel(ls)
      /\ (k + 1) - 1 = k
  BY <1>1, <1>2
<1>4. PICK level : level = Levels(ls)[k]
  OBVIOUS
<1>5. PICK m : HasLength(level, m)
  BY <1>1, <1>3, <1>4, LevelLengths
<1>6. m \in Nat \ {0} /\ Len(level) = m /\ m > 1
  BY <1>2, <1>4, <1>5 DEF HasLength
<1>7. PICK i \in 0 .. m - 1 : i = Index(ls, p, k)
  BY <1>3, <1>4, <1>6, WithinLevels
<1>8. Levels(ls)[k + 1] = NextLevel(level)
  BY <1>3, <1>4, LevelsAre DEF AreLevels
<1>9. Index(ls, p, k + 1) = i \div 2
  BY <1>1, <1>3, <1>7, IndexSteps
<1>10. OnTheWay(ls, p, k) = level[i + 1] /\ OnTheWay(ls, p, k + 1) = NextLevel(level)[i \div 2 + 1]
  BY <1>4, <1>7, <1>8, <1>9 DEF OnTheWay
<1>11. Sibling(ls, p, k) =
         IF (IF i % 2 = 0 THEN i + 1 ELSE i - 1) < m
         THEN <<level[(IF i % 2 = 0 THEN i + 1 ELSE i - 1) + 1]>> ELSE <<>>
  BY <1>4, <1>6, <1>7 DEF Sibling
<1>12. OneUp(ls, p, k, level[i + 1]) =
         IF Sibling(ls, p, k) = <<>> THEN level[i + 1]
         ELSE IF i % 2 = 0 THEN HashPair(level[i + 1], Sibling(ls, p, k)[1])
              ELSE HashPair(Sibling(ls, p, k)[1], level[i + 1])
  BY <1>7 DEF OneUp
<1>13. \A x : <<x>> # <<>> /\ <<x>>[1] = x
  OBVIOUS
<1>14. CASE i % 2 = 0 /\ i + 1 < m
  <2>1. Sibling(ls, p, k) = <<level[i + 2]>>
    <3>1. (i + 1) + 1 = i + 2
      OBVIOUS
    <3> QED BY <1>11, <1>14, <3>1
  <2>2. OneUp(ls, p, k, level[i + 1]) = HashPair(level[i + 1], level[i + 2])
    BY <1>12, <1>13, <1>14, <2>1
  <2>3. NextLevel(level)[i \div 2 + 1] = HashPair(level[i + 1], level[i + 2])
    BY <1>5, <1>6, <1>14, PairedUp
  <2> QED BY <1>10, <2>2, <2>3
<1>15. CASE i % 2 = 0 /\ ~(i + 1 < m)
  <2>1. Sibling(ls, p, k) = <<>>
    BY <1>11, <1>15
  <2>2. NextLevel(level)[i \div 2 + 1] = level[i + 1]
    BY <1>5, <1>6, <1>15, PairedUp
  <2> QED BY <1>10, <1>12, <2>1, <2>2
<1>16. CASE i % 2 # 0
  <2>1. /\ i - 1 < m
        /\ NextLevel(level)[i \div 2 + 1] = HashPair(level[i], level[i + 1])
    BY <1>5, <1>6, <1>16, PairedUp
  <2>2. Sibling(ls, p, k) = <<level[i]>>
    <3>1. (i - 1) + 1 = i
      OBVIOUS
    <3> QED BY <1>11, <1>16, <2>1, <3>1
  <2>3. OneUp(ls, p, k, level[i + 1]) = HashPair(level[i], level[i + 1])
    BY <1>12, <1>13, <1>16, <2>2
  <2> QED BY <1>10, <2>1, <2>3
<1> QED BY <1>14, <1>15, <1>16

\* The siblings that get_proof collects are the right ones, for every tree that
\* is not empty and every leaf of it: put on the side they come from, they lead
\* from the leaf to the root (MerkleTree::get_proof, rebuild_tree).
THEOREM SiblingsLeadUp ==
  ASSUME NEW T, NEW ls \in Seq(T)
  PROVE  SiblingsLeadToRoot(ls)
<1> SUFFICES ASSUME NEW i \in DOMAIN ls
             PROVE  RootFromSiblings(ls, i - 1) = Root(ls)
  BY DEF SiblingsLeadToRoot
<1> DEFINE p == i - 1
           r == RootLevel(ls)
           R(f) == f = [k \in 0 .. r |-> IF k = 0 THEN ls[p + 1]
                                         ELSE OneUp(ls, p, k - 1, f[k - 1])]
           way == [k \in 0 .. r |-> OnTheWay(ls, p, k)]
<1>1. p \in 0 .. Len(ls) - 1 /\ p \in Nat /\ ls # <<>>
  OBVIOUS
<1>2. RootFromSiblings(ls, p) = (CHOOSE f : R(f))[r]
  BY DEF RootFromSiblings, OneUp
<1> HIDE DEF p
<1>3. r \in Nat /\ r \in 0 .. Len(ls) /\ Len(Levels(ls)[r]) = 1
  BY <1>1, RootLevelIs
<1>4. OnTheWay(ls, p, 0) = ls[p + 1]
  <2>1. Levels(ls)[0] = ls
    BY LevelsAre DEF AreLevels
  <2>2. Index(ls, p, 0) = p
    BY <1>1, IndexSteps
  <2> QED BY <2>1, <2>2 DEF OnTheWay
<1>5. \A k \in 0 .. r - 1 : OneUp(ls, p, k, OnTheWay(ls, p, k)) = OnTheWay(ls, p, k + 1)
  BY <1>1, OneLevelUp
<1>6. OnTheWay(ls, p, r) = Root(ls)
  <2>1. Index(ls, p, r) \in 0 .. 0
    <3>1. \A k \in 0 .. r : Index(ls, p, k) \in 0 .. Len(Levels(ls)[k]) - 1
      BY <1>1, WithinLevels
    <3> HIDE DEF r
    <3>2. r \in 0 .. r
      BY <1>3
    <3>3. Index(ls, p, r) \in 0 .. Len(Levels(ls)[r]) - 1
      BY <3>1, <3>2
    <3> QED BY <1>3, <3>3
  <2>2. Index(ls, p, r) + 1 = 1
    BY <2>1
  <2> QED BY <2>2 DEF OnTheWay, Root
<1> HIDE DEF r
<1>7. R(way)
  <2>1. \A k \in 0 .. r : way[k] = IF k = 0 THEN ls[p + 1] ELSE OneUp(ls, p, k - 1, way[k - 1])
    <3> TAKE k \in 0 .. r
    <3>1. CASE k = 0
      BY <1>4, <3>1
    <3>2. CASE k # 0
      <4>1. k - 1 \in 0 .. r - 1 /\ k - 1 \in 0 .. r /\ (k - 1) + 1 = k
        BY <1>3, <3>2
      <4>2. way[k] = OnTheWay(ls, p, k) /\ way[k - 1] = OnTheWay(ls, p, k - 1)
        BY <4>1
      <4>3. OneUp(ls, p, k - 1, OnTheWay(ls, p, k - 1)) = OnTheWay(ls, p, k)
        BY <1>5, <4>1
      <4> QED BY <3>2, <4>2, <4>3
    <3> QED BY <3>1, <3>2
  <2> QED BY <2>1
<1>8. PICK c : c = (CHOOSE f : R(f)) /\ R(c)
  BY <1>7
<1>9. \A k \in 0 .. r : c[k] = IF k = 0 THEN ls[p + 1] ELSE OneUp(ls, p, k - 1, c[k - 1])
  BY <1>8
<1> DEFINE S == {k \in 0 .. r : c[k] = OnTheWay(ls, p, k)}
<1>10. 0 \in S
  BY <1>3, <1>4, <1>9
<1>11. ASSUME NEW k \in 0 .. r - 1, k \in S PROVE k + 1 \in S
  <2>1. k + 1 \in 0 .. r /\ k + 1 # 0 /\ (k + 1) - 1 = k
    BY <1>3
  <2>2. c[k + 1] = OneUp(ls, p, k, c[k])
    BY <1>9, <2>1
  <2>3. c[k] = OnTheWay(ls, p, k)
    BY <1>11
  <2> QED BY <1>5, <2>1, <2>2, <2>3
<1>12. r \in S
  <2> HIDE DEF S
  <2>1. \A k \in 0 .. r : k \in S
    BY <1>3, <1>10, <1>11, CountUp
  <2> QED BY <1>3, <2>1
<1> QED BY <1>2, <1>6, <1>8, <1>12 DEF p

-----------------------------------------------------------------------------
(***************************************************************************)
(* verify_proof folds the proof from the left and takes every sibling for  *)
(* a right one.  On the left edge of the tree that is what they are, so    *)
(* the fold that begins in the first leaf ends in the root.                *)
(***************************************************************************)
\* A list of proofs laid end to end, one after the other.
FlattenRun(T, r, lists, flat) ==
  /\ flat \in [0 .. r -> Seq(T)] /\ flat[0] = <<>>
  /\ \A k \in 1 .. r : flat[k] = flat[k - 1] \o lists[k]

LEMMA FlattenRunExists ==
  ASSUME NEW T, NEW r \in Nat, NEW lists \in [1 .. r -> Seq(T)]
  PROVE  \E flat : FlattenRun(T, r, lists, flat)
<1> DEFINE S == {k \in 0 .. r : \E f : FlattenRun(T, k, lists, f)}
<1>1. 0 \in S
  <2> DEFINE f == [j \in 0 .. 0 |-> <<>>]
  <2>1. <<>> \in Seq(T)
    OBVIOUS
  <2>2. f \in [0 .. 0 -> Seq(T)] /\ f[0] = <<>>
    BY <2>1
  <2> HIDE DEF f
  <2>3. FlattenRun(T, 0, lists, f)
    BY <2>2 DEF FlattenRun
  <2> QED BY <2>3
<1>2. ASSUME NEW k \in 0 .. r - 1, k \in S PROVE k + 1 \in S
  <2>1. PICK f : FlattenRun(T, k, lists, f)
    BY <1>2
  <2>2. k \in 0 .. k /\ k + 1 \in 1 .. r /\ k + 1 \in 0 .. r
    OBVIOUS
  <2>3. PICK top \in Seq(T) : top = f[k] \o lists[k + 1]
    <3>1. f[k] \in Seq(T) /\ lists[k + 1] \in Seq(T)
      BY <2>1, <2>2 DEF FlattenRun
    <3>2. f[k] \o lists[k + 1] \in Seq(T)
      BY <3>1
    <3> QED BY <3>2, Zenon
  <2> DEFINE g == [j \in 0 .. k + 1 |-> IF j = k + 1 THEN top ELSE f[j]]
  <2>4. /\ g \in [0 .. k + 1 -> Seq(T)] /\ g[k + 1] = top
        /\ \A j \in 0 .. k : g[j] = f[j]
    BY <2>1 DEF FlattenRun
  <2> HIDE DEF g
  <2>5. \A j \in 1 .. k + 1 : g[j] = g[j - 1] \o lists[j]
    <3> TAKE j \in 1 .. k + 1
    <3>1. CASE j = k + 1
      <4>1. j - 1 = k
        BY <3>1
      <4>2. g[j] = top /\ g[j - 1] = f[k]
        BY <2>2, <2>4, <3>1, <4>1
      <4>3. top = f[k] \o lists[j]
        BY <2>3, <3>1
      <4> QED BY <4>2, <4>3, Zenon
    <3>2. CASE j \in 1 .. k
      <4>1. j - 1 \in 0 .. k /\ j \in 0 .. k
        BY <3>2
      <4>2. f[j] = f[j - 1] \o lists[j]
        BY <2>1, <3>2 DEF FlattenRun
      <4> QED BY <2>4, <4>1, <4>2
    <3>3. j = k + 1 \/ j \in 1 .. k
      OBVIOUS
    <3> QED BY <3>1, <3>2, <3>3, Zenon
  <2>6. g[0] = <<>>
    BY <2>1, <2>4 DEF FlattenRun
  <2>7. FlattenRun(T, k + 1, lists, g)
    BY <2>4, <2>5, <2>6 DEF FlattenRun
  <2> QED BY <2>2, <2>7
<1> HIDE DEF S
<1>3. \A k \in 0 .. r : k \in S
  BY <1>1, <1>2, CountUp
<1> QED BY <1>3 DEF S

\* It is what FlattenSeq comes to.
LEMMA FlattenIsRun ==
  ASSUME NEW T, NEW r \in Nat, NEW lists \in [1 .. r -> Seq(T)],
         NEW flat, FlattenRun(T, r, lists, flat)
  PROVE  FlattenSeq(lists) = flat[r]
<1> DEFINE R(f) == f = [i \in 1 .. r |-> IF i = 1 THEN lists[i] ELSE f[i - 1] \o lists[i]]
<1>1. Len(lists) = r
  OBVIOUS
<1>2. CASE r = 0
  <2>1. lists = <<>>
    BY <1>2
  <2> QED BY <1>1, <1>2, <2>1 DEF FlattenSeq, FlattenRun
<1>3. CASE r # 0
  <2>1. FlattenSeq(lists) = (CHOOSE f : R(f))[r]
    BY <1>1, <1>3 DEF FlattenSeq
  <2> DEFINE f == [i \in 1 .. r |-> flat[i]]
  <2>2. flat[1] = lists[1]
    <3>1. 1 \in 1 .. r /\ 1 - 1 = 0
      BY <1>3
    <3>2. flat[1] = flat[0] \o lists[1] /\ flat[0] = <<>> /\ lists[1] \in Seq(T)
      BY <3>1 DEF FlattenRun
    <3> QED BY <3>2
  <2>3. R(f)
    <3>1. \A i \in 1 .. r : f[i] = IF i = 1 THEN lists[i] ELSE f[i - 1] \o lists[i]
      <4> TAKE i \in 1 .. r
      <4>1. CASE i = 1
        BY <2>2, <4>1
      <4>2. CASE i # 1
        <5>1. i - 1 \in 1 .. r
          BY <4>2
        <5>2. flat[i] = flat[i - 1] \o lists[i]
          BY DEF FlattenRun
        <5> QED BY <4>2, <5>1, <5>2
      <4> QED BY <4>1, <4>2
    <3> QED BY <3>1
  <2>4. PICK c : c = (CHOOSE x : R(x)) /\ R(c)
    BY <2>3
  <2>5. \A i \in 1 .. r : c[i] = IF i = 1 THEN lists[i] ELSE c[i - 1] \o lists[i]
    BY <2>4
  <2> HIDE DEF R, f
  <2> DEFINE S == {k \in 0 .. r : k = 0 \/ c[k] = flat[k]}
  <2>6. 0 \in S
    OBVIOUS
  <2>7. ASSUME NEW k \in 0 .. r - 1, k \in S PROVE k + 1 \in S
    <3>1. k + 1 \in 1 .. r /\ (k + 1) - 1 = k
      OBVIOUS
    <3>2. flat[k + 1] = flat[k] \o lists[k + 1]
      BY <3>1 DEF FlattenRun
    <3>3. CASE k = 0
      <4>1. c[1] = lists[1]
        BY <2>5, <3>1, <3>3
      <4> QED BY <2>2, <3>1, <3>3, <4>1
    <3>4. CASE k # 0
      <4>1. c[k + 1] = c[(k + 1) - 1] \o lists[k + 1]
        <5>1. k + 1 # 1
          BY <3>4
        <5> QED BY <2>5, <3>1, <5>1, Zenon
      <4>2. c[k] = flat[k]
        BY <2>7, <3>4
      <4>3. c[k + 1] = flat[k + 1]
        BY <3>1, <3>2, <4>1, <4>2, Zenon
      <4> QED BY <3>1, <4>3
    <3> QED BY <3>3, <3>4
  <2>8. r \in S
    <3> HIDE DEF S
    <3>1. \A k \in 0 .. r : k \in S
      BY <2>6, <2>7, CountUp
    <3> QED BY <3>1
  <2> QED BY <1>3, <2>1, <2>4, <2>8
<1> QED BY <1>2, <1>3

\* The Max of the community modules, on positions of a list.
LEMMA MaxOfPositions ==
  ASSUME NEW n \in Nat, NEW s \in SUBSET (1 .. n), s # {}
  PROVE  Max(s) \in s /\ \A i \in s : i <= Max(s)
<1> DEFINE S == {k \in 0 .. n : \A t \in SUBSET (1 .. k) :
                    t # {} => \E x \in t : \A i \in t : i <= x}
<1>1. 0 \in S
  <2>1. \A t \in SUBSET (1 .. 0) : t = {}
    OBVIOUS
  <2>2. \A t \in SUBSET (1 .. 0) : t # {} => \E x \in t : \A i \in t : i <= x
    BY <2>1
  <2>3. 0 \in 0 .. n
    OBVIOUS
  <2> QED BY <2>2, <2>3
<1>2. ASSUME NEW k \in 0 .. n - 1, k \in S PROVE k + 1 \in S
  <2> SUFFICES ASSUME NEW t \in SUBSET (1 .. k + 1), t # {}
               PROVE  \E x \in t : \A i \in t : i <= x
    BY <1>2
  <2>1. CASE k + 1 \in t
    BY <2>1
  <2>2. CASE k + 1 \notin t
    <3>1. t \in SUBSET (1 .. k)
      BY <2>2
    <3> QED BY <1>2, <3>1
  <2> QED BY <2>1, <2>2
<1> HIDE DEF S
<1>3. n \in S
  BY <1>1, <1>2, CountUp
<1>4. \E x \in s : \A i \in s : i <= x
  BY <1>3 DEF S
<1> QED BY <1>4 DEF Max

\* The table that a fold of HashPair chooses: a hash for each set of positions.
PairSteps(n, list, base, g) ==
  g = [s \in SUBSET (1 .. n) |->
         IF s = {} THEN base ELSE HashPair(g[s \ {Max(s)}], list[Max(s)])]

LEMMA PairStepsExist ==
  ASSUME NEW n \in Nat, NEW list, NEW base
  PROVE  \E g : PairSteps(n, list, base, g)
<1> DEFINE S == {k \in 0 .. n : \E g : PairSteps(k, list, base, g)}
<1>1. 0 \in S
  <2> DEFINE g == [s \in SUBSET (1 .. 0) |-> base]
  <2>1. \A s \in SUBSET (1 .. 0) : s = {}
    OBVIOUS
  <2>2. g = [s \in SUBSET (1 .. 0) |->
               IF s = {} THEN base ELSE HashPair(g[s \ {Max(s)}], list[Max(s)])]
    BY <2>1
  <2> HIDE DEF g
  <2>3. PairSteps(0, list, base, g)
    BY <2>2 DEF PairSteps
  <2> QED BY <2>3
<1>2. ASSUME NEW k \in 0 .. n - 1, k \in S PROVE k + 1 \in S
  <2>1. PICK g : PairSteps(k, list, base, g)
    BY <1>2
  <2> DEFINE h == [s \in SUBSET (1 .. k + 1) |->
                     IF k + 1 \in s THEN HashPair(g[s \ {k + 1}], list[k + 1]) ELSE g[s]]
  <2>2. \A s \in SUBSET (1 .. k + 1) : k + 1 \in s => s \ {k + 1} \in SUBSET (1 .. k)
    OBVIOUS
  <2>3. \A s \in SUBSET (1 .. k + 1) : k + 1 \notin s => s \in SUBSET (1 .. k)
    OBVIOUS
  <2>4. \A s \in SUBSET (1 .. k) :
          g[s] = IF s = {} THEN base ELSE HashPair(g[s \ {Max(s)}], list[Max(s)])
    <3> QED BY <2>1, Zenon DEF PairSteps
  <2>5. ASSUME NEW s \in SUBSET (1 .. k + 1)
        PROVE  h[s] = IF s = {} THEN base ELSE HashPair(h[s \ {Max(s)}], list[Max(s)])
    <3>1. CASE k + 1 \in s
      <4>1. Max(s) = k + 1
        <5>1. k + 1 \in Nat /\ s # {}
          BY <3>1
        <5>2. Max(s) \in s /\ \A i \in s : i <= Max(s)
          BY <5>1, MaxOfPositions
        <5>3. Max(s) \in 1 .. k + 1 /\ k + 1 <= Max(s)
          BY <3>1, <5>2
        <5> QED BY <5>3
      <4>2. h[s \ {k + 1}] = g[s \ {k + 1}]
        BY <2>2, <3>1
      <4> QED BY <3>1, <4>1, <4>2
    <3>2. CASE k + 1 \notin s
      <4>1. s \in SUBSET (1 .. k) /\ h[s] = g[s]
        BY <2>3, <3>2
      <4>2. CASE s = {}
        BY <2>4, <4>1, <4>2
      <4>3. CASE s # {}
        <5>1. s \ {Max(s)} \in SUBSET (1 .. k)
          BY <4>1
        <5>2. h[s \ {Max(s)}] = g[s \ {Max(s)}]
          BY <5>1
        <5>3. g[s] = HashPair(g[s \ {Max(s)}], list[Max(s)])
          BY <2>4, <4>1, <4>3
        <5> QED BY <4>1, <4>3, <5>2, <5>3, Zenon
      <4> QED BY <4>2, <4>3
    <3> QED BY <3>1, <3>2
  <2>6. h = [s \in SUBSET (1 .. k + 1) |-> h[s]]
    OBVIOUS
  <2> HIDE DEF h
  <2>7. PairSteps(k + 1, list, base, h)
    BY <2>5, <2>6, Zenon DEF PairSteps
  <2>8. k + 1 \in 0 .. n
    OBVIOUS
  <2> QED BY <2>7, <2>8
<1> HIDE DEF S
<1>3. \A k \in 0 .. n : k \in S
  BY <1>1, <1>2, CountUp
<1> QED BY <1>3 DEF S

\* What a proof comes to, step by step.
PairRun(list, base, acc) ==
  /\ acc[0] = base
  /\ \A k \in 1 .. Len(list) : acc[k] = HashPair(acc[k - 1], list[k])
  /\ FoldLeft(HashPair, base, list) = acc[Len(list)]

LEMMA PairRuns ==
  ASSUME NEW T, NEW list \in Seq(T), NEW base
  PROVE  \E acc : PairRun(list, base, acc)
<1> DEFINE n == Len(list)
<1>1. n \in Nat /\ DOMAIN list = 1 .. n
  OBVIOUS
<1>2. FoldLeft(HashPair, base, list) = (CHOOSE g : PairSteps(n, list, base, g))[1 .. n]
  <2>1. FoldLeft(HashPair, base, list) = (CHOOSE g : PairSteps(n, list, base, g))[DOMAIN list]
    BY <1>1 DEF FoldLeft, MapThenFoldSet, PairSteps
  <2> QED BY <1>1, <2>1
<1> HIDE DEF n
<1>3. PICK g : g = (CHOOSE x : PairSteps(n, list, base, x)) /\ PairSteps(n, list, base, g)
  BY <1>1, PairStepsExist
<1>4. \A s \in SUBSET (1 .. n) :
        g[s] = IF s = {} THEN base ELSE HashPair(g[s \ {Max(s)}], list[Max(s)])
  BY <1>3, Zenon DEF PairSteps
<1> DEFINE acc == [k \in 0 .. n |-> g[1 .. k]]
<1>5. acc[0] = base
  <2>1. 1 .. 0 = {} /\ {} \in SUBSET (1 .. n) /\ 0 \in 0 .. n
    BY <1>1
  <2> QED BY <1>4, <2>1
<1>6. ASSUME NEW k \in 1 .. n PROVE acc[k] = HashPair(acc[k - 1], list[k])
  <2>1. k \in 0 .. n /\ k - 1 \in 0 .. n
    BY <1>1
  <2>2. 1 .. k \in SUBSET (1 .. n) /\ k \in 1 .. k /\ 1 .. k # {}
    BY <1>1
  <2>3. Max(1 .. k) = k
    <3>1. Max(1 .. k) \in 1 .. k /\ \A i \in 1 .. k : i <= Max(1 .. k)
      BY <1>1, <2>2, MaxOfPositions
    <3>2. k <= Max(1 .. k)
      BY <2>2, <3>1
    <3> QED BY <3>1, <3>2
  <2>4. (1 .. k) \ {k} = 1 .. k - 1
    BY <1>1
  <2>5. g[1 .. k] = HashPair(g[1 .. k - 1], list[k])
    BY <1>4, <2>2, <2>3, <2>4
  <2> QED BY <2>1, <2>5
<1>7. acc[n] = FoldLeft(HashPair, base, list)
  <2>1. n \in 0 .. n
    BY <1>1
  <2> QED BY <1>2, <1>3, <2>1
<1> HIDE DEF acc
<1>8. PairRun(list, base, acc)
  BY <1>5, <1>6, <1>7 DEF PairRun, n
<1> QED BY <1>8

\* A proof of no siblings, and one of one more.
LEMMA PairsEmpty == \A base : FoldLeft(HashPair, base, <<>>) = base
<1> TAKE base
<1>1. <<>> \in Seq({}) /\ Len(<<>>) = 0
  OBVIOUS
<1>2. PICK acc : PairRun(<<>>, base, acc)
  BY <1>1, PairRuns
<1> QED BY <1>1, <1>2 DEF PairRun

LEMMA PairsMore ==
  ASSUME NEW T, NEW list \in Seq(T), NEW x \in T, NEW base
  PROVE  FoldLeft(HashPair, base, list \o <<x>>) = HashPair(FoldLeft(HashPair, base, list), x)
<1> DEFINE n == Len(list)
           more == list \o <<x>>
<1>1. n \in Nat /\ more \in Seq(T) /\ Len(more) = n + 1 /\ more[n + 1] = x
  OBVIOUS
<1>2. \A k \in 1 .. n : more[k] = list[k]
  OBVIOUS
<1>3. PICK a : PairRun(list, base, a)
  BY PairRuns
<1> HIDE DEF more
<1>4. PICK b : PairRun(more, base, b)
  BY <1>1, PairRuns
<1>5. /\ a[0] = base /\ a[n] = FoldLeft(HashPair, base, list)
      /\ \A k \in 1 .. n : a[k] = HashPair(a[k - 1], list[k])
  BY <1>3 DEF PairRun
<1>6. /\ b[0] = base /\ b[n + 1] = FoldLeft(HashPair, base, more)
      /\ \A k \in 1 .. n + 1 : b[k] = HashPair(b[k - 1], more[k])
  BY <1>1, <1>4 DEF PairRun
<1> HIDE DEF n
<1> DEFINE S == {k \in 0 .. n : a[k] = b[k]}
<1>7. 0 \in S
  BY <1>1, <1>5, <1>6
<1>8. ASSUME NEW k \in 0 .. n - 1, k \in S PROVE k + 1 \in S
  <2>1. k + 1 \in 1 .. n /\ k + 1 \in 1 .. n + 1 /\ (k + 1) - 1 = k /\ k + 1 \in 0 .. n
    BY <1>1
  <2>2. a[k + 1] = HashPair(a[k], list[k + 1]) /\ b[k + 1] = HashPair(b[k], more[k + 1])
    BY <1>5, <1>6, <2>1
  <2> QED BY <1>2, <1>8, <2>1, <2>2
<1> HIDE DEF S
<1>9. n \in S
  <2>1. \A k \in 0 .. n : k \in S
    BY <1>1, <1>7, <1>8, CountUp
  <2> QED BY <1>1, <2>1
<1>10. b[n + 1] = HashPair(b[n], x)
  <2>1. n + 1 \in 1 .. n + 1 /\ (n + 1) - 1 = n
    BY <1>1
  <2> QED BY <1>1, <1>6, <2>1
<1>11. a[n] = b[n]
  BY <1>9 DEF S
<1> QED BY <1>5, <1>6, <1>10, <1>11 DEF more

\* On every level the sibling is a hash of that level, or none.
LevelHashes(ls) == {Levels(ls)[k][i] : k \in 0 .. Len(ls), i \in Nat}

LEMMA SiblingType ==
  ASSUME NEW T, NEW ls \in Seq(T), NEW p \in Nat, NEW k \in 0 .. Len(ls)
  PROVE  /\ Sibling(ls, p, k) \in Seq(LevelHashes(ls))
         /\ \/ Sibling(ls, p, k) = <<>>
            \/ /\ Sibling(ls, p, k) = <<Sibling(ls, p, k)[1]>>
               /\ Sibling(ls, p, k)[1] \in LevelHashes(ls)
<1>1. PICK i \in Nat : i = Index(ls, p, k)
  BY IndexSteps
<1>2. PICK j \in Nat : j = (IF i % 2 = 0 THEN i + 1 ELSE i - 1) + 1
  <2>1. i % 2 = 0 \/ i >= 1
    BY Z3
  <2>2. (IF i % 2 = 0 THEN i + 1 ELSE i - 1) + 1 \in Nat
    BY <2>1
  <2> QED BY <2>2
<1>3. PICK x : x = Levels(ls)[k][j]
  OBVIOUS
<1>4. x \in LevelHashes(ls)
  BY <1>3 DEF LevelHashes
<1>5. Sibling(ls, p, k) = <<x>> \/ Sibling(ls, p, k) = <<>>
  BY <1>1, <1>2, <1>3, Zenon DEF Sibling
<1>6. <<>> \in Seq(LevelHashes(ls)) /\ <<x>> \in Seq(LevelHashes(ls)) /\ <<x>>[1] = x
  BY <1>4
<1> QED BY <1>4, <1>5, <1>6, Zenon

\* What verify_proof makes of the proof for a position, level by level.
ProofRun(ls, p, base, acc) ==
  /\ acc[0] = base
  /\ \A k \in 0 .. RootLevel(ls) - 1 :
       acc[k + 1] = IF Sibling(ls, p, k) = <<>> THEN acc[k]
                    ELSE HashPair(acc[k], Sibling(ls, p, k)[1])
  /\ FoldLeft(HashPair, base, Proof(ls, p)) = acc[RootLevel(ls)]

LEMMA ProofRuns ==
  ASSUME NEW T, NEW ls \in Seq(T), ls # <<>>, NEW p \in Nat, NEW base
  PROVE  \E acc : ProofRun(ls, p, base, acc)
<1> DEFINE r == RootLevel(ls)
           H == LevelHashes(ls)
           lists == [k \in 1 .. r |-> Sibling(ls, p, k - 1)]
<1>1. r \in 0 .. Len(ls) /\ r \in Nat
  <2>1. r \in 0 .. Len(ls)
    BY RootLevelIs
  <2> QED BY <2>1
<1>2. \A k \in 0 .. r - 1 : k \in 0 .. Len(ls) /\ k + 1 \in 1 .. r /\ k + 1 \in 0 .. r /\ (k + 1) - 1 = k
  <2> HIDE DEF r
  <2> QED BY <1>1
<1>3. \A k \in 0 .. r - 1 : lists[k + 1] = Sibling(ls, p, k)
  <2> HIDE DEF r
  <2> QED BY <1>2
<1>4. lists \in [1 .. r -> Seq(H)]
  <2> SUFFICES ASSUME NEW k \in 1 .. r PROVE Sibling(ls, p, k - 1) \in Seq(H)
    OBVIOUS
  <2>1. k - 1 \in 0 .. Len(ls)
    <3> HIDE DEF r
    <3> QED BY <1>1
  <2> QED BY <2>1, SiblingType
<1>5. Proof(ls, p) = FlattenSeq(lists)
  BY DEF Proof
<1> HIDE DEF r, H, lists
<1>6. PICK flat : FlattenRun(H, r, lists, flat)
  BY <1>1, <1>4, FlattenRunExists
<1>7. Proof(ls, p) = flat[r]
  BY <1>1, <1>4, <1>5, <1>6, FlattenIsRun
<1>8. /\ flat \in [0 .. r -> Seq(H)] /\ flat[0] = <<>>
      /\ \A k \in 1 .. r : flat[k] = flat[k - 1] \o lists[k]
  BY <1>6 DEF FlattenRun
<1> DEFINE acc == [k \in 0 .. r |-> FoldLeft(HashPair, base, flat[k])]
<1>9. acc[0] = base
  <2>1. 0 \in 0 .. r
    BY <1>1
  <2>2. acc[0] = FoldLeft(HashPair, base, flat[0])
    BY <2>1, Zenon
  <2>3. FoldLeft(HashPair, base, <<>>) = base
    BY PairsEmpty
  <2> QED BY <1>8, <2>2, <2>3, Zenon
<1>10. ASSUME NEW k \in 0 .. r - 1
       PROVE  acc[k + 1] = IF Sibling(ls, p, k) = <<>> THEN acc[k]
                           ELSE HashPair(acc[k], Sibling(ls, p, k)[1])
  <2>1. k \in 0 .. r /\ k + 1 \in 0 .. r /\ k + 1 \in 1 .. r /\ (k + 1) - 1 = k /\ k \in 0 .. Len(ls)
    BY <1>1, <1>2
  <2>2. flat[k + 1] = flat[k] \o Sibling(ls, p, k)
    BY <1>3, <1>8, <2>1, Zenon
  <2>3. flat[k] \in Seq(H)
    BY <1>8, <2>1
  <2>4. acc[k] = FoldLeft(HashPair, base, flat[k]) /\ acc[k + 1] = FoldLeft(HashPair, base, flat[k + 1])
    BY <2>1, Zenon
  <2>5. CASE Sibling(ls, p, k) = <<>>
    <3>1. flat[k] \o <<>> = flat[k]
      BY <2>3
    <3> QED BY <2>2, <2>4, <2>5, <3>1, Zenon
  <2>6. CASE Sibling(ls, p, k) # <<>>
    <3>1. PICK x : x = Sibling(ls, p, k)[1]
      OBVIOUS
    <3>2. Sibling(ls, p, k) = <<x>> /\ x \in H
      BY <2>1, <2>6, <3>1, SiblingType DEF H
    <3>3. flat[k + 1] = flat[k] \o <<x>>
      BY <2>2, <3>2, Zenon
    <3>4. FoldLeft(HashPair, base, flat[k] \o <<x>>) = HashPair(FoldLeft(HashPair, base, flat[k]), x)
      BY <2>3, <3>2, PairsMore
    <3> QED BY <2>4, <2>6, <3>1, <3>3, <3>4, Zenon
  <2> QED BY <2>5, <2>6
<1>11. acc[r] = FoldLeft(HashPair, base, Proof(ls, p))
  <2>1. r \in 0 .. r
    BY <1>1
  <2> QED BY <1>7, <2>1, Zenon
<1> HIDE DEF acc
<1>12. ProofRun(ls, p, base, acc)
  BY <1>9, <1>10, <1>11, Zenon DEF ProofRun, r
<1> QED BY <1>12

\* The left edge of the tree.
LEMMA LeftEdge ==
  ASSUME NEW T, NEW ls \in Seq(T), ls # <<>>, NEW j \in 0 .. RootLevel(ls) - 1
  PROVE  /\ Len(Levels(ls)[j]) > 1
         /\ Levels(ls)[j + 1][1] = HashPair(Levels(ls)[j][1], Levels(ls)[j][2])
<1>1. RootLevel(ls) \in 0 .. Len(ls) /\ Len(Levels(ls)[j]) > 1
  BY RootLevelIs
<1>2. Len(ls) \in Nat /\ j \in 0 .. Len(ls) /\ j + 1 \in 1 .. Len(ls) /\ (j + 1) - 1 = j
  BY <1>1
<1>3. PICK m : HasLength(Levels(ls)[j], m)
  BY <1>2, LevelLengths
<1>4. m \in Nat /\ m > 1 /\ 0 \in 0 .. m - 1
  BY <1>1, <1>3 DEF HasLength
<1>5. Levels(ls)[j + 1] = NextLevel(Levels(ls)[j])
  BY <1>2, LevelsAre DEF AreLevels
<1>6. 0 \div 2 = 0 /\ 0 % 2 = 0
  BY Z3
<1>7. NextLevel(Levels(ls)[j])[0 \div 2 + 1] = HashPair(Levels(ls)[j][0 + 1], Levels(ls)[j][0 + 2])
  <2>1. 0 + 1 < m
    BY <1>4
  <2> QED BY <1>3, <1>4, <1>6, <2>1, PairedUp
<1>8. 0 \div 2 + 1 = 1 /\ 0 + 1 = 1 /\ 0 + 2 = 2
  BY <1>6
<1> QED BY <1>1, <1>5, <1>7, <1>8

\* The position of a leaf is the first one that holds it.
LEMMA PositionIs ==
  ASSUME NEW T, NEW ls \in Seq(T), NEW i \in DOMAIN ls
  PROVE  /\ Position(ls, ls[i]) + 1 \in DOMAIN ls
         /\ ls[Position(ls, ls[i]) + 1] = ls[i]
         /\ Position(ls, ls[i]) \in Nat
         /\ ls[i] = ls[1] => Position(ls, ls[i]) = 0
<1> DEFINE at == {j \in DOMAIN ls : ls[j] = ls[i]}
<1>1. at \subseteq Nat /\ at # {} /\ DOMAIN ls = 1 .. Len(ls)
  OBVIOUS
<1>2. \A x, y \in Nat : <<y, x>> \in OpToRel(<, Nat) <=> y < x
  BY DEF OpToRel
<1>3. PICK x \in at : \A y \in at : ~(<<y, x>> \in OpToRel(<, Nat))
  <2> HIDE DEF at
  <2> QED BY <1>1, WFMin, NatLessThanWellFounded
<1>4. \A y \in at : ~(y < x)
  BY <1>1, <1>2, <1>3
<1>5. x \in DOMAIN ls /\ ls[x] = ls[i] /\ \A j \in 1 .. x - 1 : ls[j] # ls[i]
  <2>1. x \in DOMAIN ls /\ ls[x] = ls[i]
    BY <1>3
  <2>2. ASSUME NEW j \in 1 .. x - 1 PROVE ls[j] # ls[i]
    <3>1. j \in DOMAIN ls /\ j < x
      BY <1>1, <2>1
    <3> QED BY <1>4, <3>1
  <2> QED BY <2>1, <2>2
<1>6. PICK c : /\ c = CHOOSE j \in DOMAIN ls : ls[j] = ls[i] /\ \A h \in 1 .. j - 1 : ls[h] # ls[i]
               /\ c \in DOMAIN ls /\ ls[c] = ls[i] /\ \A h \in 1 .. c - 1 : ls[h] # ls[i]
  <2> HIDE DEF at
  <2> QED BY <1>5, Zenon
<1>7. Position(ls, ls[i]) = c - 1
  BY <1>6 DEF Position
<1>8. c \in Nat \ {0} /\ 1 \in DOMAIN ls
  BY <1>1, <1>6
<1>9. ls[i] = ls[1] => c = 1
  BY <1>6, <1>8
<1>10. (c - 1) + 1 = c /\ c - 1 \in Nat
  BY <1>8
<1> QED BY <1>6, <1>7, <1>9, <1>10

\* From the first leaf the fold follows the left edge to the root.
LEMMA FromFirst ==
  ASSUME NEW T, NEW ls \in Seq(T), ls # <<>>, NEW acc, ProofRun(ls, 0, ls[1], acc)
  PROVE  acc[RootLevel(ls)] = Root(ls)
<1> DEFINE r == RootLevel(ls)
           S == {k \in 0 .. r : acc[k] = Levels(ls)[k][1] /\ Index(ls, 0, k) = 0}
<1>1. r \in Nat /\ r \in 0 .. Len(ls) /\ Len(ls) \in Nat
  BY RootLevelIs
<1>2. /\ Index(ls, 0, 0) = 0
      /\ \A k \in 1 .. Len(ls) : Index(ls, 0, k) = Index(ls, 0, k - 1) \div 2
  BY IndexSteps
<1>3. Levels(ls)[0] = ls
  BY LevelsAre DEF AreLevels
<1>4. \A j \in 0 .. r - 1 :
        /\ Len(Levels(ls)[j]) > 1
        /\ Levels(ls)[j + 1][1] = HashPair(Levels(ls)[j][1], Levels(ls)[j][2])
  BY LeftEdge
<1>5. /\ acc[0] = ls[1]
      /\ \A k \in 0 .. r - 1 :
           acc[k + 1] = IF Sibling(ls, 0, k) = <<>> THEN acc[k]
                        ELSE HashPair(acc[k], Sibling(ls, 0, k)[1])
  BY DEF ProofRun
<1>6. 0 \div 2 = 0 /\ 0 % 2 = 0 /\ 0 + 1 = 1 /\ 1 + 1 = 2
  BY Z3
<1> HIDE DEF r
<1>7. 0 \in S
  BY <1>1, <1>2, <1>3, <1>5
<1>8. ASSUME NEW k \in 0 .. r - 1, k \in S PROVE k + 1 \in S
  <2>1. k + 1 \in 0 .. r /\ k + 1 \in 1 .. Len(ls) /\ (k + 1) - 1 = k
    BY <1>1
  <2>2. acc[k] = Levels(ls)[k][1] /\ Index(ls, 0, k) = 0
    BY <1>8
  <2>3. Index(ls, 0, k + 1) = 0
    BY <1>2, <1>6, <2>1, <2>2, Zenon
  <2>4. PICK x : x = Levels(ls)[k][2]
    OBVIOUS
  <2>5. Sibling(ls, 0, k) = <<x>>
    <3>1. Sibling(ls, 0, k) =
            IF (IF 0 % 2 = 0 THEN 0 + 1 ELSE 0 - 1) < Len(Levels(ls)[k])
            THEN <<Levels(ls)[k][(IF 0 % 2 = 0 THEN 0 + 1 ELSE 0 - 1) + 1]>> ELSE <<>>
      BY <2>2, Zenon DEF Sibling
    <3>2. (IF 0 % 2 = 0 THEN 0 + 1 ELSE 0 - 1) = 1
      BY <1>6, Zenon
    <3>3. 1 < Len(Levels(ls)[k])
      BY <1>4
    <3> QED BY <1>6, <2>4, <3>1, <3>2, <3>3, Zenon
  <2>6. <<x>> # <<>> /\ <<x>>[1] = x
    OBVIOUS
  <2>7. acc[k + 1] = HashPair(acc[k], x)
    BY <1>5, <2>5, <2>6, Zenon
  <2>8. acc[k + 1] = Levels(ls)[k + 1][1]
    BY <1>4, <2>2, <2>4, <2>7, Zenon
  <2> QED BY <2>1, <2>3, <2>8
<1>9. r \in S
  <2> HIDE DEF S
  <2>1. \A k \in 0 .. r : k \in S
    BY <1>1, <1>7, <1>8, CountUp
  <2> QED BY <1>1, <2>1
<1> QED BY <1>9 DEF Root, r

\* verify_proof accepts the proof of the first leaf of the tree, and so of every leaf
\* with the same hash, whatever the number of leaves (MerkleTree::verify_proof).
THEOREM FirstLeafProves ==
  ASSUME NEW T, NEW ls \in Seq(T), ls # <<>>
  PROVE  VerifyProof(ls[1], Proof(ls, 0), Root(ls))
<1>1. PICK acc : ProofRun(ls, 0, ls[1], acc)
  BY ProofRuns
<1>2. acc[RootLevel(ls)] = Root(ls)
  BY <1>1, FromFirst
<1> QED BY <1>1, <1>2, Zenon DEF VerifyProof, ProofRun

\* get_availability_proof has the right siblings for every datum that is kept, in
\* every tree that data stored once or more often and cleanups can leave, and
\* verify_proof accepts them for the oldest leaf.
THEOREM ProofsAreSiblings == Spec => []ProofsHoldSiblings
<1>1. ASSUME NEW ls \in SeqOf({Leaf(d) : d \in Data}, TreeSize)
      PROVE  SiblingsLeadToRoot(ls)
  <2>1. ls \in Seq({Leaf(d) : d \in Data})
    BY AvailabilityAssumption DEF SeqOf
  <2> QED BY <2>1, SiblingsLeadUp
<1>2. ASSUME IInv, NEW d \in DOMAIN store, NEW position, position = Position(leaves, Leaf(d))
      PROVE  /\ RootFromSiblings(leaves, position) = Root(leaves)
             /\ position = 0 => VerifyProof(Leaf(d), Proof(leaves, position), Root(leaves))
  <2>1. PICK ls \in Seq({Leaf(x) : x \in Data}) : ls = leaves
    BY <1>2 DEF IInv, TypeOK
  <2>2. PICK i \in DOMAIN ls : ls[i] = Leaf(d)
    BY <1>2, <2>1 DEF IInv, TreeIsStore, ToSet
  <2>3. position + 1 \in DOMAIN ls /\ ls[position + 1] = Leaf(d) /\ position \in Nat /\ ls # <<>>
    BY <1>2, <2>1, <2>2, PositionIs
  <2>4. RootFromSiblings(ls, position) = Root(ls)
    <3>1. PICK k \in DOMAIN ls : k = position + 1 /\ k - 1 = position
      BY <2>3
    <3>2. RootFromSiblings(ls, k - 1) = Root(ls)
      BY SiblingsLeadUp DEF SiblingsLeadToRoot
    <3> QED BY <3>1, <3>2
  <2>5. ASSUME position = 0 PROVE VerifyProof(Leaf(d), Proof(ls, position), Root(ls))
    <3>1. ls[1] = Leaf(d)
      BY <2>3, <2>5
    <3> QED BY <2>3, <2>5, <3>1, FirstLeafProves
  <2> QED BY <2>1, <2>4, <2>5
<1>3. IInv => ProofsHoldSiblings
  BY <1>1, <1>2 DEF ProofsHoldSiblings
<1> QED BY <1>3, InvHolds, PTL
=============================================================================
