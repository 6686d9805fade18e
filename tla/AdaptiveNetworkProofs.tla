------------------------ MODULE AdaptiveNetworkProofs ------------------------
(***************************************************************************)
(* Proofs about AdaptiveNetwork, for any number of nodes, any timeout and  *)
(* any wait for a lock: its variables keep their types, hearsay makes no   *)
(* peer younger, and only a race drops an entry that is not too old.       *)
(*                                                                         *)
(* The first two are inductive together with what is known of the          *)
(* datagrams in flight: they are on their way to a node that listens, and  *)
(* nobody is sent an announcement of its own.                              *)
(***************************************************************************)
EXTENDS AdaptiveNetwork, TLAPS

Addressed ==
  \A m \in network : m.to \in bound /\ (m.type = "announce" => m.from # m.to)

DiscoveryType ==
  /\ bound \subseteq Nodes /\ listed \subseteq bound
  /\ known \in [Nodes -> Tables]
  /\ network \subseteq Messages
  /\ seen \in Tables

\* What the steps of discovery keep.
DInv == DiscoveryType /\ EntriesAreHearsay /\ Addressed

ProcessType ==
  /\ stage \in [Nodes -> Stages]
  /\ cleaning \in [Nodes -> Tasks]
  /\ \A n \in Nodes : stage[n] = "down" => n \notin bound /\ known[n] = Nobody

\* The inductive invariant.
IInv == DInv /\ ProcessType

-----------------------------------------------------------------------------
LEMMA NobodyIsATable == Nobody \in Tables /\ NoYounger(Nobody, seen)
BY DiscoveryAssumption DEF Nobody, Tables, NoYounger

LEMMA OldestIsNat == Oldest \in Nat /\ Timeout \in Nat \ {0} /\ None \notin Nat
BY DiscoveryAssumption DEF Oldest

\* Ages grow together.
LEMMA OlderAges ==
  ASSUME NEW age \in Ages \cup {None}
  PROVE  /\ Older(age) \in Ages \cup {None}
         /\ Older(age) = None <=> age = None
         /\ \A other \in Ages : age \in Ages /\ age <= other => Older(age) <= Older(other)
BY OldestIsNat DEF Older, Ages

LEMMA OlderTable ==
  ASSUME NEW table \in Tables
  PROVE  AllOlder(table) \in Tables
BY OlderAges DEF AllOlder, Tables

LEMMA OlderKeepsOrder ==
  ASSUME NEW table \in Tables, seen \in Tables, seen' = AllOlder(seen), NoYounger(table, seen)
  PROVE  NoYounger(AllOlder(table), seen')
<1> SUFFICES ASSUME NEW p \in Peers, AllOlder(table)[p] # None
             PROVE  seen'[p] # None /\ seen'[p] <= AllOlder(table)[p]
  BY DEF NoYounger
<1>1. AllOlder(table)[p] = Older(table[p]) /\ seen'[p] = Older(seen[p])
  BY DEF AllOlder
<1>2. table[p] \in Ages \cup {None} /\ seen[p] \in Ages \cup {None}
  BY DEF Tables
<1>3. table[p] # None
  BY <1>1, <1>2, OlderAges
<1>4. seen[p] # None /\ seen[p] <= table[p]
  BY <1>3 DEF NoYounger
<1> QED BY <1>1, <1>2, <1>3, <1>4, OlderAges

\* A peer that is heard now is younger than any entry about it.
LEMMA SeenNow ==
  ASSUME NEW table \in Tables, NEW p \in Peers, seen \in Tables, NoYounger(table, seen),
         seen' = [seen EXCEPT ![p] = 0]
  PROVE  NoYounger(table, seen') /\ NoYounger([table EXCEPT ![p] = 0], seen')
<1>1. ASSUME NEW q \in Peers, NEW t \in {table, [table EXCEPT ![p] = 0]}, t[q] # None
      PROVE  seen'[q] # None /\ seen'[q] <= t[q]
  <2>1. table[q] \in Ages \cup {None} /\ seen[q] \in Ages \cup {None}
    BY DEF Tables
  <2>2. CASE q = p
    BY <1>1, <2>1, <2>2, OldestIsNat DEF Tables, Ages
  <2>3. CASE q # p
    <3>1. seen'[q] = seen[q] /\ t[q] = table[q]
      BY <1>1, <2>3 DEF Tables
    <3> QED BY <1>1, <3>1 DEF NoYounger
  <2> QED BY <2>2, <2>3
<1> QED BY <1>1 DEF NoYounger

LEMMA MessageFields ==
  ASSUME NEW m \in Messages
  PROVE  /\ m.to \in Nodes
         /\ m.type \in {"announce", "request"} => m.from \in Nodes
         /\ m.type = "response" => m.peers \in Tables
         /\ m.type \in {"announce", "request", "response"}
BY DEF Messages

\* What is sent is in order, and so is what of it gets on its way.
LEMMA SendKeeps ==
  ASSUME DInv, NEW sent \in SUBSET Messages, NEW inFlight \in SUBSET network,
         \A m \in sent : /\ m.type = "announce" => m.from # m.to
                         /\ m.type = "response" => NoYounger(m.peers, seen),
         Send(sent, inFlight), UNCHANGED <<bound, listed, known, seen>>
  PROVE  DInv'
<1>1. PICK arriving \in SUBSET {m \in sent : m.to \in bound} :
        network' = inFlight \cup arriving
  BY DEF Send
<1>2. DiscoveryType'
  BY <1>1 DEF DInv, DiscoveryType
<1>3. Addressed'
  BY <1>1 DEF DInv, Addressed
<1>4. EntriesAreHearsay'
  BY <1>1 DEF DInv, EntriesAreHearsay, NoYounger
<1> QED BY <1>2, <1>3, <1>4 DEF DInv

LEMMA PassTimeKeeps ==
  ASSUME DInv, PassTime
  PROVE  DInv'
<1> DEFINE Aged(m) == IF m.type = "response" THEN [m EXCEPT !.peers = AllOlder(@)] ELSE m
<1>1. ASSUME NEW m \in network
      PROVE  /\ Aged(m) \in Messages /\ Aged(m).type = m.type /\ Aged(m).to = m.to
             /\ m.type # "response" => Aged(m) = m
             /\ m.type = "response" => Aged(m).peers = AllOlder(m.peers)
  <2>1. m \in Messages
    BY DEF DInv, DiscoveryType
  <2>2. CASE m.type = "response"
    <3>1. m \in [type : {"response"}, to : Nodes, peers : Tables]
      BY <2>1, <2>2 DEF Messages
    <3>2. AllOlder(m.peers) \in Tables
      BY <3>1, OlderTable
    <3> QED BY <2>2, <3>1, <3>2 DEF Messages
  <2>3. CASE m.type # "response"
    BY <2>1, <2>3
  <2> QED BY <2>2, <2>3
<1>2. network' = {Aged(m) : m \in network}
  BY DEF PassTime
<1>3. /\ bound' = bound /\ listed' = listed
      /\ known' = [n \in Nodes |-> AllOlder(known[n])]
      /\ seen' = AllOlder(seen)
  BY DEF PassTime
<1>4. DiscoveryType'
  <2>1. network' \subseteq Messages
    BY <1>1, <1>2
  <2> QED BY <1>3, <2>1, OlderTable DEF DInv, DiscoveryType
<1>5. Addressed'
  BY <1>1, <1>2, <1>3 DEF DInv, Addressed
<1>6. ASSUME NEW n \in Nodes PROVE NoYounger(known'[n], seen') /\ known'[n][n] = None
  <2>1. known[n] \in Tables /\ seen \in Tables /\ NoYounger(known[n], seen) /\ known[n][n] = None
    BY DEF DInv, DiscoveryType, EntriesAreHearsay
  <2>2. NoYounger(AllOlder(known[n]), seen')
    BY <1>3, <2>1, OlderKeepsOrder
  <2>3. known'[n] = AllOlder(known[n])
    BY <1>3
  <2>4. AllOlder(known[n])[n] = None
    BY <2>1 DEF AllOlder, Older, Peers
  <2> QED BY <1>3, <2>2, <2>3, <2>4 DEF NoYounger
<1>7. ASSUME NEW m \in network', m.type = "response" PROVE NoYounger(m.peers, seen')
  <2>1. PICK o \in network : m = Aged(o)
    BY <1>2
  <2>2. o.type = "response" /\ m.peers = AllOlder(o.peers)
    BY <1>1, <1>7, <2>1
  <2>3. o.peers \in Tables /\ seen \in Tables /\ NoYounger(o.peers, seen)
    BY <2>2, MessageFields DEF DInv, DiscoveryType, EntriesAreHearsay
  <2>4. NoYounger(AllOlder(o.peers), seen')
    BY <1>3, <2>3, OlderKeepsOrder
  <2> QED BY <2>2, <2>4 DEF NoYounger
<1>8. EntriesAreHearsay'
  BY <1>6, <1>7 DEF EntriesAreHearsay
<1> QED BY <1>4, <1>5, <1>8 DEF DInv

LEMMA DiscoverKeeps ==
  ASSUME DInv, NEW n \in Nodes, Announce(n) \/ RequestPeers(n)
  PROVE  DInv'
<1>1. listed \subseteq Nodes
  BY DEF DInv, DiscoveryType
<1>2. CASE Announce(n)
  <2> DEFINE sent == {Announcement(n, m) : m \in listed \ {n}}
  <2>1. sent \in SUBSET Messages
    BY <1>1 DEF Announcement, Messages
  <2>2. \A m \in sent : m.type = "announce" /\ m.from # m.to
    BY DEF Announcement
  <2>3. Send(sent, network) /\ UNCHANGED <<bound, listed, known, seen>>
    BY <1>2 DEF Announce
  <2> HIDE DEF sent
  <2> QED BY <2>1, <2>2, <2>3, SendKeeps
<1>3. CASE RequestPeers(n)
  <2> DEFINE sent == {[type |-> "request", from |-> n, to |-> m] : m \in listed}
  <2>1. sent \in SUBSET Messages /\ \A m \in sent : m.type = "request"
    BY <1>1 DEF Messages
  <2>2. Send(sent, network) /\ UNCHANGED <<bound, listed, known, seen>>
    BY <1>3 DEF RequestPeers
  <2> HIDE DEF sent
  <2> QED BY <2>1, <2>2, SendKeeps
<1> QED BY <1>2, <1>3

\* A change of one table that takes in no entry which is too young.
LEMMA TableChange ==
  ASSUME DInv, NEW n \in Nodes, NEW table \in Tables,
         NoYounger(table, seen), table[n] = None,
         known' = [known EXCEPT ![n] = table],
         bound' = bound, listed' = listed, seen' = seen, network' \subseteq network
  PROVE  DInv'
<1>1. DiscoveryType' /\ Addressed'
  BY DEF DInv, DiscoveryType, Addressed
<1>2. \A k \in Nodes : known'[k] = IF k = n THEN table ELSE known[k]
  BY DEF DInv, DiscoveryType
<1>3. EntriesAreHearsay'
  BY <1>2 DEF DInv, EntriesAreHearsay
<1> QED BY <1>1, <1>3 DEF DInv

\* A peer is heard by a node, which is not that peer.
LEMMA Sighting ==
  ASSUME DInv, NEW n \in Nodes, NEW p \in Peers, p # n,
         known' = [known EXCEPT ![n][p] = 0], seen' = [seen EXCEPT ![p] = 0],
         bound' = bound, listed' = listed, network' \subseteq network
  PROVE  DInv'
<1>1. 0 \in Ages
  BY OldestIsNat DEF Ages
<1>2. DiscoveryType' /\ Addressed'
  BY <1>1 DEF DInv, DiscoveryType, Addressed, Tables
<1>3. \A k \in Nodes : known'[k] = IF k = n THEN [known[k] EXCEPT ![p] = 0] ELSE known[k]
  BY DEF DInv, DiscoveryType
<1>4. ASSUME NEW k \in Nodes PROVE NoYounger(known'[k], seen') /\ known'[k][k] = None
  <2>1. known[k] \in Tables /\ seen \in Tables /\ NoYounger(known[k], seen) /\ known[k][k] = None
    BY DEF DInv, DiscoveryType, EntriesAreHearsay
  <2>2. NoYounger(known[k], seen') /\ NoYounger([known[k] EXCEPT ![p] = 0], seen')
    BY <2>1, SeenNow
  <2>3. k = n => [known[k] EXCEPT ![p] = 0][k] = None
    BY <2>1 DEF Tables, Peers
  <2> QED BY <1>3, <2>1, <2>2, <2>3
<1>5. ASSUME NEW m \in network', m.type = "response" PROVE NoYounger(m.peers, seen')
  <2>1. m.peers \in Tables /\ seen \in Tables /\ NoYounger(m.peers, seen)
    BY <1>5, MessageFields DEF DInv, DiscoveryType, EntriesAreHearsay
  <2> QED BY <2>1, SeenNow
<1>6. EntriesAreHearsay'
  BY <1>4, <1>5 DEF EntriesAreHearsay
<1> QED BY <1>2, <1>6 DEF DInv

LEMMA ReceiveKeeps ==
  ASSUME DInv, NEW n \in Nodes, Receive(n)
  PROVE  DInv'
<1>1. PICK m \in network :
        /\ m.to = n
        /\ ReceiveAnnounce(m) \/ ReceiveRequest(m) \/ ReceiveResponse(m)
  BY DEF Receive
<1>2. m \in Messages
  BY DEF DInv, DiscoveryType
<1>3. CASE ReceiveAnnounce(m)
  <2>1. m.from \in Peers /\ m.from # n
    BY <1>1, <1>2, <1>3, MessageFields DEF ReceiveAnnounce, DInv, Addressed, Peers
  <2> QED BY <1>1, <1>3, <2>1, Sighting DEF ReceiveAnnounce
<1>4. CASE ReceiveRequest(m)
  <2> DEFINE response == [type |-> "response", to |-> m.from, peers |-> known[m.to]]
  <2>1. m.from \in Nodes /\ m.to \in Nodes
    BY <1>2, <1>4, MessageFields DEF ReceiveRequest
  <2>2. known[m.to] \in Tables /\ NoYounger(known[m.to], seen)
    BY <2>1 DEF DInv, DiscoveryType, EntriesAreHearsay
  <2>3. response \in Messages
    BY <2>1, <2>2 DEF Messages
  <2>4. \A r \in {response} : r.type = "response" /\ NoYounger(r.peers, seen)
    BY <2>2
  <2>5. {response} \in SUBSET Messages /\ network \ {m} \in SUBSET network
    BY <2>3
  <2>6. Send({response}, network \ {m}) /\ UNCHANGED <<bound, listed, known, seen>>
    BY <1>4 DEF ReceiveRequest
  <2> HIDE DEF response
  <2> QED BY <2>4, <2>5, <2>6, SendKeeps
<1>5. CASE ReceiveResponse(m)
  <2> DEFINE table == Merged(known[n], n, m.peers)
  <2>1. m.peers \in Tables /\ NoYounger(m.peers, seen)
    BY <1>2, <1>5, MessageFields DEF ReceiveResponse, DInv, EntriesAreHearsay
  <2>2. known[n] \in Tables /\ NoYounger(known[n], seen) /\ known[n][n] = None
    BY DEF DInv, DiscoveryType, EntriesAreHearsay
  <2>3. table \in Tables /\ NoYounger(table, seen) /\ table[n] = None
    BY <2>1, <2>2 DEF Merged, Tables, NoYounger, Peers
  <2>4. known' = [known EXCEPT ![n] = table]
    BY <1>1, <1>5 DEF ReceiveResponse
  <2> HIDE DEF table
  <2> QED BY <1>5, <2>3, <2>4, TableChange DEF ReceiveResponse
<1> QED BY <1>1, <1>3, <1>4, <1>5

\* A cleanup takes entries out, whichever it is.
LEMMA CleanupKeeps ==
  ASSUME DInv, NEW n \in Nodes, NEW gone \in SUBSET Peers,
         known' = [known EXCEPT ![n] = [p \in Peers |-> IF p \in gone THEN None ELSE @[p]]],
         UNCHANGED <<bound, listed, network, seen>>
  PROVE  DInv'
<1> DEFINE table == [p \in Peers |-> IF p \in gone THEN None ELSE known[n][p]]
<1>1. known[n] \in Tables /\ NoYounger(known[n], seen) /\ known[n][n] = None
  BY DEF DInv, DiscoveryType, EntriesAreHearsay
<1>2. table \in Tables /\ NoYounger(table, seen) /\ table[n] = None
  BY <1>1 DEF Tables, NoYounger, Peers
<1>3. known' = [known EXCEPT ![n] = table]
  OBVIOUS
<1> HIDE DEF table
<1> QED BY <1>2, <1>3, TableChange

LEMMA EndKeeps ==
  ASSUME DInv, NEW n \in Nodes, EndDiscovery(n)
  PROVE  DInv'
<1>1. DiscoveryType' /\ Addressed'
  BY NobodyIsATable DEF DInv, DiscoveryType, Addressed, EndDiscovery
<1>2. \A k \in Nodes : known'[k] = IF k = n THEN Nobody ELSE known[k]
  BY DEF DInv, DiscoveryType, EndDiscovery
<1>3. Nobody[n] = None
  BY DEF Nobody, Peers
<1>4. EntriesAreHearsay'
  BY <1>2, <1>3, NobodyIsATable DEF DInv, EntriesAreHearsay, EndDiscovery
<1> QED BY <1>1, <1>4 DEF DInv

-----------------------------------------------------------------------------
LEMMA InitIInv == Init => IInv
<1> SUFFICES ASSUME Init PROVE IInv
  OBVIOUS
<1>1. DiscoveryType /\ Addressed
  BY NobodyIsATable DEF Init, InitDiscovery, DiscoveryType, Addressed
<1>2. EntriesAreHearsay
  BY NobodyIsATable DEF Init, InitDiscovery, EntriesAreHearsay, Nobody, Peers
<1>3. ProcessType
  BY DEF Init, InitDiscovery, ProcessType, Stages, Tasks
<1> QED BY <1>1, <1>2, <1>3 DEF IInv, DInv

LEMMA Inductive == IInv /\ [Next]_vars => IInv'
<1> SUFFICES ASSUME IInv, [Next]_vars PROVE IInv'
  OBVIOUS
<1> USE DEF IInv
<1>1. CASE Tick
  <2>1. PassTime
    BY <1>1 DEF Tick
  <2>2. DInv'
    BY <2>1, PassTimeKeeps
  <2>3. cleaning' \in [Nodes -> Tasks]
    BY <1>1, DiscoveryAssumption DEF Tick, ProcessType, Tasks, Waits
  <2>4. AllOlder(Nobody) = Nobody
    BY DEF AllOlder, Older, Nobody
  <2>5. \A n \in Nodes : known[n] = Nobody => known'[n] = Nobody
    BY <2>1, <2>4 DEF PassTime
  <2> QED BY <1>1, <2>2, <2>3, <2>5 DEF Tick, PassTime, ProcessType
<1>2. ASSUME NEW n \in Nodes, StartAdaptive(n) PROVE IInv'
  <2>1. stage'[n] = "starting" /\ bound' \subseteq bound \cup {n} /\ bound \subseteq bound'
    BY <1>2 DEF StartAdaptive, StartDiscovery, ProcessType
  <2>2. DInv'
    BY <1>2, <2>1 DEF StartAdaptive, StartDiscovery, DInv, DiscoveryType, EntriesAreHearsay,
      Addressed
  <2> QED BY <1>2, <2>1, <2>2 DEF StartAdaptive, StartDiscovery, ProcessType, Stages
<1>3. ASSUME NEW n \in Nodes, NEW p \in Fresh, ConnectBootstrap(n, p) PROVE IInv'
  <2>1. p \in Peers /\ p # n
    BY DiscoveryAssumption DEF Peers
  <2>2. DInv'
    BY <1>3, <2>1, Sighting DEF ConnectBootstrap, AddPeer
  <2> QED BY <1>3, <2>2 DEF ConnectBootstrap, AddPeer, ProcessType, DInv, DiscoveryType
<1>4. ASSUME NEW n \in Nodes, SpawnTasks(n) PROVE IInv'
  <2>1. UNCHANGED discoveryVars
    BY <1>4 DEF SpawnTasks
  <2>2. DInv'
    BY <2>1 DEF discoveryVars, DInv, DiscoveryType, EntriesAreHearsay, Addressed
  <2> QED BY <1>4, <2>1, <2>2 DEF SpawnTasks, ProcessType, Stages, discoveryVars
<1>5. ASSUME NEW n \in Nodes, Discover(n) PROVE IInv'
  <2>1. DInv'
    BY <1>5, DiscoverKeeps DEF Discover
  <2> QED BY <1>5, <2>1 DEF Discover, Announce, RequestPeers, ProcessType
<1>6. ASSUME NEW n \in Nodes, Listen(n) PROVE IInv'
  <2>1. DInv'
    BY <1>6, ReceiveKeeps DEF Listen
  <2>2. PICK m \in network :
          m.to = n /\ (ReceiveAnnounce(m) \/ ReceiveRequest(m) \/ ReceiveResponse(m))
    BY <1>6 DEF Listen, Receive
  <2>3. n \in bound /\ bound' = bound
    BY <2>2 DEF DInv, Addressed, ReceiveAnnounce, ReceiveRequest, ReceiveResponse
  <2>4. \A k \in Nodes \ {n} : known'[k] = known[k]
    BY <2>2 DEF ReceiveAnnounce, ReceiveRequest, ReceiveResponse, DInv, DiscoveryType
  <2> QED BY <1>6, <2>1, <2>3, <2>4 DEF Listen, ProcessType
<1>7. ASSUME NEW n \in Nodes, Maintain(n) PROVE IInv'
  <2>1. CASE ReadClock(n)
    <3>1. UNCHANGED discoveryVars
      BY <2>1 DEF ReadClock
    <3>2. DInv'
      BY <3>1 DEF discoveryVars, DInv, DiscoveryType, EntriesAreHearsay, Addressed
    <3>3. 0 \in Tasks
      BY DiscoveryAssumption DEF Tasks, Waits
    <3> QED BY <2>1, <3>1, <3>2, <3>3 DEF ReadClock, ProcessType, discoveryVars
  <2>2. ASSUME NEW gone \in SUBSET Peers,
               known' = [known EXCEPT ![n] = [p \in Peers |-> IF p \in gone THEN None ELSE @[p]]],
               UNCHANGED <<bound, listed, network, seen, stage>>,
               cleaning' \in [Nodes -> Tasks]
        PROVE  IInv'
    <3>1. DInv'
      BY <2>2, CleanupKeeps
    <3>2. [p \in Peers |-> IF p \in gone THEN None ELSE Nobody[p]] = Nobody
      BY DEF Nobody
    <3>3. \A k \in Nodes : known[k] = Nobody => known'[k] = Nobody
      BY <2>2, <3>2 DEF DInv, DiscoveryType
    <3> QED BY <2>2, <3>1, <3>3 DEF ProcessType
  <2>3. CASE Cleanup(n)
    <3> DEFINE gone == {p \in Peers : \/ Expired(known[n][p], cleaning[n])
                                     \/ Underflows(known[n][p], cleaning[n])}
    <3>1. known' = [known EXCEPT ![n] = [p \in Peers |-> IF p \in gone THEN None ELSE @[p]]]
      BY <2>3 DEF Cleanup, RemoveOld
    <3>2. cleaning' \in [Nodes -> Tasks] /\ UNCHANGED <<bound, listed, network, seen, stage>>
      BY <2>3 DEF Cleanup, RemoveOld, ProcessType, Tasks
    <3> HIDE DEF gone
    <3>3. gone \in SUBSET Peers
      BY DEF gone
    <3> QED BY <2>2, <3>1, <3>2, <3>3
  <2>4. CASE CleanupPanics(n)
    <3>1. PICK gone \in SUBSET {p \in Peers : Expired(known[n][p], cleaning[n])} :
            known' = [known EXCEPT ![n] = [p \in Peers |-> IF p \in gone THEN None ELSE @[p]]]
      BY <2>4 DEF CleanupPanics, RemoveSome
    <3>2. cleaning' \in [Nodes -> Tasks] /\ UNCHANGED <<bound, listed, network, seen, stage>>
      BY <2>4 DEF CleanupPanics, RemoveSome, ProcessType, Tasks
    <3>3. gone \in SUBSET Peers
      OBVIOUS
    <3> QED BY <2>2, <3>1, <3>2, <3>3
  <2> QED BY <1>7, <2>1, <2>3, <2>4 DEF Maintain
<1>8. ASSUME NEW n \in Nodes, Stop(n) PROVE IInv'
  <2>1. DInv'
    BY <1>8, EndKeeps DEF Stop
  <2>2. \A k \in Nodes : known'[k] = IF k = n THEN Nobody ELSE known[k]
    BY <1>8 DEF Stop, EndDiscovery, DInv, DiscoveryType
  <2> QED BY <1>8, <2>1, <2>2 DEF Stop, EndDiscovery, ProcessType, Stages, Tasks
<1>9. CASE UNCHANGED vars
  BY <1>9 DEF vars, DInv, DiscoveryType, EntriesAreHearsay, Addressed, ProcessType
<1> QED BY <1>1, <1>2, <1>3, <1>4, <1>5, <1>6, <1>7, <1>8, <1>9 DEF Next

\* For any number of nodes that start and stop in any order, and however tables
\* are passed on, lost and merged, no entry is younger than the last time
\* somebody heard the peer itself, no node lists itself, a stopped node keeps
\* nothing, and the variables keep their types.
THEOREM HearsayStaysHearsay == Spec => []HearsayIsNoSighting
<1>1. IInv => HearsayIsNoSighting
  BY DEF IInv, DInv, DiscoveryType, ProcessType, TypeOK, HearsayIsNoSighting
<1> QED BY <1>1, InitIInv, Inductive, PTL DEF Spec

-----------------------------------------------------------------------------
FreshStays(n, p) ==
  known[n][p] \in 0 .. (Timeout - 1) /\ known'[n][p] = None =>
    \/ stage'[n] = "down"
    \/ cleaning[n] \in Waits /\ known[n][p] < cleaning[n]

\* A cleanup drops an entry that is not too old only when it underflows.
LEMMA CleanupDropsOld ==
  ASSUME IInv, NEW n \in Nodes, cleaning[n] \in Waits,
         RemoveOld(n, cleaning[n]) \/ RemoveSome(n, cleaning[n]),
         NEW k \in Nodes, NEW p \in Peers
  PROVE  FreshStays(k, p)
<1>1. known \in [Nodes -> Tables] /\ known[k] \in Tables /\ known[k][p] \in Ages \cup {None}
  BY DEF IInv, DInv, DiscoveryType, Tables
<1>2. cleaning[n] \in Nat
  BY DiscoveryAssumption DEF Waits
<1>3. CASE k # n
  <2>1. known'[k] = known[k]
    BY <1>1, <1>3 DEF RemoveOld, RemoveSome
  <2> QED BY <2>1, OldestIsNat DEF FreshStays
<1>4. CASE k = n
  <2>1. known'[n][p] = None =>
          known[n][p] = None \/ Expired(known[n][p], cleaning[n])
            \/ Underflows(known[n][p], cleaning[n])
    BY <1>1, <1>4 DEF RemoveOld, RemoveSome, Tables
  <2>2. known[n][p] \in 0 .. (Timeout - 1) => ~Expired(known[n][p], cleaning[n])
    BY <1>2, OldestIsNat DEF Expired
  <2> QED BY <1>4, <2>1, <2>2, OldestIsNat DEF Underflows, FreshStays
<1> QED BY <1>3, <1>4

\* For any timeout, an entry that is not too old is dropped with the process, or
\* because it was made between a cleanup's look at the clock and its lock.
THEOREM OnlyRaces == Spec => OnlyRacesDropFresh
<1>1. ASSUME IInv, [Next]_vars, NEW n \in Nodes, NEW p \in Peers PROVE FreshStays(n, p)
  <2>1. known \in [Nodes -> Tables] /\ known[n] \in Tables /\ known[n][p] \in Ages \cup {None}
    BY <1>1 DEF IInv, DInv, DiscoveryType, Tables
  <2>2. 0 # None /\ \A age \in 0 .. (Timeout - 1) : age # None
    BY OldestIsNat
  <2>3. CASE known'[n][p] # None \/ known'[n][p] = known[n][p]
    BY <2>2, <2>3 DEF FreshStays
  <2>4. CASE Tick
    <3>1. known'[n][p] = Older(known[n][p])
      BY <2>4 DEF Tick, PassTime, AllOlder
    <3> QED BY <2>1, <2>2, <3>1, OlderAges DEF FreshStays
  <2>5. ASSUME NEW k \in Nodes, NEW q \in Fresh, ConnectBootstrap(k, q) PROVE FreshStays(n, p)
    <3>1. known'[n][p] = 0 \/ known'[n][p] = known[n][p]
      BY <2>1, <2>5 DEF ConnectBootstrap, AddPeer, Tables
    <3> QED BY <2>2, <2>3, <3>1
  <2>6. ASSUME NEW k \in Nodes, Listen(k) PROVE FreshStays(n, p)
    <3>1. PICK m \in network :
            m.to = k /\ (ReceiveAnnounce(m) \/ ReceiveRequest(m) \/ ReceiveResponse(m))
      BY <2>6 DEF Listen, Receive
    <3>2. CASE ReceiveAnnounce(m)
      <4>1. known'[n][p] = 0 \/ known'[n][p] = known[n][p]
        BY <2>1, <3>2 DEF ReceiveAnnounce, Tables
      <4> QED BY <2>2, <2>3, <4>1
    <3>3. CASE ReceiveRequest(m)
      BY <2>3, <3>3 DEF ReceiveRequest
    <3>4. CASE ReceiveResponse(m)
      <4>1. known'[n] = IF n = m.to THEN Merged(known[n], m.to, m.peers) ELSE known[n]
        BY <2>1, <3>4 DEF ReceiveResponse
      <4>2. known'[n][p] # None \/ known'[n][p] = known[n][p]
        BY <4>1 DEF Merged
      <4> QED BY <2>3, <4>2
    <3> QED BY <3>1, <3>2, <3>3, <3>4
  <2>7. ASSUME NEW k \in Nodes, Maintain(k) PROVE FreshStays(n, p)
    <3>1. CASE ReadClock(k)
      BY <2>3, <3>1 DEF ReadClock, discoveryVars
    <3>2. CASE Cleanup(k) \/ CleanupPanics(k)
      BY <1>1, <3>2, CleanupDropsOld DEF Cleanup, CleanupPanics
    <3> QED BY <2>7, <3>1, <3>2 DEF Maintain
  <2>8. ASSUME NEW k \in Nodes, Stop(k) PROVE FreshStays(n, p)
    <3>1. CASE k = n
      BY <1>1, <2>8, <3>1 DEF Stop, IInv, ProcessType, FreshStays
    <3>2. CASE k # n
      <4>1. known'[n] = known[n]
        BY <2>1, <2>8, <3>2 DEF Stop, EndDiscovery
      <4> QED BY <2>3, <4>1
    <3> QED BY <3>1, <3>2
  <2>9. ASSUME known' = known PROVE FreshStays(n, p)
    BY <2>3, <2>9
  <2> QED
    BY <1>1, <2>4, <2>5, <2>6, <2>7, <2>8, <2>9
      DEF Next, StartAdaptive, StartDiscovery, SpawnTasks, discoveryVars, Discover, Announce,
          RequestPeers, vars
<1>2. IInv /\ [Next]_vars =>
        [\A n \in Nodes, p \in Peers :
           known[n][p] \in 0 .. (Timeout - 1) /\ known'[n][p] = None =>
             \/ stage'[n] = "down"
             \/ cleaning[n] \in Waits /\ known[n][p] < cleaning[n]]_vars
  BY <1>1 DEF FreshStays
<1> QED BY <1>2, InitIInv, Inductive, PTL DEF Spec, OnlyRacesDropFresh
=============================================================================
