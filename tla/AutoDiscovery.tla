---------------------------- MODULE AutoDiscovery ----------------------------
(***************************************************************************)
(* Automatic discovery, crates/p2p-network/src/auto_discovery.rs: every    *)
(* node keeps a table of the peers it has heard of, announces itself, asks *)
(* the others for their tables, and forgets who was not seen for long.     *)
(*                                                                         *)
(* All nodes run on one machine (every address is 127.0.0.1) and read one  *)
(* clock.  A time is known by its age, now - last_seen, which grows with   *)
(* every Tick up to Oldest; so time has no bound, and ages have.           *)
(*                                                                         *)
(* Messages are UDP datagrams: they are lost, the more so when a receiver  *)
(* does not keep up or its buffer of 1024 bytes is too small for a list of *)
(* peers, and they arrive in any order.                                    *)
(***************************************************************************)
EXTENDS Integers, FiniteSets

CONSTANTS Nodes,      \* node ids
          Fresh,      \* the ids start_adaptive makes up for bootstrap peers
          Timeout,    \* 300 seconds
          MaxWait,    \* bound on the wait of a cleanup for its lock
          MaxFlight,  \* bound on the datagrams in flight
          None        \* not in the table, never seen

ASSUME DiscoveryAssumption ==
  /\ IsFiniteSet(Nodes) /\ IsFiniteSet(Fresh) /\ Nodes \cap Fresh = {}
  /\ Timeout \in Nat \ {0} /\ MaxWait \in Nat /\ MaxFlight \in Nat
  /\ None \notin Nat

Peers == Nodes \cup Fresh

\* Who has reached this age is too old for every cleanup.
Oldest == Timeout + MaxWait

Ages == 0 .. Oldest

Tables == [Peers -> Ages \cup {None}]

Messages ==
  [type : {"announce", "request"}, from : Nodes, to : Nodes]
    \cup [type : {"response"}, to : Nodes, peers : Tables]

VARIABLES bound,    \* the nodes that have a discovery socket
          listed,   \* those of them whose port is one of discovery_ports
          known,    \* known[n]: known_peers of n, the age of each entry
          network,  \* the datagrams in flight
          seen      \* the age of the last time anybody heard a peer itself

discoveryVars == <<bound, listed, known, network, seen>>

Nobody == [p \in Peers |-> None]

InitDiscovery ==
  /\ bound = {} /\ listed = {}
  /\ known = [n \in Nodes |-> Nobody]
  /\ network = {}
  /\ seen = Nobody

Older(age) == IF age \in {None, Oldest} THEN age ELSE age + 1

AllOlder(table) == [p \in Peers |-> Older(table[p])]

\* A second goes by.
PassTime ==
  /\ UNCHANGED <<bound, listed>>
  /\ known' = [n \in Nodes |-> AllOlder(known[n])]
  /\ network' = {IF m.type = "response" THEN [m EXCEPT !.peers = AllOlder(@)] ELSE m :
                   m \in network}
  /\ seen' = AllOlder(seen)

\* Of what is sent, any part gets on its way, to those who listen.
Send(sent, inFlight) ==
  \E arriving \in SUBSET {m \in sent : m.to \in bound} :
    /\ Cardinality(inFlight \cup arriving) <= MaxFlight
    /\ network' = inFlight \cup arriving

\* start.  The port is configured for each run of a node, and need not be one
\* of the six the others send to.  A socket that cannot be bound is logged
\* about, and the network does without discovery.
StartDiscovery(n) ==
  /\ bound' \in {bound, bound \cup {n}}
  /\ listed' \in {listed, listed \cup (bound' \cap {n})}
  /\ UNCHANGED <<known, network, seen>>

Announcement(n, m) == [type |-> "announce", from |-> n, to |-> m]

\* Mutant: a node announces itself to its own port only.
AnnounceToSelf(n) ==
  /\ n \in bound
  /\ Send({Announcement(n, n)}, network)
  /\ UNCHANGED <<bound, listed, known, seen>>

\* The announcement task, every 15 seconds, sends to the discovery ports only:
\* the socket may not broadcast, and that error is ignored.  A node on one of
\* the ports also sends to itself, and ignores its own announcement.
Announce(n) ==
  /\ n \in bound
  /\ Send({Announcement(n, m) : m \in listed \ {n}}, network)
  /\ UNCHANGED <<bound, listed, known, seen>>

\* The discovery task, every 30 seconds, to the same ports.  Its own request a
\* node on one of them does answer.
RequestPeers(n) ==
  /\ n \in bound
  /\ Send({[type |-> "request", from |-> n, to |-> m] : m \in listed}, network)
  /\ UNCHANGED <<bound, listed, known, seen>>

\* The listening task takes an announcement: the peer was seen just now.
ReceiveAnnounce(m) ==
  /\ m \in network /\ m.type = "announce"
  /\ network' = network \ {m}
  /\ known' = [known EXCEPT ![m.to][m.from] = 0]
  /\ seen' = [seen EXCEPT ![m.from] = 0]
  /\ UNCHANGED <<bound, listed>>

\* It answers a request with everybody it knows.
ReceiveRequest(m) ==
  /\ m \in network /\ m.type = "request"
  /\ Send({[type |-> "response", to |-> m.from, peers |-> known[m.to]]}, network \ {m})
  /\ UNCHANGED <<bound, listed, known, seen>>

\* Mutant: the peers of a response count as seen now.
MergedAsSeen(table, n, peers) ==
  [p \in Peers |-> IF p # n /\ peers[p] # None THEN 0 ELSE table[p]]

\* It takes every peer of a response but itself, and the time the sender had
\* for it, be it older than its own.
Merged(table, n, peers) ==
  [p \in Peers |-> IF p # n /\ peers[p] # None THEN peers[p] ELSE table[p]]

ReceiveResponse(m) ==
  /\ m \in network /\ m.type = "response"
  /\ network' = network \ {m}
  /\ known' = [known EXCEPT ![m.to] = Merged(@, m.to, m.peers)]
  /\ UNCHANGED <<bound, listed, seen>>

Receive(n) ==
  \E m \in network :
    /\ m.to = n
    /\ ReceiveAnnounce(m) \/ ReceiveRequest(m) \/ ReceiveResponse(m)

\* add_peer
AddPeer(n, p) ==
  /\ known' = [known EXCEPT ![n][p] = 0]
  /\ seen' = [seen EXCEPT ![p] = 0]
  /\ UNCHANGED <<bound, listed, network>>

\* cleanup_old_peers reads the clock and then waits for the table: `wait` is how
\* long ago that was.  An entry made since is later than the reading, and the
\* difference of the two, a u64, underflows.
Underflows(age, wait) == age # None /\ age < wait

Expired(age, wait) == age # None /\ age - wait >= Timeout

\* Where overflow is checked, as in a debug build, the underflow panics on the
\* way, and whoever was not looked at yet stays; elsewhere it wraps to a huge
\* difference, and the entry goes.
Panics(n, wait) == \E p \in Peers : Underflows(known[n][p], wait)

\* Mutants: a second too much is taken off the timeout; bootstrap peers stay.
RemoveOldEarly(n, wait) ==
  /\ known' = [known EXCEPT ![n] =
                 [p \in Peers |-> IF Expired(@[p], wait - 1) THEN None ELSE @[p]]]
  /\ UNCHANGED <<bound, listed, network, seen>>

RemoveOldButBootstrap(n, wait) ==
  /\ known' = [known EXCEPT ![n] =
                 [p \in Peers |-> IF p \in Nodes /\ Expired(@[p], wait) THEN None ELSE @[p]]]
  /\ UNCHANGED <<bound, listed, network, seen>>

RemoveOld(n, wait) ==
  /\ known' = [known EXCEPT ![n] =
                 [p \in Peers |-> IF Expired(@[p], wait) \/ Underflows(@[p], wait)
                                  THEN None ELSE @[p]]]
  /\ UNCHANGED <<bound, listed, network, seen>>

RemoveSome(n, wait) ==
  /\ \E gone \in SUBSET {p \in Peers : Expired(known[n][p], wait)} :
       known' = [known EXCEPT ![n] = [p \in Peers |-> IF p \in gone THEN None ELSE @[p]]]
  /\ UNCHANGED <<bound, listed, network, seen>>

\* The process of n is gone, and so is what was on its way to it.
EndDiscovery(n) ==
  /\ bound' = bound \ {n} /\ listed' = listed \ {n}
  /\ known' = [known EXCEPT ![n] = Nobody]
  /\ network' = {m \in network : m.to # n}
  /\ UNCHANGED seen
=============================================================================
