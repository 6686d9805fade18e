--------------------------- MODULE AdaptiveNetwork ---------------------------
(***************************************************************************)
(* The adaptive start of the network, adaptive_network.rs, with the        *)
(* automatic discovery it starts and looks after (AutoDiscovery), on every *)
(* node of a machine.                                                      *)
(*                                                                         *)
(* Left out are the other tasks it spawns, which P2PNetwork has, and the   *)
(* DHT, into which the discovered peers are copied and which nobody reads. *)
(***************************************************************************)
EXTENDS AutoDiscovery

CONSTANTS Idle,   \* a maintenance task with nothing to do
          Ended   \* one that has panicked

ASSUME TaskAssumption == Idle \notin Nat /\ Ended \notin Nat /\ Idle # Ended

VARIABLES stage,     \* how far the process of each node is
          cleaning   \* the maintenance task of each node

vars == <<bound, listed, known, network, seen, stage, cleaning>>

Stages == {"down", "starting", "running"}

\* The task is idle, has panicked, or has waited so long for the table.
Waits == 0 .. MaxWait

Tasks == {Idle, Ended} \cup Waits

Init ==
  /\ InitDiscovery
  /\ stage = [n \in Nodes |-> "down"]
  /\ cleaning = [n \in Nodes |-> Idle]

Tick ==
  /\ MaxWait \notin {cleaning[n] : n \in Nodes}
  /\ PassTime
  /\ cleaning' = [n \in Nodes |-> IF cleaning[n] \in Waits THEN cleaning[n] + 1
                                  ELSE cleaning[n]]
  /\ UNCHANGED stage

\* start_adaptive starts discovery, and connects to the bootstrap peers, by ids
\* that it makes up and adds to discovery itself.
StartAdaptive(n) ==
  /\ stage[n] = "down"
  /\ StartDiscovery(n)
  /\ stage' = [stage EXCEPT ![n] = "starting"]
  /\ UNCHANGED cleaning

ConnectBootstrap(n, p) ==
  /\ stage[n] = "starting"
  /\ seen[p] = None
  /\ AddPeer(n, p)
  /\ UNCHANGED <<stage, cleaning>>

\* Then it spawns the tasks.
SpawnTasks(n) ==
  /\ stage[n] = "starting"
  /\ stage' = [stage EXCEPT ![n] = "running"]
  /\ UNCHANGED <<discoveryVars, cleaning>>

\* The tasks discovery spawned.
Discover(n) ==
  /\ Announce(n) \/ RequestPeers(n)
  /\ UNCHANGED <<stage, cleaning>>

Listen(n) ==
  /\ Receive(n)
  /\ UNCHANGED <<stage, cleaning>>

\* start_discovery_maintenance: every minute, cleanup_old_peers reads the clock
\* and waits for the table.
ReadClock(n) ==
  /\ stage[n] = "running" /\ cleaning[n] = Idle
  /\ cleaning' = [cleaning EXCEPT ![n] = 0]
  /\ UNCHANGED <<discoveryVars, stage>>

Cleanup(n) ==
  /\ cleaning[n] \in Waits
  /\ RemoveOld(n, cleaning[n])
  /\ cleaning' = [cleaning EXCEPT ![n] = Idle]
  /\ UNCHANGED stage

\* In a build that checks for overflow a panic ends the task, and the network
\* runs on without it.
CleanupPanics(n) ==
  /\ cleaning[n] \in Waits
  /\ Panics(n, cleaning[n])
  /\ RemoveSome(n, cleaning[n])
  /\ cleaning' = [cleaning EXCEPT ![n] = Ended]
  /\ UNCHANGED stage

Maintain(n) == ReadClock(n) \/ Cleanup(n) \/ CleanupPanics(n)

\* The process ends, at any time, and may be started again.
Stop(n) ==
  /\ stage[n] # "down"
  /\ EndDiscovery(n)
  /\ stage' = [stage EXCEPT ![n] = "down"]
  /\ cleaning' = [cleaning EXCEPT ![n] = Idle]

Next ==
  \/ Tick
  \/ \E n \in Nodes :
       \/ StartAdaptive(n)
       \/ \E p \in Fresh : ConnectBootstrap(n, p)
       \/ SpawnTasks(n)
       \/ Discover(n)
       \/ Listen(n)
       \/ Maintain(n)
       \/ Stop(n)

\* Time goes by, tasks are scheduled, and what is announced again and again to a
\* port that somebody listens on gets through now and then.
GetsThrough(n, m) ==
  /\ Discover(n)
  /\ Announcement(n, m) \in network'

Fairness ==
  /\ WF_vars(Tick)
  /\ \A n \in Nodes :
       /\ WF_vars(SpawnTasks(n))
       /\ WF_vars(Listen(n))
       /\ WF_vars(Maintain(n))
       /\ \A m \in Nodes \ {n} : SF_vars(GetsThrough(n, m))

Spec == Init /\ [][Next]_vars /\ Fairness

-----------------------------------------------------------------------------
(***************************************************************************)
(* Properties                                                              *)
(***************************************************************************)

\* Every variable has its type, and a node without a process has no state.
TypeOK ==
  /\ bound \subseteq Nodes /\ listed \subseteq bound
  /\ known \in [Nodes -> Tables]
  /\ network \subseteq Messages
  /\ seen \in Tables
  /\ stage \in [Nodes -> Stages]
  /\ cleaning \in [Nodes -> Tasks]
  /\ \A n \in Nodes : stage[n] = "down" => n \notin bound /\ known[n] = Nobody

\* Hearsay never makes a peer younger: no table, and no response in flight, has
\* a peer for later than somebody heard that peer itself, however often the
\* entry was passed on, and lost and taken back in between.  Nor does a node
\* ever list itself.
NoYounger(table, heard) ==
  \A p \in Peers : table[p] # None => heard[p] # None /\ heard[p] <= table[p]

EntriesAreHearsay ==
  /\ \A n \in Nodes : NoYounger(known[n], seen) /\ known[n][n] = None
  /\ \A m \in network : m.type = "response" => NoYounger(m.peers, seen)

\* That, and every variable has its type: a node that is down knows nobody.
HearsayIsNoSighting == TypeOK /\ EntriesAreHearsay

\* An entry that is not too old leaves a table only with its process, or when
\* it was made after a cleanup had read its clock and before it got the table.
OnlyRacesDropFresh ==
  [][\A n \in Nodes, p \in Peers :
       known[n][p] \in 0 .. (Timeout - 1) /\ known'[n][p] = None =>
         \/ stage'[n] = "down"
         \/ cleaning[n] \in Waits /\ known[n][p] < cleaning[n]]_vars

\* A node that listens on one of the discovery ports finds every other node with
\* a socket, again and again whatever is lost, however old the hearsay about it,
\* whoever cleans up.  Nothing is promised to a node on another port.
LiveAreFound ==
  \A n, m \in Nodes :
    n # m => (<>[](n \in listed /\ m \in bound) => []<>(known[n][m] # None))

\* A node that is left alone forgets, for good, who does not show up any more,
\* unless its maintenance task has panicked, and as long as the answers it gives
\* itself do not carry the old entries past every single cleanup.
Alone(n) == \A m \in Nodes : stage[m] = IF m = n THEN "running" ELSE "down"

CleansUndisturbed(n) == Cleanup(n) /\ \A m \in network : m.type # "response"

LoneForgets ==
  \A n \in Nodes :
    <>[](Alone(n) /\ cleaning[n] # Ended) /\ []<><<CleansUndisturbed(n)>>_vars =>
      <>[](known[n] = Nobody)

(***************************************************************************)
(* What a comment says and the code does not do.                           *)
(***************************************************************************)

\* auto_discovery.rs:262, "Remove peers not seen for 5 minutes": a peer nobody
\* has seen any more is gone from every table in the end, as long as all the
\* nodes run and clean up, even if no answer is on its way at any cleanup.
UnseenAreForgotten ==
  \A p \in Peers :
    /\ <>[](/\ seen[p] = Oldest
            /\ \A n \in Nodes : stage[n] = "running" /\ cleaning[n] # Ended)
    /\ <>[][\A n \in Nodes : Cleanup(n) => CleansUndisturbed(n)]_vars
    => <>[](\A n \in Nodes : known[n][p] = None)
=============================================================================
