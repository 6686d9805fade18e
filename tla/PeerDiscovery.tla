---------------------------- MODULE PeerDiscovery ----------------------------
(***************************************************************************)
(* The discovery service of crates/p2p-network/src/discovery.rs around the *)
(* one lock it has: the RwLock of known_peers, which the listening task,   *)
(* the cleanup task and the callers of the service share.                  *)
(*                                                                         *)
(* A tokio RwLock is fair: requests are served in the order they are made, *)
(* and a reader waits behind a writer that waits.  A section that awaits   *)
(* nothing is one step; a guard that is kept over an await is held in      *)
(* `guards`.  How old entries are is left out: a cleanup may find any of   *)
(* them expired.                                                           *)
(***************************************************************************)
EXTENDS Integers, FiniteSets, SequencesExt

CONSTANTS Users,     \* tasks that call the service
          Peers,     \* the peers there are, but for this node itself
          Listener,  \* the listening task
          Cleaner,   \* the cleanup task
          Free,      \* a task that neither waits for the lock nor holds it
          Ended      \* the cleanup task after a panic

Tasks == Users \cup {Listener, Cleaner}

ASSUME TasksAssumption ==
  /\ IsFiniteSet(Users) /\ Listener # Cleaner
  /\ {Listener, Cleaner} \cap Users = {}

VARIABLES known,   \* known_peers
          doing,   \* what each task wants the lock for
          queue,   \* the tasks that wait for the lock
          guards   \* guards[t]: the read guards t keeps over an await

lockVars == <<known, doing, queue, guards>>

Jobs ==
  [op : {"insert"}, peers : SUBSET Peers]
    \cup [op : {"query", "clean", "discover", "list"}]

\* A task that has nothing to do with the lock is told from one that has a job.
ASSUME NamesAssumption == {Free, Ended} \cap Jobs = {}

DiscoveryInit ==
  /\ known = {}
  /\ doing = [t \in Tasks |-> Free]
  /\ queue = <<>>
  /\ guards = [t \in Tasks |-> 0]

Waits(t) == Contains(queue, t)

Wants(t, op) == doing[t] \in Jobs /\ doing[t].op = op

IsWriter(t) == Wants(t, "insert") \/ Wants(t, "clean")

-----------------------------------------------------------------------------
\* A task gets to the lock and asks for it.
Ask(t, job) ==
  /\ doing[t] = Free
  /\ doing' = [doing EXCEPT ![t] = job]
  /\ queue' = Append(queue, t)
  /\ UNCHANGED <<known, guards>>

\* The listening task handles one datagram after the other: an announcement or
\* a response to be recorded, or a query to be answered.
HandleDiscoveryMessage ==
  \/ \E peers \in SUBSET Peers : Ask(Listener, [op |-> "insert", peers |-> peers])
  \/ Ask(Listener, [op |-> "query"])

\* Once a minute.
StartCleanup == Ask(Cleaner, [op |-> "clean"])

DiscoverPeers(c) == Ask(c, [op |-> "discover"])

GetKnownPeers(c) == Ask(c, [op |-> "list"])

AddPeer(c) == \E p \in Peers : Ask(c, [op |-> "insert", peers |-> {p}])

-----------------------------------------------------------------------------
\* Mutant: readers overtake writers that wait.
ServedReadersFirst(t) ==
  /\ Waits(t) /\ (IsWriter(t) => Head(queue) = t)
  /\ queue' = SelectSeq(queue, LAMBDA u : u # t)

\* The task is the next to get the lock, for writing or for reading.
Served(t) == queue # <<>> /\ Head(queue) = t /\ queue' = Tail(queue)

NoGuards == \A t \in Tasks : guards[t] = 0

Done(t) == doing' = [doing EXCEPT ![t] = Free]

Insert(t) ==
  /\ Wants(t, "insert") /\ Served(t) /\ NoGuards
  /\ known' = known \cup doing[t].peers
  /\ Done(t)
  /\ UNCHANGED guards

\* Clean up whoever was not seen for five minutes.
Retain(t) ==
  /\ Wants(t, "clean") /\ Served(t) /\ NoGuards
  /\ known' \in SUBSET known
  /\ Done(t)
  /\ UNCHANGED guards

\* An entry is later than the clock that was read before the wait for the lock:
\* the difference underflows, and where that is checked the task is over.
RetainPanics(t) ==
  /\ Wants(t, "clean") /\ Served(t) /\ NoGuards
  /\ known # {} /\ known' \in SUBSET known
  /\ doing' = [doing EXCEPT ![t] = Ended]
  /\ UNCHANGED guards

List(t) ==
  /\ Wants(t, "list") /\ Served(t)
  /\ Done(t)
  /\ UNCHANGED <<known, guards>>

\* A query is answered, and peers are discovered, with the guard in hand.
TakeGuard(t) ==
  /\ Wants(t, "query") \/ Wants(t, "discover")
  /\ guards[t] = 0 /\ Served(t)
  /\ guards' = [guards EXCEPT ![t] = 1]
  /\ UNCHANGED <<known, doing>>

SendResponse(t) ==
  /\ Wants(t, "query") /\ guards[t] = 1
  /\ guards' = [guards EXCEPT ![t] = 0]
  /\ Done(t)
  /\ UNCHANGED <<known, queue>>

\* discover_peers asks everybody, sleeps half a second for the responses, and
\* asks for the lock once more, with the first guard still in hand.
AskAgain(t) ==
  /\ Wants(t, "discover") /\ guards[t] = 1 /\ ~Waits(t)
  /\ queue' = Append(queue, t)
  /\ UNCHANGED <<known, doing, guards>>

\* Mutant: the guard is kept after the call has returned.
ReturnPeersKeepingGuard(t) ==
  /\ Wants(t, "discover") /\ guards[t] = 1 /\ Served(t)
  /\ Done(t)
  /\ UNCHANGED <<known, guards>>

ReturnPeers(t) ==
  /\ Wants(t, "discover") /\ guards[t] = 1 /\ Served(t)
  /\ guards' = [guards EXCEPT ![t] = 0]
  /\ Done(t)
  /\ UNCHANGED known

-----------------------------------------------------------------------------
NewWork ==
  \/ HandleDiscoveryMessage
  \/ StartCleanup
  \/ \E c \in Users : DiscoverPeers(c) \/ GetKnownPeers(c) \/ AddPeer(c)

Advance(t) ==
  \/ Insert(t) \/ Retain(t) \/ RetainPanics(t) \/ List(t)
  \/ TakeGuard(t) \/ SendResponse(t) \/ AskAgain(t) \/ ReturnPeers(t)

DiscoveryNext == NewWork \/ \E t \in Tasks : Advance(t)

\* Tasks are scheduled.
DiscoveryFairness == \A t \in Tasks : WF_lockVars(Advance(t))

DiscoverySpec == DiscoveryInit /\ [][DiscoveryNext]_lockVars /\ DiscoveryFairness

-----------------------------------------------------------------------------
(***************************************************************************)
(* Properties                                                              *)
(***************************************************************************)

\* Every variable has its type, nobody waits twice, and nobody keeps more than
\* one guard, or one while it has nothing to do.
LockTypes ==
  /\ known \subseteq Peers
  /\ doing \in [Tasks -> Jobs \cup {Free, Ended}]
  /\ queue \in Seq(Tasks) /\ IsInjective(queue)
  /\ guards \in [Tasks -> {0, 1}]
  /\ \A t \in Tasks : doing[t] \in {Free, Ended} => ~Waits(t) /\ guards[t] = 0

\* A discoverer waits for its second guard behind a writer, which waits for the
\* first one to be dropped.
Before(t, u) == \E i, j \in DOMAIN queue : i < j /\ queue[i] = t /\ queue[j] = u

Stuck ==
  \E t, u \in Tasks : Before(t, u) /\ IsWriter(t) /\ Wants(u, "discover") /\ guards[u] = 1

\* The second guard is all that can get the service stuck: else whoever waits
\* for the table gets it, the writers too, however many read.  And who is stuck
\* stays so, and with it everybody who comes later.
AllAreServed == \A t \in Tasks : Waits(t) ~> (~Waits(t) \/ []Stuck)
=============================================================================
