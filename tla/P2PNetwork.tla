----------------------------- MODULE P2PNetwork -----------------------------
(***************************************************************************)
(* The peer table of the WebRTC network, crates/p2p-network/src/lib.rs and *)
(* peer.rs: connecting, sending, disconnecting and shutting down from any  *)
(* number of threads, beside the keep-alive and the maintenance task.      *)
(*                                                                         *)
(* The table is behind a RwLock, and several operations keep a guard over  *)
(* an await: a send keeps a read guard until the data channel took the     *)
(* message, a disconnection a write guard until the connection is closed.  *)
(* A process is modelled by a record of the call it is in; a guard it      *)
(* holds follows from that record.  A lock section with no await is one    *)
(* step.                                                                   *)
(*                                                                         *)
(* Received messages are not modelled: they refresh last_seen (see         *)
(* ListStale), and the task that would process them blocks for ever on its *)
(* first statement.                                                        *)
(***************************************************************************)
EXTENDS Integers, FiniteSets

CONSTANTS Ids,        \* peer ids
          Bootstrap,  \* those of the bootstrap peers, which start makes up
          Callers,    \* threads that use the network
          Runner,     \* the thread that runs start()
          KeepAlive,  \* the keep-alive task
          MaxConns,   \* bound on the connections made
          MaxCalls,   \* bound on the calls of Callers
          None        \* no call under way, no connection

ASSUME NetworkAssumption ==
  /\ MaxConns \in Nat /\ MaxCalls \in Nat
  /\ KeepAlive \notin Callers /\ Runner \notin Callers /\ KeepAlive # Runner
  /\ None \notin 1 .. MaxConns
  /\ IsFiniteSet(Ids) /\ Bootstrap \subseteq Ids

Conns == 1 .. MaxConns

VARIABLES peers,     \* peers: a connection for each id, or None
          closed,    \* the connections that were closed
          made,      \* the number of connections made
          active,    \* stats.active_connections
          runner,    \* start(): "new", "connecting", "running", or "done"
          signal,    \* whether a signal waits in the shutdown channel
          call,      \* call[p]: the call p is in the middle of, or None
          upkeep,    \* where the maintenance task is
          calls      \* the number of calls begun

vars == <<peers, closed, made, active, runner, signal, call, upkeep, calls>>

Processes == Callers \cup {Runner, KeepAlive}

\* start has spawned the tasks, which outlive it.
Started == runner \in {"running", "done"}

Idle(p) == call[p] = None
In(p, op) == ~Idle(p) /\ call[p].op = op

Connected == {id \in Ids : peers[id] # None}

\* The guards on the table: some process is sending, or closing.
Reading == \E p \in Processes : In(p, "send")
Writing == \E p \in Processes : In(p, "close")

CanRead  == ~Writing
CanWrite == ~Writing /\ ~Reading

Do(p, step) == call' = [call EXCEPT ![p] = step]

BeginCall(c, step) ==
  /\ Idle(c)
  /\ calls < MaxCalls
  /\ calls' = calls + 1
  /\ Do(c, step)

-----------------------------------------------------------------------------
Init ==
  /\ peers = [id \in Ids |-> None]
  /\ closed = {}
  /\ made = 0
  /\ active = 0
  /\ runner = "new"
  /\ signal = FALSE
  /\ call = [p \in Processes |-> None]
  /\ upkeep = [at |-> "list"]
  /\ calls = 0

\* What p does after it is done with one peer: the rest, or nothing.
Rest(op, ids) == IF ids = {} THEN None ELSE [op |-> op, later |-> ids]

\* start connects to the bootstrap peers, one after the other, by ids nobody
\* knows before.  Then it spawns the tasks, takes the receiver of the shutdown
\* channel and waits for the signal.
Start ==
  /\ runner = "new"
  /\ runner' = "connecting"
  /\ Do(Runner, Rest("boot", Bootstrap))
  /\ UNCHANGED <<peers, closed, made, active, signal, upkeep, calls>>

SpawnTasks ==
  /\ runner = "connecting" /\ Idle(Runner)
  /\ runner' = "running"
  /\ UNCHANGED <<peers, closed, made, active, signal, call, upkeep, calls>>

ReceiveSignal ==
  /\ runner = "running" /\ signal
  /\ runner' = "done"
  /\ signal' = FALSE
  /\ UNCHANGED <<peers, closed, made, active, call, upkeep, calls>>

(***************************************************************************)
(* connect_to_peer                                                         *)
(***************************************************************************)

\* The id is looked up, and a connection is made if it is not there.
Connecting(id, later) == [op |-> "connect", id |-> id, conn |-> made + 1, later |-> later]

Connect(c, id) ==
  /\ CanRead
  /\ peers[id] = None
  /\ made < MaxConns
  /\ made' = made + 1
  /\ BeginCall(c, Connecting(id, {}))
  /\ UNCHANGED <<peers, closed, active, runner, signal, upkeep>>

ConnectBootstrap(id) ==
  /\ In(Runner, "boot") /\ CanRead
  /\ id \in call[Runner].later
  /\ made < MaxConns
  /\ made' = made + 1
  /\ Do(Runner, Connecting(id, call[Runner].later \ {id}))
  /\ UNCHANGED <<peers, closed, active, runner, signal, upkeep, calls>>

ConnectFails(p) ==
  /\ In(p, "connect")
  /\ Do(p, Rest("boot", call[p].later))
  /\ UNCHANGED <<peers, closed, made, active, runner, signal, upkeep, calls>>

\* The connection goes into the table, over one that came there since.
InsertPeer(p) ==
  /\ In(p, "connect") /\ CanWrite
  /\ peers' = [peers EXCEPT ![call[p].id] = call[p].conn]
  /\ Do(p, [op |-> "count", later |-> call[p].later])
  /\ UNCHANGED <<closed, made, active, runner, signal, upkeep, calls>>

CountPeer(p) ==
  /\ In(p, "count")
  /\ active' = active + 1
  /\ Do(p, Rest("boot", call[p].later))
  /\ UNCHANGED <<peers, closed, made, runner, signal, upkeep, calls>>

(***************************************************************************)
(* Sending                                                                 *)
(***************************************************************************)

\* send_message to one peer, broadcast_message to all of them; the read guard
\* is kept until the last is done.
SendMessage(c, id) ==
  /\ CanRead
  /\ peers[id] # None
  /\ BeginCall(c, [op |-> "send", to |-> {id}, later |-> {}])
  /\ UNCHANGED <<peers, closed, made, active, runner, signal, upkeep>>

BroadcastMessage(c) ==
  /\ CanRead
  /\ Connected # {}
  /\ BeginCall(c, [op |-> "send", to |-> Connected, later |-> {}])
  /\ UNCHANGED <<peers, closed, made, active, runner, signal, upkeep>>

\* The keep-alive task lists the peers, and then pings one after the other,
\* each under a read guard of its own.
ListForPings ==
  /\ Started /\ Idle(KeepAlive) /\ CanRead
  /\ Connected # {}
  /\ Do(KeepAlive, [op |-> "ping", later |-> Connected])
  /\ UNCHANGED <<peers, closed, made, active, runner, signal, upkeep, calls>>

Ping(id) ==
  /\ In(KeepAlive, "ping") /\ CanRead
  /\ id \in call[KeepAlive].later
  /\ LET later == call[KeepAlive].later \ {id}
     IN  Do(KeepAlive, IF peers[id] = None THEN Rest("ping", later)
                       ELSE [op |-> "send", to |-> {id}, later |-> later])
  /\ UNCHANGED <<peers, closed, made, active, runner, signal, upkeep, calls>>

\* PeerConnection::send_message for one of the peers: it succeeds, or fails, at
\* the latest by its timeout of ten seconds.
Sent(p, id) ==
  /\ In(p, "send")
  /\ id \in call[p].to
  /\ LET to == call[p].to \ {id}
     IN  Do(p, IF to # {} THEN [call[p] EXCEPT !.to = to] ELSE Rest("ping", call[p].later))
  /\ UNCHANGED <<peers, closed, made, active, runner, signal, upkeep, calls>>

(***************************************************************************)
(* Disconnecting                                                           *)
(***************************************************************************)

\* disconnect_peer takes the peer from the table and closes its connection,
\* under one write guard.
Closing(id, later) == [op |-> "close", conn |-> peers[id], later |-> later]

\* Mutants: a read guard is taken; the peer is closed and stays in the table.
DisconnectKeeping(c, id) ==
  /\ CanWrite
  /\ peers[id] # None
  /\ BeginCall(c, Closing(id, {}))
  /\ UNCHANGED <<peers, closed, made, active, runner, signal, upkeep>>

DisconnectUnderRead(c, id) ==
  /\ CanRead
  /\ peers[id] # None
  /\ BeginCall(c, Closing(id, {}))
  /\ peers' = [peers EXCEPT ![id] = None]
  /\ UNCHANGED <<closed, made, active, runner, signal, upkeep>>

Disconnect(c, id) ==
  /\ CanWrite
  /\ peers[id] # None
  /\ BeginCall(c, Closing(id, {}))
  /\ peers' = [peers EXCEPT ![id] = None]
  /\ UNCHANGED <<closed, made, active, runner, signal, upkeep>>

\* The connection is closed; the count, a u64, is not taken below zero.
Closed(c) ==
  /\ In(c, "close")
  /\ closed' = closed \cup {call[c].conn}
  /\ active' = IF active = 0 THEN 0 ELSE active - 1
  /\ Do(c, Rest("shutdown", call[c].later))
  /\ UNCHANGED <<peers, made, runner, signal, upkeep, calls>>

\* shutdown puts a signal into the channel, which has room for one; when start
\* is done the channel is closed, and the error is only logged.
Shutdown(c) ==
  /\ BeginCall(c, [op |-> "signal"])
  /\ UNCHANGED <<peers, closed, made, active, runner, signal, upkeep>>

\* Mutant: a signal that finds the channel closed waits as well.
SendSignalWaiting(c) ==
  /\ In(c, "signal")
  /\ ~signal /\ runner # "done"
  /\ signal' = TRUE
  /\ Do(c, [op |-> "list"])
  /\ UNCHANGED <<peers, closed, made, active, runner, upkeep, calls>>

SendSignal(c) ==
  /\ In(c, "signal")
  /\ runner = "done" \/ ~signal
  /\ signal' = (runner # "done")
  /\ Do(c, [op |-> "list"])
  /\ UNCHANGED <<peers, closed, made, active, runner, upkeep, calls>>

\* Then it lists the peers and disconnects one after the other.
ListForShutdown(c) ==
  /\ In(c, "list") /\ CanRead
  /\ Do(c, Rest("shutdown", Connected))
  /\ UNCHANGED <<peers, closed, made, active, runner, signal, upkeep, calls>>

DisconnectNext(c, id) ==
  /\ In(c, "shutdown") /\ CanWrite
  /\ id \in call[c].later
  /\ LET later == call[c].later \ {id}
     IN  Do(c, IF peers[id] = None THEN Rest("shutdown", later) ELSE Closing(id, later))
  /\ peers' = [peers EXCEPT ![id] = None]
  /\ UNCHANGED <<closed, made, active, runner, signal, upkeep, calls>>

(***************************************************************************)
(* The maintenance task                                                    *)
(***************************************************************************)
\* A peer is stale when its last_seen, which every message in either direction
\* refreshes, is older than twice the connection timeout.  As any time may pass
\* between two steps, any set of peers may be found stale.
ListStale(stale) ==
  /\ Started /\ upkeep.at = "list" /\ CanRead
  /\ stale \subseteq Connected
  /\ upkeep' = IF stale = {} THEN [at |-> "read"] ELSE [at |-> "remove", ids |-> stale]
  /\ UNCHANGED <<peers, closed, made, active, runner, signal, call, calls>>

\* The peers are removed by their ids, whatever became of them since; their
\* connections are not closed.
RemoveStale ==
  /\ upkeep.at = "remove" /\ CanWrite
  /\ peers' = [id \in Ids |-> IF id \in upkeep.ids THEN None ELSE peers[id]]
  /\ upkeep' = [at |-> "read"]
  /\ UNCHANGED <<closed, made, active, runner, signal, call, calls>>

ReadCount ==
  /\ upkeep.at = "read" /\ CanRead
  /\ upkeep' = [at |-> "set", count |-> Cardinality(Connected)]
  /\ UNCHANGED <<peers, closed, made, active, runner, signal, call, calls>>

\* Mutant: the count is left as it is.
SkipCount ==
  /\ upkeep.at = "set"
  /\ upkeep' = [at |-> "list"]
  /\ UNCHANGED <<peers, closed, made, active, runner, signal, call, calls>>

SetCount ==
  /\ upkeep.at = "set"
  /\ active' = upkeep.count
  /\ upkeep' = [at |-> "list"]
  /\ UNCHANGED <<peers, closed, made, runner, signal, call, calls>>

Maintain == (\E stale \in SUBSET Ids : ListStale(stale)) \/ RemoveStale \/ ReadCount \/ SetCount

\* What p does of a call it has begun.
Proceed(p) ==
  \/ InsertPeer(p)
  \/ CountPeer(p)
  \/ \E id \in Ids : Sent(p, id)
  \/ Closed(p)
  \/ SendSignal(p)
  \/ ListForShutdown(p)
  \/ \E id \in Ids : DisconnectNext(p, id)

Next ==
  \/ Start
  \/ \E id \in Bootstrap : ConnectBootstrap(id)
  \/ SpawnTasks
  \/ ReceiveSignal
  \/ \E c \in Callers :
       \/ \E id \in Ids \ Bootstrap : Connect(c, id)
       \/ \E id \in Ids : SendMessage(c, id) \/ Disconnect(c, id)
       \/ BroadcastMessage(c)
       \/ Shutdown(c)
  \/ \E p \in Processes : ConnectFails(p) \/ Proceed(p)
  \/ ListForPings
  \/ \E id \in Ids : Ping(id)
  \/ Maintain

\* Tasks are scheduled, sends end by their timeout, and tokio's RwLock is fair:
\* who waits for it gets it, however many readers come and go.
Fairness ==
  /\ WF_vars(ReceiveSignal)
  /\ \A p \in Processes : SF_vars(Proceed(p))
  /\ SF_vars(Maintain)

Spec == Init /\ [][Next]_vars /\ Fairness

-----------------------------------------------------------------------------
(***************************************************************************)
(* Properties                                                              *)
(***************************************************************************)
CallType ==
  [op : {"connect"}, id : Ids, conn : Conns, later : SUBSET Ids]
    \cup [op : {"send"}, to : (SUBSET Ids) \ {{}}, later : SUBSET Ids]
    \cup [op : {"close"}, conn : Conns, later : SUBSET Ids]
    \cup [op : {"boot", "ping", "shutdown"}, later : (SUBSET Ids) \ {{}}]
    \cup [op : {"count"}, later : SUBSET Ids]
    \cup [op : {"signal", "list"}]

UpkeepType ==
  [at : {"list", "read"}]
    \cup [at : {"remove"}, ids : SUBSET Ids]
    \cup [at : {"set"}, count : Nat]

\* Every variable has its type; the count never goes below zero (it is a u64).
TypeOK ==
  /\ peers \in [Ids -> Conns \cup {None}]
  /\ closed \subseteq Conns
  /\ made \in 0 .. MaxConns /\ active \in Nat
  /\ runner \in {"new", "connecting", "running", "done"} /\ signal \in BOOLEAN
  /\ call \in [Processes -> CallType \cup {None}]
  /\ upkeep \in UpkeepType /\ calls \in Nat

\* A message is only ever sent over a connection that is in the table and open:
\* nobody takes a peer away, or closes its connection, in the middle of a send.
SendsAreOverOpenConnections ==
  \A p \in Processes : In(p, "send") =>
    \A id \in call[p].to : peers[id] # None /\ peers[id] \notin closed

\* Every variable has its type (the count of connections never goes below zero),
\* a connection belongs to one id, and one that was closed is not in the table.
ConnectionsAreOwned ==
  /\ \A id \in Connected : peers[id] \notin closed
  /\ \A id, other \in Connected : id # other => peers[id] # peers[other]

TableIsClean == TypeOK /\ ConnectionsAreOwned

\* Once the network was started, every shutdown comes to its end, also when
\* several are under way.  (Before, the second would wait for the first
\* signal to be taken from the channel.)
InShutdown(c) == \E op \in {"signal", "list", "shutdown", "close"} : In(c, op)

ShutdownEnds == \A c \in Callers : (Started /\ InShutdown(c)) ~> Idle(c)

\* Overlapping calls spoil the count of active connections, which is kept apart
\* from the table.  Once the network was started and calls have ceased, it is
\* right again and stays so.
CountHeals ==
  <>Started => <>[](active = Cardinality(Connected))
=============================================================================
