-------------------------- MODULE P2PNetworkProofs --------------------------
(***************************************************************************)
(* Proofs about the peer table and, at the end, the signaling server and   *)
(* the lock of the discovery service.                                      *)
(*                                                                         *)
(* That nothing is sent over a closed connection is not inductive: closing *)
(* happens long after the connection left the table.  The strengthening is *)
(* ownership: a connection is in the table, or held by the one call that   *)
(* is about to insert or to close it, or closed, and never two of these.   *)
(***************************************************************************)
EXTENDS P2PNetwork, Signaling, PeerDiscovery, FiniteSetTheorems, TLAPS

Holds(p) == In(p, "connect") \/ In(p, "close")

\* A connection held by a call was made, is open, is not in the table, and is
\* held by no other call.
HeldApart ==
  \A p \in Processes : Holds(p) =>
    /\ call[p].conn <= made
    /\ call[p].conn \notin closed
    /\ \A id \in Ids : peers[id] # call[p].conn
    /\ \A q \in Processes : Holds(q) /\ q # p => call[q].conn # call[p].conn

\* Only connections that were made are in the table, or closed.
OnlyMade ==
  /\ \A id \in Connected : peers[id] <= made
  /\ \A n \in closed : n <= made

Inv == TypeOK /\ OnlyMade /\ HeldApart /\ SendsAreOverOpenConnections /\ ConnectionsAreOwned

-----------------------------------------------------------------------------
(***************************************************************************)
(* The call a process is in                                                *)
(***************************************************************************)

\* What Rest returns is a call, or none.
LEMMA RestType ==
  ASSUME NEW op \in {"boot", "ping", "shutdown"}, NEW ids \in SUBSET Ids
  PROVE  Rest(op, ids) \in CallType \cup {None}
<1>1. CASE ids = {}
  BY <1>1 DEF Rest
<1>2. CASE ids # {}
  <2>1. [op |-> op, later |-> ids]
          \in [op : {"boot", "ping", "shutdown"}, later : (SUBSET Ids) \ {{}}]
    BY <1>2
  <2>. QED  BY <1>2, <2>1, Zenon DEF Rest, CallType
<1>. QED  BY <1>1, <1>2

\* A process that begins or goes on with a call is in a call.
LEMMA DoType ==
  ASSUME call \in [Processes -> CallType \cup {None}],
         NEW p \in Processes, NEW step \in CallType \cup {None}, Do(p, step)
  PROVE  /\ call' \in [Processes -> CallType \cup {None}]
         /\ call'[p] = step
         /\ \A q \in Processes : q # p => call'[q] = call[q]
  BY DEF Do

\* A call is known by its op.
LEMMA CallFields ==
  ASSUME call \in [Processes -> CallType \cup {None}], NEW p \in Processes
  PROVE  /\ In(p, "connect") => call[p] \in [op : {"connect"}, id : Ids, conn : Conns,
                                             later : SUBSET Ids]
         /\ In(p, "count") => call[p] \in [op : {"count"}, later : SUBSET Ids]
         /\ In(p, "send") => call[p] \in [op : {"send"}, to : (SUBSET Ids) \ {{}},
                                          later : SUBSET Ids]
         /\ In(p, "close") => call[p] \in [op : {"close"}, conn : Conns, later : SUBSET Ids]
         /\ \A op \in {"boot", "ping", "shutdown"} :
              In(p, op) => call[p] \in [op : {op}, later : (SUBSET Ids) \ {{}}]
  BY DEF In, Idle, CallType

-----------------------------------------------------------------------------
(***************************************************************************)
(* Types                                                                   *)
(***************************************************************************)
LEMMA InitType == Init => TypeOK
<1>1. [at |-> "list"] \in UpkeepType
  BY DEF UpkeepType
<1>2. ASSUME Init PROVE call \in [Processes -> CallType \cup {None}]
  BY <1>2 DEF Init
<1>3. ASSUME Init PROVE peers \in [Ids -> Conns \cup {None}] /\ made \in 0 .. MaxConns
  BY <1>3, NetworkAssumption DEF Init
<1>4. ASSUME Init PROVE upkeep \in UpkeepType
  BY <1>1, <1>4, Zenon DEF Init
<1>5. ASSUME Init
      PROVE  /\ closed \subseteq Conns /\ active \in Nat /\ calls \in Nat
             /\ runner \in {"new", "connecting", "running", "done"} /\ signal \in BOOLEAN
  BY <1>5 DEF Init
<1>. QED  BY <1>2, <1>3, <1>4, <1>5 DEF TypeOK

\* One step for each action; the calls are typed by the lemmas above.
LEMMA TypeStep == TypeOK /\ [Next]_vars => TypeOK'
<1>. SUFFICES ASSUME TypeOK, [Next]_vars PROVE TypeOK'
  OBVIOUS
<1>. USE NetworkAssumption
<1>0. call \in [Processes -> CallType \cup {None}] /\ Callers \subseteq Processes
      /\ Runner \in Processes /\ KeepAlive \in Processes
  BY DEF TypeOK, Processes
<1>1. ASSUME Start PROVE TypeOK'
  <2>1. Rest("boot", Bootstrap) \in CallType \cup {None}
    BY RestType
  <2>. QED  BY <1>0, <1>1, <2>1, DoType DEF Start, TypeOK
<1>2. ASSUME NEW id \in Bootstrap, ConnectBootstrap(id) PROVE TypeOK'
  <2>1. call[Runner] \in [op : {"boot"}, later : (SUBSET Ids) \ {{}}]
    BY <1>0, <1>2, CallFields DEF ConnectBootstrap
  <2>2. PICK step : step = Connecting(id, call[Runner].later \ {id})
    OBVIOUS
  <2>3. step \in CallType
    BY <1>2, <2>1, <2>2 DEF Connecting, ConnectBootstrap, CallType, TypeOK, Conns
  <2>. QED  BY <1>0, <1>2, <2>2, <2>3, DoType DEF ConnectBootstrap, TypeOK
<1>3. ASSUME SpawnTasks \/ ReceiveSignal PROVE TypeOK'
  BY <1>3 DEF SpawnTasks, ReceiveSignal, TypeOK
<1>4. ASSUME NEW c \in Callers, NEW id \in Ids, Connect(c, id) PROVE TypeOK'
  <2>1. PICK step : step = Connecting(id, {})
    OBVIOUS
  <2>2. step \in CallType
    BY <1>4, <2>1 DEF Connecting, Connect, CallType, TypeOK, Conns
  <2>. QED  BY <1>0, <1>4, <2>1, <2>2, DoType DEF Connect, BeginCall, TypeOK
<1>5. ASSUME NEW c \in Callers, NEW to \in (SUBSET Ids) \ {{}},
             BeginCall(c, [op |-> "send", to |-> to, later |-> {}]),
             UNCHANGED <<peers, closed, made, active, runner, signal, upkeep>>
      PROVE  TypeOK'
  <2>1. PICK step : step = [op |-> "send", to |-> to, later |-> {}]
    OBVIOUS
  <2>2. step \in CallType
    BY <2>1 DEF CallType
  <2>. QED  BY <1>0, <1>5, <2>1, <2>2, DoType DEF BeginCall, TypeOK
<1>6. ASSUME NEW c \in Callers, NEW id \in Ids, SendMessage(c, id) PROVE TypeOK'
  BY <1>5, <1>6 DEF SendMessage
<1>7. ASSUME NEW c \in Callers, BroadcastMessage(c) PROVE TypeOK'
  <2>1. Connected \in (SUBSET Ids) \ {{}}
    BY <1>7 DEF BroadcastMessage, Connected
  <2>. QED  BY <1>5, <1>7, <2>1 DEF BroadcastMessage
<1>8. ASSUME NEW id \in Ids, NEW later \in SUBSET Ids, peers[id] # None
      PROVE  Closing(id, later) \in CallType
  BY <1>8 DEF Closing, CallType, TypeOK
<1>9. ASSUME NEW c \in Callers, NEW id \in Ids, Disconnect(c, id) PROVE TypeOK'
  <2>1. Closing(id, {}) \in CallType
    BY <1>8, <1>9 DEF Disconnect
  <2>. QED  BY <1>0, <1>9, <2>1, DoType DEF Disconnect, BeginCall, TypeOK
<1>10. ASSUME NEW c \in Callers, Shutdown(c) PROVE TypeOK'
  <2>1. [op |-> "signal"] \in CallType
    BY DEF CallType
  <2>. QED  BY <1>0, <1>10, <2>1, DoType DEF Shutdown, BeginCall, TypeOK
<1>11. ASSUME NEW p \in Processes, ConnectFails(p) \/ CountPeer(p) PROVE TypeOK'
  <2>1. call[p].later \in SUBSET Ids
    BY <1>0, <1>11, CallFields DEF ConnectFails, CountPeer
  <2>2. Rest("boot", call[p].later) \in CallType \cup {None}
    BY <2>1, RestType
  <2>. QED  BY <1>0, <1>11, <2>2, DoType DEF ConnectFails, CountPeer, TypeOK
<1>12. ASSUME NEW p \in Processes, InsertPeer(p) PROVE TypeOK'
  <2>1. call[p] \in [op : {"connect"}, id : Ids, conn : Conns, later : SUBSET Ids]
    BY <1>0, <1>12, CallFields DEF InsertPeer
  <2>2. PICK step : step = [op |-> "count", later |-> call[p].later]
    OBVIOUS
  <2>3. step \in CallType
    BY <2>1, <2>2 DEF CallType
  <2>. QED  BY <1>0, <1>12, <2>1, <2>2, <2>3, DoType DEF InsertPeer, TypeOK
<1>13. ASSUME NEW p \in Processes, NEW id \in Ids, Sent(p, id) PROVE TypeOK'
  <2>1. call[p] \in [op : {"send"}, to : (SUBSET Ids) \ {{}}, later : SUBSET Ids]
    BY <1>0, <1>13, CallFields DEF Sent
  <2>2. PICK to : to = call[p].to \ {id}
    OBVIOUS
  <2>3. PICK step : step = IF to # {} THEN [call[p] EXCEPT !.to = to]
                                      ELSE Rest("ping", call[p].later)
    OBVIOUS
  <2>4. step \in CallType \cup {None}
    <3>1. CASE to = {}
      BY <2>1, <2>3, <3>1, RestType
    <3>2. CASE to # {}
      <4>1. step \in [op : {"send"}, to : (SUBSET Ids) \ {{}}, later : SUBSET Ids]
        BY <2>1, <2>2, <2>3, <3>2
      <4>. QED  BY <4>1, Zenon DEF CallType
    <3>. QED  BY <3>1, <3>2
  <2>5. Do(p, step)
    BY <1>13, <2>2, <2>3, Zenon DEF Sent
  <2>. QED  BY <1>0, <1>13, <2>4, <2>5, DoType DEF Sent, TypeOK
<1>14. ASSUME NEW p \in Processes, Closed(p) PROVE TypeOK'
  <2>1. call[p] \in [op : {"close"}, conn : Conns, later : SUBSET Ids]
    BY <1>0, <1>14, CallFields DEF Closed
  <2>2. Rest("shutdown", call[p].later) \in CallType \cup {None}
    BY <2>1, RestType
  <2>3. call' \in [Processes -> CallType \cup {None}]
    BY <1>0, <1>14, <2>2, DoType DEF Closed
  <2>. QED  BY <1>14, <2>1, <2>3 DEF Closed, TypeOK
<1>15. ASSUME NEW p \in Processes, SendSignal(p) PROVE TypeOK'
  <2>1. [op |-> "list"] \in CallType
    BY DEF CallType
  <2>. QED  BY <1>0, <1>15, <2>1, DoType DEF SendSignal, TypeOK
<1>16. ASSUME NEW p \in Processes, ListForShutdown(p) PROVE TypeOK'
  <2>1. Rest("shutdown", Connected) \in CallType \cup {None}
    BY RestType DEF Connected
  <2>. QED  BY <1>0, <1>16, <2>1, DoType DEF ListForShutdown, TypeOK
<1>17. ASSUME NEW p \in Processes, NEW id \in Ids, DisconnectNext(p, id) PROVE TypeOK'
  <2>1. call[p].later \ {id} \in SUBSET Ids
    BY <1>0, <1>17, CallFields DEF DisconnectNext
  <2>2. PICK later : later = call[p].later \ {id}
    OBVIOUS
  <2>3. PICK step : step = IF peers[id] = None THEN Rest("shutdown", later)
                                               ELSE Closing(id, later)
    OBVIOUS
  <2>4. step \in CallType \cup {None}
    BY <1>8, <2>1, <2>2, <2>3, RestType
  <2>5. Do(p, step)
    BY <1>17, <2>2, <2>3, Zenon DEF DisconnectNext
  <2>. QED  BY <1>0, <1>17, <2>4, <2>5, DoType DEF DisconnectNext, TypeOK
<1>18. ASSUME ListForPings PROVE TypeOK'
  <2>1. [op |-> "ping", later |-> Connected] \in CallType
    BY <1>18 DEF ListForPings, Connected, CallType
  <2>. QED  BY <1>0, <1>18, <2>1, DoType DEF ListForPings, TypeOK
<1>19. ASSUME NEW id \in Ids, Ping(id) PROVE TypeOK'
  <2>1. call[KeepAlive].later \ {id} \in SUBSET Ids
    BY <1>0, <1>19, CallFields DEF Ping
  <2>2. PICK later : later = call[KeepAlive].later \ {id}
    OBVIOUS
  <2>3. PICK step : step = IF peers[id] = None THEN Rest("ping", later)
                           ELSE [op |-> "send", to |-> {id}, later |-> later]
    OBVIOUS
  <2>4. [op |-> "send", to |-> {id}, later |-> later] \in CallType
    BY <2>1, <2>2 DEF CallType
  <2>5. step \in CallType \cup {None}
    BY <2>1, <2>2, <2>3, <2>4, RestType
  <2>6. Do(KeepAlive, step)
    BY <1>19, <2>2, <2>3, Zenon DEF Ping
  <2>. QED  BY <1>0, <1>19, <2>5, <2>6, DoType DEF Ping, TypeOK
<1>20. ASSUME Maintain PROVE TypeOK'
  <2>1. ASSUME NEW stale \in SUBSET Ids, ListStale(stale) PROVE TypeOK'
    BY <2>1 DEF ListStale, TypeOK, UpkeepType
  <2>2. ASSUME RemoveStale PROVE TypeOK'
    BY <2>2 DEF RemoveStale, TypeOK, UpkeepType
  <2>3. ASSUME ReadCount PROVE TypeOK'
    <3>1. Cardinality(Connected) \in Nat
      BY FS_Subset, FS_CardinalityType DEF Connected
    <3>. QED  BY <2>3, <3>1 DEF ReadCount, TypeOK, UpkeepType
  <2>4. ASSUME SetCount PROVE TypeOK'
    BY <2>4 DEF SetCount, TypeOK, UpkeepType
  <2>. QED  BY <1>20, <2>1, <2>2, <2>3, <2>4 DEF Maintain
<1>21. ASSUME UNCHANGED vars PROVE TypeOK'
  BY <1>21 DEF vars, TypeOK
<1>. QED
  BY <1>1, <1>2, <1>3, <1>4, <1>6, <1>7, <1>9, <1>10, <1>11, <1>12, <1>13, <1>14, <1>15,
     <1>16, <1>17, <1>18, <1>19, <1>20, <1>21, NetworkAssumption DEF Next, Proceed

-----------------------------------------------------------------------------
(***************************************************************************)
(* Ownership of connections                                                *)
(***************************************************************************)
LEMMA InitInv == Init => Inv
<1>. SUFFICES ASSUME Init PROVE Inv
  OBVIOUS
<1>1. \A p \in Processes : ~Holds(p) /\ ~In(p, "send")
  BY DEF Init, Holds, In, Idle
<1>2. Connected = {} /\ closed = {}
  BY DEF Init, Connected
<1>. QED
  BY <1>1, <1>2, InitType
  DEF Inv, OnlyMade, HeldApart, SendsAreOverOpenConnections, ConnectionsAreOwned

\* A step that leaves the table, the connections and the holders alone, and
\* begins no send but to peers in the table, keeps the invariant.
LEMMA QuietStep ==
  ASSUME Inv, TypeOK', UNCHANGED <<peers, closed, made>>,
         NEW p \in Processes, NEW step, Do(p, step),
         step = None \/ step.op \notin {"connect", "close"},
         step = None \/ step.op # "send" \/ (\A id \in step.to : id \in Connected)
  PROVE  Inv'
<1>1. /\ call'[p] = step
      /\ \A q \in Processes : q # p => call'[q] = call[q]
  BY DEF Do, Inv, TypeOK
<1>2. \A q \in Processes : Holds(q)' => Holds(q) /\ call'[q] = call[q]
  BY <1>1 DEF Holds, In, Idle
<1>3. HeldApart'
  BY <1>2 DEF HeldApart, Inv
<1>4. Connected' = Connected
  BY DEF Connected
<1>5. OnlyMade' /\ ConnectionsAreOwned'
  BY <1>4 DEF Inv, OnlyMade, ConnectionsAreOwned
<1>6. SendsAreOverOpenConnections'
  <2>. SUFFICES ASSUME NEW q \in Processes, In(q, "send")', NEW id \in call'[q].to
                PROVE  peers[id] # None /\ peers[id] \notin closed
    BY DEF SendsAreOverOpenConnections
  <2>1. CASE q = p
    BY <1>1, <2>1 DEF In, Idle, Inv, ConnectionsAreOwned, Connected
  <2>2. CASE q # p
    BY <1>1, <2>2 DEF In, Idle, Inv, SendsAreOverOpenConnections
  <2>. QED  BY <2>1, <2>2
<1>. QED  BY <1>3, <1>5, <1>6 DEF Inv

\* So does a step that leaves the calls alone as well.
LEMMA StillStep ==
  ASSUME Inv, TypeOK', UNCHANGED <<peers, closed, made, call>>
  PROVE  Inv'
  BY DEF Inv, OnlyMade, HeldApart, Holds, In, Idle, Connected,
         SendsAreOverOpenConnections, ConnectionsAreOwned

\* A new connection is held by the call that makes it.
LEMMA MakingStep ==
  ASSUME Inv, TypeOK', UNCHANGED <<peers, closed>>, made' = made + 1,
         NEW p \in Processes, NEW id \in Ids, NEW later, Do(p, Connecting(id, later))
  PROVE  Inv'
<1>1. /\ call'[p] = Connecting(id, later)
      /\ \A q \in Processes : q # p => call'[q] = call[q]
  BY DEF Do, Inv, TypeOK
<1>2. call'[p].op = "connect" /\ call'[p].conn = made + 1
  BY <1>1 DEF Connecting
<1>3. made \in Nat /\ MaxConns \in Nat
  BY NetworkAssumption DEF Inv, TypeOK
<1>4. Connected' = Connected
  BY DEF Connected
<1>5. OnlyMade' /\ ConnectionsAreOwned'
  BY <1>3, <1>4 DEF Inv, OnlyMade, ConnectionsAreOwned, TypeOK, Conns, Connected
<1>6. SendsAreOverOpenConnections'
  BY <1>1, <1>2 DEF Inv, SendsAreOverOpenConnections, In, Idle
<1>7. \A i \in Ids : peers[i] # made + 1
  BY <1>3, NetworkAssumption DEF Inv, OnlyMade, Connected, TypeOK
<1>8. made + 1 \notin closed
  BY <1>3 DEF Inv, OnlyMade, TypeOK, Conns
<1>9. \A q \in Processes : q # p /\ Holds(q)' =>
        /\ Holds(q) /\ call'[q] = call[q]
        /\ call[q].conn \in Nat /\ call[q].conn <= made
  BY <1>1, CallFields DEF Holds, In, Idle, Inv, HeldApart, TypeOK, Conns
<1>10. HeldApart'
  BY <1>2, <1>3, <1>7, <1>8, <1>9 DEF HeldApart, Inv
<1>. QED  BY <1>5, <1>6, <1>10 DEF Inv

\* A process that closes the connection of a peer takes it from the table, to
\* which nobody is sending.
LEMMA ClosingStep ==
  ASSUME Inv, TypeOK', UNCHANGED <<closed, made>>, CanWrite,
         NEW p \in Processes, NEW id \in Connected, NEW later, Do(p, Closing(id, later)),
         peers' = [peers EXCEPT ![id] = None]
  PROVE  Inv'
<1>1. /\ call'[p] = Closing(id, later)
      /\ \A q \in Processes : q # p => call'[q] = call[q]
  BY DEF Do, Inv, TypeOK
<1>2. call'[p].op = "close" /\ call'[p].conn = peers[id]
  BY <1>1 DEF Closing
<1>3. /\ id \in Ids
      /\ peers'[id] = None
      /\ \A i \in Ids : i # id => peers'[i] = peers[i]
  BY DEF Inv, TypeOK, Connected
<1>4. Connected' = Connected \ {id}
  BY <1>3 DEF Connected
<1>5. OnlyMade' /\ ConnectionsAreOwned'
  BY <1>3, <1>4 DEF Inv, OnlyMade, ConnectionsAreOwned, Connected
<1>6. SendsAreOverOpenConnections'
  BY <1>1, <1>2 DEF SendsAreOverOpenConnections, In, Idle, CanWrite, Reading
<1>7. peers[id] \in Nat /\ peers[id] <= made /\ peers[id] \notin closed /\ peers[id] # None
  BY DEF Inv, TypeOK, OnlyMade, ConnectionsAreOwned, Connected, Conns
<1>8. \A i \in Ids : peers'[i] # peers[id]
  BY <1>3, <1>7 DEF Inv, ConnectionsAreOwned, Connected
<1>9. \A q \in Processes : q # p /\ Holds(q)' => Holds(q) /\ call'[q] = call[q]
  BY <1>1 DEF Holds, In, Idle
<1>10. \A q \in Processes : Holds(q) => call[q].conn # None
  BY CallFields, NetworkAssumption DEF Holds, Inv, TypeOK, Conns
<1>11. HeldApart'
  BY <1>2, <1>3, <1>7, <1>8, <1>9, <1>10 DEF HeldApart, Inv
<1>. QED  BY <1>5, <1>6, <1>11 DEF Inv

LEMMA RestOp ==
  ASSUME NEW op, NEW ids
  PROVE  Rest(op, ids) = None \/ Rest(op, ids).op = op
  BY DEF Rest

\* Ownership is kept by every step: one step of the proof for each action.
LEMMA InvStep == Inv /\ [Next]_vars => Inv'
<1>. SUFFICES ASSUME Inv, [Next]_vars PROVE Inv'
  OBVIOUS
<1>. USE TypeStep DEF Inv
<1>0. TypeOK' /\ Callers \subseteq Processes /\ Runner \in Processes /\ KeepAlive \in Processes
  BY DEF Processes
<1>1. ASSUME Start PROVE Inv'
  <2>1. PICK step : step = Rest("boot", Bootstrap)
    OBVIOUS
  <2>. QED  BY <1>0, <1>1, <2>1, RestOp, QuietStep DEF Start
<1>2. ASSUME SpawnTasks \/ ReceiveSignal \/ UNCHANGED vars PROVE Inv'
  BY <1>0, <1>2, StillStep DEF SpawnTasks, ReceiveSignal, vars
<1>3. ASSUME NEW id \in Bootstrap, ConnectBootstrap(id) PROVE Inv'
  BY <1>0, <1>3, MakingStep, NetworkAssumption DEF ConnectBootstrap
<1>4. ASSUME NEW c \in Callers, NEW id \in Ids, Connect(c, id) PROVE Inv'
  BY <1>0, <1>4, MakingStep DEF Connect, BeginCall
<1>5. ASSUME NEW c \in Callers, NEW id \in Ids, SendMessage(c, id) PROVE Inv'
  <2>1. PICK step : step = [op |-> "send", to |-> {id}, later |-> {}]
    OBVIOUS
  <2>. QED  BY <1>0, <1>5, <2>1, QuietStep DEF SendMessage, BeginCall, Connected
<1>6. ASSUME NEW c \in Callers, BroadcastMessage(c) PROVE Inv'
  <2>1. PICK step : step = [op |-> "send", to |-> Connected, later |-> {}]
    OBVIOUS
  <2>. QED  BY <1>0, <1>6, <2>1, QuietStep DEF BroadcastMessage, BeginCall
<1>7. ASSUME NEW c \in Callers, NEW id \in Ids, Disconnect(c, id) PROVE Inv'
  BY <1>0, <1>7, ClosingStep DEF Disconnect, BeginCall, Connected
<1>8. ASSUME NEW c \in Callers, Shutdown(c) PROVE Inv'
  BY <1>0, <1>8, QuietStep DEF Shutdown, BeginCall
<1>9. ASSUME NEW p \in Processes, ConnectFails(p) \/ CountPeer(p) PROVE Inv'
  <2>1. PICK step : step = Rest("boot", call[p].later)
    OBVIOUS
  <2>. QED  BY <1>0, <1>9, <2>1, RestOp, QuietStep DEF ConnectFails, CountPeer
<1>10. ASSUME NEW p \in Processes, InsertPeer(p) PROVE Inv'
  <2>1. /\ call'[p].op = "count"
        /\ \A q \in Processes : q # p => call'[q] = call[q]
        /\ \A q \in Processes : ~In(q, "send")
    BY <1>10 DEF InsertPeer, Do, TypeOK, CanWrite, Reading
  <2>2. SendsAreOverOpenConnections'
    BY <2>1 DEF SendsAreOverOpenConnections, In, Idle
  <2>3. PICK n : n = call[p].conn
    OBVIOUS
  <2>4. /\ n \in Nat /\ n # None /\ n <= made /\ n \notin closed
        /\ \A id \in Ids : peers[id] # n
        /\ \A q \in Processes : Holds(q) /\ q # p => call[q].conn # n
    BY <1>10, <2>3, CallFields, NetworkAssumption
    DEF InsertPeer, HeldApart, Holds, TypeOK, Conns
  <2>5. \A id \in Ids : peers'[id] = IF id = call[p].id THEN n ELSE peers[id]
    BY <1>10, <2>3 DEF InsertPeer, TypeOK
  <2>6. OnlyMade' /\ ConnectionsAreOwned'
    BY <1>10, <2>4, <2>5 DEF InsertPeer, OnlyMade, ConnectionsAreOwned, Connected
  <2>7. \A q \in Processes : Holds(q)' => Holds(q) /\ q # p /\ call'[q] = call[q]
    BY <2>1 DEF Holds, In, Idle
  <2>8. HeldApart'
    BY <1>10, <2>4, <2>5, <2>7 DEF InsertPeer, HeldApart
  <2>. QED  BY <1>0, <2>2, <2>6, <2>8
<1>11. ASSUME NEW p \in Processes, NEW id \in Ids, Sent(p, id) PROVE Inv'
  <2>1. call[p] \in [op : {"send"}, to : (SUBSET Ids) \ {{}}, later : SUBSET Ids]
    BY <1>11, CallFields DEF Sent, TypeOK
  <2>2. PICK to : to = call[p].to \ {id}
    OBVIOUS
  <2>3. PICK step : step = IF to # {} THEN [call[p] EXCEPT !.to = to]
                                      ELSE Rest("ping", call[p].later)
    OBVIOUS
  <2>4. Do(p, step) /\ UNCHANGED <<peers, closed, made>>
    BY <1>11, <2>2, <2>3, Zenon DEF Sent
  <2>5. CASE to = {}
    BY <1>0, <2>3, <2>4, <2>5, RestOp, QuietStep
  <2>6. CASE to # {}
    <3>1. step.op = "send" /\ step.to = to
      BY <2>1, <2>3, <2>6
    <3>2. \A other \in to : other \in Connected
      BY <1>11, <2>1, <2>2 DEF Sent, SendsAreOverOpenConnections, Connected
    <3>. QED  BY <1>0, <2>4, <3>1, <3>2, QuietStep
  <2>. QED  BY <2>5, <2>6
<1>12. ASSUME NEW p \in Processes, Closed(p) PROVE Inv'
  <2>1. PICK step : step = Rest("shutdown", call[p].later)
    OBVIOUS
  <2>2. /\ call'[p] = step
        /\ step = None \/ step.op = "shutdown"
        /\ \A q \in Processes : q # p => call'[q] = call[q]
    BY <1>12, <2>1, RestOp DEF Closed, Do, TypeOK
  <2>3. /\ \A id \in Ids : peers[id] # call[p].conn
        /\ call[p].conn <= made
        /\ \A q \in Processes : Holds(q) /\ q # p => call[q].conn # call[p].conn
    BY <1>12 DEF Closed, HeldApart, Holds
  <2>4. \A q \in Processes : (Holds(q) \/ In(q, "send"))' => q # p /\ call'[q] = call[q]
    BY <2>2 DEF Holds, In, Idle
  <2>5. OnlyMade' /\ ConnectionsAreOwned'
    BY <1>12, <2>3 DEF Closed, OnlyMade, ConnectionsAreOwned, Connected
  <2>6. SendsAreOverOpenConnections'
    BY <1>12, <2>3, <2>4, CallFields DEF Closed, SendsAreOverOpenConnections, In, Idle, TypeOK
  <2>7. HeldApart'
    BY <1>12, <2>3, <2>4 DEF Closed, HeldApart, Holds, In, Idle
  <2>. QED  BY <1>0, <2>5, <2>6, <2>7
<1>13. ASSUME NEW p \in Processes, SendSignal(p) PROVE Inv'
  BY <1>0, <1>13, QuietStep DEF SendSignal
<1>14. ASSUME NEW p \in Processes, ListForShutdown(p) PROVE Inv'
  <2>1. PICK step : step = Rest("shutdown", Connected)
    OBVIOUS
  <2>. QED  BY <1>0, <1>14, <2>1, RestOp, QuietStep DEF ListForShutdown
<1>15. ASSUME NEW p \in Processes, NEW id \in Ids, DisconnectNext(p, id) PROVE Inv'
  <2>1. PICK later : later = call[p].later \ {id}
    OBVIOUS
  <2>2. CASE peers[id] = None
    <3>1. PICK step : step = Rest("shutdown", later)
      OBVIOUS
    <3>2. Do(p, step)
      BY <1>15, <2>1, <2>2, <3>1 DEF DisconnectNext
    <3>3. UNCHANGED <<peers, closed, made>>
      BY <1>15, <2>2 DEF DisconnectNext, TypeOK
    <3>. QED  BY <1>0, <3>1, <3>2, <3>3, RestOp, QuietStep
  <2>3. CASE peers[id] # None
    <3>1. Do(p, Closing(id, later))
      BY <1>15, <2>1, <2>3 DEF DisconnectNext
    <3>. QED  BY <1>0, <1>15, <2>3, <3>1, ClosingStep DEF DisconnectNext, Connected
  <2>. QED  BY <2>2, <2>3
<1>16. ASSUME ListForPings PROVE Inv'
  <2>1. PICK step : step = [op |-> "ping", later |-> Connected]
    OBVIOUS
  <2>. QED  BY <1>0, <1>16, <2>1, QuietStep DEF ListForPings
<1>17. ASSUME NEW id \in Ids, Ping(id) PROVE Inv'
  <2>1. PICK later : later = call[KeepAlive].later \ {id}
    OBVIOUS
  <2>2. PICK step : step = IF peers[id] = None THEN Rest("ping", later)
                           ELSE [op |-> "send", to |-> {id}, later |-> later]
    OBVIOUS
  <2>3. Do(KeepAlive, step) /\ UNCHANGED <<peers, closed, made>>
    BY <1>17, <2>1, <2>2, Zenon DEF Ping
  <2>4. CASE peers[id] = None
    BY <1>0, <2>2, <2>3, <2>4, RestOp, QuietStep
  <2>5. CASE peers[id] # None
    BY <1>0, <2>2, <2>3, <2>5, QuietStep DEF Connected
  <2>. QED  BY <2>4, <2>5
<1>18. ASSUME Maintain PROVE Inv'
  <2>1. ASSUME RemoveStale PROVE Inv'
    <3>1. \A id \in Ids : peers'[id] = None \/ peers'[id] = peers[id]
      BY <2>1 DEF RemoveStale
    <3>2. \A q \in Processes : ~In(q, "send")'
      BY <2>1 DEF RemoveStale, CanWrite, Reading, In, Idle
    <3>3. OnlyMade' /\ ConnectionsAreOwned' /\ SendsAreOverOpenConnections'
      BY <2>1, <3>1, <3>2
      DEF RemoveStale, OnlyMade, ConnectionsAreOwned, SendsAreOverOpenConnections, Connected
    <3>4. \A p \in Processes : Holds(p) => call[p].conn # None
      BY CallFields, NetworkAssumption DEF Holds, TypeOK, Conns
    <3>5. HeldApart'
      BY <2>1, <3>1, <3>4 DEF RemoveStale, HeldApart, Holds, In, Idle
    <3>. QED  BY <1>0, <3>3, <3>5
  <2>2. ASSUME NEW stale \in SUBSET Ids, ListStale(stale) \/ ReadCount \/ SetCount PROVE Inv'
    BY <1>0, <2>2, StillStep DEF ListStale, ReadCount, SetCount
  <2>. QED  BY <1>18, <2>1, <2>2 DEF Maintain
<1>. QED
  BY <1>1, <1>2, <1>3, <1>4, <1>5, <1>6, <1>7, <1>8, <1>9, <1>10, <1>11, <1>12, <1>13,
     <1>14, <1>15, <1>16, <1>17, <1>18, <1>0, NetworkAssumption DEF Next, Proceed

-----------------------------------------------------------------------------
(***************************************************************************)
(* The theorems                                                            *)
(***************************************************************************)

\* Ownership holds in every state.
LEMMA InvAlways == Spec => []Inv
  BY InitInv, InvStep, PTL DEF Spec

\* Whatever connections, disconnections, shutdowns and clean-ups go on, a
\* message is only sent over a connection that is in the table and open.
THEOREM SendsAreSafe == Spec => []SendsAreOverOpenConnections
<1>1. Inv => SendsAreOverOpenConnections
  BY DEF Inv
<1>. QED  BY <1>1, InvAlways, PTL

\* Every variable of the peer table keeps its type, the count of active
\* connections never goes below zero, a connection belongs to one id, and is gone
\* from the table when it is closed.
THEOREM TableStaysClean == Spec => []TableIsClean
<1>1. Inv => TableIsClean
  BY DEF Inv, TableIsClean
<1>. QED  BY <1>1, InvAlways, PTL

-----------------------------------------------------------------------------
(***************************************************************************)
(* The signaling server, for any number of connections and any capacity:   *)
(* the variables keep their types, connections are counted right, and no   *)
(* client gets a message after one it missed.  NoGaps is inductive as it   *)
(* stands.                                                                 *)
(***************************************************************************)
Up == {c \in Connections : handler[c].at \notin {"none", "closed"}}

\* Who is up stays so, as long as no handler starts or ends.
LEMMA UpStays ==
  ASSUME NoGaps, NEW c \in Connections, NEW step \in Steps,
         handler[c].at \notin {"none", "closed"}, step.at \notin {"none", "closed"},
         handler' = [handler EXCEPT ![c] = step]
  PROVE  /\ handler' \in [Connections -> Steps]
         /\ Up' = Up
         /\ \A d \in Connections : (handler'[d].at = "none") = (handler[d].at = "none")
<1>1. handler \in [Connections -> Steps]
  BY DEF NoGaps, SignalingTypes
<1> QED BY <1>1 DEF Up

LEMMA UpGrows ==
  ASSUME NoGaps, NEW c \in Connections, At(c, "none"), Step(c, [at |-> "idle"])
  PROVE  /\ handler' \in [Connections -> Steps]
         /\ Cardinality(Up') = Cardinality(Up) + 1
         /\ \A d \in Connections \ {c} : handler'[d] = handler[d]
         /\ handler'[c].at = "idle"
<1>1. handler \in [Connections -> Steps] /\ [at |-> "idle"] \in Steps
  BY DEF NoGaps, SignalingTypes, Steps
<1>2. Up' = Up \cup {c} /\ c \notin Up
  BY <1>1 DEF Up, At, Step
<1>3. IsFiniteSet(Up)
  BY FS_Subset, SignalingAssumption DEF Up
<1>4. Cardinality(Up') = Cardinality(Up) + 1
  BY <1>2, <1>3, FS_AddElement
<1> QED BY <1>1, <1>4 DEF Step

LEMMA UpShrinks ==
  ASSUME NoGaps, NEW c \in Connections, At(c, "leave"), Step(c, [at |-> "closed"])
  PROVE  /\ handler' \in [Connections -> Steps]
         /\ Cardinality(Up) \in Nat /\ Cardinality(Up) # 0
         /\ Cardinality(Up') = Cardinality(Up) - 1
         /\ \A d \in Connections \ {c} : handler'[d] = handler[d]
         /\ handler'[c].at = "closed"
<1>1. handler \in [Connections -> Steps] /\ [at |-> "closed"] \in Steps
  BY DEF NoGaps, SignalingTypes, Steps
<1>2. Up' = Up \ {c} /\ c \in Up
  BY <1>1 DEF Up, At, Step
<1>3. IsFiniteSet(Up)
  BY FS_Subset, SignalingAssumption DEF Up
<1>4. Cardinality(Up') = Cardinality(Up) - 1
  BY <1>2, <1>3, FS_RemoveElement
<1>5. Cardinality(Up) \in Nat /\ Cardinality(Up) # 0
  BY <1>2, <1>3, FS_CardinalityType, FS_EmptySet
<1> QED BY <1>1, <1>4, <1>5 DEF Step

LEMMA InitNoGaps == SignalingInit => NoGaps
<1> SUFFICES ASSUME SignalingInit PROVE NoGaps
  OBVIOUS
<1>1. [at |-> "none"] \in Steps
  BY DEF Steps
<1>2. {c \in Connections : handler[c].at \notin {"none", "closed"}} = {}
  BY DEF SignalingInit
<1> QED BY <1>1, <1>2, FS_EmptySet DEF SignalingInit, NoGaps, SignalingTypes, At

\* The channel of one connection gets one message more.
LEMMA SendIsSafe ==
  ASSUME NoGaps, NEW c \in Connections, Send(c)
  PROVE  /\ sent' \in [Connections -> Nat] /\ UNCHANGED <<writer, next, written>>
         /\ \A d \in Connections : written'[d] = next'[d] /\ next'[d] <= sent'[d]
BY DEF Send, NoGaps, SignalingTypes

\* What a step of a handler that is up, and that leaves it up, has to keep.
LEMMA HandlerStep ==
  ASSUME NoGaps, NEW c \in Connections, NEW step \in Steps,
         handler[c].at \notin {"none", "closed"}, step.at \notin {"none", "closed"},
         Step(c, step),
         registered' \in [ClientIds -> Connections \cup {Nobody}], processed' \in [Kinds -> Nat],
         accepted' = accepted, lines' \in Nat, UNCHANGED clientVars,
         (UNCHANGED channelVars) \/ (\E d \in Connections : Send(d))
  PROVE  NoGaps'
<1>1. /\ handler' \in [Connections -> Steps] /\ Up' = Up
      /\ \A d \in Connections : (handler'[d].at = "none") = (handler[d].at = "none")
  BY UpStays DEF Step
<1>2. /\ sent' \in [Connections -> Nat] /\ UNCHANGED <<writer, next, written>>
      /\ \A d \in Connections : written'[d] = next'[d] /\ next'[d] <= sent'[d]
  BY SendIsSafe DEF channelVars, NoGaps, SignalingTypes
<1>3. accepted' = Cardinality(Up')
  BY <1>1 DEF NoGaps, SignalingTypes, Up
<1>4. \A d \in Connections : writer'[d] = "none" <=> handler'[d].at = "none"
  BY <1>1, <1>2 DEF NoGaps, SignalingTypes, At
<1> QED BY <1>1, <1>2, <1>3, <1>4 DEF NoGaps, SignalingTypes, Up, At, clientVars

LEMMA StepsOfHandlers ==
  /\ [at |-> "idle"] \in Steps /\ [at |-> "reply"] \in Steps /\ [at |-> "leave"] \in Steps
  /\ \A kind \in Kinds : [at |-> "count", kind |-> kind] \in Steps
  /\ \A kind \in Kinds, to \in ClientIds : [at |-> "relay", kind |-> kind, to |-> to] \in Steps
  /\ \A step \in Steps : step.at \in {"relay", "count"} => step.kind \in Kinds
  /\ \A step \in Steps : step.at = "relay" => step.to \in ClientIds
BY DEF Steps

LEMMA TakeLineKeeps ==
  ASSUME NoGaps, NEW c \in Connections, TakeLine(c)
  PROVE  NoGaps'
<1>1. ReadLine(c) => At(c, "idle") /\ lines' \in Nat
  BY DEF ReadLine, NoGaps, SignalingTypes
<1>2. At(c, "idle") => handler[c].at \notin {"none", "closed"}
  BY DEF At
<1>3. /\ registered \in [ClientIds -> Connections \cup {Nobody}] /\ processed \in [Kinds -> Nat]
  BY DEF NoGaps, SignalingTypes
<1>4. ASSUME NEW id \in ClientIds, Register(c, id) PROVE NoGaps'
  <2> DEFINE step == [at |-> "reply"]
  <2>1. step \in Steps /\ step.at \notin {"none", "closed"}
    BY StepsOfHandlers
  <2>2. registered' \in [ClientIds -> Connections \cup {Nobody}]
    BY <1>3, <1>4 DEF Register
  <2>3. Step(c, step) /\ processed' = processed /\ accepted' = accepted
          /\ UNCHANGED clientVars /\ UNCHANGED channelVars /\ ReadLine(c)
    BY <1>4 DEF Register
  <2> HIDE DEF step
  <2> QED BY <1>1, <1>2, <1>3, <2>1, <2>2, <2>3, HandlerStep
<1>5. ASSUME NEW step \in Steps, step.at \notin {"none", "closed"}, ReadLine(c), Step(c, step),
             UNCHANGED <<serverVars, channelVars, clientVars>>
      PROVE  NoGaps'
  BY <1>1, <1>2, <1>3, <1>5, HandlerStep DEF serverVars
<1>6. CASE OtherLine(c)
  BY <1>5, <1>6, StepsOfHandlers DEF OtherLine
<1>7. CASE NotText(c)
  BY <1>5, <1>7, StepsOfHandlers DEF NotText
<1>8. ASSUME NEW kind \in Kinds, NEW to \in ClientIds, Address(c, kind, to) PROVE NoGaps'
  <2> DEFINE step == [at |-> "relay", kind |-> kind, to |-> to]
  <2>1. step \in Steps /\ step.at \notin {"none", "closed"}
    BY StepsOfHandlers
  <2>2. ReadLine(c) /\ Step(c, step) /\ UNCHANGED <<serverVars, channelVars, clientVars>>
    BY <1>8 DEF Address
  <2> HIDE DEF step
  <2> QED BY <1>5, <2>1, <2>2
<1> QED BY <1>4, <1>6, <1>7, <1>8 DEF TakeLine

LEMMA HandleKeeps ==
  ASSUME NoGaps, NEW c \in Connections, Handle(c)
  PROVE  NoGaps'
<1>1. /\ registered \in [ClientIds -> Connections \cup {Nobody}] /\ processed \in [Kinds -> Nat]
      /\ lines \in Nat /\ handler[c] \in Steps
  BY DEF NoGaps, SignalingTypes
<1>2. ASSUME NEW step \in Steps, step.at \notin {"none", "closed"}, Step(c, step),
             handler[c].at \notin {"none", "closed"},
             UNCHANGED <<serverVars, clientVars, lines>>,
             (UNCHANGED channelVars) \/ (\E d \in Connections : Send(d))
      PROVE  NoGaps'
  BY <1>1, <1>2, HandlerStep DEF serverVars
<1>3. CASE Reply(c)
  BY <1>2, <1>3, StepsOfHandlers DEF Reply, At
<1>4. CASE Relay(c)
  <2> DEFINE step == [at |-> "count", kind |-> handler[c].kind]
  <2>1. handler[c].at = "relay" /\ handler[c].to \in ClientIds /\ handler[c].kind \in Kinds
    BY <1>1, <1>4, StepsOfHandlers DEF Relay, At
  <2>2. step \in Steps /\ step.at \notin {"none", "closed"}
    BY <2>1, StepsOfHandlers
  <2>3. registered[handler[c].to] \in Connections
    BY <1>1, <1>4, <2>1 DEF Relay, CanRelay
  <2>4. Step(c, step) /\ Send(registered[handler[c].to]) /\ UNCHANGED <<serverVars, clientVars, lines>>
    BY <1>4 DEF Relay
  <2> HIDE DEF step
  <2> QED BY <1>2, <2>1, <2>2, <2>3, <2>4
<1>5. CASE RelayFails(c)
  BY <1>2, <1>5, StepsOfHandlers DEF RelayFails, At
<1>6. CASE Count(c)
  <2>1. processed' \in [Kinds -> Nat]
    BY <1>1, <1>6, StepsOfHandlers DEF Count, At
  <2>2. [at |-> "idle"] \in Steps /\ handler[c].at = "count"
    BY <1>6, StepsOfHandlers DEF Count, At
  <2> QED BY <1>1, <1>6, <2>1, <2>2, HandlerStep DEF Count
<1>7. CASE EndOfInput(c)
  BY <1>2, <1>7, StepsOfHandlers DEF EndOfInput, At
<1>8. CASE Leave(c)
  <2>1. /\ handler' \in [Connections -> Steps]
        /\ Cardinality(Up) \in Nat /\ Cardinality(Up) # 0
        /\ Cardinality(Up') = Cardinality(Up) - 1
        /\ \A d \in Connections \ {c} : handler'[d] = handler[d]
        /\ handler'[c].at = "closed" /\ handler[c].at = "leave"
    BY <1>8, UpShrinks DEF Leave, At
  <2>2. accepted' = Cardinality(Up') /\ accepted' \in Nat
    BY <1>8, <2>1 DEF Leave, NoGaps, SignalingTypes, Up
  <2>3. \A d \in Connections : writer'[d] = "none" <=> handler'[d].at = "none"
    BY <1>8, <2>1 DEF Leave, channelVars, NoGaps, SignalingTypes, At
  <2> QED BY <1>8, <2>1, <2>2, <2>3 DEF Leave, channelVars, clientVars, NoGaps, SignalingTypes, Up, At
<1> QED BY <1>3, <1>4, <1>5, <1>6, <1>7, <1>8 DEF Handle

LEMMA NoGapsStep == NoGaps /\ [SignalingNext]_signalingVars => NoGaps'
<1> SUFFICES ASSUME NoGaps, [SignalingNext]_signalingVars PROVE NoGaps'
  OBVIOUS
<1>1. ASSUME NEW c \in Connections, Accept(c) PROVE NoGaps'
  <2>1. /\ handler' \in [Connections -> Steps]
        /\ Cardinality(Up') = Cardinality(Up) + 1
        /\ \A d \in Connections \ {c} : handler'[d] = handler[d]
        /\ handler'[c].at = "idle"
    BY <1>1, UpGrows DEF Accept
  <2>2. accepted' = Cardinality(Up') /\ accepted' \in Nat
    BY <1>1, <2>1 DEF Accept, NoGaps, SignalingTypes, Up
  <2>3. \A d \in Connections : writer'[d] = "none" <=> handler'[d].at = "none"
    BY <1>1, <2>1 DEF Accept, NoGaps, SignalingTypes, At
  <2> QED BY <1>1, <2>1, <2>2, <2>3 DEF Accept, clientVars, NoGaps, SignalingTypes, Up, At
<1>2. ASSUME NEW c \in Connections, WriterStep(c) PROVE NoGaps'
  <2>1. CASE Write(c)
    BY <2>1 DEF Write, Unread, serverVars, clientVars, NoGaps, SignalingTypes, At
  <2>2. CASE EndWriter(c)
    BY <2>2 DEF EndWriter, serverVars, clientVars, NoGaps, SignalingTypes, At
  <2> QED BY <1>2, <2>1, <2>2 DEF WriterStep, WriteFails, EndAfterLag, EndWhenUnowned
<1>3. ASSUME NEW c \in Connections, HangUp(c) \/ Stall(c) PROVE NoGaps'
  BY <1>3 DEF HangUp, Stall, serverVars, channelVars, NoGaps, SignalingTypes, At
<1>4. CASE UNCHANGED signalingVars
  BY <1>4 DEF signalingVars, serverVars, channelVars, clientVars, NoGaps, SignalingTypes, At
<1> QED BY <1>1, <1>2, <1>3, <1>4, TakeLineKeeps, HandleKeeps DEF SignalingNext

\* However many connections there are, and whichever runs over, hangs up or does
\* not read, connections are counted right and no client gets a message after
\* one it missed.
THEOREM SignalingHasNoGaps == SignalingSpec => []NoGaps
BY InitNoGaps, NoGapsStep, PTL DEF SignalingSpec

-----------------------------------------------------------------------------
(***************************************************************************)
(* The lock of the discovery service, for any number of tasks.  The types  *)
(* need to know who may keep a guard; who is stuck stays so because only   *)
(* the head of the queue is served, and a writer not over a guard.         *)
(***************************************************************************)
Queues == {q \in Seq(Tasks) : \A i, j \in DOMAIN q : q[i] = q[j] => i = j}

Queued(q) == {q[i] : i \in DOMAIN q}

\* A guard is kept by a task that discovers or, waiting no more, answers a query.
IInvOfLock ==
  /\ known \subseteq Peers
  /\ doing \in [Tasks -> Jobs \cup {Free, Ended}]
  /\ queue \in Queues
  /\ guards \in [Tasks -> {0, 1}]
  /\ \A t \in Tasks :
       /\ doing[t] \in {Free, Ended} => t \notin Queued(queue) /\ guards[t] = 0
       /\ guards[t] = 1 => \/ Wants(t, "discover")
                           \/ Wants(t, "query") /\ t \notin Queued(queue)

LEMMA QueueGrows ==
  ASSUME NEW q \in Queues, NEW t \in Tasks, t \notin Queued(q)
  PROVE  /\ Append(q, t) \in Queues
         /\ Queued(Append(q, t)) = Queued(q) \cup {t}
         /\ Len(q) \in Nat /\ DOMAIN q = 1 .. Len(q) /\ DOMAIN Append(q, t) = 1 .. Len(q) + 1
         /\ \A i \in DOMAIN q : Append(q, t)[i] = q[i]
<1>1. /\ Append(q, t) \in Seq(Tasks) /\ Len(Append(q, t)) = Len(q) + 1
      /\ Len(q) \in Nat /\ DOMAIN q = 1 .. Len(q) /\ DOMAIN Append(q, t) = 1 .. Len(q) + 1
      /\ \A i \in DOMAIN q : Append(q, t)[i] = q[i]
      /\ Append(q, t)[Len(q) + 1] = t
  BY DEF Queues
<1>2. \A i, j \in DOMAIN q : q[i] = q[j] => i = j
  BY DEF Queues
<1>3. \A i \in DOMAIN q : q[i] # t
  BY DEF Queued
<1>4. ASSUME NEW i \in 1 .. Len(q) + 1, NEW j \in 1 .. Len(q) + 1,
             Append(q, t)[i] = Append(q, t)[j]
      PROVE  i = j
  <2>1. CASE i \in DOMAIN q /\ j \in DOMAIN q
    BY <1>1, <1>2, <1>4, <2>1
  <2>2. CASE i = Len(q) + 1 \/ j = Len(q) + 1
    BY <1>1, <1>3, <1>4, <2>2
  <2> QED BY <1>1, <2>1, <2>2
<1>5. Queued(Append(q, t)) = Queued(q) \cup {t}
  BY <1>1 DEF Queued
<1> QED BY <1>1, <1>4, <1>5 DEF Queues

LEMMA QueueServes ==
  ASSUME NEW q \in Queues, q # <<>>
  PROVE  /\ Tail(q) \in Queues
         /\ Queued(Tail(q)) = Queued(q) \ {Head(q)}
         /\ Len(q) \in Nat /\ DOMAIN q = 1 .. Len(q) /\ DOMAIN Tail(q) = 1 .. Len(q) - 1
         /\ \A i \in DOMAIN Tail(q) : Tail(q)[i] = q[i + 1]
         /\ 1 \in DOMAIN q /\ Head(q) = q[1]
<1>1. /\ Tail(q) \in Seq(Tasks) /\ Len(Tail(q)) = Len(q) - 1
      /\ Len(q) \in Nat /\ DOMAIN q = 1 .. Len(q) /\ DOMAIN Tail(q) = 1 .. Len(q) - 1
      /\ \A i \in DOMAIN Tail(q) : Tail(q)[i] = q[i + 1]
      /\ 1 \in DOMAIN q /\ Head(q) = q[1]
  BY DEF Queues
<1>2. \A i, j \in DOMAIN q : q[i] = q[j] => i = j
  BY DEF Queues
<1>3. \A i \in DOMAIN Tail(q) : i + 1 \in DOMAIN q /\ i + 1 # 1
  BY <1>1
<1>4. \A i, j \in DOMAIN Tail(q) : Tail(q)[i] = Tail(q)[j] => i = j
  BY <1>1, <1>2, <1>3
<1>5. \A i \in DOMAIN q : i # 1 => i - 1 \in DOMAIN Tail(q) /\ Tail(q)[i - 1] = q[i]
  BY <1>1
<1>6. Queued(Tail(q)) = Queued(q) \ {Head(q)}
  <2>1. \A t \in Queued(Tail(q)) : t \in Queued(q) /\ t # Head(q)
    BY <1>1, <1>2, <1>3 DEF Queued
  <2>2. \A t \in Queued(q) : t # Head(q) => t \in Queued(Tail(q))
    <3> TAKE t \in Queued(q)
    <3> HAVE t # Head(q)
    <3>1. PICK i \in DOMAIN q : q[i] = t
      BY DEF Queued
    <3>2. i - 1 \in DOMAIN Tail(q) /\ Tail(q)[i - 1] = t
      BY <1>1, <1>5, <3>1
    <3> QED BY <3>2 DEF Queued
  <2> QED BY <2>1, <2>2
<1> QED BY <1>1, <1>4, <1>6 DEF Queues

\* Who waits, as the module says it and as it is said here.
LEMMA WaitsIs ==
  ASSUME queue \in Queues, NEW t
  PROVE  Waits(t) <=> t \in Queued(queue)
<1>1. DOMAIN queue = 1 .. Len(queue)
  BY DEF Queues
<1> QED BY <1>1 DEF Waits, Contains, Queued

LEMMA StartsByAsking ==
  ASSUME NewWork
  PROVE  \E t \in Tasks, job \in Jobs : Ask(t, job)
<1>1. /\ \A ps \in SUBSET Peers : [op |-> "insert", peers |-> ps] \in Jobs
      /\ \A op \in {"query", "clean", "discover", "list"} : [op |-> op] \in Jobs
  BY DEF Jobs
<1>2. \A p \in Peers : {p} \in SUBSET Peers
  OBVIOUS
<1>3. Listener \in Tasks /\ Cleaner \in Tasks /\ Users \subseteq Tasks
  BY DEF Tasks
<1> QED BY <1>1, <1>2, <1>3 DEF NewWork, HandleDiscoveryMessage,
     StartCleanup, DiscoverPeers, GetKnownPeers, AddPeer

LEMMA AskKeeps ==
  ASSUME IInvOfLock, NEW t \in Tasks, NEW job \in Jobs,
         Ask(t, job)
  PROVE  IInvOfLock'
<1>1. /\ doing[t] = Free /\ doing' = [doing EXCEPT ![t] = job]
      /\ queue' = Append(queue, t) /\ UNCHANGED <<known, guards>>
  BY DEF Ask
<1>2. queue \in Queues /\ t \notin Queued(queue) /\ guards[t] = 0
  BY <1>1 DEF IInvOfLock
<1>3. queue' \in Queues /\ Queued(queue') = Queued(queue) \cup {t}
  BY <1>1, <1>2, QueueGrows
<1>4. doing' \in [Tasks -> Jobs \cup {Free, Ended}]
  BY <1>1 DEF IInvOfLock
<1>5. ASSUME NEW u \in Tasks
      PROVE  /\ doing'[u] \in {Free, Ended} => u \notin Queued(queue') /\ guards'[u] = 0
             /\ guards'[u] = 1 => \/ Wants(u, "discover")'
                                  \/ Wants(u, "query")' /\ u \notin Queued(queue')
  <2>1. CASE u = t
    <3>1. doing'[u] = job /\ guards'[u] = 0
      BY <1>1, <1>2, <2>1 DEF IInvOfLock
    <3> QED BY <3>1, NamesAssumption
  <2>2. CASE u # t
    <3>1. doing'[u] = doing[u] /\ guards'[u] = guards[u]
          /\ (u \in Queued(queue') <=> u \in Queued(queue))
      BY <1>1, <1>3, <2>2 DEF IInvOfLock
    <3> QED BY <3>1 DEF IInvOfLock, Wants
  <2> QED BY <2>1, <2>2
<1> QED BY <1>1, <1>3, <1>4, <1>5 DEF IInvOfLock

\* A task that leaves the lock behind: it is done, or over.
LEMMA LeaveKeeps ==
  ASSUME IInvOfLock, NEW t \in Tasks, NEW last \in {Free, Ended},
         doing' = [doing EXCEPT ![t] = last],
         known' \subseteq Peers,
         queue' \in Queues, Queued(queue') = Queued(queue) \ {t},
         guards' \in [Tasks -> {0, 1}], guards'[t] = 0,
         \A u \in Tasks : u # t => guards'[u] = guards[u]
  PROVE  IInvOfLock'
<1>1. doing' \in [Tasks -> Jobs \cup {Free, Ended}]
  BY DEF IInvOfLock
<1>2. ASSUME NEW u \in Tasks
      PROVE  /\ doing'[u] \in {Free, Ended} => u \notin Queued(queue') /\ guards'[u] = 0
             /\ guards'[u] = 1 => \/ Wants(u, "discover")'
                                  \/ Wants(u, "query")' /\ u \notin Queued(queue')
  <2>1. CASE u = t
    BY <2>1
  <2>2. CASE u # t
    <3>1. doing'[u] = doing[u] /\ guards'[u] = guards[u]
          /\ (u \in Queued(queue') <=> u \in Queued(queue))
      BY <2>2 DEF IInvOfLock
    <3> QED BY <3>1 DEF IInvOfLock, Wants
  <2> QED BY <2>1, <2>2
<1> QED BY <1>1, <1>2 DEF IInvOfLock

\* A task that is served leaves the queue.
LEMMA ServedLeaves ==
  ASSUME IInvOfLock, NEW t, Served(t)
  PROVE  queue' \in Queues /\ Queued(queue') = Queued(queue) \ {t}
BY QueueServes DEF Served, IInvOfLock

LEMMA ProceedKeeps ==
  ASSUME IInvOfLock, NEW t \in Tasks, Advance(t)
  PROVE  IInvOfLock'
<1>0. /\ known \subseteq Peers /\ guards \in [Tasks -> {0, 1}]
      /\ doing \in [Tasks -> Jobs \cup {Free, Ended}] /\ queue \in Queues
  BY DEF IInvOfLock
<1>a. ~(Wants(t, "list") /\ (Wants(t, "query") \/ Wants(t, "discover")))
  BY DEF Wants
<1>b. guards[t] \in {0, 1}
  BY <1>0
<1>1. ASSUME Insert(t) PROVE IInvOfLock'
  <2>1. doing[t].peers \subseteq Peers
    BY <1>1 DEF Insert, Wants, Jobs
  <2>2. /\ doing' = [doing EXCEPT ![t] = Free] /\ guards' = guards /\ guards[t] = 0
        /\ known' \subseteq Peers /\ Served(t)
    BY <1>0, <1>1, <2>1 DEF Insert, Done, NoGuards
  <2> QED BY <1>0, <2>2, ServedLeaves, LeaveKeeps
<1>2. ASSUME Retain(t) \/ RetainPanics(t) PROVE IInvOfLock'
  <2>1. PICK last \in {Free, Ended} : doing' = [doing EXCEPT ![t] = last]
    BY <1>2 DEF Retain, RetainPanics, Done
  <2>2. /\ guards' = guards /\ guards[t] = 0 /\ known' \subseteq Peers /\ Served(t)
    BY <1>0, <1>2 DEF Retain, RetainPanics, NoGuards
  <2> QED BY <1>0, <2>1, <2>2, ServedLeaves, LeaveKeeps
<1>3. ASSUME List(t) PROVE IInvOfLock'
  <2>1. guards[t] = 0
    BY <1>3, <1>a, <1>b DEF List, IInvOfLock
  <2>2. /\ doing' = [doing EXCEPT ![t] = Free] /\ guards' = guards
        /\ known' = known /\ Served(t)
    BY <1>3 DEF List, Done
  <2> QED BY <1>0, <2>1, <2>2, ServedLeaves, LeaveKeeps
<1>4. ASSUME TakeGuard(t) PROVE IInvOfLock'
  <2>1. /\ Wants(t, "query") \/ Wants(t, "discover")
        /\ guards' = [guards EXCEPT ![t] = 1] /\ UNCHANGED <<known, doing>>
        /\ queue' \in Queues /\ Queued(queue') = Queued(queue) \ {t}
    BY <1>4, ServedLeaves DEF TakeGuard
  <2>2. doing[t] \notin {Free, Ended}
    BY <2>1, NamesAssumption DEF Wants
  <2>3. ASSUME NEW u \in Tasks
        PROVE  /\ doing[u] \in {Free, Ended} => u \notin Queued(queue') /\ guards'[u] = 0
               /\ guards'[u] = 1 => \/ Wants(u, "discover")
                                    \/ Wants(u, "query") /\ u \notin Queued(queue')
    <3>1. CASE u = t
      BY <2>1, <2>2, <3>1
    <3>2. CASE u # t
      <4>1. guards'[u] = guards[u] /\ (u \in Queued(queue') <=> u \in Queued(queue))
        BY <1>0, <2>1, <3>2
      <4> QED BY <4>1 DEF IInvOfLock
    <3> QED BY <3>1, <3>2
  <2>4. guards' \in [Tasks -> {0, 1}]
    BY <1>0, <2>1
  <2>5. \A u \in Tasks, op \in {"query", "discover"} :
          Wants(u, op)' <=> Wants(u, op)
    BY <2>1 DEF Wants
  <2> QED BY <1>0, <2>1, <2>3, <2>4, <2>5 DEF IInvOfLock
<1>5. ASSUME SendResponse(t) PROVE IInvOfLock'
  <2>1. /\ Wants(t, "query") /\ guards[t] = 1
        /\ guards' = [guards EXCEPT ![t] = 0] /\ doing' = [doing EXCEPT ![t] = Free]
        /\ known' = known /\ queue' = queue
    BY <1>5 DEF SendResponse, Done
  <2>2. ~Wants(t, "discover")
    BY <2>1 DEF Wants
  <2>3. t \notin Queued(queue)
    BY <2>1, <2>2 DEF IInvOfLock
  <2>4. Queued(queue') = Queued(queue) \ {t}
    BY <2>1, <2>3
  <2>5. guards' \in [Tasks -> {0, 1}] /\ guards'[t] = 0
        /\ \A u \in Tasks : u # t => guards'[u] = guards[u]
    BY <1>0, <2>1
  <2> QED BY <1>0, <2>1, <2>4, <2>5, LeaveKeeps
<1>6. ASSUME AskAgain(t) PROVE IInvOfLock'
  <2>1. /\ Wants(t, "discover") /\ t \notin Queued(queue)
        /\ queue' = Append(queue, t) /\ UNCHANGED <<known, doing, guards>>
    BY <1>0, <1>6, WaitsIs DEF AskAgain
  <2>2. queue' \in Queues /\ Queued(queue') = Queued(queue) \cup {t}
    BY <1>0, <2>1, QueueGrows
  <2>3. doing[t] \notin {Free, Ended}
    BY <2>1, NamesAssumption DEF Wants
  <2>4. ASSUME NEW u \in Tasks
        PROVE  /\ doing[u] \in {Free, Ended} => u \notin Queued(queue') /\ guards[u] = 0
               /\ guards[u] = 1 => \/ Wants(u, "discover")
                                   \/ Wants(u, "query") /\ u \notin Queued(queue')
    BY <2>1, <2>2, <2>3 DEF IInvOfLock
  <2>5. \A u \in Tasks, op \in {"query", "discover"} :
          Wants(u, op)' <=> Wants(u, op)
    BY <2>1 DEF Wants
  <2> QED BY <1>0, <2>1, <2>2, <2>4, <2>5 DEF IInvOfLock
<1>7. ASSUME ReturnPeers(t) PROVE IInvOfLock'
  <2>1. /\ guards' = [guards EXCEPT ![t] = 0] /\ doing' = [doing EXCEPT ![t] = Free]
        /\ known' = known /\ Served(t)
    BY <1>7 DEF ReturnPeers, Done
  <2>2. guards' \in [Tasks -> {0, 1}] /\ guards'[t] = 0
        /\ \A u \in Tasks : u # t => guards'[u] = guards[u]
    BY <1>0, <2>1
  <2> QED BY <1>0, <2>1, <2>2, ServedLeaves, LeaveKeeps
<1> QED BY <1>1, <1>2, <1>3, <1>4, <1>5, <1>6, <1>7 DEF Advance

LEMMA LockInvariant == DiscoverySpec => []IInvOfLock
<1>1. DiscoveryInit => IInvOfLock
  <2> SUFFICES ASSUME DiscoveryInit PROVE IInvOfLock
    OBVIOUS
  <2>1. queue = <<>> /\ <<>> \in Seq(Tasks) /\ DOMAIN <<>> = {}
    BY DEF DiscoveryInit
  <2>2. queue \in Queues /\ Queued(queue) = {}
    BY <2>1 DEF Queues, Queued
  <2> QED BY <2>2 DEF DiscoveryInit, IInvOfLock
<1>2. IInvOfLock /\ [DiscoveryNext]_lockVars => IInvOfLock'
  <2> SUFFICES ASSUME IInvOfLock, [DiscoveryNext]_lockVars PROVE IInvOfLock'
    OBVIOUS
  <2>1. CASE NewWork
    BY <2>1, StartsByAsking, AskKeeps
  <2>2. CASE \E t \in Tasks : Advance(t)
    BY <2>2, ProceedKeeps
  <2>3. CASE UNCHANGED lockVars
    BY <2>3 DEF lockVars, IInvOfLock, Wants
  <2> QED BY <2>1, <2>2, <2>3 DEF DiscoveryNext
<1> QED BY <1>1, <1>2, PTL DEF DiscoverySpec

\* Every variable of the discovery service has its type, nobody waits twice, and
\* nobody keeps more than one guard, or one while it has nothing to do, for any
\* number of tasks (the RwLock of known_peers).
THEOREM DiscoveryTypes == DiscoverySpec => []LockTypes
<1>1. IInvOfLock => LockTypes
  <2> SUFFICES ASSUME IInvOfLock PROVE LockTypes
    OBVIOUS
  <2>1. \A t \in Tasks : Waits(t) <=> t \in Queued(queue)
    BY WaitsIs DEF IInvOfLock
  <2>2. queue \in Seq(Tasks) /\ IsInjective(queue)
    BY DEF IInvOfLock, Queues, IsInjective
  <2> QED BY <2>1, <2>2 DEF IInvOfLock, LockTypes
<1> QED BY <1>1, LockInvariant, PTL

\* The place of a task in the queue, before and after a step.
LEMMA BeforeIs ==
  ASSUME NEW t, NEW u
  PROVE  Before(t, u) <=>
           \E i, j \in DOMAIN queue : i < j /\ queue[i] = t /\ queue[j] = u
BY DEF Before

LEMMA StuckStays ==
  ASSUME IInvOfLock, Stuck, [DiscoveryNext]_lockVars
  PROVE  Stuck'
<1>1. PICK t, u \in Tasks :
        /\ Before(t, u) /\ IsWriter(t)
        /\ Wants(u, "discover") /\ guards[u] = 1
  BY DEF Stuck
<1>2. PICK i, j \in DOMAIN queue : i < j /\ queue[i] = t /\ queue[j] = u
  BY <1>1 DEF Before
<1>3. queue \in Queues /\ Len(queue) \in Nat /\ DOMAIN queue = 1 .. Len(queue)
  BY DEF IInvOfLock, Queues
<1>4. t \in Queued(queue) /\ u \in Queued(queue) /\ t # u
  BY <1>2, <1>3 DEF Queued, Queues
<1>5. Wants(t, "insert") \/ Wants(t, "clean")
  BY <1>1 DEF IsWriter
<1>6. ASSUME Before(t, u)', doing'[t] = doing[t], doing'[u] = doing[u],
             guards'[u] = guards[u]
      PROVE  Stuck'
  BY <1>1, <1>6 DEF Stuck, IsWriter, Wants
<1>7. ASSUME NEW v \in Tasks, v \notin Queued(queue), queue' = Append(queue, v)
      PROVE  Before(t, u)'
  BY <1>2, <1>3, <1>7, QueueGrows DEF Before
<1>8. ASSUME NEW v \in Tasks, v # t, Served(v)
      PROVE  v # u /\ Before(t, u)'
  <2>1. queue # <<>> /\ Head(queue) = v /\ queue' = Tail(queue)
    BY <1>8 DEF Served
  <2>2. i # 1 /\ j # 1
    BY <1>2, <1>3, <1>8, <2>1, QueueServes
  <2>3. i - 1 \in DOMAIN queue' /\ j - 1 \in DOMAIN queue'
        /\ queue'[i - 1] = t /\ queue'[j - 1] = u /\ i - 1 < j - 1
    BY <1>2, <1>3, <2>1, <2>2, QueueServes
  <2>4. v # u
    BY <1>2, <1>3, <2>1, <2>2, QueueServes DEF Queues
  <2> QED BY <2>3, <2>4 DEF Before
<1>9. CASE NewWork
  <2>1. PICK v \in Tasks, job \in Jobs : Ask(v, job)
    BY <1>9, StartsByAsking
  <2>2. doing[v] = Free /\ doing' = [doing EXCEPT ![v] = job] /\ queue' = Append(queue, v)
        /\ UNCHANGED <<known, guards>>
    BY <2>1 DEF Ask
  <2>3. v \notin Queued(queue) /\ v # t /\ v # u
    BY <1>4, <2>2 DEF IInvOfLock
  <2>4. doing'[t] = doing[t] /\ doing'[u] = doing[u] /\ guards'[u] = guards[u]
    BY <2>2, <2>3 DEF IInvOfLock
  <2> QED BY <1>6, <1>7, <2>2, <2>3, <2>4
<1>10. ASSUME NEW v \in Tasks, Advance(v) PROVE Stuck'
  <2>0. /\ guards \in [Tasks -> {0, 1}]
        /\ doing \in [Tasks -> Jobs \cup {Free, Ended}]
    BY DEF IInvOfLock
  <2>1. ~Insert(v) /\ ~Retain(v) /\ ~RetainPanics(v)
    BY <1>1 DEF Insert, Retain, RetainPanics, NoGuards
  <2>2. CASE List(v) \/ TakeGuard(v) \/ ReturnPeers(v)
    <3>1. v # t
      BY <1>5, <2>2 DEF List, TakeGuard, ReturnPeers, Wants
    <3>2. Served(v)
      BY <2>2 DEF List, TakeGuard, ReturnPeers
    <3>3. v # u /\ Before(t, u)'
      BY <1>8, <3>1, <3>2
    <3>4. doing'[t] = doing[t] /\ doing'[u] = doing[u] /\ guards'[u] = guards[u]
      BY <2>0, <2>2, <3>1, <3>3
         DEF List, TakeGuard, ReturnPeers, Done
    <3> QED BY <1>6, <3>3, <3>4
  <2>3. CASE SendResponse(v)
    <3>1. v # t /\ v # u
      BY <1>1, <1>5, <2>3 DEF SendResponse, Wants
    <3>2. doing'[t] = doing[t] /\ doing'[u] = doing[u] /\ guards'[u] = guards[u] /\ queue' = queue
      BY <2>0, <2>3, <3>1 DEF SendResponse, Done
    <3>3. Before(t, u)'
      BY <1>1, <3>2 DEF Before
    <3> QED BY <1>6, <3>2, <3>3
  <2>4. CASE AskAgain(v)
    <3>1. v \notin Queued(queue) /\ queue' = Append(queue, v) /\ UNCHANGED <<doing, guards>>
      BY <1>3, <2>4, WaitsIs DEF AskAgain
    <3> QED BY <1>6, <1>7, <3>1
  <2> QED BY <1>10, <2>1, <2>2, <2>3, <2>4 DEF Advance
<1>11. CASE UNCHANGED lockVars
  <2>1. doing' = doing /\ guards' = guards /\ queue' = queue
    BY <1>11 DEF lockVars
  <2>2. Before(t, u)'
    BY <1>1, <2>1 DEF Before
  <2> QED BY <1>6, <2>1, <2>2
<1> QED BY <1>9, <1>10, <1>11 DEF DiscoveryNext

\* Once a discoverer waits for its second guard behind a writer, both wait for
\* ever, whatever the other tasks do, and with them everybody who comes later:
\* nothing but the end of the process gets them out (discover_peers).
THEOREM StuckForEver == DiscoverySpec => [](Stuck => []Stuck)
<1>1. IInvOfLock /\ Stuck /\ [DiscoveryNext]_lockVars => Stuck'
  BY StuckStays
<1> QED BY <1>1, LockInvariant, PTL DEF DiscoverySpec

=============================================================================
