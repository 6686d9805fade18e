------------------------------ MODULE Signaling ------------------------------
(***************************************************************************)
(* The WebRTC signaling server, crates/p2p-network/src/signaling.rs.       *)
(*                                                                         *)
(* Every connection has a handler, which reads lines from its client, and  *)
(* a writer, which writes to it what is put into the connection's channel. *)
(* The channel is a tokio broadcast channel: who sends never waits, and    *)
(* the writer, its one receiver, is told when it fell behind by more than  *)
(* the capacity.  The table of registered peers is behind a RwLock; each   *)
(* step of a handler here is one lock section, or one send.                *)
(*                                                                         *)
(* A message is known by its place in the channel.  Nobody subscribes to   *)
(* the server's own broadcast channel, so the notice of a disconnection    *)
(* goes nowhere and is left out.                                           *)
(***************************************************************************)
EXTENDS Integers, FiniteSets

CONSTANTS Connections,  \* connections
          ClientIds,    \* the ids clients register under and address
          Kinds,        \* what is relayed: offers, answers, ICE candidates
          Capacity,     \* room in a channel
          MaxLines,     \* bound on the lines clients send
          Nobody        \* no connection

ASSUME SignalingAssumption ==
  /\ IsFiniteSet(Connections)
  /\ Capacity \in Nat \ {0} /\ MaxLines \in Nat
  /\ Nobody \notin Connections

VARIABLES handler,     \* handler[c]: what the handler of c is at
          registered,  \* peers: the connection each id is registered by, or Nobody
          writer,      \* the writer of c: "none", "on" or "ended"
          sent,        \* sent[c]: the number of messages put into the channel of c
          next,        \* next[c]: how many of them its writer is past
          written,     \* written[c]: how many of them were written to the client
          gone,        \* the clients that hung up
          stalled,     \* the clients that do not read any more
          accepted,    \* stats.active_connections
          processed,   \* stats: how many of each kind were relayed
          lines        \* the number of lines clients sent

serverVars  == <<registered, accepted, processed>>
channelVars == <<writer, sent, next, written>>
clientVars  == <<gone, stalled>>
signalingVars == <<handler, serverVars, channelVars, clientVars, lines>>

Steps ==
  [at : {"none", "idle", "reply", "leave", "closed"}]
    \cup [at : {"relay"}, kind : Kinds, to : ClientIds]
    \cup [at : {"count"}, kind : Kinds]

At(c, step) == handler[c].at = step

Step(c, step) == handler' = [handler EXCEPT ![c] = step]

-----------------------------------------------------------------------------
SignalingInit ==
  /\ handler = [c \in Connections |-> [at |-> "none"]]
  /\ registered = [id \in ClientIds |-> Nobody]
  /\ writer = [c \in Connections |-> "none"]
  /\ sent = [c \in Connections |-> 0]
  /\ next = [c \in Connections |-> 0]
  /\ written = [c \in Connections |-> 0]
  /\ gone = {} /\ stalled = {}
  /\ accepted = 0
  /\ processed = [k \in Kinds |-> 0]
  /\ lines = 0

(***************************************************************************)
(* The handler of a connection                                             *)
(***************************************************************************)
Accept(c) ==
  /\ At(c, "none")
  /\ Step(c, [at |-> "idle"])
  /\ writer' = [writer EXCEPT ![c] = "on"]
  /\ accepted' = accepted + 1
  /\ UNCHANGED <<registered, processed, sent, next, written, clientVars, lines>>

\* Sending fails when the writer has ended, and only then.
Receives(c) == writer[c] = "on"

Send(c) ==
  /\ sent' = [sent EXCEPT ![c] = @ + 1]
  /\ UNCHANGED <<writer, next, written>>

ReadLine(c) ==
  /\ At(c, "idle")
  /\ lines < MaxLines
  /\ lines' = lines + 1

\* Register takes the id the client chose, from whoever had it.
Register(c, id) ==
  /\ ReadLine(c)
  /\ registered' = [registered EXCEPT ![id] = c]
  /\ Step(c, [at |-> "reply"])
  /\ UNCHANGED <<accepted, processed, channelVars, clientVars>>

\* ListPeers, and a line that is no message.  (A message of a type that only the
\* server sends is logged and changes nothing.)
OtherLine(c) ==
  /\ ReadLine(c)
  /\ Step(c, [at |-> "reply"])
  /\ UNCHANGED <<serverVars, channelVars, clientVars>>

\* The client is answered; an error is only logged.
Reply(c) ==
  /\ At(c, "reply")
  /\ IF Receives(c) THEN Send(c) ELSE UNCHANGED channelVars
  /\ Step(c, [at |-> "idle"])
  /\ UNCHANGED <<serverVars, clientVars, lines>>

\* An offer, an answer or an ICE candidate for somebody.
Address(c, kind, to) ==
  /\ ReadLine(c)
  /\ Step(c, [at |-> "relay", kind |-> kind, to |-> to])
  /\ UNCHANGED <<serverVars, channelVars, clientVars>>

\* relay_message_to_peer, under the read guard of the table.  It fails, which is
\* only logged, when nobody registered the id or the writer has ended.
CanRelay(to) == registered[to] # Nobody /\ Receives(registered[to])

\* Mutant: who sends waits for room.
RelayWhenRoom(c) ==
  /\ At(c, "relay") /\ CanRelay(handler[c].to)
  /\ LET target == registered[handler[c].to]
     IN  sent[target] - next[target] < Capacity /\ Send(target)
  /\ Step(c, [at |-> "count", kind |-> handler[c].kind])
  /\ UNCHANGED <<serverVars, clientVars, lines>>

Relay(c) ==
  /\ At(c, "relay") /\ CanRelay(handler[c].to)
  /\ Send(registered[handler[c].to])
  /\ Step(c, [at |-> "count", kind |-> handler[c].kind])
  /\ UNCHANGED <<serverVars, clientVars, lines>>

RelayFails(c) ==
  /\ At(c, "relay") /\ ~CanRelay(handler[c].to)
  /\ Step(c, [at |-> "idle"])
  /\ UNCHANGED <<serverVars, channelVars, clientVars, lines>>

Count(c) ==
  /\ At(c, "count")
  /\ processed' = [processed EXCEPT ![handler[c].kind] = @ + 1]
  /\ Step(c, [at |-> "idle"])
  /\ UNCHANGED <<registered, accepted, channelVars, clientVars, lines>>

\* A line that is not text ends the input.
NotText(c) ==
  /\ ReadLine(c)
  /\ Step(c, [at |-> "leave"])
  /\ UNCHANGED <<serverVars, channelVars, clientVars>>

\* At the end of the input the server's own id of the connection is removed
\* from the table, where it never was: ids are the clients'.
EndOfInput(c) ==
  /\ At(c, "idle") /\ c \in gone
  /\ Step(c, [at |-> "leave"])
  /\ UNCHANGED <<serverVars, channelVars, clientVars, lines>>

Leave(c) ==
  /\ At(c, "leave")
  /\ accepted' = IF accepted = 0 THEN 0 ELSE accepted - 1
  /\ Step(c, [at |-> "closed"])
  /\ UNCHANGED <<registered, processed, channelVars, clientVars, lines>>

(***************************************************************************)
(* The writer of a connection                                              *)
(***************************************************************************)
Unread(c) == sent[c] - next[c]

Lagged(c) == Unread(c) > Capacity

\* Mutant: the last message of a full channel is kept back.
WriteButLast(c) ==
  /\ writer[c] = "on" /\ Unread(c) \in 2 .. Capacity
  /\ c \notin stalled
  /\ next' = [next EXCEPT ![c] = @ + 1]
  /\ written' = [written EXCEPT ![c] = @ + 1]
  /\ UNCHANGED <<handler, serverVars, writer, sent, clientVars, lines>>

\* Capacity counts the message in hand.  Write gets stuck with a client that does
\* not read; it fails, at some time, with one that hung up.
Write(c) ==
  /\ writer[c] = "on" /\ Unread(c) \in 1 .. Capacity
  /\ c \notin stalled
  /\ next' = [next EXCEPT ![c] = @ + 1]
  /\ written' = [written EXCEPT ![c] = @ + 1]
  /\ UNCHANGED <<handler, serverVars, writer, sent, clientVars, lines>>

EndWriter(c) ==
  /\ writer[c] = "on"
  /\ writer' = [writer EXCEPT ![c] = "ended"]
  /\ UNCHANGED <<handler, serverVars, sent, next, written, clientVars, lines>>

WriteFails(c) ==
  /\ Unread(c) > 0 /\ c \in gone
  /\ EndWriter(c)

\* Mutant: the writer goes on with the oldest message there still is.
GoOnAfterLag(c) ==
  /\ writer[c] = "on" /\ Lagged(c)
  /\ next' = [next EXCEPT ![c] = sent[c] - Capacity]
  /\ UNCHANGED <<handler, serverVars, writer, sent, written, clientVars, lines>>

\* The loop of the writer takes any error for the end, also that it lagged.
EndAfterLag(c) ==
  /\ Lagged(c) /\ c \notin stalled
  /\ EndWriter(c)

\* Mutant: the writer itself has a sender.
NeverUnowned(c) == FALSE

\* Nobody has a sender of the channel any more: neither handler nor table.
Unowned(c) == At(c, "closed") /\ \A id \in ClientIds : registered[id] # c

EndWhenUnowned(c) ==
  /\ Unowned(c) /\ Unread(c) = 0
  /\ EndWriter(c)

(***************************************************************************)
(* The client of a connection                                              *)
(***************************************************************************)
HangUp(c) ==
  /\ ~At(c, "none")
  /\ gone' = gone \cup {c}
  /\ UNCHANGED <<handler, serverVars, channelVars, stalled, lines>>

Stall(c) ==
  /\ ~At(c, "none")
  /\ stalled' = stalled \cup {c}
  /\ UNCHANGED <<handler, serverVars, channelVars, gone, lines>>

-----------------------------------------------------------------------------
TakeLine(c) ==
  \/ \E id \in ClientIds : Register(c, id)
  \/ OtherLine(c)
  \/ NotText(c)
  \/ \E kind \in Kinds, to \in ClientIds : Address(c, kind, to)

Handle(c) ==
  Reply(c) \/ Relay(c) \/ RelayFails(c) \/ Count(c) \/ EndOfInput(c) \/ Leave(c)

WriterStep(c) == Write(c) \/ WriteFails(c) \/ EndAfterLag(c) \/ EndWhenUnowned(c)

SignalingNext ==
  \E c \in Connections :
    \/ Accept(c)
    \/ TakeLine(c)
    \/ Handle(c)
    \/ WriterStep(c)
    \/ HangUp(c)
    \/ Stall(c)

\* Tasks are scheduled.
SignalingFairness == \A c \in Connections :
  WF_signalingVars(Handle(c)) /\ WF_signalingVars(WriterStep(c))

SignalingSpec == SignalingInit /\ [][SignalingNext]_signalingVars /\ SignalingFairness

-----------------------------------------------------------------------------
(***************************************************************************)
(* Properties                                                              *)
(***************************************************************************)

\* Every variable has its type, each accepted connection has had a writer, and
\* is counted from its start to its end.
SignalingTypes ==
  /\ handler \in [Connections -> Steps]
  /\ registered \in [ClientIds -> Connections \cup {Nobody}]
  /\ writer \in [Connections -> {"none", "on", "ended"}]
  /\ sent \in [Connections -> Nat] /\ next \in [Connections -> Nat] /\ written \in [Connections -> Nat]
  /\ gone \subseteq Connections /\ stalled \subseteq Connections
  /\ accepted \in Nat /\ lines \in Nat
  /\ processed \in [Kinds -> Nat]
  /\ \A c \in Connections : writer[c] = "none" <=> At(c, "none")
  /\ accepted = Cardinality({c \in Connections : handler[c].at \notin {"none", "closed"}})

\* A client gets what was sent to it with no gap, whoever sent it and under
\* whichever of its ids: after a message was lost to a channel that ran over,
\* none follows.
NoGaps == SignalingTypes /\ \A c \in Connections : written[c] = next[c] /\ next[c] <= sent[c]

\* A client that does not read holds up nobody but itself: every handler is
\* done with every line in the end.
Busy(c) == handler[c].at \in {"reply", "relay", "count", "leave"}

SlowClientsBlockNobody == \A c \in Connections : Busy(c) ~> ~Busy(c)

\* What is put into the channel of a client that reads is written to it, or its
\* writer comes to an end.
SentIsWritten ==
  \A c \in Connections : \A i \in 1 .. MaxLines :
    sent[c] >= i ~> (written[c] >= i \/ writer[c] = "ended" \/ c \in stalled)

\* A connection that is closed, and whose ids were taken over by others, leaves no
\* writer behind, but one stuck with a client that neither reads nor hangs up.
\* (As long as it holds an id, which it does not lose by closing, its writer
\* stays.)
Forsaken(c) == At(c, "closed") /\ \A id \in ClientIds : registered[id] # c

NoWriterIsLeftBehind == \A c \in Connections :
  Forsaken(c) ~> (writer[c] = "ended" \/ c \in stalled \ gone)
=============================================================================
