----------------------------- MODULE ScriptState -----------------------------
(***************************************************************************)
(* The script state manager, crates/execution/src/script_state.rs.         *)
(*                                                                         *)
(* Every operation goes through &self, so any two may overlap.  There are  *)
(* three mutexes, for the scripts, their states and the history; a call    *)
(* that needs several takes them one after the other and holds one only,   *)
(* but for rollback_to_snapshot, which holds the history while it writes   *)
(* the other two.  Each step of this module is one such lock section.      *)
(***************************************************************************)
EXTENDS ScriptStore, Sequences, SequencesExt

CONSTANTS Callers,          \* threads
          Heights,          \* the block heights snapshots are made at
          MaxHistoryDepth,  \* max_history_depth
          Foreign,          \* what other managers exported
          MaxCalls          \* bound on the calls

ASSUME ScriptStateAssumption == MaxHistoryDepth \in Nat /\ MaxCalls \in Nat

\* The bytes given to import_state come from the export_state of a manager with
\* the same limit, in which no calls overlapped: import_state itself checks
\* nothing, and would take sizes that are wrong and states without scripts.
ASSUME ForeignAssumption ==
  /\ Foreign \subseteq [scripts : ScriptMaps, states : StateMaps]
  /\ \A e \in Foreign : DOMAIN e.scripts = DOMAIN e.states

VARIABLES history,     \* state_history
          exported,    \* what the last export_state returned, or None
          call,        \* call[c]: the call c is in the middle of, or None
          calls,       \* the number of calls begun
          overlapped   \* whether two calls of several steps ever overlapped

managerVars == <<now, scripts, states, history, exported, call, calls, overlapped>>

Idle(c) == call[c] = None

In(c, op) == ~Idle(c) /\ call[c].op = op

\* rollback_to_snapshot holds the history until it is done.
HistoryIsFree == \A c \in Callers : ~In(c, "rollback")

\* Bookkeeping: c begins a call, and is in the middle of it as `step` says.
Begin(c, step) ==
  /\ Idle(c)
  /\ calls < MaxCalls
  /\ calls' = calls + 1
  /\ call' = [call EXCEPT ![c] = step]
  /\ overlapped' = (overlapped \/ \E d \in Callers : ~Idle(d))

Continue(c, step) ==
  /\ call' = [call EXCEPT ![c] = step]
  /\ UNCHANGED <<calls, overlapped>>

-----------------------------------------------------------------------------
ManagerInit ==
  /\ now = 0
  /\ scripts = <<>> /\ states = <<>> /\ history = <<>>
  /\ exported = None
  /\ call = [c \in Callers |-> None]
  /\ calls = 0
  /\ overlapped = FALSE

ManagerTick ==
  /\ now < MaxTime
  /\ now' = now + 1
  /\ UNCHANGED <<scripts, states, history, exported, call, calls, overlapped>>

\* deploy_script.  The hash is made of the bytecode, the owner and the second,
\* so a script that is deployed twice in a second replaces itself.
InsertScript(c, code) ==
  /\ Begin(c, [op |-> "deploy", hash |-> <<code, now>>])
  /\ scripts' = Deployed(scripts, <<code, now>>)
  /\ UNCHANGED <<now, states, history, exported>>

InitialiseState(c) ==
  /\ In(c, "deploy")
  /\ states' = Initialised(states, call[c].hash)
  /\ Continue(c, None)
  /\ UNCHANGED <<now, scripts, history, exported>>

UpdateState(c, hash, key, length) ==
  /\ CanUpdate(states, hash, key, length)
  /\ Begin(c, None)
  /\ states' = Updated(states, hash, key, length)
  /\ UNCHANGED <<now, scripts, history, exported>>

DeleteState(c, hash, key) ==
  /\ hash \in DOMAIN states /\ key \in DOMAIN states[hash].entries
  /\ Begin(c, None)
  /\ states' = Deleted(states, hash, key)
  /\ UNCHANGED <<now, scripts, history, exported>>

DeactivateScript(c, hash) ==
  /\ hash \in DOMAIN scripts
  /\ Begin(c, None)
  /\ scripts' = [scripts EXCEPT ![hash].active = FALSE]
  /\ UNCHANGED <<now, states, history, exported>>

\* create_snapshot copies the scripts, then the states, then reads the clock
\* and pushes the snapshot; export_state copies in the same order.
CopyScripts(c, op, height) ==
  /\ Begin(c, [op |-> op, height |-> height, scripts |-> scripts])
  /\ UNCHANGED <<now, scripts, states, history, exported>>

CopyStates(c) ==
  /\ In(c, "snapshot")
  /\ Continue(c, [op |-> "push", height |-> call[c].height,
                  scripts |-> call[c].scripts, states |-> states])
  /\ UNCHANGED <<now, scripts, states, history, exported>>

\* The snapshots that are kept: the newest ones.
Trimmed(h) ==
  IF Len(h) > MaxHistoryDepth THEN SubSeq(h, Len(h) - MaxHistoryDepth + 1, Len(h)) ELSE h

PushSnapshot(c) ==
  /\ In(c, "push") /\ HistoryIsFree
  /\ history' = Trimmed(Append(history, [id |-> <<call[c].height, now>>,
                                         scripts |-> call[c].scripts,
                                         states |-> call[c].states]))
  /\ Continue(c, None)
  /\ UNCHANGED <<now, scripts, states, exported>>

ExportStates(c) ==
  /\ In(c, "export")
  /\ exported' = [scripts |-> call[c].scripts, states |-> states]
  /\ Continue(c, None)
  /\ UNCHANGED <<now, scripts, states, history>>

\* rollback_to_snapshot takes the first snapshot with the id.
Found(id) == SelectInSeq(history, LAMBDA s : s.id = id)

Rollback(c, id) ==
  /\ HistoryIsFree
  /\ Found(id) # 0
  /\ Begin(c, [op |-> "rollback", states |-> history[Found(id)].states])
  /\ scripts' = history[Found(id)].scripts
  /\ UNCHANGED <<now, states, history, exported>>

\* import_state, of what this manager exported last, or another one.
Importable == Foreign \cup ({exported} \ {None})

Import(c, e) ==
  /\ Begin(c, [op |-> "import", states |-> e.states])
  /\ scripts' = e.scripts
  /\ UNCHANGED <<now, states, history, exported>>

\* Mutant: the states are left as they are.
KeepStates(c) ==
  /\ In(c, "rollback") \/ In(c, "import")
  /\ Continue(c, None)
  /\ UNCHANGED <<now, scripts, states, history, exported>>

ReplaceStates(c) ==
  /\ In(c, "rollback") \/ In(c, "import")
  /\ states' = call[c].states
  /\ Continue(c, None)
  /\ UNCHANGED <<now, scripts, history, exported>>

\* clear_all, in three lock sections.
ClearScripts(c) ==
  /\ Begin(c, [op |-> "clear states"])
  /\ scripts' = <<>>
  /\ UNCHANGED <<now, states, history, exported>>

ClearStates(c) ==
  /\ In(c, "clear states")
  /\ states' = <<>>
  /\ Continue(c, [op |-> "clear history"])
  /\ UNCHANGED <<now, scripts, history, exported>>

ClearHistory(c) ==
  /\ In(c, "clear history") /\ HistoryIsFree
  /\ history' = <<>>
  /\ Continue(c, None)
  /\ UNCHANGED <<now, scripts, states, exported>>

ManagerNext ==
  \/ ManagerTick
  \/ \E c \in Callers :
       \/ \E code \in Codes : InsertScript(c, code)
       \/ InitialiseState(c)
       \/ \E h \in ScriptHashes, k \in Keys, l \in Lengths : UpdateState(c, h, k, l)
       \/ \E h \in ScriptHashes, k \in Keys : DeleteState(c, h, k)
       \/ \E h \in ScriptHashes : DeactivateScript(c, h)
       \/ \E height \in Heights : CopyScripts(c, "snapshot", height)
       \/ CopyScripts(c, "export", 0)
       \/ CopyStates(c)
       \/ PushSnapshot(c)
       \/ ExportStates(c)
       \/ \E height \in Heights, t \in 0 .. MaxTime : Rollback(c, <<height, t>>)
       \/ \E e \in Importable : Import(c, e)
       \/ ReplaceStates(c)
       \/ ClearScripts(c)
       \/ ClearStates(c)
       \/ ClearHistory(c)

ManagerSpec == ManagerInit /\ [][ManagerNext]_managerVars

-----------------------------------------------------------------------------
(***************************************************************************)
(* Properties                                                              *)
(***************************************************************************)
Copies == {history[i].states : i \in DOMAIN history}
            \cup (IF exported = None THEN {} ELSE {exported.states})

\* Every variable has its type.
ManagerTypes ==
  /\ now \in 0 .. MaxTime
  /\ IsScripts(scripts) /\ IsStates(states)
  /\ Len(history) <= MaxHistoryDepth
  /\ \A i \in DOMAIN history :
       history[i].id \in Heights \X (0 .. MaxTime) /\ IsScripts(history[i].scripts)
  /\ \A s \in Copies : IsStates(s)
  /\ overlapped \in BOOLEAN

\* Every variable has its type, and the size kept beside a state, which decides
\* whether an update is taken, is the size of its entries and within the limit:
\* through updates that replace values, deletions, redeployments, and states that
\* come back by a rollback or an import.
SizeIsKept ==
  ManagerTypes /\ SizesAgree(states) /\ \A s \in Copies : SizesAgree(s)

\* As long as no two calls overlap, scripts and states are there for the same
\* hashes when no call is under way, and in every snapshot.  (Calls that do
\* overlap tear them apart for good: the maps have a mutex each.)
ScriptsHaveStates ==
  ~overlapped =>
    /\ (\A c \in Callers : Idle(c)) => DOMAIN scripts = DOMAIN states
    /\ \A i \in DOMAIN history : DOMAIN history[i].scripts = DOMAIN history[i].states
=============================================================================
