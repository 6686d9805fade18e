----------------------------- MODULE ScriptStore -----------------------------
(***************************************************************************)
(* The data of the script state manager and what its operations do to them *)
(* (crates/execution/src/script_state.rs), for the manager itself and for  *)
(* the account layer, which owns one.                                      *)
(*                                                                         *)
(* A script is known by whether it is active, a value by its length.       *)
(***************************************************************************)
EXTENDS Integers, FiniteSetsExt

CONSTANTS Codes,         \* scripts with their owners
          ScriptHashes,  \* hashes of scripts
          Keys,          \* keys of state entries
          Lengths,       \* lengths of values
          MaxStateSize,  \* max_state_size, per script
          MaxTime        \* bound on the clock

ASSUME ScriptStoreAssumption ==
  /\ Lengths \subseteq Nat /\ MaxStateSize \in Nat /\ MaxTime \in Nat
  /\ ScriptHashes = Codes \X (0 .. MaxTime)

VARIABLES now,      \* the clock, in seconds
          scripts,  \* the deployed scripts, a function on their hashes
          states    \* their states, a function on hashes: the entries, a function
                    \* on keys, and total_size

\* Nothing, where there may be something.
None == [none |-> TRUE]

Put(f, key, value) == [x \in DOMAIN f \cup {key} |-> IF x = key THEN value ELSE f[x]]

Without(f, key) == [x \in DOMAIN f \ {key} |-> f[x]]

EmptyState == [entries |-> <<>>, size |-> 0]

Deployed(table, hash) == Put(table, hash, [active |-> TRUE])

Initialised(table, hash) == Put(table, hash, EmptyState)

OldLength(state, key) == IF key \in DOMAIN state.entries THEN state.entries[key] ELSE 0

\* Mutant: the length of the value that is replaced is not taken off.
NewSizeAdded(state, key, length) == state.size + length

NewSize(state, key, length) == state.size + length - OldLength(state, key)

\* update_state fails when the script is not known, or the state would grow
\* too large.
CanUpdate(table, hash, key, length) ==
  hash \in DOMAIN table /\ NewSize(table[hash], key, length) <= MaxStateSize

Updated(table, hash, key, length) ==
  [table EXCEPT ![hash] = [entries |-> Put(@.entries, key, length),
                           size    |-> NewSize(@, key, length)]]

\* delete_state, of an entry that is there; else nothing changes.
Deleted(table, hash, key) ==
  [table EXCEPT ![hash] = [entries |-> Without(@.entries, key),
                           size    |-> @.size - OldLength(@, key)]]

-----------------------------------------------------------------------------
IsScripts(table) ==
  /\ DOMAIN table \subseteq ScriptHashes
  /\ \A h \in DOMAIN table : table[h] \in [active : BOOLEAN]

IsStates(table) ==
  /\ DOMAIN table \subseteq ScriptHashes
  /\ \A h \in DOMAIN table :
       /\ DOMAIN table[h].entries \subseteq Keys
       /\ \A k \in DOMAIN table[h].entries : table[h].entries[k] \in Lengths
       /\ table[h].size \in Nat

\* The sum of the weights w of the elements of T.
SumOver(w, T) == MapThenSumSet(LAMBDA x : w[x], T)

Total(entries) == SumOver(entries, DOMAIN entries)

\* The size kept beside the entries is their size, and within the limit.
SizesAgree(table) ==
  \A h \in DOMAIN table :
    /\ table[h].size = Total(table[h].entries)
    /\ table[h].size <= MaxStateSize

-----------------------------------------------------------------------------
(***************************************************************************)
(* The maps, as sets.                                                      *)
(***************************************************************************)
Entries == UNION {[K -> Lengths] : K \in {K \in SUBSET Keys : IsFiniteSet(K)}}

\* States whose sizes are those of their entries, and within the limit.
SizedStates ==
  {state \in [entries : Entries, size : 0 .. MaxStateSize] :
     state.size = Total(state.entries)}

StateMaps == UNION {[D -> SizedStates] : D \in SUBSET ScriptHashes}

ScriptMaps == UNION {[D -> [active : BOOLEAN]] : D \in SUBSET ScriptHashes}
=============================================================================
