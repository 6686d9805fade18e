SPECIFICATION ManagerSpec
CONSTANTS
  a = a
  Codes = {a}
  ScriptHashes <- MCHashes
  Keys = {k1, k2}
  Lengths = {1, 2}
  MaxStateSize = 2
  Callers = {t1, t2}
  Heights = {7}
  MaxHistoryDepth = 1
  Foreign <- MCForeign
  MaxTime = 1
  MaxCalls = 6
SYMMETRY ThreadSymmetry
INVARIANTS
  SizeIsKept
  ScriptsHaveStates
CHECK_DEADLOCK FALSE
