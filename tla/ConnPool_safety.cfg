SPECIFICATION Spec
CONSTANTS
  r1 = r1  r2 = r2  r3 = r3
  e1 = e1  e2 = e2  e3 = e3
  a1 = a1  a2 = a2
  Accounts = {a1}
  Requests = {r1, r2}
  Editors = {d1}
  Reaper = reaper
  Entries = {e1, e2}
  Hung = {}
  None = None
  MaxGen = 1
VIEW View
SYMMETRY Symmetry
INVARIANTS ExclusiveUse NeverCutShort OrphansAreLate StaleOnlyByOverlap
