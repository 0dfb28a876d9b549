SPECIFICATION Spec
CONSTANTS
  Apps = {a1}
  Panel = panel
  MaxToasts = 1
  MaxHistory = 1
  MaxId = 9
  DefaultTimeout = 1
  Expires = {0}
  Persisted <- FirstRun
  IdBound = 2
  UnseenBound = 2
INVARIANTS
  KnownIsShown
