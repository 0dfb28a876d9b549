SPECIFICATION RestartSpec
CONSTANTS
  Apps = {a1}
  Panel = panel
  MaxToasts = 1
  MaxHistory = 2
  MaxId = 5
  DefaultTimeout = 1
  Expires = {0}
  Persisted <- FirstRun
  IdBound = 2
  UnseenBound = 1
INVARIANTS
  RestartForgetsNothing
PROPERTIES
  RestoredKeepTheirIds
