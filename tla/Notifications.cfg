SPECIFICATION Spec
CONSTANTS
  Apps = {a1}
  Panel = panel
  MaxToasts = 2
  MaxHistory = 2
  MaxId = 9
  DefaultTimeout = 1
  Expires = {0}
  Persisted <- FirstRun
  IdBound = 3
  UnseenBound = 1
INVARIANTS
    TypeOK
    Consistent
    OnlyLastingInHistory
    WithinCaps
    CriticalNeverTimed
PROPERTIES
    SendersAreTold
    CriticalIsShown
    HeldBannersStay
