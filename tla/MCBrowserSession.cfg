CONSTANTS
  c1 = c1 a1 = a1
  Accounts = {c1, a1}
  RoleOf <- MCRoleOf
  Registered = {a1}
  Opened = {"/requests", "/register"}
  Visited = {"/login"}
  UserSlots = {u1}
  EffectSlots = {f1}
  MaxTokens = 2
  TokenIn = "header"
  Faults = {"unsent", "lost", "unstored"}
  None = None
SPECIFICATION SessionFairSpec
INVARIANTS
  SessionTypeOK
  EndedIsForgotten
  RedirectsSettle
PROPERTIES
  SpinnerEnds
  BusyEnds
