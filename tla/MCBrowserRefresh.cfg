CONSTANTS
  c1 = c1 a1 = a1
  Accounts = {c1}
  RoleOf <- MCRoleOf
  Registered = {c1}
  Opened = {"/requests"}
  Visited = {"/login"}
  UserSlots = {u1}
  EffectSlots = {f1}
  MaxTokens = 2
  TokenIn = "body"
  Faults = {}
  None = None
SPECIFICATION SessionFairSpec
PROPERTIES
  ClearedOnlyWhenSpent
