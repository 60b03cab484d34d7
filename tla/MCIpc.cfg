CONSTANTS
  c1 = c1
  c2 = c2
  None = None
  Cpus = {c1, c2}
  Events = {e1, e2}
  Modes = {"Destination", "All", "AllButSelf"}
  Destinations <- MCDestinations
  Waits = {TRUE, FALSE}
  Elements = {11, 12, 13, 14}
  KeyOf <- MCKeyOf
  MaxKeys = 2
  ListHead = ListHead
  NULL = NULL
  HASH_UNIVERSAL_A = 3
  HASH_UNIVERSAL_B = 2
  HASH_UNIVERSAL_P = 7
SPECIFICATION MCFairSpec
INVARIANT IpcInv
INVARIANT HashInv
PROPERTY CallsReturn
CHECK_DEADLOCK FALSE
