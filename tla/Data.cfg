SPECIFICATION Spec
CONSTANTS
  Addr = {1, 2, 3, 4, 5, 6}
  Fd = {3, 4, 5, 6, 7, 8, 9}
  VecMin = 2
  Programs <- Catalogue
  Fields <- RecFields
INVARIANTS
  CountsExact
  NotBroken
  BlocksReturned
  QuietInError
  DescriptorsOwned
  BytesKept
PROPERTIES
  CloneDetached
CHECK_DEADLOCK FALSE
