SPECIFICATION FairSpec
CONSTANTS
  Paths = {"/", "/x"}
  Routes = {"/"}
  Requests <- MCRequests
  MaxRequests = 2
  Size = 2
  MaxSize = 7
  Clients <- MCClients
CHECK_DEADLOCK FALSE
INVARIANTS
  TypeOK
  RequestIsWhole
PROPERTIES
  RepliesInOrder
  EveryRequestAnswered
