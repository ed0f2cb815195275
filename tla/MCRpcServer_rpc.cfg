\* Both classes with the tries appcfg gives them, two calls in a row.
SPECIFICATION FairSpec
CONSTANTS
  RpcTries = 3
  AuthTries = 3
  MaxSends = 2
INVARIANTS
  TypeOK
PROPERTIES
  PromptsOnDemand
  ImplementsRpcCall
  EverySendEnds
CHECK_DEADLOCK TRUE
