SPECIFICATION Spec
CONSTANTS
  Workers <- MCWorkers
  MaxDepth = 2
  MaxLease = 2
  Dispatchers <- MCDispatchers
  MaxRetries <- MCMaxRetries
  Deployments <- MCDeployments
INVARIANTS
  TypeOK
  NoSilentRead
  WorkedOnOnce
  RelaysBounded
PROPERTIES
  Settles
