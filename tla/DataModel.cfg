CONSTANTS
  Files <- MCFiles
  Order <- MCOrder
  Databases = 1
  Class <- MCClass
  Clients = {"c1", "c2"}
  Jobs <- MCJobs
  Hosts = {"h1", "h2"}
  Registers <- MCRegisters
  Fields <- MCFields
  LaterFields <- MCLater
  Ready <- MCReady
  MayDie = {"h2"}
  MaxRestarts = 1
SPECIFICATION Spec
INVARIANTS TypeOK LookupIsExact NotifiedOnce Complete  FailureIsReported 
PROPERTY SetAsReported
