SPECIFICATION Spec
CONSTANTS
  KeyType <- MCKeyType
  HostKeys = {"k0", "k1"}
  AclFiles <- MCAclFiles
  Requests <- MCRequests
  Times <- MCTimes
  Tags <- MCTags
  Owners <- MCOwners
  OwnerKeys = {"k0"}
  OwnerTags <- MCOwnerTags
  OtherChains <- MCOtherChains
  Messages = {"m1", "m2"}
  OtherSignatures <- MCOtherSignatures
  MaxFiles = 2
  MaxCerts = 2
INVARIANTS AuthorizeExact HoldersOnly
CHECK_DEADLOCK FALSE
