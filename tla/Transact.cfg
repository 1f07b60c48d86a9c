SPECIFICATION Spec
CONSTANTS
  Triple <- MCTriple
  Multiple <- MCMultiple
  Required <- MCRequired
  RefPredicate <- MCRefPredicate
  MaxOperations = 3
  Seed <- MCSeed
  Caches <- MCCaches
  Author = {"ann", "bob"}
  Authorized <- CheckWrite
  EntityOf <- MCEntityOf
  Rules <- MCRules
  PathsOf <- Mentioned
  Allows <- Holds
  Sealed <- MCSealed
  Credential <- MCSeed
CHECK_DEADLOCK FALSE
INVARIANTS
  TransactTypeOK
  StaysSingleValued
  StoreIsComplete
  CompiledKeepsMeaning
  PreviewKeepsMeaning
PROPERTY
  SealedNeedsCredential
