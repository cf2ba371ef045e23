SPECIFICATION Spec
CONSTANTS
  Bases <- MCBases
  Alternatives <- MCAlternatives
  Singles <- MCSingles
  WitnessPaths <- MCWitnessPaths
  Messages <- MCMessages
  Votes <- MCVotes
  Certificates <- MCCertificates
  Scripts <- MCScripts
  Addresses <- MCAddresses
  KeyPaths <- MCKeyPaths
CHECK_DEADLOCK FALSE
INVARIANTS TypeOK OwnersCanSign PoolModesExclusive OwnerAddsOneShare ModeDecidesWhoSigns FeeIsUint64 TokensInRange MarginAtMostOne BundlesCanonical
