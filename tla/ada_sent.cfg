SPECIFICATION Spec
CONSTANTS
  c1 = c1  c2 = c2
  Calls = {c1}
  Seeds = {"s", "t"}
  Transactions <- MCTransactions
  Addresses <- MCAddresses
  SigningPaths <- MCSigningPaths
  KeyRequests <- MCKeyRequests
  NativeScripts <- MCNativeScripts
INVARIANTS SentAsAsked
