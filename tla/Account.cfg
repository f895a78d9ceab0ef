SPECIFICATION FairSpec
CONSTANTS
  a = a
  b = b
  Accounts = {a, b}
  NoAccount = NoAccount
  Users <- WaitsOrHurries
  SocketIds = {s, t}
  NoSocket = NoSocket
INVARIANT OneStream
INVARIANT ShownIsStored
INVARIANT StreamNeverStalls
PROPERTY AccountIsServed
