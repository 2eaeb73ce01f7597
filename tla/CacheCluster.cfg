CONSTANTS
  MaxBytes = 3
  KeyLen <- MCKeyLen
  ValueLen <- MCValueLen
  HasCallback = FALSE
  n1 = n1
  n2 = n2
  cl1 = cl1
  cl2 = cl2
  tom = tom
  a_b = a_b
  aPlusB = aPlusB
  empty = empty
  vTom = vTom
  vAB = vAB
  Nodes <- MCNodes
  Keys <- MCKeys
  EmptyKey = empty
  Clients <- MCClients
  ClientKeys <- MCClientKeys
  NodeOf <- MCNodeOf
  Handlers = {h1, h2}
  NoNode = NoNode
  NoProc = NoProc
  Peers <- MCNodes
  RingKeys <- MCKeys
  NoPeer = NoPeer
  Replicas = 2
  HashSize = 10
  HashVirtual <- MCHashVirtual
  HashKey <- MCHashKey
  Wire <- MCWire
  Source <- MCSource
  Missing = Missing
  MaxFaults = 1
  CallIds = {c1, c2, c3, c4}
  NoCall = NoCall
  NoKey = NoKey
  NoResult = NoResult
SPECIFICATION Spec
INVARIANTS OnlySourceValues OnlyOwnerCaches OwnerIsNext
PROPERTIES GetReturns
