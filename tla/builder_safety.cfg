SPECIFICATION Spec
CONSTANTS
  Builds = {b1, b2, b3}
  Writers = {w1, w2, w3}
  UUIDs = {u1, u2, u3}
  Discard = Discard
  NoID = NoID
  shared = shared
  Pings <- MCPings
SYMMETRY Symmetry
INVARIANTS
  TypeOK
  OwnPayload
  IdSharedOnPurpose
PROPERTIES
  BufferIsCallers
  KeepsBuildContract
