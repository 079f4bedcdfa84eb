SPECIFICATION TransportSpec
CONSTANTS
  local = local
  remote = remote
  Node = {local, remote}
  None = None
  Capacity = 2
  ReadSize = 2
  MaxSent = 2
SYMMETRY Nodes
INVARIANTS TransportTypeOK MapGuarded StopsOnlyJammed
PROPERTY DirectionsAreLossyLinks
CHECK_DEADLOCK FALSE
