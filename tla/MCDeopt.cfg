CONSTANTS
  a = a  b = b  f1 = f1  f2 = f2  k = k  t = t  room = room  daemon = daemon
  Op = {a, b}
  Routes <- RoutesAll
  Folded = {}
  KeyOf <- NoKeys
  Deferred = {}
  Fragile = {}
  Queued = {daemon}
  Leased = {room}
  Durable = {room}
  Patient = FALSE
  MaxReconnects = 2
  MaxDown = 2
  Rooms = {room}
  Daemon = daemon
  Table = {t}
  Touches <- TouchAll
  Key = {k}
SYMMETRY Perms
SPECIFICATION Spec
INVARIANTS AppliedAtMostOnce NoLostWrite NoMidGap ReplayFollowsSendOrder
CHECK_DEADLOCK FALSE
