CONSTANTS
  a = a  b = b  f1 = f1  f2 = f2  k = k  t = t  room = room  daemon = daemon
  Op = {a, b}
  Routes <- RoutesAll
  Folded = {}
  KeyOf <- NoKeys
  Deferred = {}
  Fragile = {a}
  Queued = {}
  Leased = {}
  Durable = {}
  Patient = FALSE
  MaxReconnects = 1
  MaxDown = 2
  Rooms = {room}
  Daemon = daemon
  Table = {t}
  Touches <- TouchAll
  Key = {k}
SPECIFICATION Spec
INVARIANT NoMidGap
CHECK_DEADLOCK FALSE
