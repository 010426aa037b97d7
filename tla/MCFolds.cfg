CONSTANTS
  a = a  b = b  f1 = f1  f2 = f2  k = k  t = t  room = room  daemon = daemon
  Op = {a, f1, f2}
  Routes <- RoutesFolds
  Folded = {f1, f2}
  KeyOf <- KeyAll
  Deferred = {}
  Fragile = {}
  Queued = {daemon}
  Leased = {}
  Durable = {}
  Patient = TRUE
  MaxReconnects = 1
  MaxDown = 2
  Rooms = {room}
  Daemon = daemon
  Table = {t}
  Touches <- TouchAll
  Key = {k}
SPECIFICATION SessionsSpec
INVARIANTS NeverFaulted NoLostWrite NoMidGap MidBinding ReplayFollowsSendOrder
CHECK_DEADLOCK FALSE
