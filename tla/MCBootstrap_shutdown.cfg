\* Two connections, two shutdowns, Redis failing and recovering.
SPECIFICATION FairSpec
CONSTANTS
  MaxConnections = 2
  MaxShutdowns = 2
\* The process ends.
CHECK_DEADLOCK FALSE
INVARIANTS StopsInOrder
PROPERTIES NoJobAfterStop ShutdownEnds ComesUp
