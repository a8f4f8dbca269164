SPECIFICATION Spec
CHECK_DEADLOCK FALSE
CONSTANTS
  NoMarket = NoMarket
  Markets = {a, b}
  Slots = 2
  MaxQueue = 2
  Stamps = {1, 2}
  MaxReceived = 4
  MaxConnects = 2
INVARIANTS
  SlotsComeBack
