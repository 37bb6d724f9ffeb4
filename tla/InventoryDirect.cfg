SPECIFICATION Spec
CONSTANTS
  A = A
  B = B
  C = C
  c1 = c1
  c2 = c2
  qa = qa
  qb = qb
  q1 = q1
  k1 = k1
  k2 = k2
  o1 = o1
  m1 = m1
  m2 = m2
  m3 = m3
  NoGroup = NoGroup
  RoomTypes <- DirectTypes
  Nights = {1, 2}
  Capacity <- DirectCapacity
  SellLimit <- DirectCapacity
  Commands <- DirectCommands
  QuoteReceipts <- DirectQuoteReceipts
  Quotes = {q1}
  QuoteOf <- DirectQuoteOf
  Stay <- DirectStay
  RoomCount <- DirectRoomCount
  MaxRooms = 2
  Keys = {k1, k2}
  ReserveKey <- DirectReserveKey
  ReleaseKey <- DirectReleaseKey
  Otas = {}
  OtaStays = {}
  Blocks = {}
  BlockType <- NoFunction
  Groups = {"g1"}
INVARIANTS
  AssignedIsDemand
  KeyReservesOnce
  NoDoubleSale
  DerivedExact
  StopSellExact
PROPERTIES
  ChangeRevises
  ImplementsLedger
CHECK_DEADLOCK FALSE
