SPECIFICATION Spec
CONSTANTS
  A = A
  B = B
  C = C
  c1 = c1
  c2 = c2
  qa = qa
  qb = qb
  q1 = q1
  k1 = k1
  k2 = k2
  o1 = o1
  m1 = m1
  m2 = m2
  m3 = m3
  NoGroup = NoGroup
  RoomTypes <- ChannelTypes
  Nights = {1, 2}
  Capacity <- ChannelCapacity
  SellLimit <- ChannelSellLimit
  Commands = {}
  QuoteReceipts <- ChannelQuoteReceipts
  Quotes = {q1}
  QuoteOf <- ChannelQuoteOf
  Stay <- ChannelStay
  RoomCount <- ChannelRoomCount
  MaxRooms = 2
  Keys = {k1}
  ReserveKey <- NoFunction
  ReleaseKey <- ChannelReleaseKey
  Otas = {o1}
  OtaStays <- ChannelOtaStays
  Blocks = {m1}
  BlockType <- ChannelBlockType
  Groups = {"g1"}
INVARIANTS
  TypeOK
  RoomsSuffice
  BlockedExact
  DaysCoherent
PROPERTIES
  SaleNeedsFreeGroup
  ImplementsLedger
CHECK_DEADLOCK FALSE
