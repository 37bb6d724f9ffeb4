SPECIFICATION Spec
CONSTANTS
  A = A
  B = B
  C = C
  c1 = c1
  c2 = c2
  qa = qa
  qb = qb
  q1 = q1
  k1 = k1
  k2 = k2
  o1 = o1
  m1 = m1
  m2 = m2
  m3 = m3
  NoGroup = NoGroup
  RoomTypes <- ChannelTypes
  Nights = {1}
  Capacity <- BlocksCapacity
  SellLimit <- BlocksCapacity
  Commands = {}
  QuoteReceipts <- ChannelQuoteReceipts
  Quotes = {q1}
  QuoteOf <- ChannelQuoteOf
  Stay <- BlocksStay
  RoomCount <- BlocksRoomCount
  MaxRooms = 1
  Keys = {k1}
  ReserveKey <- NoFunction
  ReleaseKey <- ChannelReleaseKey
  Otas = {}
  OtaStays = {}
  Blocks = {m1, m2, m3}
  BlockType <- BlocksType
  Groups = {"g1"}
INVARIANT
  BlockReleasable
CHECK_DEADLOCK FALSE
