CONSTANTS
  Chunks = {x, y}
  MaxChunks = 2
  MaxTransfers = 2
  MaxRewrites = 1
  Addrs = {a1}
  LeaseSecs = 2
  Offsets = {1, 6}
  Offset = 6
  MaxTracked = 1
  MaxLives = 2
  MaxFeed = 1
  MaxTime = 5
  Devices = {d1, d2}
  Owner = owner
  Codes = {c1, c2, short}
  SixDigits = {c1, c2}
  OfferTtl = 1
  MaxOffers = 2
  MaxTries = 2
  MaxClock = 2
  Seen <- SeenAddrs
  QuicPacket <- QuicShort
  MaxAsked = 3
  Messages <- SomeMessages
  MaxMessages = 2
SPECIFICATION Spec
INVARIANTS FinalIsWhole SuccessIsDelivered AddrInSync PairedAlike OwnAnswer 
PROPERTIES BothReturn 
\* Every part stops when its bounds are used up.
CHECK_DEADLOCK FALSE
