SPECIFICATION Spec
CONSTANTS
  k1 = k1
  k2 = k2
  letter = letter
  c1 = c1
  c2 = c2
  Conn = {c1}
  Key = {k1, k2}
  Token = {1, letter}
  Deltas = {1}
  Base = 2
  ValMod = 4
  MaxLen = 2
  Space = Space
  MaxItems = 2
  ExpTimes <- Relative
  TouchTimes <- Relative
  FlushDelays <- Now
  evict_to_free = FALSE
  lru_crawler = FALSE
  ITEM_UPDATE_INTERVAL = 1
  REALTIME_MAXDELTA = 9
  process_started = 90
  RelTimeMod = 64
  MaxTicks = 3
  MaxCas = 2
  Crawler = Crawler
  NoEntry = NoEntry
INVARIANT TypeOK
INVARIANT FlushInvalidates
PROPERTY TouchInThePast
PROPERTY ImplementsKVCache
CHECK_DEADLOCK FALSE
VIEW View
SYMMETRY Symmetry
