SPECIFICATION Spec
CONSTANTS
  k1 = k1
  k2 = k2
  letter = letter
  c1 = c1
  c2 = c2
  Conn = {c1, c2}
  Key = {k1, k2}
  Token = {1}
  Deltas = {1}
  Base = 2
  ValMod = 4
  MaxLen = 2
  Space = Space
  MaxItems = 2
  ExpTimes <- NeverOrSoon
  TouchTimes <- Never
  FlushDelays <- NoTimes
  evict_to_free = TRUE
  lru_crawler = TRUE
  ITEM_UPDATE_INTERVAL = 1
  REALTIME_MAXDELTA = 9
  process_started = 90
  RelTimeMod = 64
  MaxTicks = 2
  MaxCas = 2
  Crawler = Crawler
  NoEntry = NoEntry
INVARIANT LruSorted
PROPERTY NoSpuriousLoss
PROPERTY ImplementsKVCache
CHECK_DEADLOCK FALSE
VIEW View
SYMMETRY Symmetry
