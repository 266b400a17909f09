SPECIFICATION ScanSpec
CONSTANTS
  Key <- MCKey
  Hash <- MCHash
  Entry = {e1}
  NoEntry = NoEntry
  BucketCount = 4
  MinBuckets = 4
  Counts = {0, 1, 2}
  Patterns <- MCPatterns
INVARIANTS OnePlace SizeCountsKeys LoadBounded ScanComplete QuietScanExact
PROPERTIES ImplementsMap CallsHaveTheirEffect ScanEnds
