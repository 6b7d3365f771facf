SPECIFICATION EncodeSpec
CONSTANTS
  Max32 = 36
  MaxCount = 2
  Max16 = 39
  NameLens = {1}
  BodyLens = {0}
  Sizes = {0}
  MaxEntries = 2
  FileLens = {0, 5, 36}
  MmapThreshold = 6
  ParallelFrom = 36
  Chunk = 12
  PartSlack = 3
  PartGrow = 2
  DeflateSlack = 2
  ReadLens <- MCReadLens
  DeflateLens <- MCDeflateLens
  OtherLens <- MCOtherLens
  PartLens <- MCPartLens
  MaxChanges = 1
INVARIANTS
  ReadsBack
  LocalHeadersChain
  ReaderAccepts
  UnchangedIsExact
  SetLenWithinCapacity
