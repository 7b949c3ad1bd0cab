CONSTANTS
  MemoryStores = {}
  LocalStores = {local}
  RemoteStores = {s3}
  FaultyExists = {}
  Ids = {i1, i2}
  Original = original
  Thumbs = {small}
  Uploads = {u1, u2}
  Renders = {}
  Requests = {u1, u2}
  Old = old
  Junk = junk
  Nothing = nothing
  NoHash = nohash
  RepeatDraws = FALSE
  MaxCrashes = 1
SPECIFICATION Spec
SYMMETRY Symmetry
INVARIANTS TypeOK AckedDurable IdsKept
PROPERTIES ResponseComplete OldImagesKept ArchiveSpec
