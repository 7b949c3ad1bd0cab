CONSTANTS
  MemoryStores = {}
  LocalStores = {local}
  RemoteStores = {s3}
  FaultyExists = {}
  Ids = {i1, i2}
  Original = original
  Thumbs = {small}
  Uploads = {u1}
  Renders = {v1}
  Requests = {u1, v1}
  Old = old
  Junk = junk
  Nothing = nothing
  NoHash = nohash
  RepeatDraws = FALSE
  MaxCrashes = 1
SPECIFICATION Spec
SYMMETRY Symmetry
INVARIANTS ThumbHasOriginal
