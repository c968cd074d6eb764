\* Two keys, two packs of which one cannot be encoded, an archive too large to be read
\* and one that cannot be read, and a lifetime of three ticks of half a second; once
\* trouble ends, the catalog is right again.
SPECIFICATION FairSpec
CONSTANTS
  a = a
  b = b
  Key = {a, b}
  Pages = 2
  PageOf <- MCPageOf
  good = good
  huge = huge
  bomb = bomb
  odd = odd
  Version = {good, huge, bomb, odd}
  Uploads <- MCUploads
  Good = {good, odd}
  Oversized = {huge}
  Unreadable = {bomb}
  Unencodable = {odd}
  Reader = {r1, r2}
  Ttl = 3
  Retry = 2
  Second = 2
  Lag = 1
  None = None
INVARIANT
  NothingOutlivesItsScan
PROPERTIES
  IndexesWereSo
  ScansAreSpaced
  CatalogRecovers
