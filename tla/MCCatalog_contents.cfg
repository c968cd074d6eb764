\* As MCCatalog.cfg, but with the promise of catalog.py:40: an archive that cannot be
\* read, or a pack that cannot be encoded, fails every refresh as long as it is there.
\* Ends in a counterexample.
SPECIFICATION FairSpec
CONSTANTS
  a = a
  b = b
  Key = {a, b}
  Pages = 2
  PageOf <- MCPageOf
  good = good
  huge = huge
  bomb = bomb
  odd = odd
  Version = {good, huge, bomb, odd}
  Uploads <- MCUploads
  Good = {good, odd}
  Oversized = {huge}
  Unreadable = {bomb}
  Unencodable = {odd}
  Reader = {r1, r2}
  Ttl = 3
  Retry = 2
  Second = 2
  Lag = 1
  None = None
PROPERTIES
  RecoversFromAnything
