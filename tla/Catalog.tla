------------------------------ MODULE Catalog -------------------------------
(***************************************************************************)
(* The public index of the object archive                                  *)
(* (deploy/object-archive/indexer/catalog.py): a threading HTTP server     *)
(* whose requests share one cached catalog, refreshed by scanning the      *)
(* buckets under a lock while objects come and go, and an HTTP cache in    *)
(* front of it.                                                            *)
(*                                                                         *)
(* What an archive contains is a version: accepted, rejected, or such that *)
(* the refresh fails of it.  Time passes in ticks: deadlines are kept as   *)
(* the ticks left until them.                                              *)
(***************************************************************************)
EXTENDS Integers, FiniteSets

CONSTANTS
  Key,        \* object keys that end in .carddeck
  Pages,      \* pages of a listing, over all buckets
  PageOf,     \* PageOf[k]: the page that has k when k is there
  Version,    \* archives
  Uploads,    \* Uploads[k]: those that somebody may store under k
  Good,       \* those read_members and the checks after it have nothing against
  Oversized,  \* those a listing shows to be too large to be read
  Unreadable,  \* those whose reading raises none of ARCHIVE_ERRORS: bz2's OSError,
               \* LZMAError
  Unencodable, \* good ones whose metadata has no UTF-8: a lone surrogate
  Reader,     \* request threads
  Ttl,        \* CATALOG_CACHE_TTL, in ticks
  Retry,      \* STALE_RETRY_SECONDS, in ticks
  Second,     \* ticks in a second: max-age is in whole seconds
  Lag,        \* an answer reaches the HTTP cache within this many ticks
  None        \* no object, no entry, no catalog, nobody

\* cache_ttl (58-71) stops the service on a time to live that is not a number >= 0.
ASSUME TimesAssumption ==
  Ttl \in Nat /\ Retry \in Nat /\ Second \in Nat \ {0} /\ Lag \in Nat

ASSUME ObjectsAssumption ==
  /\ Pages \in Nat /\ PageOf \in [Key -> 1..Pages]
  /\ Good \subseteq Version /\ Oversized \cup Unreadable \subseteq Version \ Good
  /\ Unencodable \subseteq Good /\ Uploads \in [Key -> SUBSET Version]

VARIABLES
  objects,   \* objects[k]: what the archive stores under k
  scan,      \* the refresh under way, by the reader that holds the lock
  cache,     \* PayloadCache
  reader,    \* reader[r]: a request
  copy,      \* what the HTTP cache in front may answer with
  past       \* history: what was stored during this scan, ticks since the last one

vars == <<objects, scan, cache, reader, copy, past>>

Stored == Version \cup {None}

\* A catalogued pack has the etag of the listing and the sha256 of what was read.
Rejected == [status |-> "rejected", etag |-> None, sha |-> None]
Pack(listed, read) == [status |-> "pack", etag |-> listed, sha |-> read]
Entry == {Rejected} \cup {Pack(v, w) : v \in Version, w \in Version}

Body == [Key -> Entry \cup {None}]

ASSUME NoneAssumption == None \notin Reader \cup Version \cup Entry \cup Body

Empty == [k \in Key |-> None]

Old == Ttl + Lag + 1   \* bound: an age stops here, past every comparison with one

HoldOff == IF Ttl < Retry THEN Ttl ELSE Retry

ScanState ==
  [by : Reader \cup {None}, page : 0..Pages, todo : [Key -> Stored], found : Body]

CacheState ==
  [body : Body \cup {None}, left : 0..(Ttl + Retry), stale : BOOLEAN, age : 0..Old,
   failure : BOOLEAN, hold : 0..Retry]

ReaderState ==
  [pc : {"idle", "waiting", "scanning", "got"}, body : Body \cup {None}, left : 0..Ttl,
   age : 0..Old, late : 0..Lag]

TypeOK ==
  /\ objects \in [Key -> Stored]
  /\ scan \in ScanState
  /\ cache \in CacheState
  /\ reader \in [Reader -> ReaderState]
  /\ copy \in [body : Body \cup {None}, left : 0..Ttl, age : 0..Old]
  /\ past \in [seen : [Key -> SUBSET Stored], since : 0..Retry]

NoScan == [by |-> None, page |-> 0, todo |-> Empty, found |-> Empty]

At(pc) == [pc |-> pc, body |-> None, left |-> 0, age |-> 0, late |-> 0]

\* main: nothing is scanned before the first request.
Init ==
  /\ objects \in [Key -> Stored] /\ \A k \in Key : objects[k] \in Uploads[k] \cup {None}
  /\ scan = NoScan
  /\ cache = [body |-> None, left |-> 0, stale |-> FALSE, age |-> 0,
              failure |-> FALSE, hold |-> 0]
  /\ reader = [r \in Reader |-> At("idle")]
  /\ copy = [body |-> None, left |-> 0, age |-> 0]
  /\ past = [seen |-> [k \in Key |-> {}], since |-> Retry]

-----------------------------------------------------------------------------
(* The archive, and time.                                                  *)

\* Somebody puts, replaces or deletes an object.
Store(k, v) ==
  /\ objects[k] # v
  /\ objects' = [objects EXCEPT ![k] = v]
  /\ past' = [past EXCEPT !.seen[k] = IF scan.by = None THEN {} ELSE @ \cup {v}]
  /\ UNCHANGED <<scan, cache, reader, copy>>

Less(n) == IF n > 0 THEN n - 1 ELSE 0
Older(n) == IF n < Old THEN n + 1 ELSE n

Tick ==
  /\ \A r \in Reader : reader[r].pc = "got" => reader[r].late < Lag
  /\ cache' = [cache EXCEPT !.left = Less(@), !.age = Older(@), !.hold = Less(@)]
  /\ reader' = [r \in Reader |->
       IF reader[r].pc = "got" THEN [reader[r] EXCEPT !.age = Older(@), !.late = @ + 1]
       ELSE reader[r]]
  /\ copy' = [copy EXCEPT !.left = Less(@), !.age = Older(@)]
  /\ past' = [past EXCEPT !.since = IF @ < Retry THEN @ + 1 ELSE @]
  /\ UNCHANGED <<objects, scan>>

-----------------------------------------------------------------------------
(* PayloadCache.get, whose lock is held for the whole of a scan.           *)

Ask(r) ==
  /\ reader[r].pc = "idle"
  /\ reader' = [reader EXCEPT ![r] = At("waiting")]
  /\ UNCHANGED <<objects, scan, cache, copy, past>>

Got(body, left, age) == [pc |-> "got", body |-> body, left |-> left, age |-> age, late |-> 0]

\* The lock is taken, and the clock read.
Locks(r) == reader[r].pc = "waiting" /\ scan.by = None

Hit_when_stale(r) ==
  /\ Locks(r) /\ cache.body # None /\ (cache.left > 0 \/ cache.stale)
  /\ reader' = [reader EXCEPT ![r] = Got(cache.body, 0, cache.age)]
  /\ UNCHANGED <<objects, scan, cache, copy, past>>

Hit_stale_as_fresh(r) ==
  /\ Locks(r) /\ cache.body # None /\ cache.left > 0
  /\ reader' = [reader EXCEPT ![r] = Got(cache.body, cache.left, cache.age)]
  /\ UNCHANGED <<objects, scan, cache, copy, past>>

\* Another's refresh counts, that of a failure too; a stale body may not be kept.
Hit(r) ==
  /\ Locks(r) /\ cache.body # None /\ cache.left > 0
  /\ reader' = [reader EXCEPT
       ![r] = Got(cache.body, IF cache.stale THEN 0 ELSE cache.left, cache.age)]
  /\ UNCHANGED <<objects, scan, cache, copy, past>>

\* Nothing cached, and storage was down a moment ago: 503.
Barred(r) ==
  /\ Locks(r) /\ cache.body = None /\ cache.failure /\ cache.hold > 0
  /\ reader' = [reader EXCEPT ![r] = At("idle")]
  /\ UNCHANGED <<objects, scan, cache, copy, past>>

MustScan_when_cold == cache.body = None \/ cache.left = 0

MustScan == IF cache.body # None THEN cache.left = 0 ELSE ~cache.failure \/ cache.hold = 0

StartScan(r) ==
  /\ Locks(r) /\ MustScan
  /\ scan' = [NoScan EXCEPT !.by = r]
  /\ reader' = [reader EXCEPT ![r] = At("scanning")]
  /\ past' = [past EXCEPT !.seen = [k \in Key |-> {objects[k]}]]
  /\ UNCHANGED <<objects, cache, copy>>

Scanning == scan.by # None
PageDone == \A k \in Key : scan.todo[k] = None

\* payload: the next page of a listing, when the archives of the last are read.
List ==
  /\ Scanning /\ PageDone /\ scan.page < Pages
  /\ LET next == scan.page + 1
     IN  scan' = [scan EXCEPT !.page = next,
                    !.todo = [k \in Key |-> IF PageOf[k] = next THEN objects[k] ELSE None]]
  /\ UNCHANGED <<objects, cache, reader, copy, past>>

\* pack: too large by the listing, or read and found good, or malformed with one of
\* ARCHIVE_ERRORS; for the other errors see Lost.
Verdict(listed, read) ==
  IF listed \in Oversized \/ read \notin Good THEN Rejected ELSE Pack(listed, read)

Read(k) ==
  LET listed == scan.todo[k]
  IN  /\ Scanning /\ listed # None
      /\ listed \in Oversized \/ objects[k] \in Version \ Unreadable
      /\ scan' = [scan EXCEPT !.todo[k] = None, !.found[k] = Verdict(listed, objects[k])]
      /\ UNCHANGED <<objects, cache, reader, copy, past>>

\* The hold-off counts from the end of the failed scan.
HeldOff(c) ==
  IF c.body = None THEN [c EXCEPT !.failure = TRUE, !.hold = HoldOff]
  ELSE [c EXCEPT !.stale = TRUE, !.left = HoldOff]

\* The refresh fails: the old catalog is answered with, if there is one.
Failed ==
  /\ scan' = NoScan
  /\ cache' = HeldOff(cache)
  /\ reader' = [reader EXCEPT
       ![scan.by] = IF cache.body = None THEN At("idle") ELSE Got(cache.body, 0, cache.age)]
  /\ past' = [seen |-> [k \in Key |-> {}], since |-> 0]
  /\ UNCHANGED <<objects, copy>>

Outage_rejects ==
  /\ \E k \in Key : scan.todo[k] # None
  /\ scan' = [scan EXCEPT !.todo = Empty,
       !.found = [k \in Key |-> IF scan.todo[k] # None THEN Rejected ELSE @[k]]]
  /\ UNCHANGED <<objects, cache, reader, copy, past>>

\* The storage does not answer, at any request of the scan.
Outage == Scanning /\ Failed

\* The archive was deleted after it was listed, or cannot be read, and the exception is
\* none of ARCHIVE_ERRORS.
Lost(k) == scan.todo[k] \in Version \ Oversized /\ objects[k] \in Unreadable \cup {None}

Unread(k) == Scanning /\ Lost(k) /\ Failed

\* The lifetime counts from the end of the scan.
Refreshed(c, body) ==
  [c EXCEPT !.body = body, !.left = Ttl, !.stale = FALSE, !.age = 0, !.failure = FALSE]

ScanDone == Scanning /\ PageDone /\ scan.page = Pages

\* What get encodes has the metadata of the packs.
Encodable(body) == \A k \in Key, v \in Version, w \in Unencodable : body[k] # Pack(v, w)

Built ==
  /\ ScanDone /\ Encodable(scan.found)
  /\ scan' = NoScan
  /\ cache' = Refreshed(cache, scan.found)
  /\ reader' = [reader EXCEPT ![scan.by] = Got(scan.found, Ttl, 0)]
  /\ past' = [seen |-> [k \in Key |-> {}], since |-> 0]
  /\ UNCHANGED <<objects, copy>>

Unencoded == ScanDone /\ ~Encodable(scan.found) /\ Failed

-----------------------------------------------------------------------------
(* Handler._serve, and the HTTP cache in front of it.                      *)

\* Whole seconds; with none left, no-cache.
MaxAge(left) == left - (left % Second)

Respond(r) ==
  LET keep == MaxAge(reader[r].left)
  IN  /\ reader[r].pc = "got"
      /\ reader' = [reader EXCEPT ![r] = At("idle")]
      /\ copy' = IF keep > 0 THEN [body |-> reader[r].body, left |-> keep, age |-> reader[r].age]
                 ELSE copy
      /\ UNCHANGED <<objects, scan, cache, past>>

Next ==
  \/ \E k \in Key : \E v \in Uploads[k] \cup {None} : Store(k, v)
  \/ Tick
  \/ \E r \in Reader : Ask(r) \/ Hit(r) \/ Barred(r) \/ StartScan(r) \/ Respond(r)
  \/ List \/ Outage \/ Built \/ Unencoded
  \/ \E k \in Key : Read(k) \/ Unread(k)

Spec == Init /\ [][Next]_vars

-----------------------------------------------------------------------------
(* Properties.                                                             *)

\* Whatever an HTTP cache keeps as fresh was scanned no longer than the time to live
\* before it ceases to be, but for the time its answer took: never for a time that
\* starts anew, and nothing of a stale catalog (get 189-216, _serve 283-290).
NothingOutlivesItsScan ==
  copy.left > 0 => copy.age + copy.left <= Ttl + Lag

\* What an index says of a key was so while it was made: an archive stored during the
\* scan, rejected for what an archive contained, or left out when there was none, though
\* objects change and storage fails meanwhile (payload 253-268, ARCHIVE_ERRORS 41-45).
WasSo(entry, seen) ==
  \/ entry = None /\ None \in seen
  \/ entry = Rejected /\ \E v \in seen \ {None} : v \notin Good
  \/ \E v \in seen, w \in seen \cap Good : entry = Pack(v, w)

Published == scan.by # None /\ scan'.by = None /\ cache'.body # None /\ ~cache'.stale

IndexesWereSo ==
  [][Published => \A k \in Key : WasSo(cache'.body[k], past.seen[k])]_vars

\* However many requests wait, and whether it failed or not, no scan follows another
\* sooner than the lifetime or the hold-off, whichever is less (get 189-216).
ScansAreSpaced ==
  [][scan.by = None /\ scan'.by # None => past.since >= HoldOff]_vars

\* Requests come, time passes, and who holds the lock goes on.
FairSpec ==
  /\ Spec
  /\ WF_vars(Tick) /\ WF_vars(\E r \in Reader : Ask(r))
  /\ WF_vars(\E r \in Reader : Hit(r) \/ Barred(r) \/ StartScan(r))
  /\ WF_vars(List \/ Built \/ Unencoded \/ \E k \in Key : Read(k) \/ Unread(k))
  /\ \A r \in Reader : WF_vars(Respond(r))

Index == [k \in Key |-> IF objects[k] = None THEN None ELSE Verdict(objects[k], objects[k])]

\* A scan that fails of what it found, whether storage answers or not.
Doomed == (\E k \in Key : Lost(k)) \/ (ScanDone /\ ~Encodable(scan.found))

\* Something is stored that fails every scan.
Spoilt ==
  \E k \in Key : objects[k] \in Unreadable \ Oversized \/ objects[k] \in Unencodable

\* The promise of catalog.py:40-43, which does not hold (MCCatalog_contents.cfg): once
\* storage answers again and nobody changes it, the catalog is right in the end and
\* stays so, whatever the archives contain.
RecoversFromAnything ==
  (<>[][Outage => Doomed]_vars /\ <>[][objects' = objects]_objects) => <>[](cache.body = Index)

\* What does: neither a stale copy nor a remembered failure is for ever once nothing is
\* stored that fails every scan, also if something was (get 189-216, ARCHIVE_ERRORS).
CatalogRecovers == []<>~Spoilt => RecoversFromAnything

=============================================================================
