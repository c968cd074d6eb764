--------------------------- MODULE CatalogProofs ----------------------------
(***************************************************************************)
(* Proofs about the index of the object archive (Catalog).                 *)
(*                                                                         *)
(* The inductive invariant says what each deadline is worth while time     *)
(* runs on: how old a body is together with how long it may still be used  *)
(* (Fresh), how long ago the last scan was together with how long the next *)
(* one must wait (Spaced), and of the scan under way, that every page      *)
(* behind it is accounted for (Accounted).                                 *)
(***************************************************************************)
EXTENDS Catalog, TLAPS

\* One refresh at a time, by a reader that does nothing else meanwhile.
LockHeld ==
  IF scan.by = None THEN scan = NoScan ELSE reader[scan.by].pc = "scanning"

Fresh ==
  /\ ~cache.stale /\ cache.left > 0 => cache.age + cache.left <= Ttl
  /\ \A r \in Reader :
       reader[r].pc = "got" /\ reader[r].left > 0
         => reader[r].age + reader[r].left <= Ttl + reader[r].late
  /\ NothingOutlivesItsScan

Spaced ==
  /\ cache.body # None => cache.left + past.since >= HoldOff
  /\ cache.body = None /\ cache.failure => cache.hold + past.since >= HoldOff
  /\ cache.body = None /\ ~cache.failure => past.since >= HoldOff

\* What the scan has of a key: to be read, not yet listed, or accounted for.
AccountedFor(k) ==
  /\ objects[k] \in past.seen[k]
  /\ scan.todo[k] # None => scan.todo[k] \in past.seen[k] /\ PageOf[k] <= scan.page
  /\ PageOf[k] > scan.page => scan.found[k] = None
  /\ PageOf[k] <= scan.page /\ scan.todo[k] = None => WasSo(scan.found[k], past.seen[k])

Accounted == scan.by # None => \A k \in Key : AccountedFor(k)

CatalogInv == TypeOK /\ LockHeld /\ Fresh /\ Spaced /\ Accounted

-----------------------------------------------------------------------------

LEMMA HoldOffBounds == HoldOff \in 0..Retry /\ HoldOff <= Ttl
BY TimesAssumption DEF HoldOff

LEMMA OldBounds == Old \in Nat /\ Old = Ttl + Lag + 1
BY TimesAssumption DEF Old

LEMMA EmptyIsTyped == Empty \in Body /\ Empty \in [Key -> Stored]
BY DEF Empty, Body, Stored

LEMMA NoScanIsTyped == NoScan \in ScanState
BY EmptyIsTyped, ObjectsAssumption DEF NoScan, ScanState

LEMMA AtIsTyped ==
  ASSUME NEW pc \in {"idle", "waiting", "scanning", "got"} PROVE At(pc) \in ReaderState
BY TimesAssumption, OldBounds DEF At, ReaderState

LEMMA GotIsTyped ==
  ASSUME NEW body \in Body, NEW left \in 0..Ttl, NEW age \in 0..Old
  PROVE  Got(body, left, age) \in ReaderState
BY TimesAssumption DEF Got, ReaderState

\* What was so stays so when more has been seen.
LEMMA SeeingMore ==
  ASSUME NEW seen, NEW more, seen \subseteq more, NEW entry, WasSo(entry, seen)
  PROVE  WasSo(entry, more)
BY DEF WasSo

\* A verdict speaks of an archive listed and an archive read.
LEMMA VerdictWasSo ==
  ASSUME NEW seen \in SUBSET Stored, NEW listed \in seen \ {None}, NEW read \in seen,
         listed \in Oversized \/ read # None
  PROVE  WasSo(Verdict(listed, read), seen) /\ Verdict(listed, read) \in Entry
<1>1. listed \in Version
  BY DEF Stored
<1>2. CASE listed \in Oversized
  <2>1. Verdict(listed, read) = Rejected /\ listed \notin Good
    BY <1>2, ObjectsAssumption DEF Verdict
  <2> QED BY <2>1 DEF WasSo, Entry
<1>3. CASE listed \notin Oversized /\ read \notin Good
  <2>1. Verdict(listed, read) = Rejected /\ read \in seen \ {None}
    BY <1>3 DEF Verdict
  <2> QED BY <1>3, <2>1 DEF WasSo, Entry
<1>4. CASE listed \notin Oversized /\ read \in Good
  <2>1. Verdict(listed, read) = Pack(listed, read) /\ read \in Version /\ read \in seen \cap Good
    BY <1>4, ObjectsAssumption DEF Verdict
  <2> QED BY <1>1, <2>1 DEF WasSo, Entry
<1> QED BY <1>2, <1>3, <1>4

LEMMA InitHolds == Init => CatalogInv
<1> SUFFICES ASSUME Init PROVE CatalogInv
  OBVIOUS
<1> USE DEF Init
<1>1. TypeOK
  <2>1. scan \in ScanState
    BY NoScanIsTyped
  <2>2. cache \in CacheState
    BY TimesAssumption, OldBounds DEF CacheState
  <2>3. reader \in [Reader -> ReaderState]
    BY AtIsTyped
  <2>4. copy \in [body : Body \cup {None}, left : 0..Ttl, age : 0..Old]
    BY TimesAssumption, OldBounds
  <2>5. past \in [seen : [Key -> SUBSET Stored], since : 0..Retry]
    BY TimesAssumption
  <2> QED BY <2>1, <2>2, <2>3, <2>4, <2>5 DEF TypeOK
<1>2. LockHeld
  BY DEF LockHeld, NoScan
<1>3. Fresh
  BY DEF Fresh, At, NothingOutlivesItsScan
<1>4. Spaced
  BY HoldOffBounds, TimesAssumption DEF Spaced
<1>5. Accounted
  BY DEF Accounted, NoScan
<1> QED BY <1>1, <1>2, <1>3, <1>4, <1>5 DEF CatalogInv

-----------------------------------------------------------------------------
(* The archive, and time.                                                  *)

LEMMA StoreKeeps ==
  ASSUME CatalogInv, NEW k \in Key, NEW v \in Stored, Store(k, v) PROVE CatalogInv'
<1> USE DEF CatalogInv
<1>1. /\ objects \in [Key -> Stored] /\ past \in [seen : [Key -> SUBSET Stored], since : 0..Retry]
      /\ objects' = [objects EXCEPT ![k] = v]
      /\ past' = [past EXCEPT !.seen[k] = IF scan.by = None THEN {} ELSE @ \cup {v}]
      /\ UNCHANGED <<scan, cache, reader, copy>>
  BY DEF Store, TypeOK
<1>2. past'.since = past.since /\ objects' \in [Key -> Stored]
      /\ past' \in [seen : [Key -> SUBSET Stored], since : 0..Retry]
  BY <1>1
<1>3. TypeOK'
  BY <1>1, <1>2 DEF TypeOK
<1>4. LockHeld' /\ Fresh' /\ Spaced'
  BY <1>1, <1>2 DEF LockHeld, Fresh, Spaced, NothingOutlivesItsScan
<1>5. Accounted'
  <2>1. SUFFICES ASSUME scan.by # None, NEW q \in Key PROVE AccountedFor(q)'
    BY <1>1 DEF Accounted
  <2>2. past.seen[q] \subseteq past'.seen[q] /\ objects'[q] \in past'.seen[q]
    BY <1>1, <2>1 DEF Accounted, AccountedFor
  <2> QED BY <1>1, <2>1, <2>2, SeeingMore DEF Accounted, AccountedFor
<1> QED BY <1>3, <1>4, <1>5

LEMMA TickKeeps == ASSUME CatalogInv, Tick PROVE CatalogInv'
<1> USE DEF CatalogInv
<1>0. /\ Ttl \in Nat /\ Retry \in Nat /\ Lag \in Nat /\ Old \in Nat
      /\ HoldOff \in 0..Retry /\ HoldOff <= Ttl
  BY TimesAssumption, OldBounds, HoldOffBounds
<1>1. /\ cache \in CacheState /\ reader \in [Reader -> ReaderState]
      /\ copy \in [body : Body \cup {None}, left : 0..Ttl, age : 0..Old]
      /\ past \in [seen : [Key -> SUBSET Stored], since : 0..Retry]
  BY DEF TypeOK
<1>2. /\ cache' = [cache EXCEPT !.left = Less(@), !.age = Older(@), !.hold = Less(@)]
      /\ copy' = [copy EXCEPT !.left = Less(@), !.age = Older(@)]
      /\ past' = [past EXCEPT !.since = IF @ < Retry THEN @ + 1 ELSE @]
      /\ UNCHANGED <<objects, scan>>
  BY DEF Tick
<1>3. \A n \in Nat, top \in Nat : n <= top => Less(n) \in 0..top
  BY DEF Less
<1>4. \A n \in 0..Old : Older(n) \in 0..Old
  BY <1>0 DEF Older
<1>5. /\ cache'.left = Less(cache.left) /\ cache'.age = Older(cache.age)
      /\ cache'.hold = Less(cache.hold) /\ cache'.body = cache.body
      /\ cache'.stale = cache.stale /\ cache'.failure = cache.failure
      /\ past'.seen = past.seen
      /\ past'.since = IF past.since < Retry THEN past.since + 1 ELSE past.since
      /\ copy'.left = Less(copy.left) /\ copy'.age = Older(copy.age)
  BY <1>1, <1>2 DEF CacheState
<1>6. ASSUME NEW r \in Reader
      PROVE  /\ reader'[r] \in ReaderState /\ reader'[r].pc = reader[r].pc
             /\ reader[r].pc = "got" =>
                  /\ reader'[r].left = reader[r].left
                  /\ reader'[r].age = Older(reader[r].age)
                  /\ reader'[r].late = reader[r].late + 1
  <2>1. reader[r] \in ReaderState
    BY <1>1
  <2>2. CASE reader[r].pc = "got"
    <3>1. reader[r].late < Lag
      BY <2>2 DEF Tick
    <3>2. reader'[r] = [reader[r] EXCEPT !.age = Older(@), !.late = @ + 1]
      BY <2>2 DEF Tick
    <3>3. Older(reader[r].age) \in 0..Old /\ reader[r].late + 1 \in 0..Lag
      BY <1>0, <1>4, <2>1, <3>1 DEF ReaderState
    <3> QED BY <2>1, <3>2, <3>3 DEF ReaderState
  <2>3. CASE reader[r].pc # "got"
    BY <2>1, <2>3 DEF Tick
  <2> QED BY <2>2, <2>3
<1>7. TypeOK'
  <2>1. cache' \in CacheState
    <3>1. Less(cache.left) \in 0..(Ttl + Retry) /\ Less(cache.hold) \in 0..Retry
      BY <1>0, <1>1 DEF Less, CacheState
    <3>2. Older(cache.age) \in 0..Old
      BY <1>1, <1>4 DEF CacheState
    <3> QED BY <1>1, <1>2, <3>1, <3>2 DEF CacheState
  <2>2. reader' \in [Reader -> ReaderState]
    BY <1>6 DEF Tick
  <2>3. copy' \in [body : Body \cup {None}, left : 0..Ttl, age : 0..Old]
    <3>1. Less(copy.left) \in 0..Ttl /\ Older(copy.age) \in 0..Old
      BY <1>0, <1>1, <1>4 DEF Less
    <3> QED BY <1>1, <1>2, <3>1
  <2>4. past' \in [seen : [Key -> SUBSET Stored], since : 0..Retry]
    <3>1. (IF past.since < Retry THEN past.since + 1 ELSE past.since) \in 0..Retry
      BY <1>0, <1>1
    <3> QED BY <1>1, <1>2, <3>1
  <2> QED BY <1>2, <2>1, <2>2, <2>3, <2>4 DEF TypeOK
<1>8. LockHeld'
  BY <1>2, <1>6, <1>1 DEF LockHeld, TypeOK, ScanState
<1>9. Fresh'
  <2>1. \A age \in Nat : Older(age) \in Nat /\ Older(age) <= age + 1
    BY <1>0 DEF Older
  <2>2. ~cache'.stale /\ cache'.left > 0 => cache'.age + cache'.left <= Ttl
    <3>1. cache.left \in Nat /\ cache.age \in Nat
      BY <1>0, <1>1 DEF CacheState
    <3>2. ~cache.stale /\ cache.left > 0 => cache.age + cache.left <= Ttl
      BY DEF Fresh
    <3> QED BY <1>0, <1>5, <3>1, <3>2 DEF Less, Older
  <2>3. ASSUME NEW r \in Reader, reader'[r].pc = "got", reader'[r].left > 0
        PROVE  reader'[r].age + reader'[r].left <= Ttl + reader'[r].late
    <3>1. reader[r].left \in Nat /\ reader[r].age \in Nat /\ reader[r].late \in Nat
      BY <1>0, <1>1 DEF ReaderState
    <3> QED BY <1>0, <1>6, <2>1, <2>3, <3>1 DEF Fresh
  <2>4. NothingOutlivesItsScan'
    <3>1. copy.left \in Nat /\ copy.age \in Nat
      BY <1>0, <1>1
    <3>2. copy.left > 0 => copy.age + copy.left <= Ttl + Lag
      BY DEF Fresh, NothingOutlivesItsScan
    <3> QED BY <1>0, <1>5, <3>1, <3>2 DEF Less, Older, NothingOutlivesItsScan
  <2> QED BY <2>2, <2>3, <2>4 DEF Fresh
<1>10. Spaced'
  <2>1. cache.left \in Nat /\ cache.hold \in Nat /\ past.since \in 0..Retry
    BY <1>0, <1>1 DEF CacheState
  <2> QED BY <1>0, <1>5, <2>1 DEF Spaced, Less
<1>11. Accounted'
  BY <1>2, <1>5 DEF Accounted, AccountedFor
<1> QED BY <1>7, <1>8, <1>9, <1>10, <1>11

-----------------------------------------------------------------------------
(* Requests.                                                               *)

\* A step that gives one reader a new state, and leaves scan and cache alone.
LEMMA ReaderKeeps ==
  ASSUME CatalogInv, NEW r \in Reader, NEW state \in ReaderState,
         reader' = [reader EXCEPT ![r] = state],
         scan.by = None \/ scan.by # r,
         state.pc = "got" /\ state.left > 0 => state.age + state.left <= Ttl + state.late,
         UNCHANGED <<objects, scan, cache, past>>,
         copy' \in [body : Body \cup {None}, left : 0..Ttl, age : 0..Old],
         NothingOutlivesItsScan'
  PROVE  CatalogInv'
<1> USE DEF CatalogInv
<1>1. reader \in [Reader -> ReaderState]
  BY DEF TypeOK
<1>2. TypeOK'
  BY <1>1 DEF TypeOK
<1>3. LockHeld'
  BY <1>1 DEF LockHeld
<1>4. Fresh'
  BY <1>1 DEF Fresh
<1>5. Spaced' /\ Accounted'
  BY DEF Spaced, Accounted, AccountedFor
<1> QED BY <1>2, <1>3, <1>4, <1>5

LEMMA AskKeeps ==
  ASSUME CatalogInv, NEW r \in Reader, Ask(r) PROVE CatalogInv'
<1> DEFINE state == At("waiting")
<1>1. /\ reader[r].pc = "idle" /\ reader' = [reader EXCEPT ![r] = state]
      /\ UNCHANGED <<objects, scan, cache, copy, past>>
  BY DEF Ask
<1>2. state \in ReaderState /\ ~(state.left > 0)
  BY AtIsTyped DEF At
<1>3. scan.by = None \/ scan.by # r
  BY <1>1 DEF CatalogInv, LockHeld
<1>4. copy' \in [body : Body \cup {None}, left : 0..Ttl, age : 0..Old] /\ NothingOutlivesItsScan'
  BY <1>1 DEF CatalogInv, TypeOK, Fresh, NothingOutlivesItsScan
<1> HIDE DEF state
<1> QED BY <1>1, <1>2, <1>3, <1>4, ReaderKeeps

LEMMA BarredKeeps ==
  ASSUME CatalogInv, NEW r \in Reader, Barred(r) PROVE CatalogInv'
<1> DEFINE state == At("idle")
<1>1. /\ scan.by = None /\ reader' = [reader EXCEPT ![r] = state]
      /\ UNCHANGED <<objects, scan, cache, copy, past>>
  BY DEF Barred, Locks
<1>2. state \in ReaderState /\ ~(state.left > 0)
  BY AtIsTyped DEF At
<1>3. copy' \in [body : Body \cup {None}, left : 0..Ttl, age : 0..Old] /\ NothingOutlivesItsScan'
  BY <1>1 DEF CatalogInv, TypeOK, Fresh, NothingOutlivesItsScan
<1> HIDE DEF state
<1> QED BY <1>1, <1>2, <1>3, ReaderKeeps

LEMMA HitKeeps ==
  ASSUME CatalogInv, NEW r \in Reader, Hit(r) PROVE CatalogInv'
<1> DEFINE left == IF cache.stale THEN 0 ELSE cache.left
           state == Got(cache.body, left, cache.age)
<1>1. /\ scan.by = None /\ cache.body # None /\ cache.left > 0
      /\ reader' = [reader EXCEPT ![r] = state]
      /\ UNCHANGED <<objects, scan, cache, copy, past>>
  BY DEF Hit, Locks
<1>2. cache \in CacheState /\ Ttl \in Nat /\ Retry \in Nat /\ Old \in Nat
  BY TimesAssumption, OldBounds DEF CatalogInv, TypeOK
<1>3. cache.body \in Body /\ cache.age \in 0..Old /\ cache.left \in Nat
  BY <1>1, <1>2 DEF CacheState
<1>4. left \in 0..Ttl /\ (left > 0 => cache.age + left <= Ttl)
  BY <1>1, <1>2, <1>3 DEF CatalogInv, Fresh
<1> HIDE DEF left
<1>5. state \in ReaderState
  BY <1>3, <1>4, GotIsTyped
<1>6. state.left = left /\ state.age = cache.age /\ state.late = 0
  BY DEF Got
<1>7. copy' \in [body : Body \cup {None}, left : 0..Ttl, age : 0..Old] /\ NothingOutlivesItsScan'
  BY <1>1 DEF CatalogInv, TypeOK, Fresh, NothingOutlivesItsScan
<1>8. state.pc = "got" /\ state.left > 0 => state.age + state.left <= Ttl + state.late
  BY <1>2, <1>4, <1>6
<1> HIDE DEF state
<1> QED BY <1>1, <1>5, <1>7, <1>8, ReaderKeeps

LEMMA MaxAgeBounds ==
  ASSUME NEW left \in 0..Ttl PROVE MaxAge(left) \in 0..Ttl /\ MaxAge(left) <= left
<1>1. Second \in Nat \ {0} /\ Ttl \in Nat
  BY TimesAssumption
<1>2. left % Second \in 0..(Second - 1) /\ left % Second <= left
  <2>1. left = Second * (left \div Second) + (left % Second) /\ left % Second \in 0..(Second - 1)
    BY <1>1
  <2>2. left \div Second \in Nat
    BY <1>1
  <2>3. Second * (left \div Second) >= 0
    BY <1>1, <2>2
  <2> QED BY <1>1, <2>1, <2>3
<1> QED BY <1>1, <1>2 DEF MaxAge

LEMMA RespondKeeps ==
  ASSUME CatalogInv, NEW r \in Reader, Respond(r) PROVE CatalogInv'
<1> DEFINE state == At("idle")
           keep == MaxAge(reader[r].left)
<1>1. /\ reader[r].pc = "got" /\ reader' = [reader EXCEPT ![r] = state]
      /\ copy' = IF keep > 0 THEN [body |-> reader[r].body, left |-> keep, age |-> reader[r].age]
                 ELSE copy
      /\ UNCHANGED <<objects, scan, cache, past>>
  BY DEF Respond
<1>2. state \in ReaderState /\ ~(state.left > 0)
  BY AtIsTyped DEF At
<1>3. scan.by = None \/ scan.by # r
  BY <1>1 DEF CatalogInv, LockHeld
<1>4. /\ reader[r].body \in Body \cup {None} /\ reader[r].left \in 0..Ttl
      /\ reader[r].age \in 0..Old /\ reader[r].late \in 0..Lag
  BY DEF CatalogInv, TypeOK, ReaderState
<1>5. keep \in 0..Ttl /\ keep <= reader[r].left
  BY <1>4, MaxAgeBounds
<1>6. keep > 0 => reader[r].age + keep <= Ttl + Lag
  BY <1>1, <1>4, <1>5, TimesAssumption, OldBounds DEF CatalogInv, Fresh
<1> HIDE DEF state, keep
<1>7. copy' \in [body : Body \cup {None}, left : 0..Ttl, age : 0..Old]
  BY <1>1, <1>4, <1>5 DEF CatalogInv, TypeOK
<1>8. NothingOutlivesItsScan'
  BY <1>1, <1>6 DEF CatalogInv, Fresh, NothingOutlivesItsScan
<1> QED BY <1>1, <1>2, <1>3, <1>7, <1>8, ReaderKeeps

-----------------------------------------------------------------------------
(* The scan.                                                               *)

LEMMA StartScanKeeps ==
  ASSUME CatalogInv, NEW r \in Reader, StartScan(r) PROVE CatalogInv'
<1> USE DEF CatalogInv
<1>1. /\ scan.by = None /\ scan' = [NoScan EXCEPT !.by = r]
      /\ reader' = [reader EXCEPT ![r] = At("scanning")]
      /\ past' = [past EXCEPT !.seen = [k \in Key |-> {objects[k]}]]
      /\ UNCHANGED <<objects, cache, copy>>
  BY DEF StartScan, Locks
<1>2. /\ scan' = [by |-> r, page |-> 0, todo |-> Empty, found |-> Empty]
      /\ past'.since = past.since /\ past'.seen = [k \in Key |-> {objects[k]}]
      /\ past' \in [seen : [Key -> SUBSET Stored], since : 0..Retry]
  BY <1>1 DEF NoScan, TypeOK
<1>3. At("scanning") \in ReaderState /\ At("scanning").pc = "scanning"
  BY AtIsTyped DEF At
<1>4. scan' \in ScanState
  BY <1>2, EmptyIsTyped, ObjectsAssumption DEF ScanState
<1>5. TypeOK'
  BY <1>1, <1>2, <1>3, <1>4 DEF TypeOK
<1>6. LockHeld'
  BY <1>1, <1>2, <1>3, NoneAssumption DEF LockHeld, TypeOK
<1>7. Fresh'
  BY <1>1, <1>3 DEF Fresh, NothingOutlivesItsScan, TypeOK
<1>8. Spaced'
  BY <1>1, <1>2 DEF Spaced
<1>9. Accounted'
  <2>1. SUFFICES ASSUME NEW k \in Key PROVE AccountedFor(k)'
    BY DEF Accounted
  <2>2. PageOf[k] \in 1..Pages /\ Pages \in Nat
    BY ObjectsAssumption
  <2> QED BY <1>1, <1>2, <2>2 DEF AccountedFor, Empty
<1> QED BY <1>5, <1>6, <1>7, <1>8, <1>9

LEMMA ListKeeps == ASSUME CatalogInv, List PROVE CatalogInv'
<1> USE DEF CatalogInv
<1> DEFINE next == scan.page + 1
           todo == [k \in Key |-> IF PageOf[k] = next THEN objects[k] ELSE None]
<1>1. /\ scan.by # None /\ scan.page < Pages /\ \A k \in Key : scan.todo[k] = None
      /\ scan' = [scan EXCEPT !.page = next, !.todo = todo]
      /\ UNCHANGED <<objects, cache, reader, copy, past>>
  BY DEF List, Scanning, PageDone
<1>2. scan \in ScanState /\ objects \in [Key -> Stored] /\ Pages \in Nat
  BY ObjectsAssumption DEF TypeOK
<1>3. next \in 0..Pages /\ todo \in [Key -> Stored]
  BY <1>1, <1>2 DEF ScanState, Stored
<1>4. /\ scan'.by = scan.by /\ scan'.page = next /\ scan'.todo = todo /\ scan'.found = scan.found
      /\ scan' \in ScanState
  BY <1>1, <1>2, <1>3 DEF ScanState
<1>5. TypeOK' /\ LockHeld' /\ Fresh' /\ Spaced'
  BY <1>1, <1>4 DEF TypeOK, LockHeld, Fresh, Spaced, NothingOutlivesItsScan
<1>6. Accounted'
  <2>1. SUFFICES ASSUME NEW k \in Key PROVE AccountedFor(k)'
    BY DEF Accounted
  <2>2. PageOf[k] \in 1..Pages /\ scan.page \in 0..Pages /\ AccountedFor(k)
    BY <1>1, <1>2, ObjectsAssumption DEF ScanState, Accounted
  <2>3. CASE PageOf[k] = next
    <3>1. scan.found[k] = None /\ objects[k] \in past.seen[k] /\ todo[k] = objects[k]
      BY <1>2, <2>2, <2>3 DEF AccountedFor
    <3>2. objects[k] = None => WasSo(scan.found[k], past.seen[k])
      BY <3>1 DEF WasSo
    <3> HIDE DEF todo
    <3> QED BY <1>1, <1>2, <1>4, <2>2, <2>3, <3>1, <3>2 DEF AccountedFor
  <2>4. CASE PageOf[k] # next
    <3>1. todo[k] = None /\ scan.todo[k] = None
      BY <1>1, <2>4
    <3> HIDE DEF todo
    <3> QED BY <1>1, <1>2, <1>4, <2>2, <2>4, <3>1 DEF AccountedFor
  <2> QED BY <2>3, <2>4
<1> QED BY <1>5, <1>6

LEMMA ReadKeeps == ASSUME CatalogInv, NEW k \in Key, Read(k) PROVE CatalogInv'
<1> USE DEF CatalogInv
<1> DEFINE listed == scan.todo[k]
           entry == Verdict(listed, objects[k])
<1>1. /\ scan.by # None /\ listed # None
      /\ listed \in Oversized \/ objects[k] \in Version \ Unreadable
      /\ scan' = [scan EXCEPT !.todo[k] = None, !.found[k] = entry]
      /\ UNCHANGED <<objects, cache, reader, copy, past>>
  BY DEF Read, Scanning
<1>2. /\ scan \in ScanState /\ AccountedFor(k) /\ past.seen[k] \in SUBSET Stored
      /\ listed \in past.seen[k] /\ PageOf[k] <= scan.page
  BY <1>1 DEF TypeOK, Accounted, AccountedFor
<1>3. WasSo(entry, past.seen[k]) /\ entry \in Entry
  <2>1. objects[k] \in past.seen[k] /\ listed \in past.seen[k] \ {None}
    BY <1>1, <1>2 DEF AccountedFor
  <2> HIDE DEF listed
  <2>2. listed \in Oversized \/ objects[k] # None
    BY <1>1, NoneAssumption
  <2> QED BY <1>2, <2>1, <2>2, VerdictWasSo
<1> HIDE DEF entry
<1>4. /\ scan'.by = scan.by /\ scan'.page = scan.page
      /\ scan'.todo = [scan.todo EXCEPT ![k] = None]
      /\ scan'.found = [scan.found EXCEPT ![k] = entry]
      /\ scan' \in ScanState
  BY <1>1, <1>2, <1>3 DEF ScanState, Stored, Body
<1>5. TypeOK' /\ LockHeld' /\ Fresh' /\ Spaced'
  BY <1>1, <1>4 DEF TypeOK, LockHeld, Fresh, Spaced, NothingOutlivesItsScan
<1>6. Accounted'
  <2>1. SUFFICES ASSUME NEW q \in Key PROVE AccountedFor(q)'
    BY DEF Accounted
  <2>2. AccountedFor(q)
    BY <1>1 DEF Accounted
  <2>3. CASE q = k
    <3>1. scan'.todo[q] = None /\ scan'.found[q] = entry
      BY <1>2, <1>4, <2>3 DEF ScanState, Body
    <3>2. PageOf[q] \in Int /\ scan.page \in Int
      BY <1>2, ObjectsAssumption DEF ScanState
    <3> QED BY <1>1, <1>2, <1>3, <1>4, <2>2, <2>3, <3>1, <3>2 DEF AccountedFor
  <2>4. CASE q # k
    <3>1. scan'.todo[q] = scan.todo[q] /\ scan'.found[q] = scan.found[q]
      BY <1>2, <1>4, <2>4 DEF ScanState, Body
    <3> QED BY <1>1, <1>4, <2>2, <3>1 DEF AccountedFor
  <2> QED BY <2>3, <2>4
<1> QED BY <1>5, <1>6

\* The end of a scan, whatever its outcome.
LEMMA EndKeeps ==
  ASSUME CatalogInv, scan.by # None, NEW state \in ReaderState, NEW c \in CacheState,
         scan' = NoScan, cache' = c, reader' = [reader EXCEPT ![scan.by] = state],
         past' = [seen |-> [k \in Key |-> {}], since |-> 0],
         UNCHANGED <<objects, copy>>,
         ~c.stale /\ c.left > 0 => c.age + c.left <= Ttl,
         state.pc = "got" /\ state.left > 0 => state.age + state.left <= Ttl + state.late,
         c.body # None => c.left >= HoldOff,
         c.body = None => c.failure /\ c.hold >= HoldOff
  PROVE  CatalogInv'
<1> USE DEF CatalogInv
<1>0. scan.by \in Reader /\ Retry \in Nat /\ reader \in [Reader -> ReaderState]
  BY TimesAssumption DEF TypeOK, ScanState
<1>1. TypeOK'
  <2>1. past' \in [seen : [Key -> SUBSET Stored], since : 0..Retry]
    BY <1>0
  <2> QED BY <1>0, <2>1, NoScanIsTyped DEF TypeOK
<1>2. LockHeld'
  BY DEF LockHeld, NoScan
<1>3. Fresh'
  BY <1>0 DEF Fresh, NothingOutlivesItsScan
<1>4. Spaced'
  <2>1. /\ c.left \in Nat /\ c.hold \in Nat /\ HoldOff \in Nat /\ past'.since = 0
    BY TimesAssumption, HoldOffBounds DEF CacheState
  <2> QED BY <2>1 DEF Spaced
<1>5. Accounted'
  BY DEF Accounted, NoScan
<1> QED BY <1>1, <1>2, <1>3, <1>4, <1>5

LEMMA FailedKeeps == ASSUME CatalogInv, Scanning, Failed PROVE CatalogInv'
<1> USE DEF CatalogInv
<1> DEFINE state == IF cache.body = None THEN At("idle") ELSE Got(cache.body, 0, cache.age)
           c == HeldOff(cache)
<1>1. /\ scan.by # None /\ scan' = NoScan /\ cache' = c
      /\ reader' = [reader EXCEPT ![scan.by] = state]
      /\ past' = [seen |-> [k \in Key |-> {}], since |-> 0] /\ UNCHANGED <<objects, copy>>
  BY DEF Failed, Scanning
<1>2. cache \in CacheState /\ HoldOff \in 0..Retry /\ Ttl \in Nat /\ Retry \in Nat
  BY HoldOffBounds, TimesAssumption DEF TypeOK
<1>3. state \in ReaderState /\ ~(state.left > 0)
  <2>1. CASE cache.body = None
    BY <2>1, AtIsTyped DEF At
  <2>2. CASE cache.body # None
    <3>1. cache.body \in Body /\ cache.age \in 0..Old /\ 0 \in 0..Ttl
      BY <1>2, <2>2 DEF CacheState
    <3> QED BY <2>2, <3>1, GotIsTyped DEF Got
  <2> QED BY <2>1, <2>2
<1>4. /\ c \in CacheState /\ c.body = cache.body
      /\ c.body # None => c.stale /\ c.left = HoldOff
      /\ c.body = None => /\ c.failure /\ c.hold = HoldOff /\ c.left = cache.left
                          /\ c.stale = cache.stale /\ c.age = cache.age
  <2>1. HoldOff \in 0..(Ttl + Retry)
    BY <1>2
  <2>2. CASE cache.body = None
    <3>1. c = [cache EXCEPT !.failure = TRUE, !.hold = HoldOff]
      BY <2>2 DEF HeldOff
    <3> QED BY <1>2, <2>2, <3>1 DEF CacheState
  <2>3. CASE cache.body # None
    <3>1. c = [cache EXCEPT !.stale = TRUE, !.left = HoldOff]
      BY <2>3 DEF HeldOff
    <3> QED BY <1>2, <2>1, <2>3, <3>1 DEF CacheState
  <2> QED BY <2>2, <2>3
<1> HIDE DEF state, c
<1>5. ~c.stale /\ c.left > 0 => c.age + c.left <= Ttl
  BY <1>4 DEF Fresh
<1>6. c.left >= HoldOff \/ c.body = None
  BY <1>2, <1>4
<1>7. c.body = None => c.failure /\ c.hold >= HoldOff
  BY <1>2, <1>4
<1> QED BY <1>1, <1>3, <1>4, <1>5, <1>6, <1>7, EndKeeps

LEMMA BuiltKeeps == ASSUME CatalogInv, Built PROVE CatalogInv'
<1> USE DEF CatalogInv
<1> DEFINE state == Got(scan.found, Ttl, 0)
           c == Refreshed(cache, scan.found)
<1>1. /\ scan.by # None /\ scan' = NoScan /\ cache' = c
      /\ reader' = [reader EXCEPT ![scan.by] = state]
      /\ past' = [seen |-> [k \in Key |-> {}], since |-> 0] /\ UNCHANGED <<objects, copy>>
  BY DEF Built, ScanDone, Scanning
<1>2. /\ cache \in CacheState /\ scan.found \in Body
      /\ Ttl \in Nat /\ Retry \in Nat /\ Old \in Nat /\ Lag \in Nat
  BY TimesAssumption, OldBounds DEF TypeOK, ScanState
<1>3. state \in ReaderState /\ state.left = Ttl /\ state.age = 0 /\ state.late = 0
  BY <1>2, GotIsTyped DEF Got
<1>4. c \in CacheState /\ c.body = scan.found /\ c.left = Ttl /\ c.age = 0
  <2>1. Ttl \in 0..(Ttl + Retry) /\ 0 \in 0..Old
    BY <1>2
  <2>2. c = [cache EXCEPT !.body = scan.found, !.left = Ttl, !.stale = FALSE, !.age = 0,
                          !.failure = FALSE]
    BY DEF Refreshed
  <2> QED BY <1>2, <2>1, <2>2 DEF CacheState
<1>5. c.body # None
  BY <1>2, <1>4, NoneAssumption
<1> HIDE DEF state, c
<1>6. c.left >= HoldOff /\ c.age + c.left <= Ttl /\ state.age + state.left <= Ttl + state.late
  BY <1>2, <1>3, <1>4, HoldOffBounds
<1> QED BY <1>1, <1>3, <1>4, <1>5, <1>6, EndKeeps

LEMMA StepKeeps == CatalogInv /\ [Next]_vars => CatalogInv'
<1> SUFFICES ASSUME CatalogInv, [Next]_vars PROVE CatalogInv'
  OBVIOUS
<1>1. ASSUME NEW k \in Key, NEW v \in Uploads[k] \cup {None}, Store(k, v) PROVE CatalogInv'
  <2>1. v \in Stored
    BY ObjectsAssumption DEF Stored
  <2> QED BY <1>1, <2>1, StoreKeeps
<1>2. CASE Tick
  BY <1>2, TickKeeps
<1>3. ASSUME NEW r \in Reader, Ask(r) \/ Hit(r) \/ Barred(r) \/ StartScan(r) \/ Respond(r)
      PROVE  CatalogInv'
  BY <1>3, AskKeeps, HitKeeps, BarredKeeps, StartScanKeeps, RespondKeeps
<1>4. CASE List
  BY <1>4, ListKeeps
<1>5. CASE Outage
  BY <1>5, FailedKeeps DEF Outage
<1>6. CASE Built
  BY <1>6, BuiltKeeps
<1>7. ASSUME NEW k \in Key, Read(k) \/ Unread(k) PROVE CatalogInv'
  BY <1>7, ReadKeeps, FailedKeeps DEF Unread
<1>8. CASE Unencoded
  BY <1>8, FailedKeeps DEF Unencoded, ScanDone
<1>9. CASE UNCHANGED vars
  BY <1>9 DEF vars, CatalogInv, TypeOK, LockHeld, Fresh, Spaced, Accounted, AccountedFor,
              NothingOutlivesItsScan
<1> QED BY <1>1, <1>2, <1>3, <1>4, <1>5, <1>6, <1>7, <1>8, <1>9 DEF Next

\* The invariant of every refresh, at any number of keys, pages, requests and ticks.
THEOREM CatalogIsSound == Spec => []CatalogInv
<1>1. Init => CatalogInv
  BY InitHolds
<1>2. CatalogInv /\ [Next]_vars => CatalogInv'
  BY StepKeeps
<1> QED BY <1>1, <1>2, PTL DEF Spec

-----------------------------------------------------------------------------
(* The properties of the runs.                                             *)

\* TypeOK is part of the invariant.
THEOREM CatalogTyped == Spec => []TypeOK
<1>1. CatalogInv => TypeOK
  BY DEF CatalogInv
<1> QED BY <1>1, CatalogIsSound, PTL

\* No HTTP cache keeps an index as fresh past the lifetime of its scan.
THEOREM NothingIsKeptTooLong == Spec => []NothingOutlivesItsScan
<1>1. CatalogInv => NothingOutlivesItsScan
  BY DEF CatalogInv, Fresh
<1> QED BY <1>1, CatalogIsSound, PTL

\* Only Built ends a scan with an index that is not stale.
LEMMA PublishedIsBuilt ==
  ASSUME CatalogInv, [Next]_vars, Published
  PROVE  Built
<1>0. cache \in CacheState
  BY DEF CatalogInv, TypeOK
<1>1. ~Failed
  BY <1>0 DEF Failed, HeldOff, Published, CacheState
<1>2. scan' # scan
  BY DEF Published
<1>3. ASSUME NEW r \in Reader, StartScan(r) PROVE FALSE
  BY <1>3 DEF StartScan, Locks, Published
<1>4. ASSUME NEW k \in Key, Read(k) PROVE FALSE
  BY <1>4 DEF Read, Published, CatalogInv, TypeOK, ScanState
<1>5. List => FALSE
  BY DEF List, Published, CatalogInv, TypeOK, ScanState
<1> QED BY <1>1, <1>2, <1>3, <1>4, <1>5
        DEF Next, vars, Store, Tick, Ask, Hit, Barred, Respond, Outage, Unread, Unencoded

\* An index says of every key what was so at some moment of its scan.
THEOREM EveryIndexWasSo == Spec => IndexesWereSo
<1>1. ASSUME CatalogInv, [Next]_vars, Published, NEW k \in Key
      PROVE  WasSo(cache'.body[k], past.seen[k])
  <2>1. Built
    BY <1>1, PublishedIsBuilt
  <2>2. /\ scan.by # None /\ scan.todo[k] = None /\ scan.page = Pages /\ AccountedFor(k)
        /\ PageOf[k] \in 1..Pages
    BY <1>1, <2>1, ObjectsAssumption
       DEF Built, ScanDone, Scanning, PageDone, CatalogInv, Accounted
  <2>3. cache'.body = scan.found
    BY <1>1, <2>1 DEF Built, Refreshed, CatalogInv, TypeOK, CacheState
  <2> QED BY <2>2, <2>3, ObjectsAssumption DEF AccountedFor
<1>2. CatalogInv /\ [Next]_vars =>
        [Published => \A k \in Key : WasSo(cache'.body[k], past.seen[k])]_vars
  BY <1>1
<1> QED BY <1>2, CatalogIsSound, PTL DEF Spec, IndexesWereSo

\* Scans do not follow each other sooner than the lifetime or the hold-off.
THEOREM ScansKeepTheirDistance == Spec => ScansAreSpaced
<1>1. ASSUME CatalogInv, [Next]_vars, scan.by = None, scan'.by # None
      PROVE  past.since >= HoldOff
  <2>1. \E r \in Reader : StartScan(r)
    BY <1>1 DEF Next, vars, Store, Tick, Ask, Hit, Barred, Respond, List, Outage, Built,
                Unencoded, ScanDone, Read, Unread, Scanning
  <2>2. MustScan
    BY <2>1 DEF StartScan
  <2>3. cache.left \in Nat /\ cache.hold \in Nat /\ past.since \in Nat /\ HoldOff \in Nat
    BY <1>1, TimesAssumption, HoldOffBounds DEF CatalogInv, TypeOK, CacheState
  <2> QED BY <1>1, <2>2, <2>3 DEF MustScan, CatalogInv, Spaced
<1>2. CatalogInv /\ [Next]_vars =>
        [scan.by = None /\ scan'.by # None => past.since >= HoldOff]_vars
  BY <1>1
<1> QED BY <1>2, CatalogIsSound, PTL DEF Spec, ScansAreSpaced
=============================================================================
