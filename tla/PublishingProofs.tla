-------------------------- MODULE PublishingProofs --------------------------
(***************************************************************************)
(* Theorems about Publishing for any number of packs, runs, rebuilds and   *)
(* retries.  An object belongs to the run that created it, and only that   *)
(* run takes it away: what matters is that a run never takes away what it  *)
(* has said to be published, which means that it knows what it created for *)
(* the pack at hand (Carrying) and that nothing else is its own but whole  *)
(* packs (Owned).                                                          *)
(***************************************************************************)
EXTENDS Publishing, TLAPS

\* How far a run is, and what it still knows.
InOrder(c) ==
  /\ run[c].pc = "new" => run[c].kind = "publish" /\ run[c].missing = {} /\ run[c].todo = {}
  /\ run[c].pc # "over" => run[c].told = "nothing"
  /\ run[c].pc \in {"new", "seeding", "checking", "putting"} => c \notin lost
  /\ run[c].pc \in {"seeding", "checking"} => run[c].kind = "seed"
  /\ run[c].kind = "publish" /\ run[c].pc # "new" => run[c].pack \in Pack
  /\ run[c].kind = "seed" /\ run[c].pc \in {"checking", "putting"} => run[c].pack \in Bundled
  /\ run[c].pc \in {"checking", "putting", "undoing"} =>
       run[c].pack \in Pack /\ run[c].pack \notin run[c].missing \cup run[c].todo
  /\ run[c].pc = "checking" => run[c].part \in Part
  /\ run[c].missing \cap run[c].todo = {}

\* What a run was told it created are the first parts of its pack, they are its own, and
\* no other part is, unless it was not told.
Carrying(c) ==
  run[c].pc \in {"putting", "undoing"} =>
    /\ \E n \in 0..3 : run[c].created = 1..n
    /\ \A k \in run[c].created : object[run[c].pack][k] = c
    /\ c \notin lost => \A k \in Part : object[run[c].pack][k] = c => k \in run[c].created

\* Every object of a run at work is of a pack it published, or of the one at hand.
Owned(c) ==
  run[c].pc # "over" =>
    \A p \in Pack, k \in Part :
      object[p][k] = c =>
        p \in run[c].missing \/ (run[c].pc \in {"putting", "undoing", "reloading"} /\ p = run[c].pack)

ToldWhole(c) ==
  /\ run[c].kind = "publish" /\ (run[c].pc = "reloading" \/ run[c].told \in {"done", "unloaded"})
       => Whole(run[c].pack, c)
  /\ \A p \in run[c].missing : Whole(p, c)

RunInv(c) == InOrder(c) /\ Carrying(c) /\ Owned(c) /\ ToldWhole(c)

\* Until something failed for good there is one rebuild at a time, and unless a change
\* is waiting for the next, the one under way has listed what the catalog holds.
IndexInv ==
  ~excused =>
    /\ \A l, m \in Builder : builder[l].busy /\ builder[m].busy => l = m
    /\ (\A n \in 0..Retries : events[n] = 0) =>
         /\ \A l \in Builder : builder[l].busy => builder[l].listed = Holding(catalog)
         /\ index = Holding(catalog) \/ \E l \in Builder : builder[l].busy

PublishingInv ==
  TypeOK /\ (\A c \in Run : RunInv(c)) /\ ListedIsThere /\ IndexInv /\ PublishedIsServed

-----------------------------------------------------------------------------

LEMMA Before ==
  ASSUME PublishingInv
  PROVE  /\ object \in [Pack -> [Part -> Run \cup {Earlier, None}]]
         /\ run \in [Run -> RunState] /\ lost \in SUBSET Run
         /\ events \in [0..Retries -> Nat] /\ builder \in [Builder -> BuilderState]
         /\ index \in SUBSET Pack /\ served \in SUBSET Pack
         /\ excused \in BOOLEAN /\ reload \in BOOLEAN
         /\ \A c \in Run : RunInv(c) /\ (run[c].pc = "putting" => run[c].created = 1..(run[c].part - 1))
BY DEF PublishingInv, TypeOK

\* One run takes a step.
PartsCounted(x) == x.pc = "putting" => x.created = 1..(x.part - 1)

LEMMA OneRun ==
  ASSUME TypeOK, NEW c \in Run, NEW x \in RunState, PartsCounted(x), Set(c, x)
  PROVE  /\ run' \in [Run -> RunState] /\ \A d \in Run : PartsCounted(run'[d])
         /\ run'[c] = x
         /\ \A d \in Run : d # c => run'[d] = run[d]
<1>1. run \in [Run -> RunState] /\ \A d \in Run : PartsCounted(run[d])
  BY DEF TypeOK, PartsCounted
<1> QED BY <1>1 DEF Set

\* One object is created or deleted.
LEMMA ChangedEffect ==
  ASSUME TypeOK, NEW p \in Pack, NEW k \in Part, NEW v \in Run \cup {Earlier, None}, Changed(p, k, v)
  PROVE  /\ object' \in [Pack -> [Part -> Run \cup {Earlier, None}]]
         /\ \A q \in Pack, j \in Part : object'[q][j] = IF q = p /\ j = k THEN v ELSE object[q][j]
         /\ events' \in [0..Retries -> Nat]
         /\ k # catalog => events' = events /\ Holding(catalog)' = Holding(catalog)
         /\ k = catalog => \E n \in 0..Retries : events'[n] # 0
<1>1. object \in [Pack -> [Part -> Run \cup {Earlier, None}]] /\ events \in [0..Retries -> Nat]
  BY DEF TypeOK
<1>2. object' \in [Pack -> [Part -> Run \cup {Earlier, None}]]
  BY <1>1 DEF Changed
<1>3. \A q \in Pack, j \in Part : object'[q][j] = IF q = p /\ j = k THEN v ELSE object[q][j]
  BY <1>1 DEF Changed
<1>4. 0 \in 0..Retries /\ events[0] \in Nat
  BY <1>1, RetriesAssumption
<1>5. events' = IF k = catalog THEN [events EXCEPT ![0] = @ + 1] ELSE events
  BY DEF Changed, Notified
<1>6. events' \in [0..Retries -> Nat]
  BY <1>1, <1>4, <1>5
<1>7. k = catalog => events'[0] # 0
  BY <1>1, <1>4, <1>5
<1>8. ASSUME k # catalog PROVE Holding(catalog)' = Holding(catalog)
  <2>1. \A q \in Pack : object'[q][catalog] = object[q][catalog]
    BY <1>3, <1>8 DEF catalog, Part
  <2> QED BY <2>1 DEF Holding
<1> QED BY <1>2, <1>3, <1>4, <1>5, <1>6, <1>7, <1>8

\* What others do leaves a run's part of the invariant: they create where nothing was and
\* delete what is their own.
LeavesObjects(d) ==
  /\ \A p \in Pack, k \in Part : object'[p][k] = d <=> object[p][k] = d
  /\ run'[d] = run[d] /\ (d \in lost' <=> d \in lost)

LEMMA OthersKeep ==
  ASSUME PublishingInv, NEW d \in Run, LeavesObjects(d)
  PROVE  RunInv(d)'
<1>1. RunInv(d) /\ run[d] \in RunState
  BY Before
<1>2. InOrder(d)'
  BY <1>1 DEF RunInv, InOrder, LeavesObjects
<1>3. Carrying(d)'
  <2> SUFFICES ASSUME run[d].pc \in {"putting", "undoing"}
               PROVE  /\ \E n \in 0..3 : run[d].created = 1..n
                      /\ \A k \in run[d].created : object'[run[d].pack][k] = d
                      /\ d \notin lost => \A k \in Part : object'[run[d].pack][k] = d => k \in run[d].created
    BY DEF Carrying, LeavesObjects
  <2>1. run[d].pack \in Pack /\ run[d].created \subseteq Part
    BY <1>1 DEF RunInv, InOrder, RunState
  <2> QED BY <1>1, <2>1 DEF RunInv, Carrying, LeavesObjects
<1>4. Owned(d)'
  BY <1>1 DEF RunInv, Owned, LeavesObjects
<1>5. ToldWhole(d)'
  <2>1. \A p \in Pack : Whole(p, d) => Whole(p, d)'
    BY DEF Whole, LeavesObjects
  <2>2. run[d].missing \subseteq Pack
    BY <1>1, PacksAssumption DEF RunState
  <2>3. \A p \in run[d].missing : Whole(p, d)'
    BY <1>1, <2>1, <2>2 DEF RunInv, ToldWhole
  <2>4. ASSUME run[d].kind = "publish", run[d].pc = "reloading" \/ run[d].told \in {"done", "unloaded"}
        PROVE  Whole(run[d].pack, d)'
    <3>1. run[d].pack \in Pack
      BY <1>1, <2>4 DEF RunInv, InOrder
    <3>2. PICK p \in Pack : p = run[d].pack
      BY <3>1
    <3>3. Whole(p, d)'
      BY <1>1, <2>1, <2>4, <3>2 DEF RunInv, ToldWhole
    <3> QED BY <3>2, <3>3 DEF Whole, LeavesObjects
  <2> QED BY <2>3, <2>4 DEF ToldWhole, LeavesObjects
<1> QED BY <1>2, <1>3, <1>4, <1>5 DEF RunInv

-----------------------------------------------------------------------------
(* Steps of a run that create and delete nothing.                          *)

\* Nothing moves but the run, and perhaps the order for a new deployment.
LEMMA QuietKeeps ==
  ASSUME PublishingInv, NEW c \in Run, NEW x \in RunState, PartsCounted(x), Set(c, x),
         UNCHANGED <<object, lost, indexing, served>>, reload' \in BOOLEAN, reload => reload',
         RunInv(c)',
         x.told \in {"done", "present"} =>
           reload' \/ \A p \in Pack : object[p][runtime] # c
  PROVE  PublishingInv'
<1>1. /\ run' \in [Run -> RunState] /\ \A d \in Run : PartsCounted(run'[d])
      /\ run'[c] = x /\ \A d \in Run : d # c => run'[d] = run[d]
  BY OneRun DEF PublishingInv
<1>2. UNCHANGED <<object, lost, events, builder, index, excused, served>>
  BY DEF indexing
<1>3. TypeOK'
  BY <1>1, <1>2, Before DEF TypeOK, PartsCounted
<1>4. ASSUME NEW d \in Run, d # c PROVE RunInv(d)'
  BY <1>1, <1>2, <1>4, OthersKeep DEF LeavesObjects
<1>5. ListedIsThere'
  BY <1>2 DEF PublishingInv, ListedIsThere, Whole
<1>6. IndexInv'
  BY <1>2 DEF PublishingInv, IndexInv, Holding
<1>7. PublishedIsServed'
  <2> SUFFICES ASSUME NEW p \in Pack, NEW d \in Run, object[p][runtime] = d,
                      run'[d].told \in {"done", "present"}
               PROVE  p \in served \/ reload'
    BY <1>2 DEF PublishedIsServed
  <2>1. CASE d = c
    BY <1>1, <2>1
  <2>2. CASE d # c
    BY <1>1, <2>2 DEF PublishingInv, PublishedIsServed
  <2> QED BY <2>1, <2>2
<1> QED BY <1>3, <1>4, <1>5, <1>6, <1>7 DEF PublishingInv

\* ...and what its part of the invariant is, then.
LEMMA QuietRun ==
  ASSUME PublishingInv, NEW c \in Run, NEW x \in RunState, Set(c, x), UNCHANGED <<object, lost>>
  PROVE  /\ run'[c] = x
         /\ Owned(c)' <=>
              (x.pc # "over" =>
                 \A p \in Pack, k \in Part :
                   object[p][k] = c =>
                     p \in x.missing \/ (x.pc \in {"putting", "undoing", "reloading"} /\ p = x.pack))
         /\ ToldWhole(c)' <=>
              /\ x.kind = "publish" /\ (x.pc = "reloading" \/ x.told \in {"done", "unloaded"})
                   => Whole(x.pack, c)
              /\ \A p \in x.missing : Whole(p, c)
<1>1. run'[c] = x
  BY Before DEF Set
<1> QED BY <1>1 DEF Owned, ToldWhole, Whole

LEMMA PublishKeeps ==
  ASSUME PublishingInv, NEW c \in Run, NEW p \in Pack, Publish(c, p)
  PROVE  PublishingInv'
<1> DEFINE x == Putting(run[c], p)
<1>1. RunInv(c) /\ run[c] \in RunState /\ run[c].pc = "new"
  BY Before DEF Publish
<1>2. /\ x \in RunState /\ x.pc = "putting" /\ x.pack = p /\ x.part = 1 /\ x.created = {}
      /\ x.missing = {} /\ x.todo = {} /\ x.kind = run[c].kind /\ x.told = "nothing"
  <2>1. run[c].missing = {} /\ run[c].todo = {} /\ run[c].told = "nothing"
    BY <1>1 DEF RunInv, InOrder
  <2>2. {} \in SUBSET Part /\ 1 \in 1..4
    OBVIOUS
  <2>3. x \in RunState
    BY <1>1, <2>2 DEF RunState, Putting
  <2> QED BY <1>1, <2>1, <2>3 DEF RunState, Putting
<1>3. PartsCounted(x)
  BY <1>2 DEF PartsCounted
<1>4. Set(c, x) /\ UNCHANGED <<object, lost, indexing, serving>>
  BY DEF Publish
<1> HIDE DEF x
<1>5. \A q \in Pack, k \in Part : object[q][k] # c
  BY <1>1 DEF RunInv, Owned, InOrder
<1>6. /\ run'[c] = x
      /\ Owned(c)' /\ ToldWhole(c)'
  BY <1>2, <1>4, <1>5, QuietRun
<1>7. InOrder(c)'
  BY <1>1, <1>2, <1>4, <1>6 DEF RunInv, InOrder
<1>8. Carrying(c)'
  <2>1. {} = 1..0
    OBVIOUS
  <2> QED BY <1>2, <1>4, <1>5, <1>6, <2>1 DEF Carrying
<1> QED BY <1>2, <1>3, <1>4, <1>6, <1>7, <1>8, QuietKeeps, Before DEF RunInv, serving

LEMMA RefusedKeeps ==
  ASSUME PublishingInv, NEW c \in Run, PutRefused(c) \/ PutFails(c)
  PROVE  PublishingInv'
<1> DEFINE x == Undoing(run[c])
<1>1. RunInv(c) /\ run[c] \in RunState /\ run[c].pc = "putting"
  BY Before DEF PutRefused, PutFails
<1>2. /\ x \in RunState /\ x.pc = "undoing" /\ x.pack = run[c].pack /\ x.created = run[c].created
      /\ x.missing = run[c].missing /\ x.todo = run[c].todo /\ x.kind = run[c].kind
      /\ x.told = "nothing"
  BY <1>1 DEF RunState, Undoing, RunInv, InOrder
<1>3. PartsCounted(x)
  BY <1>2 DEF PartsCounted
<1>4. Set(c, x) /\ UNCHANGED <<object, lost, indexing, serving>>
  <2>1. CASE PutFails(c)
    BY <2>1 DEF PutFails
  <2>2. CASE PutRefused(c)
    <3>1. [Undoing(run[c]) EXCEPT !.created = run[c].created] = x
      BY <1>1 DEF RunState, Undoing
    <3> QED BY <2>2, <3>1 DEF PutRefused, RefusedParts
  <2> QED BY <2>1, <2>2
<1> HIDE DEF x
<1>5. run'[c] = x /\ Owned(c)' /\ ToldWhole(c)'
  BY <1>1, <1>2, <1>4, QuietRun DEF RunInv, InOrder, Owned, ToldWhole
<1>6. InOrder(c)'
  BY <1>1, <1>2, <1>4, <1>5 DEF RunInv, InOrder
<1>7. Carrying(c)'
  BY <1>1, <1>2, <1>4, <1>5 DEF RunInv, Carrying
<1> QED BY <1>2, <1>3, <1>4, <1>5, <1>6, <1>7, QuietKeeps, Before DEF RunInv, serving

\* A run that is over: what it has done stays as it is.
LEMMA OverKeeps ==
  ASSUME PublishingInv, NEW c \in Run, NEW told \in {"done", "unloaded", "present", "failed", "killed"},
         run[c].pc \notin {"new", "over"}, Set(c, Over(run[c], told)),
         UNCHANGED <<object, lost, indexing, served>>, reload' \in BOOLEAN, reload => reload',
         told \in {"done", "unloaded"} => run[c].pc = "reloading",
         told = "done" => reload', told = "present" => run[c].pc = "seeding" /\ run[c].missing = {}
  PROVE  PublishingInv'
<1> DEFINE x == Over(run[c], told)
<1>1. RunInv(c) /\ run[c] \in RunState
  BY Before
<1>2. /\ x \in RunState /\ x.pc = "over" /\ x.pack = run[c].pack
      /\ x.missing = {} /\ x.todo = {} /\ x.kind = run[c].kind /\ x.told = told
  <2>1. {} \in SUBSET Part /\ {} \in SUBSET Bundled /\ 1 \in 1..4
    OBVIOUS
  <2>2. x \in RunState
    BY <1>1, <2>1 DEF RunState, Over
  <2> QED BY <1>1, <2>2 DEF RunState, Over
<1>3. PartsCounted(x)
  BY <1>2 DEF PartsCounted
<1> HIDE DEF x
<1>4. Set(c, x)
  BY DEF x
<1>5. run'[c] = x /\ Owned(c)' /\ ToldWhole(c)'
  BY <1>1, <1>2, <1>4, QuietRun DEF RunInv, ToldWhole
<1>6. InOrder(c)' /\ Carrying(c)'
  BY <1>1, <1>2, <1>5 DEF RunInv, InOrder, Carrying
<1>7. told = "present" => \A p \in Pack : object[p][runtime] # c
  BY <1>1 DEF RunInv, Owned, Part, runtime
<1> QED BY <1>2, <1>3, <1>4, <1>5, <1>6, <1>7, QuietKeeps DEF RunInv

LEMMA EndsKeep ==
  ASSUME PublishingInv, NEW c \in Run, UndoEnds(c) \/ Killed(c)
  PROVE  PublishingInv'
<1>1. PICK told \in {"failed", "killed"} : Set(c, Over(run[c], told))
  BY DEF UndoEnds, Killed
<1>2. run[c].pc \notin {"new", "over"} /\ UNCHANGED <<object, lost, indexing, serving>>
  BY DEF UndoEnds, Killed
<1> QED BY <1>1, <1>2, OverKeeps, Before DEF serving

LEMMA ReloadKeeps ==
  ASSUME PublishingInv, NEW c \in Run, Reload(c)
  PROVE  PublishingInv'
<1>1. PICK told \in {"done", "failed", "unloaded"} :
        Set(c, Over(run[c], told)) /\ (IF told = "done" THEN reload' = TRUE ELSE reload' = reload)
  BY DEF Reload
<1>2. run[c].pc = "reloading" /\ UNCHANGED <<object, lost, indexing, served>>
  BY DEF Reload
<1>3. reload' \in BOOLEAN /\ (reload => reload') /\ (told = "done" => reload')
  BY <1>1, Before
<1> QED BY <1>1, <1>2, <1>3, OverKeeps

LEMMA PublishedKeeps ==
  ASSUME PublishingInv, NEW c \in Run, Published(c)
  PROVE  PublishingInv'
<1> DEFINE r == run[c]
<1>1. RunInv(c) /\ r \in RunState /\ r.pc = "putting" /\ r.part = 4
  BY Before DEF Published
<1>2. r.pack \in Pack /\ Whole(r.pack, c)
  <2>1. r.created = 1..3
    BY <1>1, Before
  <2> QED BY <1>1, <2>1 DEF RunInv, InOrder, Carrying, Whole, Part
<1>3. UNCHANGED <<object, lost, indexing, serving>>
  BY DEF Published
<1>4. CASE r.kind = "publish"
  <2> DEFINE x == [r EXCEPT !.pc = "reloading"]
  <2>1. /\ x \in RunState /\ x.pc = "reloading" /\ x.pack = r.pack /\ x.missing = r.missing
        /\ x.todo = r.todo /\ x.kind = r.kind /\ x.told = "nothing"
    BY <1>1 DEF RunState, RunInv, InOrder
  <2>2. PartsCounted(x) /\ Set(c, x)
    BY <1>4, <2>1 DEF PartsCounted, Published
  <2> HIDE DEF x
  <2>3. run'[c] = x /\ Owned(c)' /\ ToldWhole(c)'
    BY <1>1, <1>2, <1>3, <2>1, <2>2, QuietRun DEF RunInv, Owned, ToldWhole
  <2>4. InOrder(c)' /\ Carrying(c)'
    BY <1>1, <1>2, <2>1, <2>3 DEF RunInv, InOrder, Carrying
  <2> QED BY <1>3, <2>1, <2>2, <2>3, <2>4, QuietKeeps, Before DEF RunInv, serving
<1>5. CASE r.kind # "publish"
  <2> DEFINE m == r.missing \cup {r.pack}
             x == [r EXCEPT !.pc = "seeding", !.missing = m, !.part = 1, !.created = {}]
  <2>1. m \in SUBSET Bundled /\ {} \in SUBSET Part /\ 1 \in 1..4
    BY <1>1, <1>5 DEF RunState, RunInv, InOrder
  <2>2. Set(c, x)
    BY <1>5 DEF Published, Missing
  <2>3. m \cap r.todo = {} /\ r.missing \subseteq m /\ r.pack \in m
    BY <1>1 DEF RunInv, InOrder
  <2>4. \A p \in m : Whole(p, c)
    BY <1>1, <1>2 DEF RunInv, ToldWhole
  <2> HIDE DEF m
  <2>5. x \in RunState
    BY <1>1, <2>1 DEF RunState
  <2>6. /\ x.pc = "seeding" /\ x.pack = r.pack /\ x.missing = m /\ x.todo = r.todo
        /\ x.kind = "seed" /\ x.told = "nothing"
    BY <1>1, <1>5 DEF RunState, RunInv, InOrder
  <2>7. PartsCounted(x)
    BY <2>6 DEF PartsCounted
  <2> HIDE DEF x
  <2>8. run'[c] = x /\ Owned(c)' /\ ToldWhole(c)'
    BY <1>1, <1>3, <2>2, <2>3, <2>4, <2>5, <2>6, QuietRun DEF RunInv, Owned
  <2>9. InOrder(c)' /\ Carrying(c)'
    BY <1>1, <1>3, <2>3, <2>6, <2>8 DEF RunInv, InOrder, Carrying
  <2> QED BY <1>3, <2>2, <2>5, <2>6, <2>7, <2>8, <2>9, QuietKeeps, Before DEF RunInv, serving
<1> QED BY <1>4, <1>5

\* The steps of a seeding that only look.
LEMMA SeedKeeps ==
  ASSUME PublishingInv, NEW c \in Run, Seed(c)
  PROVE  PublishingInv'
<1> DEFINE x == [run[c] EXCEPT !.pc = "seeding", !.kind = "seed", !.todo = Bundled]
<1>1. RunInv(c) /\ run[c] \in RunState /\ run[c].pc = "new"
  BY Before DEF Seed
<1>2. run[c].missing = {} /\ run[c].told = "nothing" /\ c \notin lost
  BY <1>1 DEF RunInv, InOrder
<1>3. x \in RunState
  BY <1>1 DEF RunState
<1>4. x.pc = "seeding" /\ x.missing = {} /\ x.todo = Bundled /\ x.kind = "seed" /\ x.told = "nothing"
  BY <1>1, <1>2 DEF RunState
<1>5. Set(c, x) /\ PartsCounted(x) /\ UNCHANGED <<object, lost, indexing, serving>>
  BY <1>4 DEF Seed, PartsCounted
<1> HIDE DEF x
<1>6. \A q \in Pack, k \in Part : object[q][k] # c
  BY <1>1, <1>2 DEF RunInv, Owned
<1>7. run'[c] = x /\ Owned(c)' /\ ToldWhole(c)'
  BY <1>3, <1>4, <1>5, <1>6, QuietRun
<1>8. InOrder(c)' /\ Carrying(c)'
  BY <1>2, <1>4, <1>5, <1>7 DEF InOrder, Carrying
<1> QED BY <1>3, <1>4, <1>5, <1>7, <1>8, QuietKeeps, Before DEF RunInv, serving

LEMMA CheckKeeps ==
  ASSUME PublishingInv, NEW c \in Run, Check(c)
  PROVE  PublishingInv'
<1>1. RunInv(c) /\ run[c] \in RunState /\ run[c].pc = "seeding"
  BY Before DEF Check
<1>2. PICK p \in run[c].todo :
        Set(c, [run[c] EXCEPT !.pc = "checking", !.pack = p, !.todo = @ \ {p}, !.part = 1])
  BY DEF Check
<1> DEFINE x == [run[c] EXCEPT !.pc = "checking", !.pack = p, !.todo = @ \ {p}, !.part = 1]
<1>3. p \in Bundled /\ p \in Pack /\ p \notin run[c].missing /\ run[c].told = "nothing"
      /\ run[c].kind = "seed" /\ c \notin lost
  BY <1>1, PacksAssumption DEF RunState, RunInv, InOrder
<1>4. x \in RunState
  <2>1. run[c].todo \ {p} \in SUBSET Bundled /\ 1 \in 1..4
    BY <1>1 DEF RunState
  <2>2. PICK todo \in SUBSET Bundled : todo = run[c].todo \ {p}
    BY <2>1
  <2>3. [run[c] EXCEPT !.pc = "checking", !.pack = p, !.todo = todo, !.part = 1] \in RunState
    BY <1>1, <1>3, <2>1 DEF RunState
  <2> QED BY <2>2, <2>3
<1>5. /\ x.pc = "checking" /\ x.pack = p /\ x.missing = run[c].missing /\ x.todo = run[c].todo \ {p}
      /\ x.kind = "seed" /\ x.told = "nothing" /\ x.part = 1
  BY <1>1, <1>3 DEF RunState
<1>6. Set(c, x) /\ PartsCounted(x) /\ UNCHANGED <<object, lost, indexing, serving>>
  BY <1>2, <1>5 DEF Check, PartsCounted
<1> HIDE DEF x
<1>7. run'[c] = x /\ Owned(c)' /\ ToldWhole(c)'
  BY <1>1, <1>4, <1>5, <1>6, QuietRun DEF RunInv, Owned, ToldWhole
<1>8. InOrder(c)' /\ Carrying(c)'
  BY <1>1, <1>3, <1>5, <1>6, <1>7 DEF RunInv, InOrder, Carrying, Part
<1> QED BY <1>4, <1>5, <1>6, <1>7, <1>8, QuietKeeps, Before DEF RunInv, serving

LEMMA SeededKeeps ==
  ASSUME PublishingInv, NEW c \in Run, Seeded(c)
  PROVE  PublishingInv'
<1>1. RunInv(c) /\ run[c] \in RunState /\ run[c].pc = "seeding"
  BY Before DEF Seeded
<1>2. UNCHANGED <<object, lost, indexing, serving>>
  BY DEF Seeded
<1>3. CASE run[c].missing = {}
  <2>1. Set(c, Over(run[c], "present"))
    BY <1>3 DEF Seeded
  <2> QED BY <1>1, <1>2, <1>3, <2>1, OverKeeps, Before DEF serving
<1>4. CASE run[c].missing # {}
  <2> DEFINE x == [run[c] EXCEPT !.pc = "reloading"]
  <2>1. x \in RunState
    BY <1>1 DEF RunState
  <2>2. /\ x.pc = "reloading" /\ x.missing = run[c].missing /\ x.todo = run[c].todo
        /\ x.kind = "seed" /\ x.told = "nothing"
    BY <1>1 DEF RunState, RunInv, InOrder
  <2>3. Set(c, x) /\ PartsCounted(x)
    BY <1>4, <2>2 DEF Seeded, PartsCounted
  <2> HIDE DEF x
  <2>4. run'[c] = x /\ Owned(c)' /\ ToldWhole(c)'
    BY <1>1, <1>2, <2>1, <2>2, <2>3, QuietRun DEF RunInv, Owned, ToldWhole
  <2>5. InOrder(c)' /\ Carrying(c)'
    BY <1>1, <2>2, <2>4 DEF RunInv, InOrder, Carrying
  <2> QED BY <1>2, <2>1, <2>2, <2>3, <2>4, <2>5, QuietKeeps, Before DEF RunInv, serving
<1> QED BY <1>3, <1>4

LEMMA HeadKeeps ==
  ASSUME PublishingInv, NEW c \in Run, Head(c)
  PROVE  PublishingInv'
<1> DEFINE r == run[c]
<1>1. RunInv(c) /\ r \in RunState /\ r.pc = "checking"
  BY Before DEF Head
<1>2. /\ r.pack \in Bundled /\ r.pack \in Pack /\ r.pack \notin r.missing \cup r.todo
      /\ r.part \in Part /\ r.kind = "seed" /\ r.told = "nothing" /\ c \notin lost
  BY <1>1 DEF RunState, RunInv, InOrder
<1>3. UNCHANGED <<object, lost, indexing, serving>>
  BY DEF Head
<1>4. PICK x \in {Putting(r, r.pack), [r EXCEPT !.part = @ + 1], [r EXCEPT !.pc = "seeding", !.part = 1]} :
        /\ Set(c, x) /\ (x = [r EXCEPT !.part = @ + 1] => r.part < 3)
  <2>1. CASE object[r.pack][r.part] = None
    <3>1. Set(c, Putting(r, r.pack))
      BY <2>1 DEF Head
    <3>2. r.pc # Putting(r, r.pack).pc /\ r.pc = [r EXCEPT !.part = @ + 1].pc
      BY <1>1 DEF RunState, Putting
    <3> QED BY <3>1, <3>2
  <2>2. CASE object[r.pack][r.part] # None /\ r.part < 3
    BY <2>2 DEF Head
  <2>3. CASE object[r.pack][r.part] # None /\ ~(r.part < 3)
    <3>1. Set(c, [r EXCEPT !.pc = "seeding", !.part = 1])
      BY <2>3 DEF Head
    <3>2. r.pc # [r EXCEPT !.pc = "seeding", !.part = 1].pc /\ r.pc = [r EXCEPT !.part = @ + 1].pc
      BY <1>1 DEF RunState
    <3> QED BY <3>1, <3>2
  <2> QED BY <2>1, <2>2, <2>3
<1>5. /\ x \in RunState /\ x.pack = r.pack /\ x.missing = r.missing /\ x.todo = r.todo
      /\ x.kind = "seed" /\ x.told = "nothing"
      /\ \/ x.pc = "putting" /\ x.part = 1 /\ x.created = {}
         \/ x.pc = "checking" /\ x.part \in Part
         \/ x.pc = "seeding"
  <2>1. CASE x = Putting(r, r.pack)
    <3>1. {} \in SUBSET Part /\ 1 \in 1..4
      OBVIOUS
    <3> QED BY <1>1, <1>2, <2>1, <3>1 DEF RunState, Putting
  <2>2. CASE x = [r EXCEPT !.part = @ + 1]
    <3>1. r.part + 1 \in Part /\ r.part + 1 \in 1..4
      BY <1>2, <1>4, <2>2 DEF Part
    <3>2. PICK part \in Part : part = r.part + 1 /\ part \in 1..4
      BY <3>1
    <3>3. x = [r EXCEPT !.part = part]
      BY <2>2, <3>2
    <3> QED BY <1>1, <1>2, <3>2, <3>3 DEF RunState
  <2>3. CASE x = [r EXCEPT !.pc = "seeding", !.part = 1]
    <3>1. 1 \in 1..4
      OBVIOUS
    <3> QED BY <1>1, <1>2, <2>3, <3>1 DEF RunState
  <2> QED BY <1>4, <2>1, <2>2, <2>3
<1>6. PartsCounted(x)
  <2>1. 1..(1 - 1) = {}
    OBVIOUS
  <2> QED BY <1>5, <2>1 DEF PartsCounted
<1>7. \A k \in Part : object[r.pack][k] # c
  BY <1>1, <1>2 DEF RunInv, Owned
<1>8. run'[c] = x /\ Owned(c)' /\ ToldWhole(c)'
  BY <1>1, <1>3, <1>4, <1>5, QuietRun DEF RunInv, Owned, ToldWhole
<1>9. InOrder(c)'
  BY <1>1, <1>2, <1>3, <1>5, <1>8 DEF RunInv, InOrder
<1>10. Carrying(c)'
  <2>1. {} = 1..0
    OBVIOUS
  <2> QED BY <1>3, <1>5, <1>7, <1>8, <2>1 DEF Carrying
<1> QED BY <1>3, <1>4, <1>5, <1>6, <1>8, <1>9, <1>10, QuietKeeps, Before DEF RunInv, serving

-----------------------------------------------------------------------------
(* Steps of a run that create or delete an object of its own.              *)

LEMMA ChangeKeeps ==
  ASSUME PublishingInv, NEW c \in Run, NEW x \in RunState, PartsCounted(x), Set(c, x),
         NEW p \in Pack, NEW k \in Part, NEW v \in {c, None}, object[p][k] \in {c, None},
         Changed(p, k, v), lost' \in {lost, lost \cup {c}},
         UNCHANGED <<builder, index, excused, served, reload>>,
         x.told = "nothing", RunInv(c)', ListedIsThere'
  PROVE  PublishingInv'
<1> USE NoneAssumption
<1>1. /\ run' \in [Run -> RunState] /\ \A d \in Run : PartsCounted(run'[d])
      /\ run'[c] = x /\ \A d \in Run : d # c => run'[d] = run[d]
  BY OneRun DEF PublishingInv
<1>2. /\ object' \in [Pack -> [Part -> Run \cup {Earlier, None}]]
      /\ \A q \in Pack, j \in Part : object'[q][j] = IF q = p /\ j = k THEN v ELSE object[q][j]
      /\ events' \in [0..Retries -> Nat]
      /\ k # catalog => events' = events /\ Holding(catalog)' = Holding(catalog)
      /\ k = catalog => \E n \in 0..Retries : events'[n] # 0
  BY ChangedEffect DEF PublishingInv
<1>3. TypeOK'
  BY <1>1, <1>2, Before DEF TypeOK, PartsCounted
<1>4. ASSUME NEW d \in Run, d # c PROVE RunInv(d)'
  <2>1. \A q \in Pack, j \in Part : object'[q][j] = d <=> object[q][j] = d
    BY <1>2, <1>4
  <2>2. d \in lost' <=> d \in lost
    BY <1>4
  <2> QED BY <1>1, <1>4, <2>1, <2>2, OthersKeep DEF LeavesObjects
<1>5. IndexInv'
  <2>1. CASE k = catalog
    BY <1>2, <2>1 DEF PublishingInv, IndexInv
  <2>2. CASE k # catalog
    BY <1>2, <2>2 DEF PublishingInv, IndexInv
  <2> QED BY <2>1, <2>2
<1>6. PublishedIsServed'
  <2> SUFFICES ASSUME NEW q \in Pack, NEW d \in Run, object'[q][runtime] = d,
                      run'[d].told \in {"done", "present"}
               PROVE  q \in served \/ reload
    BY DEF PublishedIsServed
  <2>1. d # c
    BY <1>1
  <2>2. object[q][runtime] = d /\ run'[d] = run[d]
    BY <1>1, <1>2, <2>1 DEF runtime, Part
  <2> QED BY <2>2 DEF PublishingInv, PublishedIsServed
<1> QED BY <1>3, <1>4, <1>5, <1>6 DEF PublishingInv

\* A put that creates its object, whether the run hears of it or not.
LEMMA CreatedKeeps ==
  ASSUME PublishingInv, NEW c \in Run, Created(c) \/ CreatedUnheard(c)
  PROVE  PublishingInv'
<1> USE NoneAssumption
<1> DEFINE r == run[c]
<1>1. RunInv(c) /\ r \in RunState /\ r.pc = "putting" /\ r.created = 1..(r.part - 1)
  BY Before DEF Created, CreatedUnheard
<1>2. /\ r.pack \in Pack /\ r.pack \notin r.missing \cup r.todo /\ r.part \in Part
      /\ r.told = "nothing" /\ c \notin lost /\ object[r.pack][r.part] = None
  BY <1>1 DEF Created, CreatedUnheard, RunInv, InOrder
<1>3. Changed(r.pack, r.part, c) /\ UNCHANGED <<builder, index, excused, served, reload>>
  BY DEF Created, CreatedUnheard, serving
<1>4. \A q \in Pack, j \in Part :
        object'[q][j] = IF q = r.pack /\ j = r.part THEN c ELSE object[q][j]
  BY <1>2, <1>3, ChangedEffect DEF PublishingInv
\* What it was told before is there still, and is all there is.
<1>5. /\ \A k \in r.created : k \in Part /\ object'[r.pack][k] = c
      /\ \A k \in Part : object'[r.pack][k] = c => k \in r.created \cup {r.part}
  BY <1>1, <1>2, <1>4 DEF RunInv, Carrying, Part
<1>6. r.created \cup {r.part} = 1..r.part /\ r.part \in 0..3 /\ r.part - 1 \in 0..3
  BY <1>1, <1>2 DEF Part
<1>7. PICK x \in RunState :
        /\ Set(c, x) /\ x.pack = r.pack /\ x.kind = r.kind /\ x.missing = r.missing
        /\ x.todo = r.todo /\ x.told = "nothing"
        /\ \/ /\ x.pc = "putting" /\ x.part = r.part + 1 /\ x.created = 1..r.part /\ lost' = lost
           \/ x.pc = "undoing" /\ x.created = r.created /\ lost' = lost \cup {c}
  <2>1. CASE Created(c)
    <3> DEFINE x == [r EXCEPT !.created = @ \cup {r.part}, !.part = @ + 1]
    <3>1. PICK part \in 1..4, created \in SUBSET Part : part = r.part + 1 /\ created = 1..r.part
      BY <1>2 DEF Part
    <3>2. x = [r EXCEPT !.created = created, !.part = part]
      BY <1>6, <3>1
    <3>3. x \in RunState
      BY <1>1, <3>1, <3>2 DEF RunState
    <3>4. Set(c, x) /\ lost' = lost
      BY <2>1 DEF Created
    <3>5. /\ x.pack = r.pack /\ x.kind = r.kind /\ x.missing = r.missing /\ x.todo = r.todo
          /\ x.told = "nothing" /\ x.pc = "putting" /\ x.part = r.part + 1 /\ x.created = 1..r.part
      BY <1>1, <1>2, <3>1, <3>2 DEF RunState
    <3> QED BY <3>3, <3>4, <3>5
  <2>2. CASE CreatedUnheard(c)
    <3> DEFINE x == Undoing(r)
    <3>1. x \in RunState /\ Set(c, x) /\ lost' = lost \cup {c}
      BY <1>1, <2>2 DEF RunState, Undoing, CreatedUnheard
    <3>2. /\ x.pack = r.pack /\ x.kind = r.kind /\ x.missing = r.missing /\ x.todo = r.todo
          /\ x.told = "nothing" /\ x.pc = "undoing" /\ x.created = r.created
      BY <1>1, <1>2 DEF RunState, Undoing
    <3> QED BY <3>1, <3>2
  <2> QED BY <2>1, <2>2
<1>8. PartsCounted(x)
  BY <1>2, <1>7 DEF PartsCounted, Part
<1>9. run'[c] = x
  BY <1>7, Before DEF Set
<1>10. InOrder(c)'
  BY <1>1, <1>2, <1>7, <1>9 DEF RunInv, InOrder
<1>11. Carrying(c)'
  <2>1. object'[r.pack][r.part] = c
    BY <1>2, <1>4
  <2>2. CASE x.pc = "putting"
    <3>1. x.created = r.created \cup {r.part} /\ x.created = 1..r.part
      BY <1>6, <1>7, <2>2
    <3> QED BY <1>5, <1>6, <1>7, <1>9, <2>1, <3>1 DEF Carrying
  <2>3. CASE x.pc = "undoing"
    <3>1. x.created = r.created /\ c \in lost'
      BY <1>7, <2>3
    <3>2. x.created = 1..(r.part - 1)
      BY <1>1, <3>1
    <3> QED BY <1>5, <1>6, <1>7, <1>9, <3>1, <3>2 DEF Carrying
  <2> QED BY <1>7, <2>2, <2>3
<1>12. Owned(c)'
  <2> SUFFICES ASSUME NEW q \in Pack, NEW k \in Part, object'[q][k] = c
               PROVE  q \in r.missing \/ q = r.pack
    BY <1>7, <1>9 DEF Owned
  <2> QED BY <1>1, <1>4 DEF RunInv, Owned
<1>13. ToldWhole(c)'
  <2>1. ASSUME NEW q \in r.missing PROVE Whole(q, c)'
    <3>1. q \in Pack /\ Whole(q, c) /\ q # r.pack
      BY <1>1, <1>2, PacksAssumption DEF RunInv, ToldWhole, RunState
    <3> QED BY <1>4, <3>1 DEF Whole
  <2> QED BY <1>7, <1>9, <2>1 DEF ToldWhole
<1>14. ListedIsThere'
  <2> SUFFICES ASSUME NEW q \in Pack, object'[q][catalog] # None, object'[q][catalog] \notin lost'
               PROVE  \A k \in Part : object'[q][k] = object'[q][catalog]
    BY DEF ListedIsThere, Whole
  <2>0. catalog \in Part /\ lost \subseteq lost'
    BY <1>7 DEF catalog, Part
  <2>1. CASE q # r.pack
    BY <1>4, <2>0, <2>1 DEF PublishingInv, ListedIsThere, Whole
  <2>2. CASE q = r.pack /\ r.part # catalog
    <3>1. object'[q][catalog] = object[q][catalog]
      BY <1>4, <2>0, <2>2
    <3>2. Whole(q, object[q][catalog])
      BY <2>0, <3>1 DEF PublishingInv, ListedIsThere
    <3> QED BY <1>2, <2>2, <3>1, <3>2 DEF Whole
  <2>3. CASE q = r.pack /\ r.part = catalog
    <3>1. object'[q][catalog] = c
      BY <1>4, <2>0, <2>3
    <3>2. \A k \in Part : k \in r.created \/ k = r.part
      BY <1>1, <2>3 DEF catalog, Part
    <3> QED BY <1>4, <1>5, <2>3, <3>1, <3>2
  <2> QED BY <2>1, <2>2, <2>3
<1>15. RunInv(c)'
  BY <1>10, <1>11, <1>12, <1>13 DEF RunInv
<1>16. lost' \in {lost, lost \cup {c}}
  BY <1>7
<1> QED BY <1>2, <1>3, <1>7, <1>8, <1>14, <1>15, <1>16, ChangeKeeps

LEMMA LatestIsLast ==
  ASSUME NEW n \in 1..3, NEW r, r.created = 1..n
  PROVE  Latest(r) = n /\ r.created \ {n} = 1..(n - 1)
<1>1. n \in r.created /\ \A j \in r.created : j <= n
  OBVIOUS
<1>2. Latest(r) \in r.created /\ \A j \in r.created : j <= Latest(r)
  BY <1>1 DEF Latest
<1>3. Latest(r) = n
  BY <1>1, <1>2
<1> QED BY <1>3

\* The entry in the catalog is the first that a rollback takes back.
LEMMA UndoKeeps ==
  ASSUME PublishingInv, NEW c \in Run, Undo(c)
  PROVE  PublishingInv'
<1> USE NoneAssumption
<1> DEFINE r == run[c]
<1>1. RunInv(c) /\ r \in RunState /\ r.pc = "undoing" /\ r.created # {}
  BY Before DEF Undo
<1>2. PICK n \in 0..3 : r.created = 1..n
  BY <1>1 DEF RunInv, Carrying
<1>3. n \in 1..3 /\ n \in r.created /\ n \in Part
  BY <1>1, <1>2 DEF Part
<1>4. Latest(r) = n /\ r.created \ {n} = 1..(n - 1)
  BY <1>2, <1>3, LatestIsLast
<1>5. /\ r.pack \in Pack /\ r.pack \notin r.missing \cup r.todo /\ r.told = "nothing"
      /\ object[r.pack][n] = c
  BY <1>1, <1>3 DEF RunInv, InOrder, Carrying
<1>6. Changed(r.pack, n, None) /\ UNCHANGED <<lost, builder, index, excused, served, reload>>
  BY <1>4 DEF Undo, serving
<1>7. \A q \in Pack, j \in Part :
        object'[q][j] = IF q = r.pack /\ j = n THEN None ELSE object[q][j]
  BY <1>3, <1>5, <1>6, ChangedEffect DEF PublishingInv
<1> DEFINE left == r.created \ {n}
           x == [r EXCEPT !.created = left]
<1>8. left \in SUBSET Part
  BY <1>1 DEF RunState
<1>9. Set(c, x)
  BY <1>4 DEF Undo
<1> HIDE DEF left
<1>10. x \in RunState
  BY <1>1, <1>8 DEF RunState
<1>11. /\ x.pack = r.pack /\ x.kind = r.kind /\ x.missing = r.missing /\ x.todo = r.todo
       /\ x.told = "nothing" /\ x.pc = "undoing" /\ x.created = left
  BY <1>1, <1>5 DEF RunState
<1> HIDE DEF x
<1>12. run'[c] = x /\ PartsCounted(x)
  BY <1>9, <1>11, Before DEF Set, PartsCounted
<1>13. InOrder(c)'
  BY <1>1, <1>5, <1>6, <1>11, <1>12 DEF RunInv, InOrder
<1>14. Carrying(c)'
  <2>1. \E m \in 0..3 : left = 1..m
    BY <1>3, <1>4 DEF left
  <2>2. \A k \in left : k \in r.created /\ k # n /\ k \in Part
    BY <1>1 DEF left, RunState
  <2>3. \A k \in left : object'[r.pack][k] = c
    BY <1>1, <1>5, <1>7, <2>2 DEF RunInv, Carrying
  <2>4. c \notin lost => \A k \in Part : object'[r.pack][k] = c => k \in left
    BY <1>1, <1>5, <1>7 DEF RunInv, Carrying, left
  <2> QED BY <1>6, <1>11, <1>12, <2>1, <2>3, <2>4 DEF Carrying
<1>15. Owned(c)'
  <2> SUFFICES ASSUME NEW q \in Pack, NEW k \in Part, object'[q][k] = c
               PROVE  q \in r.missing \/ q = r.pack
    BY <1>11, <1>12 DEF Owned
  <2> QED BY <1>1, <1>7 DEF RunInv, Owned
<1>16. ToldWhole(c)'
  <2>1. ASSUME NEW q \in r.missing PROVE Whole(q, c)'
    <3>1. q \in Pack /\ Whole(q, c) /\ q # r.pack
      BY <1>1, <1>5, PacksAssumption DEF RunInv, ToldWhole, RunState
    <3> QED BY <1>7, <3>1 DEF Whole
  <2> QED BY <1>11, <1>12, <2>1 DEF ToldWhole
<1>17. ListedIsThere'
  <2> SUFFICES ASSUME NEW q \in Pack, object'[q][catalog] # None, object'[q][catalog] \notin lost
               PROVE  \A k \in Part : object'[q][k] = object'[q][catalog]
    BY <1>6 DEF ListedIsThere, Whole
  <2>0. catalog \in Part
    BY DEF catalog, Part
  <2>1. object'[q][catalog] = object[q][catalog]
    BY <1>7, <2>0
  <2>2. Whole(q, object[q][catalog])
    BY <2>1 DEF PublishingInv, ListedIsThere
  <2>3. CASE q # r.pack
    BY <1>7, <2>1, <2>2, <2>3 DEF Whole
  <2>4. CASE q = r.pack
    <3>1. object[q][catalog] = c
      BY <1>3, <1>5, <2>2, <2>4 DEF Whole
    <3>2. catalog \in r.created
      BY <1>1, <2>0, <2>1, <2>4, <3>1 DEF RunInv, Carrying
    <3>3. n = catalog
      BY <1>2, <1>3, <3>2 DEF catalog
    <3> QED BY <1>7, <2>0, <2>4, <3>3
  <2> QED BY <2>3, <2>4
<1>18. RunInv(c)'
  BY <1>13, <1>14, <1>15, <1>16 DEF RunInv
<1> QED BY <1>3, <1>5, <1>6, <1>9, <1>10, <1>11, <1>12, <1>17, <1>18, ChangeKeeps

-----------------------------------------------------------------------------
(* The index and the service.                                              *)

\* Steps that publish nothing leave the packs as they are.
LEMMA RunsRest ==
  ASSUME PublishingInv, UNCHANGED publishing
  PROVE  /\ \A c \in Run : RunInv(c)'
         /\ ListedIsThere'
<1>1. UNCHANGED <<object, run, lost>>
  BY DEF publishing
<1>2. \A c \in Run : RunInv(c)'
  BY <1>1, OthersKeep DEF LeavesObjects
<1> QED BY <1>1, <1>2 DEF PublishingInv, ListedIsThere, Whole

LEMMA ListKeeps ==
  ASSUME PublishingInv, NEW l \in Builder, List(l)
  PROVE  PublishingInv'
<1>1. PICK n \in 0..Retries :
        /\ events[n] > 0 /\ events' = [events EXCEPT ![n] = @ - 1]
        /\ builder' = [builder EXCEPT ![l] =
             [busy |-> TRUE, failures |-> n, listed |-> Holding(catalog)]]
  BY DEF List
<1>2. /\ UNCHANGED <<publishing, index, served, reload>>
      /\ excused' = (excused \/ \E m \in Builder : builder[m].busy)
      /\ object' = object /\ run' = run /\ lost' = lost
  BY DEF List, serving, publishing
<1>3. Holding(catalog)' = Holding(catalog) /\ Holding(catalog) \in SUBSET Pack
  BY <1>2 DEF Holding
<1>4. events' \in [0..Retries -> Nat]
  BY <1>1, Before
<1>5. builder' \in [Builder -> BuilderState]
  <2>1. [busy |-> TRUE, failures |-> n, listed |-> Holding(catalog)] \in BuilderState
    BY <1>3 DEF BuilderState
  <2> QED BY <1>1, <2>1, Before
<1>6. TypeOK'
  BY <1>2, <1>4, <1>5, Before DEF TypeOK
<1>7. IndexInv'
  <2> SUFFICES ASSUME ~excused'
               PROVE  /\ \A k, m \in Builder : builder'[k].busy /\ builder'[m].busy => k = m
                      /\ \A k \in Builder : builder'[k].busy => builder'[k].listed = Holding(catalog)
                      /\ \E k \in Builder : builder'[k].busy
    BY <1>3 DEF IndexInv
  <2>1. \A m \in Builder : ~builder[m].busy
    BY <1>2
  <2>2. /\ builder'[l].busy /\ builder'[l].listed = Holding(catalog)
        /\ \A m \in Builder : m # l => builder'[m] = builder[m]
    BY <1>1, Before
  <2> QED BY <2>1, <2>2
<1>8. PublishedIsServed'
  BY <1>2 DEF PublishingInv, PublishedIsServed
<1> QED BY <1>2, <1>6, <1>7, <1>8, RunsRest DEF PublishingInv

LEMMA WriteIndexKeeps ==
  ASSUME PublishingInv, NEW l \in Builder, WriteIndex(l)
  PROVE  PublishingInv'
<1>1. /\ builder[l].busy /\ index' = builder[l].listed
      /\ builder' = [builder EXCEPT ![l] = IdleBuilder]
      /\ UNCHANGED <<publishing, events, excused, served, reload>>
      /\ object' = object /\ run' = run /\ lost' = lost
  BY DEF WriteIndex, serving, publishing
<1>2. IdleBuilder \in BuilderState /\ ~IdleBuilder.busy
  BY RetriesAssumption DEF IdleBuilder, BuilderState
<1>3. /\ builder' \in [Builder -> BuilderState] /\ ~builder'[l].busy
      /\ \A m \in Builder : m # l => builder'[m] = builder[m]
  BY <1>1, <1>2, Before
<1>4. TypeOK'
  BY <1>1, <1>3, Before DEF TypeOK, BuilderState
<1>5. IndexInv'
  BY <1>1, <1>3 DEF PublishingInv, IndexInv, Holding
<1>6. PublishedIsServed'
  BY <1>1 DEF PublishingInv, PublishedIsServed
<1> QED BY <1>1, <1>4, <1>5, <1>6, RunsRest DEF PublishingInv

LEMMA IndexFailsKeeps ==
  ASSUME PublishingInv, NEW l \in Builder, IndexFails(l)
  PROVE  PublishingInv'
<1>1. /\ builder[l].busy /\ builder' = [builder EXCEPT ![l] = IdleBuilder]
      /\ UNCHANGED <<publishing, index, served, reload>>
      /\ object' = object /\ run' = run /\ lost' = lost
  BY DEF IndexFails, serving, publishing
<1>2. IdleBuilder \in BuilderState /\ ~IdleBuilder.busy
  BY RetriesAssumption DEF IdleBuilder, BuilderState
<1>3. /\ builder' \in [Builder -> BuilderState] /\ ~builder'[l].busy
      /\ \A m \in Builder : m # l => builder'[m] = builder[m]
  BY <1>1, <1>2, Before
\* Either the change waits again, or nothing is said of the index any more.
<1>4. /\ events' \in [0..Retries -> Nat] /\ excused' \in BOOLEAN
      /\ excused' \/ (excused' = excused /\ \E n \in 0..Retries : events'[n] # 0)
  <2>1. CASE builder[l].failures < Retries
    <3>1. PICK n \in 0..Retries : n = builder[l].failures + 1
      BY <2>1, Before, RetriesAssumption DEF BuilderState
    <3>2. events' = [events EXCEPT ![n] = @ + 1] /\ excused' = excused
      BY <2>1, <3>1 DEF IndexFails
    <3>3. events[n] \in Nat
      BY Before
    <3>4. events' \in [0..Retries -> Nat] /\ events'[n] # 0
      BY <3>2, <3>3, Before
    <3> QED BY <3>2, <3>4, Before
  <2>2. CASE ~(builder[l].failures < Retries)
    BY <2>2, Before DEF IndexFails
  <2> QED BY <2>1, <2>2
<1>5. TypeOK'
  BY <1>1, <1>3, <1>4, Before DEF TypeOK
<1>6. IndexInv'
  BY <1>3, <1>4 DEF PublishingInv, IndexInv
<1>7. PublishedIsServed'
  BY <1>1 DEF PublishingInv, PublishedIsServed
<1> QED BY <1>1, <1>5, <1>6, <1>7, RunsRest DEF PublishingInv

\* A task that starts finds every pack that a run which is done has put.
LEMMA TaskStartsKeeps ==
  ASSUME PublishingInv, TaskStarts
  PROVE  PublishingInv'
<1> USE NoneAssumption
<1>1. /\ served' = Loaded /\ reload' = FALSE /\ UNCHANGED publishing
      /\ UNCHANGED <<object, run, lost, events, builder, index, excused>>
  BY DEF TaskStarts, publishing, indexing
<1>2. Loaded \in SUBSET Pack
  BY PacksAssumption DEF Loaded, Holding
<1>3. TypeOK'
  BY <1>1, <1>2, Before DEF TypeOK
<1>4. IndexInv'
  BY <1>1 DEF PublishingInv, IndexInv, Holding
<1>5. PublishedIsServed'
  <2> SUFFICES ASSUME NEW p \in Pack, NEW c \in Run, object[p][runtime] = c PROVE p \in Loaded
    BY <1>1 DEF PublishedIsServed
  <2>1. p \in Holding(runtime)
    BY DEF Holding
  <2> QED BY <2>1 DEF Loaded
<1> QED BY <1>1, <1>3, <1>4, <1>5, RunsRest DEF PublishingInv

-----------------------------------------------------------------------------
(* The theorems.                                                           *)

LEMMA PublishingInit == Init => PublishingInv
<1> SUFFICES ASSUME Init PROVE PublishingInv
  OBVIOUS
<1> USE NoneAssumption
<1>1. PICK old \in SUBSET Pack :
        object = [p \in Pack |-> [k \in Part |-> IF p \in old THEN Earlier ELSE None]]
  BY DEF Init
<1>2. /\ object \in [Pack -> [Part -> Run \cup {Earlier, None}]]
      /\ \A p \in Pack, k \in Part : object[p][k] = IF p \in old THEN Earlier ELSE None
  BY <1>1
<1>3. \A c \in Run : run[c] = NewRun
  BY DEF Init
<1>4. NewRun \in RunState
  BY DEF NewRun, RunState
<1>5. run \in [Run -> RunState]
  BY <1>4 DEF Init
<1>6. IdleBuilder \in BuilderState /\ ~IdleBuilder.busy
  BY RetriesAssumption DEF IdleBuilder, BuilderState
<1>7. builder \in [Builder -> BuilderState] /\ \A l \in Builder : ~builder[l].busy
  BY <1>6 DEF Init
<1>8. Holding(catalog) \in SUBSET Pack /\ Loaded \in SUBSET Pack
  BY PacksAssumption DEF Holding, Loaded
<1>9. NewRun.pc = "new" /\ NewRun.told = "nothing" /\ NewRun.missing = {} /\ NewRun.todo = {}
      /\ NewRun.kind = "publish"
  BY DEF NewRun
<1>10. events \in [0..Retries -> Nat]
  BY DEF Init
<1>11. TypeOK
  BY <1>2, <1>3, <1>5, <1>7, <1>8, <1>9, <1>10 DEF TypeOK, Init
<1>12. ASSUME NEW c \in Run PROVE RunInv(c)
  <2>1. \A p \in Pack, k \in Part : object[p][k] # c
    BY <1>2
  <2>2. c \notin lost
    BY DEF Init
  <2> QED BY <1>3, <1>9, <2>1, <2>2 DEF RunInv, InOrder, Carrying, Owned, ToldWhole
<1>13. ListedIsThere
  BY <1>2 DEF ListedIsThere, Whole, catalog, Part
<1>14. IndexInv
  BY <1>7 DEF IndexInv, Init
<1>15. PublishedIsServed
  BY <1>3, <1>9 DEF PublishedIsServed
<1> QED BY <1>11, <1>12, <1>13, <1>14, <1>15 DEF PublishingInv

LEMMA PublishingNext == PublishingInv /\ [Next]_vars => PublishingInv'
<1> SUFFICES ASSUME PublishingInv, [Next]_vars PROVE PublishingInv'
  OBVIOUS
<1>1. ASSUME NEW c \in Run,
             \/ \E p \in Pack : Publish(c, p)
             \/ Created(c) \/ CreatedUnheard(c) \/ PutRefused(c) \/ PutFails(c)
             \/ Undo(c) \/ UndoEnds(c) \/ Published(c) \/ Reload(c) \/ Killed(c)
             \/ Seed(c) \/ Check(c) \/ Head(c) \/ Seeded(c)
      PROVE  PublishingInv'
  BY <1>1, PublishKeeps, CreatedKeeps, RefusedKeeps, UndoKeeps, EndsKeep, PublishedKeeps, ReloadKeeps,
     SeedKeeps, CheckKeeps, HeadKeeps, SeededKeeps
<1>2. ASSUME NEW l \in Builder, List(l) \/ WriteIndex(l) \/ IndexFails(l) PROVE PublishingInv'
  BY <1>2, ListKeeps, WriteIndexKeeps, IndexFailsKeeps
<1>3. CASE TaskStarts
  BY <1>3, TaskStartsKeeps
<1>4. CASE UNCHANGED vars
  <2>1. UNCHANGED <<object, run, lost, events, builder, index, excused, served, reload>>
    BY <1>4 DEF vars, indexing, serving
  <2>2. UNCHANGED publishing
    BY <2>1 DEF publishing
  <2>3. TypeOK' /\ IndexInv' /\ PublishedIsServed'
    BY <2>1, Before DEF PublishingInv, TypeOK, IndexInv, Holding, PublishedIsServed
  <2> QED BY <2>2, <2>3, RunsRest DEF PublishingInv
<1> QED BY <1>1, <1>2, <1>3, <1>4 DEF Next

\* What the others rest on: a run knows what it created for the pack at hand, and nothing
\* else is its own but whole packs.
THEOREM PublishingIsInvariant == Spec => []PublishingInv
BY PublishingInit, PublishingNext, PTL DEF Spec

\* What a command said to be published stays whole, and what the catalog lists is whole,
\* whoever else publishes, is refused, undoes or is killed (publish_archive 53-65).
THEOREM PacksAreAlwaysWhole == Spec => []PacksAreWhole
<1>1. PublishingInv => PacksAreWhole
  BY DEF PublishingInv, PacksAreWhole, PublishedIsWhole, RunInv, ToldWhole
<1> QED BY <1>1, PublishingIsInvariant, PTL

\* Once no change waits and no rebuild is under way, the index lists what the catalog
\* holds, unless rebuilds overlapped or one was given up (build_catalog and handler).
THEOREM IndexCatchesUp == Spec => []IndexFollowsCatalog
<1>1. PublishingInv => IndexFollowsCatalog
  BY DEF PublishingInv, IndexInv, IndexFollowsCatalog
<1> QED BY <1>1, PublishingIsInvariant, PTL

\* What a command put before it said that it was done is dealt, or will be once the
\* reload starts a task (operations.py:717-721, 776-784).
THEOREM PublishedIsDealt == Spec => []PublishedIsServed
<1>1. PublishingInv => PublishedIsServed
  BY DEF PublishingInv
<1> QED BY <1>1, PublishingIsInvariant, PTL

=============================================================================
