----------------------------- MODULE Publishing ------------------------------
(***************************************************************************)
(* CardDecks on AWS: the bucket and the commands that fill it              *)
(* (aws_archive.py; publish_aws_pack and seed_aws_packs of operations.py), *)
(* the index that a Lambda function rebuilds from the catalog              *)
(* (aws_lambda/catalog_index.py) and the packs a service task loads when   *)
(* it starts (aws_packs.py).                                               *)
(*                                                                         *)
(* A pack is three objects, put in this order: the archive, the runtime    *)
(* JSON and the catalog entry.  Each put asks that the key be new; it may  *)
(* fail, and it may have happened though its answer is lost: the library   *)
(* sends it again and the put is refused by its own object.  A command may *)
(* be interrupted (it still undoes what it did) or killed (it does not).   *)
(* An object is the run of the command that created it.                    *)
(***************************************************************************)
EXTENDS Integers, FiniteSets

CONSTANTS
  Pack,      \* packs that may be published
  Bundled,   \* those that come with the release, which seed-aws uploads
  Run,       \* runs of the commands; bound: each runs once
  Builder,   \* index rebuilds that may go on at the same time
  Retries,   \* retry_attempts of the Lambda function: 2
  Earlier,   \* the runs before these, which published some packs whole
  None       \* no object, no pack

ASSUME PacksAssumption == Bundled \subseteq Pack
ASSUME RetriesAssumption == Retries \in Nat
ASSUME NoneAssumption == None \notin Run \cup {Earlier} \cup Pack /\ Earlier \notin Run

VARIABLES
  object,    \* object[p][k]: the run that created part k of pack p, or None
  run,       \* run[c]: how far a run of a command is
  lost,      \* history: runs that created an object and were not told
  events,    \* events[n]: catalog changes whose rebuild failed n times so far
  builder,   \* builder[l]: a rebuild in progress
  index,     \* the packs that the public index lists
  excused,   \* history: two rebuilds overlapped, or one was given up
  served,    \* the packs that the service deals from
  reload     \* a new deployment was asked for and no task has started since

vars == <<object, run, lost, events, builder, index, excused, served, reload>>

Part == 1..3
archive == 1
runtime == 2
catalog == 3

RunState ==
  [pc : {"new", "seeding", "checking", "putting", "undoing", "reloading", "over"},
   kind : {"publish", "seed"},
   pack : Pack \cup {None},
   todo : SUBSET Bundled,      \* packs the seeding has yet to look at
   part : 1..4,                \* the next part to look for or to put
   created : SUBSET Part,      \* parts of pack that this run was told it created
   missing : SUBSET Bundled,   \* packs this seeding published
   told : {"nothing", "done", "unloaded", "present", "failed", "killed"}]

BuilderState == [busy : BOOLEAN, failures : 0..Retries, listed : SUBSET Pack]

TypeOK ==
  /\ object \in [Pack -> [Part -> Run \cup {Earlier, None}]]
  /\ run \in [Run -> RunState]
  /\ \A c \in Run : run[c].pc = "putting" => run[c].created = 1..(run[c].part - 1)
  /\ lost \in SUBSET Run
  /\ events \in [0..Retries -> Nat]
  /\ builder \in [Builder -> BuilderState]
  /\ index \in SUBSET Pack /\ served \in SUBSET Pack
  /\ excused \in BOOLEAN /\ reload \in BOOLEAN

NewRun ==
  [pc |-> "new", kind |-> "publish", pack |-> None, todo |-> {}, part |-> 1,
   created |-> {}, missing |-> {}, told |-> "nothing"]

IdleBuilder == [busy |-> FALSE, failures |-> 0, listed |-> {}]

Holding(k) == {p \in Pack : object[p][k] # None}

\* load_registry: the packs of the bucket, or the release's if there are none.
Loaded == IF Holding(runtime) = {} THEN Bundled ELSE Holding(runtime)

\* A new deployment, or one whose bucket was filled by earlier releases.
Init ==
  /\ \E old \in SUBSET Pack :
       object = [p \in Pack |-> [k \in Part |-> IF p \in old THEN Earlier ELSE None]]
  /\ run = [c \in Run |-> NewRun]
  /\ lost = {}
  /\ events = [n \in 0..Retries |-> 0]
  /\ builder = [l \in Builder |-> IdleBuilder]
  /\ index = Holding(catalog) /\ served = Loaded
  /\ excused = FALSE /\ reload = FALSE

-----------------------------------------------------------------------------
(* Publishing one pack.                                                    *)

indexing == <<events, builder, index, excused>>
serving == <<served, reload>>

Set(c, r) == run' = [run EXCEPT ![c] = r]

\* A change under catalog/, also a removal, is an event for the Lambda function.
Notified_of_creations(k, value) ==
  IF k = catalog /\ value # None THEN [events EXCEPT ![0] = @ + 1] ELSE events

Notified(k, value) == IF k = catalog THEN [events EXCEPT ![0] = @ + 1] ELSE events

Changed(p, k, value) ==
  /\ object' = [object EXCEPT ![p][k] = value]
  /\ events' = Notified(k, value)

Putting(r, p) == [r EXCEPT !.pc = "putting", !.pack = p, !.part = 1, !.created = {}]
Undoing(r) == [r EXCEPT !.pc = "undoing"]
Over(r, told) ==
  [r EXCEPT !.pc = "over", !.told = told, !.todo = {}, !.part = 1, !.created = {}, !.missing = {}]

\* bad-decisions pack publish-aws: the archive was read and is valid.
Publish(c, p) ==
  /\ run[c].pc = "new"
  /\ Set(c, Putting(run[c], p))
  /\ UNCHANGED <<object, lost, indexing, serving>>

\* _put_new: the key is new, and the publisher is told so.
Created(c) ==
  LET r == run[c]
  IN  /\ r.pc = "putting" /\ r.part \in Part /\ object[r.pack][r.part] = None
      /\ Changed(r.pack, r.part, c)
      /\ Set(c, [r EXCEPT !.created = @ \cup {r.part}, !.part = @ + 1])
      /\ UNCHANGED <<lost, builder, index, excused, serving>>

\* The object was created, but a lost answer ends in a refusal or in an error.
CreatedUnheard(c) ==
  LET r == run[c]
  IN  /\ r.pc = "putting" /\ r.part \in Part /\ object[r.pack][r.part] = None
      /\ Changed(r.pack, r.part, c)
      /\ Set(c, Undoing(r))
      /\ lost' = lost \cup {c}
      /\ UNCHANGED <<builder, index, excused, serving>>

RefusedParts_claimed(r) == r.created \cup {r.part}

\* What a refused put leaves to undo: what this run was told it created.
RefusedParts(r) == r.created

\* The key exists: refusing to overwrite.
PutRefused(c) ==
  LET r == run[c]
  IN  /\ r.pc = "putting" /\ r.part \in Part /\ object[r.pack][r.part] # None
      /\ Set(c, [Undoing(r) EXCEPT !.created = RefusedParts(r)])
      /\ UNCHANGED <<object, lost, indexing, serving>>

\* Any other error, or Ctrl-C, before the last part was recorded or just after it.
PutFails(c) ==
  /\ run[c].pc = "putting"
  /\ Set(c, Undoing(run[c]))
  /\ UNCHANGED <<object, lost, indexing, serving>>

Latest(r) == CHOOSE k \in r.created : \A j \in r.created : j <= k

\* The rollback deletes the exact versions, the last one first...
Undo(c) ==
  LET r == run[c]
      k == Latest(r)
  IN  /\ r.pc = "undoing" /\ r.created # {}
      /\ Changed(r.pack, k, None)
      /\ Set(c, [r EXCEPT !.created = @ \ {k}])
      /\ UNCHANGED <<lost, builder, index, excused, serving>>

\* ...until none is left or a delete fails, and the command with it.
UndoEnds(c) ==
  /\ run[c].pc = "undoing"
  /\ Set(c, Over(run[c], "failed"))
  /\ UNCHANGED <<object, lost, indexing, serving>>

Missing_forgotten(r) == r.missing

Missing(r) == r.missing \cup {r.pack}

\* All three parts are there: on to the reload, or to the next bundled pack.
Published(c) ==
  LET r == run[c]
  IN  /\ r.pc = "putting" /\ r.part = 4
      /\ Set(c, IF r.kind = "publish" THEN [r EXCEPT !.pc = "reloading"]
                ELSE [r EXCEPT !.pc = "seeding", !.missing = Missing(r), !.part = 1,
                               !.created = {}])
      /\ UNCHANGED <<object, lost, indexing, serving>>

\* force_runtime_reload, which --no-reload leaves out.
Reload(c) ==
  /\ run[c].pc = "reloading"
  /\ \/ Set(c, Over(run[c], "done")) /\ reload' = TRUE
     \/ Set(c, Over(run[c], "failed")) /\ UNCHANGED reload
     \/ run[c].kind = "publish" /\ Set(c, Over(run[c], "unloaded")) /\ UNCHANGED reload
  /\ UNCHANGED <<object, lost, indexing, served>>

\* The process is killed: nothing is undone.
Killed(c) ==
  /\ run[c].pc \notin {"new", "over"}
  /\ Set(c, Over(run[c], "killed"))
  /\ UNCHANGED <<object, lost, indexing, serving>>

-----------------------------------------------------------------------------
(* Seeding: every bundled pack that is not there is published.             *)

\* deploy aws, and bad-decisions pack seed-aws.
Seed(c) ==
  /\ run[c].pc = "new"
  /\ Set(c, [run[c] EXCEPT !.pc = "seeding", !.kind = "seed", !.todo = Bundled])
  /\ UNCHANGED <<object, lost, indexing, serving>>

\* archive_exists looks for the three objects of a pack in turn...
Check(c) ==
  /\ run[c].pc = "seeding"
  /\ \E p \in run[c].todo :
       Set(c, [run[c] EXCEPT !.pc = "checking", !.pack = p, !.todo = @ \ {p}, !.part = 1])
  /\ UNCHANGED <<object, lost, indexing, serving>>

\* ...and a pack that lacks one is published.
Head(c) ==
  LET r == run[c]
  IN  /\ r.pc = "checking"
      /\ Set(c, CASE object[r.pack][r.part] = None -> Putting(r, r.pack)
                  [] object[r.pack][r.part] # None /\ r.part < 3 -> [r EXCEPT !.part = @ + 1]
                  [] OTHER -> [r EXCEPT !.pc = "seeding", !.part = 1])
      /\ UNCHANGED <<object, lost, indexing, serving>>

\* The service is restarted if this seeding published anything.
Seeded(c) ==
  LET r == run[c]
  IN  /\ r.pc = "seeding" /\ r.todo = {}
      /\ Set(c, IF r.missing # {} THEN [r EXCEPT !.pc = "reloading"] ELSE Over(r, "present"))
      /\ UNCHANGED <<object, lost, indexing, serving>>

-----------------------------------------------------------------------------
(* The index and the service.                                              *)

publishing == <<object, run, lost>>

\* An invocation lists the catalog...
List(l) ==
  /\ ~builder[l].busy
  /\ \E n \in 0..Retries :
       /\ events[n] > 0
       /\ events' = [events EXCEPT ![n] = @ - 1]
       /\ builder' = [builder EXCEPT ![l] =
            [busy |-> TRUE, failures |-> n, listed |-> Holding(catalog)]]
  /\ excused' = (excused \/ \E m \in Builder : builder[m].busy)
  /\ UNCHANGED <<publishing, index, serving>>

\* ...reads every entry and writes the index...
WriteIndex(l) ==
  /\ builder[l].busy /\ builder[l].listed \subseteq Holding(catalog)
  /\ index' = builder[l].listed
  /\ builder' = [builder EXCEPT ![l] = IdleBuilder]
  /\ UNCHANGED <<publishing, events, excused, serving>>

\* ...or fails, on an entry that is gone or otherwise, and is tried again.
IndexFails(l) ==
  /\ builder[l].busy
  /\ IF builder[l].failures < Retries
     THEN events' = [events EXCEPT ![builder[l].failures + 1] = @ + 1] /\ UNCHANGED excused
     ELSE excused' = TRUE /\ UNCHANGED events
  /\ builder' = [builder EXCEPT ![l] = IdleBuilder]
  /\ UNCHANGED <<publishing, index, serving>>

\* A task starts, for a deployment or in place of one that was interrupted: it loads
\* the runtime objects, or the release's packs if there are none.
TaskStarts ==
  /\ served' = Loaded
  /\ reload' = FALSE
  /\ UNCHANGED <<publishing, indexing>>

Next ==
  \/ \E c \in Run :
       \/ \E p \in Pack : Publish(c, p)
       \/ Created(c) \/ CreatedUnheard(c) \/ PutRefused(c) \/ PutFails(c)
       \/ Undo(c) \/ UndoEnds(c) \/ Published(c) \/ Reload(c) \/ Killed(c)
       \/ Seed(c) \/ Check(c) \/ Head(c) \/ Seeded(c)
  \/ \E l \in Builder : List(l) \/ WriteIndex(l) \/ IndexFails(l)
  \/ TaskStarts

Spec == Init /\ [][Next]_vars

-----------------------------------------------------------------------------
(* Safety.                                                                 *)

Whole(p, c) == \A k \in Part : object[p][k] = c

\* A pack that a command published stays published as that command put it, whoever
\* else publishes, is refused, undoes or is killed (publish_archive 53-65).
PublishedIsWhole ==
  \A c \in Run :
    /\ run[c].kind = "publish" /\ (run[c].pc = "reloading" \/ run[c].told \in {"done", "unloaded"})
         => Whole(run[c].pack, c)
    /\ \A p \in run[c].missing : Whole(p, c)

\* The catalog lists what can be downloaded: an entry without its archive and its
\* runtime JSON, of the same run, is left only by a run whose last put was answered
\* by nobody (publish_archive 55-63).
ListedIsThere ==
  \A p \in Pack :
    object[p][catalog] # None =>
      Whole(p, object[p][catalog]) \/ object[p][catalog] \in lost

PacksAreWhole == TypeOK /\ PublishedIsWhole /\ ListedIsThere

\* An index that nobody is about to rebuild lists what the catalog holds, unless two
\* rebuilds overlapped, so that the older list may have been written last, or one was
\* given up (build_catalog and handler, aws_stack.py:106-119).
IndexFollowsCatalog ==
  (\A n \in 0..Retries : events[n] = 0) /\ (\A l \in Builder : ~builder[l].busy) /\ ~excused
    => index = Holding(catalog)

\* What a command put before it said that it was done, or that everything was there,
\* is dealt by the service, or will be once the reload starts a task
\* (operations.py:717-721, 776-784).  A seeding whose reload failed says neither, and
\* its packs wait for the next reload: a later seeding finds them present.
PublishedIsServed ==
  \A p \in Pack, c \in Run :
    object[p][runtime] = c /\ run[c].told \in {"done", "present"} => p \in served \/ reload

=============================================================================
