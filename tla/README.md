# Bad Decisions: a formal model

TLA+ modules, TLC configurations and TLAPS proofs kept beside the Bad Decisions
repository. They model the parts of the program where several actors or failures
meet: Peer Pressure, the multi-player card table, from the files and SQLite
transactions of the server to the threads and tasks of its three clients; the
votes of Consequences in both of its stores; the ways in which packs come into
being, in a directory and on AWS; the public index of the object archive; and the
release activator. Paths below are
relative to the repository root.

## 1. The system

| Component | State it keeps | Operations | Talks to |
|---|---|---|---|
| Room engine, `src/bad_decisions/peer_pressure/service.py` | one SQLite database per room: room, players (seat, lease, score), hands, drawn cards, rounds, submissions, processed requests | create, join, heartbeat, sync, watch, leave, start, submit, judge, advance, end, cleanup | the API calls it in worker threads; several processes may share the directory; room files are linked and unlinked by path |
| HTTP API, `src/bad_decisions/api.py` | rate limiter per process | room routes, an event stream that polls `watch`, single draws, feedback | engine, packs, consequences store |
| Client session, `client/src/bad_decisions_client/together.py` | known revision, its projection | `mutate` with stale retries, `_send` with one resend, `sync`, heartbeats, event stream | the API, from three threads |
| Terminal table, `together_tui.py` | shown state, busy flags, event queue | buttons, workers, timers | the client session |
| Browser table, `web/together.js` | revision, state, stream | the same protocol, written separately | the API |
| Card engine, `engine.py`, `models.py`, `packs.py`, `settings.py` | loaded packs | resolve pools, draw | everybody |
| Consequences store, `consequences.py`, `aws_consequences.py` | draws, votes, counters per combination | record, feedback, purge, rebuild | the API; SQLite or DynamoDB |
| Release activator, `deploy/activate-release.py`; `rollback.sh`, `deploy.sh` | `current`, releases, list of good releases, pack registry, request and result files | activate, rollback, replace a pack | systemd, the service's health check, operators through files |
| Operator commands, `operations.py`, `cli.py`, `remote.py`, `doctor.py` | none of their own | stage requests and wait for results, AWS deployment | the activator, AWS |
| Pack archive, `archive.py`, `pyx_import.py` | registry directory | create, validate and import archives | concurrent importers |
| AWS publishing, `aws_archive.py`, `aws_packs.py`, `aws_lambda/catalog_index.py` | S3 objects | publish with rollback, rebuild the index | S3 |
| Object archive catalog, `deploy/object-archive/indexer/catalog.py` | a cached index, its deadlines, a remembered failure | serve, refresh by scanning, serve stale | S3; an HTTP cache in front |

What is hard in it:

* **Room engine.** Any request may first mark silent players away, move the
  responsible adult's role, hand a decision back, start judging, and only then
  do what it was asked. Every phase, every order of leaving, falling silent and
  returning meets every operation. Correct means: no card is lost or doubled,
  nobody judges themselves, a table with somebody at it can always go on, and
  watchers are told of every change and of nothing else.
* **Session.** Requests and answers get lost, an abandoned request can still be
  served later, revisions arrive without their projections, and three threads
  share the client. Correct means: an action takes effect at most once, the
  player is told the truth about it, and the screen never goes back.
* **Files on disk.** A room's path is checked, opened and unlinked in separate
  steps by requests of several processes. Correct means: nobody sees a half-made
  room, no room replaces another, and dead rooms and abandoned files go.
* **Activator.** Every step of a deployment, a rollback or a pack replacement can
  fail, be struck by a signal or be the last of a killed run, and so can every
  step that undoes them. Correct means: what serves, what `current` names, what
  is listed as good and what the result says agree; the inbox becomes free.
* **The two tables on screen.** The terminal's three threads and the browser's
  tasks take up the same state where another has left it: results, events and
  clicks come in any order. Correct means: what is chosen is what is on the
  screen, what the server says gets there, a resend does not go into another
  round, and whoever leaves gets out.
* **Consequences.** DynamoDB's votes are read, then written under a condition, up
  to three times, while other votes, draws, resends and expiry meet them; SQLite
  has a purge that counts again. Correct means: the counters are the recount of
  the rounds, and the voter is told the truth.
* **Archive, publishing.** Importers publish by link or by lock and rename, and
  take back by name what they published; three conditional puts are undone if
  one fails, unless nobody heard that it succeeded; the index is rebuilt by
  events. Correct means: nothing of somebody else's is overwritten or taken
  away, and what is called published is whole, listed and dealt.
* **Object archive catalog.** One scan at a time, object by object, while objects
  come, change and go and storage fails; everybody else waits for its lock. Bodies
  have lifetimes here and in the HTTP cache, failures are remembered, and stale
  bodies given a new term; what an archive contains can fail the refresh of all.
  Correct means: what an index says was so while it was made, nothing is called fresh
  longer than it may, storage is not scanned more often, and trouble ends with its cause.

`PROJECT.json` lists the hazards one by one with their lines, and for each the
properties that would catch it.

## 2. The modules

| Module | What it is |
|---|---|
| `Table` | What the documentation promises the people at a table: phases, role, decisions, points. |
| `Room` | One room's database and every transaction that changes it. Refines `Table`. |
| `RoomLiveness` | Which clients keep a table moving, and what then must happen. |
| `RoomProofs` | Type correctness, the round and the cards and points of `Room`, that it implements `Table`, and what its steps do to decisions, revisions and points, proved; then `RoomFiles`, as an instance. |
| `Once` | What the documentation promises of an action: at most once, and no lie about it. |
| `Session` | One client and the server at the level of requests and revisions. Refines `Once`. |
| `SessionProofs` | Its invariants, that the view never goes back, and the refinement, proved. |
| `RoomFiles` | The directory behind one room code: build, link, check, open, clean up, unlink. |
| `Activation` | The release activator, step by step, with the operators' inbox and the path unit. |
| `ActivationProofs` | Its safety, proved. |
| `Terminal` | The full-screen table: user interface, network worker and events thread over one client. |
| `Browser` | The browser's page: join, Refresh, a click with its resends, heartbeat and stream, over any rooms. Refines `Once`. |
| `BrowserProofs` | Its invariants, the refinement, and the fate of sessions and resends, proved; then `Terminal`'s safety, as an instance. |
| `Ledger` | What Consequences promises: a vote counts once and at once, and the answer is true. |
| `Feedback` | Both of its stores, with time, expiry, purge and failures. Refines `Ledger`. |
| `FeedbackProofs` | Its type correctness, that nothing is stored for ever, and the refinement, proved. |
| `Publishing` | The bucket on AWS, the commands that fill it, the index and what the service deals. |
| `PublishingProofs` | Its safety, proved. |
| `Importing` | A registry directory and the importers that fill it. |
| `ImportingProofs` | Its safety, proved. |
| `Catalog` | The object archive's cached index, the scan that refreshes it, and the HTTP cache in front. |
| `CatalogProofs` | Its safety, proved. |
| `MCRoom`, `MCRoomLiveness`, `MCRoomFiles`, `MCTerminal`, `MCFeedback`, `MCPublishing`, `MCImporting`, `MCCatalog` | Values of the constants, symmetries and views for TLC. |

### Room

`room` is the database, one record with a field per table or column; `file` says
whether its path still names it. Every writer of `service.py` runs under
`BEGIN IMMEDIATE` and rolls back when it raises, so one action is one committed
transaction and a refused request is no step. The body of each action composes
the steps of the code in the code's order: `Touch` (presence, repair, a bump if
anything changed), the operation, the repair the operation calls, `Bump`. The
two writers that read `_ensure_live` differ in when they do: `join` refuses a
dead room before it touches, `sync` after, when the touch may have given the
room a new lifetime; `heartbeat` and the mutations do not ask at all.

| Code | Model |
|---|---|
| `players.connected`, `last_seen` against the timeout | `connected`, `silent` |
| `expires_at <= now` | `expired` |
| `revision` | `bumps`: how far the last transaction moved it |
| `rounds` (latest row) | `round`, `adult`, `prompt`, `winner` |
| `submissions`, `submission_cards` | `sub` for this round, `played` for earlier ones |
| `drawn_cards` | `drawn`, `asked` |
| `_draw`'s random choice | `Deals`, a constant operator: any deal that `IsDeal` allows |

What time does is left open: leases lapse in any order and a room expires at any
moment (`Lapse`, `Expire`). That is more than a monotonic clock allows; the code
reads the wall clock, which may be stepped.

### Session

Six variables: the room as far as one session sees it, the client's revision
and projection, the thread inside `mutate` with its control location, sends
nobody waits for any more, the event stream, and what the player was told of
each action. `Serve` and `ServeLate` answer one request in one transaction;
`Timeout` loses a request or an answer at any moment; a first copy given up on
may be served much later. `Others`, `MarkedAway` and `RoomGoes` are everything
the rest of the table does. What an operation demands is `Room`'s business:
here any request may be refused. A heartbeat is a touch at any time: nothing is
done with its answer, and a sync that nobody waits for any more does the same.
Assumed: a room's code is not taken again after the room is gone, and our player
has the first seat, so they host whenever they are connected. `needed` abstracts
the tests `can_start`, `can_submit`, `can_judge` and `can_advance`: the round
cannot go on without our player.

### RoomFiles

`Room` has one file that is linked or gone. `RoomFiles` is what happens below:
`path` is the inode that the room's name leads to, `building` the inodes that
have a private name, and each request walks through the code's accesses to the
directory one at a time. What a file holds is reduced to what the code asks of
it: `empty` (no tables), `half` (being built), `live`, `expired`, `ended`.

| Code | Model |
|---|---|
| `cleanup_expired`: glob, open and read, unlink, the private files | `List`, `Inspect`, `Remove`, `Sweep` |
| `create_room`: checks and private file, rows, `os.link`, `finally` | `Exists`, `Fill`, `Link`, `Drop` |
| `_connect`: `is_file`, then open and the schema's version | `Check`, `OpenRoom` |
| a transaction of `join`, `watch`, `project`; of the writers; of `end` | `Look`, `Write`, `End`, then `Remove` |
| `join` with `create` | a `create`, then a `look` |

A transaction on an open room is one step, although other requests may unlink
the path while it runs. SQLite makes that sound: it refuses the first write to a
database whose path no longer names it, lets reads go through, and lets a
transaction that has already written commit. So whatever happens to the path
during a transaction could have happened before it (reads, refused writes) or
after it (the others). A `sync` is either a `write` or a `look`: if its touch
changes anything, the room has a new lifetime and `_ensure_live` does not
refuse. A cleanup whose read finds the database locked raises and goes on, which
is what it does with a live room. Two room codes share the directory and nothing
else but the count against `max_rooms`, which is a refusal that may happen at any
time; so one code is modelled.

### Activation

`run` is the one run of the activator that systemd allows at a time: the step it
is at, the request, and what it has noted (`switched`, `restarted`, `moved`,
`published`, as in the code) for its handlers. Between any two steps it may be
killed, and the path unit then starts another for the same request.

| Code | Model |
|---|---|
| the `current` symlink, `releases/`, `good-releases` | `current`, `releases` (absent, empty, partial, whole), `good` |
| the pack directory: files in place, under a retired name, backups | `registry` |
| the service since its last start | `service`: the release and the packs it started with |
| `request.json`; `_cleanup_request` | `request`; `Taken` |
| `activate` | `PrepareDeploy`, `Own`, `Install`, `Switch`, `Restart`, `Health`, `RecordDeploy`, `Answer` |
| `rollback` | `PrepareRollback`, `Switch`, `Restart`, `Health`, `RecordRollback`, `Answer` |
| `replace_pack` | `PrepareReplace`, `Backup`, `Publish` and `Retire` (in the other order for an update), `Restart`, `Health`, `DropRetired`, `Answer` |
| the `except BaseException` handlers | `Restore`, `RestartAgain`, `RemoveRelease`; `Unpublish`, `Unretire`, `RestartAgain` |
| `main`'s handler and `finally` | `AnswerError`, `Cleanup` |

A step that fails without effect, and one struck by a signal after its effect
but before the line that notes it, are separate disjuncts, because the handlers
go by the notes. `broken` is not in the code: it names what a run could not put
right, which it logs (`RESTORE FAILED`), or which was left by a kill or a signal
in such a gap; properties say what holds of everything else. An answer of ok
takes the release out of it, as it serves and has passed. `passed` and `left`
remember what health checks and rollbacks have seen.

### Terminal

`Terminal` takes from `Session` that the client's state never goes back, and
looks at what `together_tui.py` does with it. A projection is named by its
revision; `course` says what each revision shows our player (cards, decisions or
neither, and how many answers its prompt asks for), chosen from a set at the start.

| Code | Model |
|---|---|
| `call_from_thread(_network_finished, ...)`, `event_queue` | `worker` at `posted`, `queue` |
| `_run_network`'s task: `sync`, `mutate`, `leave`, `end` | `Accepted`, `Stale`, `SyncServed`, `Synced`, `Fails` |
| `_drain_events`, `_network_finished`, `_render_newest` | `Drain`, `Finished` |
| `_render_state`, `_rebuild_choices` | `Render`, `Kept` |
| rows and buttons, handled after they were pressed | `input`; `RowSelected`, `ButtonPressed`, `LeaveKey` |

A message of the player's waits in `input` while the screen below it may be
drawn anew, one at a time. The heartbeat thread and the status line are left out.

### Browser

Everything in `together.js` runs on one thread, but each `await` gives way to the
other tasks: so each task (`joining`, `refresh`, `act`, `beat`, `stream`) is a
variable that says what it waits for, and the actions are what happens between
two awaits. `page` is the globals, `saved` the sessions in local storage. Rooms are
files: a code that is taken again is another room. `act` keeps the room its
synchronization was asked for (`asks`), as does `refresh`, because the page may
show another when the answer comes. Our player hosts the room. The pack chooser
and picking cards are left out; whether what was picked still fits is `fits`. `Handles` is what the
server may do with a request and answer, as one session sees it.

### Feedback and Ledger

`backend` is chosen at the start, as `api.py` does. The SQLite store is one
action per operation; in the DynamoDB store a request reads (`DynamoRead`) and
then writes under its condition (`DynamoWrite`) or is cancelled and reads again.
Items expire one by one and late (`DynamoExpireRound`, `DynamoExpireStats`): the
table's time to live deletes an item any time after `expires_at`.
`SqlitePurge(age)` is the owner's `purge --retention-days`, with any age: it is an
argument of the command, and no setting bounds it. `Ledger` is what both promise: the
tally is always the recount of the rounds on the books, a vote takes effect at one
moment between being asked and answered, and what a voter is told is what happened.
Time removes only closed rounds (`Forget`). Where there is an owner (`owned`: the
SQLite store) a purge may also take open ones (`Purge`), whose voters are told
`missing`; nobody is told that of a round that is still on the owner's books.

Assumed: SQLite's `BEGIN IMMEDIATE` transactions are atomic; a conditional
transaction sent again under its client token applies once, which is DynamoDB's
promise and what botocore does with `ClientRequestToken`; and a request is over
within `Patience` of being asked. `TimesAssumption` is what `settings.py:89` demands, a
time to vote no longer than the retention. Where DynamoDB is used this is not enough,
and `MarginAssumption` adds what the code does not check: that a request's own time,
seconds, fits between the two as well (by default 83 days lie between them). With the
two equal, a vote read at the last moment could be written after the deletion. The
SQLite store rests on neither.

### Publishing

`object[p][k]` is the run that created part `k` (archive, runtime JSON, catalog
entry) of pack `p`. A put may succeed without its answer being heard
(`CreatedUnheard`): the library sends it again and the run is refused by its own
object. `Undo` deletes what the run was told it created, last first; a killed run
undoes nothing. Catalog changes become events, each of which a rebuild takes up
and gives back up to `Retries` times. `TaskStarts` is a service task that loads
the packs, all or none (`load_registry`). Listing the bucket and loading it are
taken as one step each.

### Importing

A pack's name leads to an inode, and inode numbers are used again. An importer
writes a private file, links it, or locks, looks and renames where there are no
links, and records what it published; `import_index` takes that back by name and
number if a later pack fails, unless the system refuses (`UndoIsRefused`).
A rename consumes the private name (`temp`), while the number that will be recorded
(`inode`) is remembered: from the rename to the record only the pack's own name keeps
it from other files. `initialize_registry` writes in place without a lock. A lock that
an importer left behind may be removed by somebody. That a private file's own removal
may fail is left out: its number would stay in use, as a killed run's does.

### Catalog

| Code | Model |
|---|---|
| `PayloadCache`: body, deadline, `stale`, failure and its hold-off | `cache` |
| `get` under `self._lock` | `Hit`, `Barred`, `StartScan`, then `Built`, `Outage`, `Unread` or `Unencoded` |
| `payload`: page by page, archive by archive | `List`, `Read` |
| what `get_object` finds and the archive checks say | `Verdict`, `Lost` |
| `json.dumps(...).encode()` | `Encodable` |
| `_serve` and its `Cache-Control`; nginx | `Respond`, `copy` |

Time passes in ticks, and a deadline is the ticks left until it: `Tick` counts all
of them down, so nothing depends on how long a run is. `Lag` bounds how long an
answer is under way. `cache.age`, `reader[r].age`, `copy.age` and `past` are history:
how old a body is, what each key held during the scan, how long ago the last scan
ended. What an archive contains is a version: good, bad, so large that the listing shows
it (`Oversized`), such that reading it raises what is none of `ARCHIVE_ERRORS`
(`Unreadable`: bz2's `OSError`, `LZMAError`), or good to every check but with a lone
surrogate in what is catalogued of it (`Unencodable`). The last two, and an archive
deleted after it was listed, fail the refresh. A pack keeps the version that was listed and the one that was
read apart, as the code takes the etag from the first and the digest from the
second. Listings are taken as consistent within a page, and clocks as not going
back (`time.monotonic`). `copy` is what an HTTP cache may answer with as fresh; that
nginx answers with it past that time when the service fails, or is being asked
(`proxy_cache_use_stale`, line 37 of the template), is outside the model.

## 3. The runs

| Run | Asks | Bounds | States |
|---|---|---|---|
| `room` | all of `Room`'s invariants and step properties, and that it implements `Table` | 3 seats, hands of 2, prompts of 2 answers, 2 prompts, 10 answers | 160,483 |
| `room_liveness` | absent adults are replaced; silence does not block judging; rounds finish | 3 seats, 2 of them steady, one prompt's worth of cards | 50,347 |
| `session` | refinement of `Once`, the screen, what the player is told, every revision reaches the screen | 2 actions, 2 sends each, revision to 3 by others, 1 late request | 3,094,598 |
| `session_leaver_hosts` | finding | 1 action, 2 sends | |
| `room_files` | half-made rooms are private, rooms are not replaced, nothing dead or abandoned stays | 2 requests at a time, any number one after another, 4 files, 1 crash | 215,693 |
| `activation` | after any failures: what is current is there, a failed switch is undone, listed releases have passed, the service runs what is on disk, rollbacks go back, the inbox frees | 3 requests, 2 failing steps, 1 killed run, 2 good releases kept | 904,508 |
| `feedback` | both stores refine `Ledger`; nothing is stored for ever | 2 rounds of 1 combination, 2 requests, 3 reads (the code's number), 5 moments, purges of any age | 601,793 |
| `publishing` | what is published is whole, listed and dealt | 2 packs, 1 bundled, 2 runs, 2 rebuilds, 2 retries (the stack's number) | 3,153,252 |
| `terminal` | choices are on offer, the stream brings the table, leaving gets out | 3 revisions, 2 cards, 3 courses, prompts for 1 or 2, 2 sends, 2 queued states | 1,953,217 |
| `browser` | refinement of `Once`, resends stay in their round, the session is kept, every revision reaches the page | 1 room, 1 click, 3 sends (the code's number), revision to 3 by others | 827,366 |
| `importing` | nobody overwrites an import, rollbacks take exactly their own, unless refused | 2 packs, 2 runs in opposite order beside an initialization, 4 inodes | 3,226,521 |
| `catalog` | an index says what was so, nothing outlives its scan, scans are spaced, the catalog is right in the end unless an archive fails every scan | 2 keys on 2 pages, 2 good archives of which one cannot be encoded, one too large, one that cannot be read, 2 requests, a lifetime of 3 ticks, a retry after 2, 2 ticks a second | 1,475,792 |

Several properties are conjunctions of named parts (`RoundIsSound` of four,
`BooksBalance`, `BuildsArePrivate`, `PacksAreWhole` and `RollbackIsExact` of three,
`FailureIsUndone`, `ToldIsTrue` and others of two), each part with its comment:
they are checked and cited together because they fail together. Where a type
invariant says something of its own, such as which requests hold on to a file, it
is one of these parts.

**Why these bounds.** Three seats are the least at which the role can pass to a
player who has decided while another still has: with two, a hand-over always
empties the round. Two prompts give a second round, so decisions become history
and hands are refilled; ten answers are what a full table needs for both; after
the second round the prompts are used up, so `advance` refused for want of cards
happens too. Prompts of two answers against hands of two make a
withdrawn decision exactly fill a hand. `MCDeals` deals the lowest undrawn cards:
no action tells two undrawn cards apart, so every other deal is a renaming of
it. Prompts are symmetric and the run has no liveness property, so symmetry is
sound. The view drops `bumps`, which every transaction resets before use, and
identifies rooms without a file, which never change again; an action property is
evaluated on the step itself, before the view. Two actions in `session` are the
least with which an abandoned request of one meets the sends of the next; two
sends the least with which a resend and a stale retry meet, and with the revision
moving twice the retries end. In `room_files`
every race is between two requests: one that checks and one that acts in
between. A request that is answered starts over as another, so runs are as long
as one likes. Four files are two that the requests build or have open, the one
the path names and one more, so that a file is always free; a file that nothing
refers to is used again. The crash is needed for leftovers, which only the dead
leave. The view drops what is in a file that nothing refers to: it is written
before it is read again. Three requests in `activation` are what it takes to deploy, roll
back and see what the next rollback chooses; two failing steps let the undoing of
a failure fail as well, or a later run meet what an earlier one left; two good
releases kept make the list overflow (the code keeps 20). The properties also
hold with two killed runs (2.3 million states), left out of the run for its length.
In `feedback` two requests race on one round or on one combination's counters;
five moments are enough for a round to be dealt, voted on at its last moment,
and expire. Rounds, and requests, are
alike. Two runs of the publishing commands meet on every key, and a failed rebuild
is retried as often as the stack says. In `terminal` three revisions give every
drawing a predecessor and a successor while a result and two events wait, and one
course goes from a prompt for two answers to one for one, with the same hand. In
`browser` one click with three sends uses every path of `mutate`. In `importing` two packs in
opposite order make each run fail on the other's, and four inodes are two private
files and two published ones, so that numbers are used again. In `catalog` two
requests are one that scans and one that waits for it, two pages let an object
change before and after its page, and with a lifetime of three ticks, a retry after
two and two in a second a body may be too old to be kept downstream and still be
answered with, and a stale one could be kept if its term were taken for a lifetime.
One key changes between two good archives, so that the etag and the digest of an entry
can be of different ones, and one too large; the other between that and one that cannot
be read.

**Deadlock** is checked in `room_files` and `catalog`: requests keep coming. It is not in the
others: a room whose file is gone, a client that left one or closed its table,
an activator or a command after its last request, and a clock at its bound have
really stopped.

**Fairness.** In `room_liveness` the heartbeats of the steady players are weakly
fair: they are the one thing the clients' code repeats for ever by itself
(`PeerConnection._heartbeats`, the browser's interval). That the people also
play is assumed only as `Plays`, and only `RoundsFinish` needs it, together with
`Settled`: the steady players are the table for good and hold the cards the
prompt asks for. Without the last, the second divergence of section 4
refutes it. In `session` and `browser` the server's stream loop is weakly fair (`Push`) and a
delivery strongly fair (`Deliver`): the events thread reopens a broken stream
for ever, and a stream that gets through again and again gets through. In
`terminal` the worker's steps and the handling of its result are weakly fair
(every request has a timeout, and the user interface handles what is posted), and
the player presses `q` again and again, which is what the property is about. In
`room_files` each request runs to its end (weak fairness of `Serve`: there is no
lock to wait for between its steps) unless it dies, and cleaning is begun again
and again: rooms keep being created, or the server restarted. It is strongly
fair, since with both requests busy nothing can begin. Nothing else removes a
room nobody asks for, which is why the deletion of dead rooms is promised no
sooner. In `catalog` time passes, requests come, some request gets the lock when it is
free, who has it goes on, and every answer is sent (weak fairness of each); nothing
else is assumed of the threads. That storage answers from some time on and nobody
changes the objects is the premise of `CatalogRecovers`, not a fairness: without it
there is nothing for the catalog to be right about; that nothing stays that fails every
scan is the other, and section 4 says why. In `activation` the steps of a run, its start included, are weakly fair:
the activator is one sequential process whose every wait has a limit, and
`PathExists` in the path unit starts it again while the request is there. What
stops it from ending is bounded by the number of failures and kills.

**What the runs show.** The room keeps its promises in every order of requests,
silences and returns within the bounds, and every transaction is a step of the
promised table. A session applies an action at most once whatever is lost or
late, never tells a player that an action was refused as stale when it will
still take effect, and never shows an older table. On disk, linking a finished
file is enough to keep half-made rooms private and to decide between two
creators, whatever cleanups do at the same time; a room ended by a process that
died before the unlink, and a private file of one that died while building, go.
The activator undoes a failed switch at every step at which a step can fail,
never lists a release that has not passed (but for the one that was serving when
the list was begun), and never rolls forward by itself; what it cannot undo it
says, except in the failed replacements of section 4 and after a signal in the gap between an
effect and its note. One such gap is worth knowing: a signal between the switch
of the symlink and `switched = True` removes the release that `current` names,
and as every request resolves `current` first, only an operator gets past that.

The full-screen table gets its player out under every order of results, events
and keys, and chooses only what it shows, though perhaps more of it than the prompt of a
new round asks for (section 4). The browser never applies a click
twice although each resend has a new id, because it resends only after a refusal
as stale, which means that nothing was done; nor into another round, as nothing
comes between the look of `mutationStillValid` at the table and the resend, which
carries the revision of that table or one the server refuses. Both Consequences stores implement one
ledger: the condition on the old vote is what makes the DynamoDB counters exact,
and the difference between the retention and the time to vote is what keeps an
expired round from being written again; a purge of open rounds takes them and their
votes at one stroke, and the counters follow. Publishing never calls a pack published
that is not whole; importing takes back exactly its own, up to two exchanges that
`excused` remembers (a number that came back, be it before it was recorded, and a pack
exchanged between look and unlink) and what `left` does (a pack published in the moment
before an interruption, or one the system refused to look at or unlink). The catalog never says of an archive what was not so during
its scan, although what it says of two of them may never have been so at once, and
a single entry may have the etag of one version and the digest of the next. It turns
neither an outage nor a deletion into a rejection or an empty index, and what it
hands to an HTTP cache is fresh there no longer than the time to live, counted from the
end of the scan, and the time the answer took; nginx may answer with it for longer while
the service fails (`proxy_cache_use_stale`). It recovers from outages, and from archives
that fail the refresh once they are gone, but not while one is stored (section 4).

## 4. Where the code and its documents part

One run ends in a counterexample, `session_leaver_hosts`: `mutate` synchronizes
after every action but `end`; after a `leave` that sync makes the leaver present
again, and host, though `docs/PEER_PRESSURE.md:91-92` says that the next player
hosts.

The models show eleven more, which the properties exempt where it is said; the
steps are:

* **A table waits on players marked away** (`docs/PEER_PRESSURE.md:98-99`). A and B
  submit nothing, C submits and falls silent, A is the adult; B leaves or falls
  silent too. Everybody connected has done their part and the only decision is
  that of somebody away: `_maybe_begin_judging` counts connected players'
  decisions only, finds none, and the round stays open.
* **A returning player has no hand** (`docs/PEER_PRESSURE.md:107`). C is away when the
  game starts, so `_start` deals nothing to them; they return, and the round waits
  for a decision that they have no cards for.
* **Delayed input goes into another round** (`client/CHANGELOG.md:65-67`). The
  prompt is answered for round 1; meanwhile the stream has moved the client's
  revision to round 2; `_send` reads the revision then, and the server accepts.
* **A failed import leaves packs** (`remote.py:120-123`: all or nothing, but for a
  crash). The rollback suppresses an error of `lstat` or `unlink` and goes on, and so
  the pack stays. `AllOrNothing` exempts those packs (`left`).
* **An empty file becomes a room's name** (`docs/PEER_PRESSURE.md:115-116`).
  `cleanup_expired` lists a path; its room is ended and unlinked; `sqlite3.connect`
  creates an empty database there. It is not a room, nothing removes it, as
  reading it raises, and the code can neither be created nor joined.
* **A failed replacement does not restore** (`docs/EASY_DEPLOY.md:155-156`). A new
  pack that was linked but whose directory could not be synced is not yet known to
  be the run's own and stays; a failure after the retired file is unlinked still
  takes the new pack away, and leaves neither.
* **An older table over a newer one, in the terminal** (`client/README.md:68-69`).
  A worker's result taken before an event is drawn after it: the screen is behind
  until the next event or action. `EventsBringTheTable` speaks of the screen after
  an event.
* **Another room's table, in the browser** (`docs/PEER_PRESSURE.md:144-148`). A Refresh
  is under way when the page goes back to the form (a stream event or a heartbeat
  found the room gone); another room is joined; `apply` compares the old answer's
  revision with the new room's, draws the old room's table, and if that was further
  on, drops the new room's events until they catch up. With two rooms, `Browser` has
  these steps; the properties of the run ask which room the page shows.
* **Another room's session, in the browser** (`docs/PEER_PRESSURE.md:130-132`: it is kept
  for a refresh, and removed by leaving). A host ends a room; before the answer, an
  event or a heartbeat finds the room gone and shows the form; the player joins another
  room; then the answer comes, and `forgetSession` and `leaveLocal`
  (`together.js:336`), which go by whatever room the page shows, remove the session of
  the other room and take the page out of it, though its player stays seated.
  `tlc -config MCBrowser_rooms.cfg Browser.tla` shows the steps, with two rooms, as a
  counterexample to `SessionIsKept`; `ForgottenByMoving` proves that it is the only way.
* **One archive fails the whole catalog** (`deploy/object-archive/CATALOG.md:28-32`,
  `catalog.py:40`: what an archive contains never does). Metadata with a lone surrogate,
  which JSON can escape, passes every check and raises `UnicodeEncodeError` when the
  index is encoded (`catalog.py:199`); a broken bz2 or LZMA member raises an `OSError` or
  `LZMAError`, which `ARCHIVE_ERRORS` does not name. As long as the object is there every
  refresh fails: the catalog stays stale, or answers 503 if nothing is cached, with
  storage up. `CatalogRecovers` exempts that (`Spoilt`);
  `tlc -config MCCatalog_contents.cfg MCCatalog.tla` shows it as a counterexample to
  `RecoversFromAnything`, which does not.
* **A lowered revision, in the browser.** The acceptance of a click comes after the
  event it caused and others: the page's revision goes down, and an older Refresh
  may be drawn. `EveryChangeReachesThePage` exempts it (`lowered`).

Four more hazards have no promise to contradict, or hardly: two answers chosen for a
prompt that asks for two stay chosen when the next drawing shows the same hand and asks
for one, as `_rebuild_choices` drops only what has left the hand: Submit is disabled
until one is let go, and a click on it that was waiting sends both, which the server
refuses; `purge --retention-days`
with less than the time to vote deletes rounds whose tokens are said to
expire after seven days (`docs/CONSEQUENCES.md:13`; line 60 purges after 90), and
their voters are told `missing`, which `Ledger` allows an owner; index rebuilds that overlap may
leave the older list (`excused` in `Publishing`), and a seeding whose reload failed
is not made good by the next seeding, which finds nothing missing.

## 5. The proofs

TLAPS proves these for every value of the constants that the assumptions named in
the modules allow:

* `Room`: any number of seats, hand size, packs and deals (finitely many answers, at
  least one slot per prompt, positive sizes, deals that are deals).
* `RoomFiles`: any number of requests, files and crashes.
* `Session`: any number of actions, sends of each, revisions and late requests.
* `Browser`: any number of rooms, clicks, sends of each and revisions; what is said of
  sessions and resends, of one room (`OneRoom`): section 4 says what happens with two.
* `Terminal`: any courses of a table, options, answers that its prompts ask for, sends
  and queues.
* `Feedback`: any number of rounds, combinations, requests, reads and moments, any
  purges, if the time to vote is within the retention and, where DynamoDB is used,
  with a request's own time.
* `Activation`: any number of requests, releases kept, failing steps and killed runs.
* `Publishing`: any packs, bundled packs, runs, rebuilds and retries.
* `Importing`: any packs, importers and inodes, any packs wanted in any order.
* `Catalog`: any keys, pages, requests and archives of each kind, whoever may store
  which, any lifetime, retry time, second and lag, also none.

| Theorem | States |
|---|---|
| `TypeCorrect` | `Spec => []TypeOK` of `Room` |
| `RoundSound` | `Spec => []RoundInv`, the inductive invariant |
| `RoundIsAlwaysSound` | `Spec => []RoundIsSound`, the four invariants about the round |
| `BooksAlwaysBalance` | `Spec => []BooksBalance`: cards, hands and points |
| `RoomImplementsTable` | `Spec => ImplementsTable` |
| `DecisionsAreKept`, `RevisionFollows` | `Spec => DecisionsKept`, `Spec => RevisionFollowsTable` |
| `JudgedByAnother` | `Spec => NobodyAwardsThemselves` |
| `NobodySeesHalfMade`, `BuildsStayPrivate` | `Spec => []HalfMadeIsPrivate`, `Spec => []BuildsArePrivate` of `RoomFiles`, its `TypeOK` included |
| `RoomsAreNotReplaced` | `Spec => NeverReplaced` |
| `SessionIsSound` | `Spec => []SessionInv`, the inductive invariant |
| `SessionTyped`, `PlayersAreToldTheTruth` | `Spec => []TypeOK`, `Spec => []ToldIsTrue` of `Session` |
| `ActionsHappenOnce` | `Spec => KeepsPromise`: `Session` implements `Once` |
| `PlayersNeverLookBack` | `Spec => ViewNeverGoesBack` |
| `BrowserIsInvariant`, `BrowserIsTyped` | `Spec => []BrowserInv`, the inductive invariant, and `Spec => []TypeOK` of `Browser` |
| `ClicksTakeEffectOnce` | `Spec => KeepsPromise`: `Browser` implements `Once` |
| `ForgottenByMoving`, `SessionsAreKept` | `Spec => ForgottenOnlyByMoving`; with one room, `Spec => SessionIsKept` |
| `ResendsStay` | With one room, `Spec => ResendsStayInRound` |
| `ChoicesAreOnOffer`, `StreamBringsTheTable` | `Spec => []ChosenIsOnOffer`, its `TypeOK` included, and `Spec => []EventsBringTheTable` of `Terminal` |
| `FeedbackTyped`, `NothingIsEverKeptForever` | `Spec => []TypeOK`, `Spec => []NothingIsKeptForever` of `Feedback` |
| `StoresKeepLedger` | `Spec => KeepsLedger`: both stores implement `Ledger` |
| `ActivationIsInvariant` | `Spec => []ActivationInv`, the inductive invariant |
| `ReleasesAreAlwaysSound`, `FailuresAreUndone` | `Spec => []ReleasesAreSound` of `Activation`, its `TypeOK` included, and `Spec => []FailureIsUndone` |
| `PlainRollbacksGoBack` | `Spec => PlainRollbackGoesBack` |
| `PublishingIsInvariant` | `Spec => []PublishingInv`, the inductive invariant |
| `PacksAreAlwaysWhole` | `Spec => []PacksAreWhole` of `Publishing`, its `TypeOK` included |
| `IndexCatchesUp`, `PublishedIsDealt` | `Spec => []IndexFollowsCatalog`, `Spec => []PublishedIsServed` |
| `ImportingIsInvariant` | `Spec => []ImportingInv`, the inductive invariant |
| `RollbacksAreExact` | `Spec => []RollbackIsExact` of `Importing`, its `TypeOK` included |
| `NothingIsOverwritten` | `Spec => ImportsAreNotOverwritten` |
| `CatalogIsSound` | `Spec => []CatalogInv`, the inductive invariant |
| `NothingIsKeptTooLong`, `EveryIndexWasSo`, `ScansKeepTheirDistance` | `NothingOutlivesItsScan`, `IndexesWereSo`, `ScansAreSpaced` of `Catalog` |

### The room

None of the four invariants about the round is inductive alone. A transaction passes through
rooms in which the adult is away and judging is due; only the repair at its end
puts that right, and the repair is right only if the round was sound before. So
`RoundInv` is `TypeOK` with `Settled`, which is `Sound` (an active room has an
adult, who has no decision; a judging table has a decision; a winner decided)
plus what only the repair restores (the adult is connected, no round is ready to
be judged and still open). One lemma per step says that it keeps `Sound`,
`RepairTableSettles` that a repair turns `Sound` into `Settled`, and `NextRound`
puts them together, one step per action.

The refinement rests on `Follows`, what presence updates and repairs may do to a
room, and on `ReadyMeansAllIn`: the two counts compared by
`_maybe_begin_judging` agree exactly when everybody connected but the adult has
decided. `Follows` composes, so a transaction is its touch, its operation and
its repair seen as one step of `Table`. `DecisionsKept` rests on a second relation,
`Keeps`: no hand loses a card, and a decision is kept, or is back in the hand of a
player who was given the role, and has it or has gone. It says more than the property,
because without the hands it would not compose: one transaction may repair the table
twice, and the role may pass through a player who leaves. `RevisionFollows` is one
lemma on `Touch` (whatever it changed, it moved the revision) and one on the
operations, all of which move it.

`BooksBalance` counts what `BooksInv` keeps track of, card by card. What a player
holds (`Held`) is their hand and their decision together, which a submission or a
withdrawal moves cards between: so the room's drawn cards are those played and those
held, no card is held twice, and nobody holds more than a hand (`Conserved`,
`Bounded`). `FillHands` deals no more than is lacking, and an advance leaves the room
as it was or deals to all. Points are the rounds judged (`Tallied`), where the phase
says whether the round under way is one of them (`Phased`). That the sum of the points
grows by one with one player's point is a lemma about `SumFunction`, the community
modules' fold, over a finite set. It is proved without induction over data: the sum is
shown to be the cardinality of a set of points (`Points`): both solve the fold's
recursion, and that has one solution, since of the sets of players on which two
solutions differ there would be a smallest, and taking one player away a smaller.

### The files

`RoomProofs` has the theorems about `RoomFiles` too, which it takes as the instance
`Files`; what that module assumes of its constants is a hypothesis of each. That nobody sees a half-made room becomes inductive with one
conjunct more, `Finished`: a builder about to link has a whole file. No other
request can spoil either, because a fresh file is one that nobody holds
(`FreshIsFree`) and opening a path writes no file but a fresh one
(`ConnectEffect`). `RoomsAreNotReplaced` needs no invariant: no step but a link,
an open and an unlink touches the path. That nothing is left behind is a count, and
what nobody holds is the wrong thing to count: a file may be linked, and open in
somebody's transaction, when its builder dies before removing its private name, and
is nobody's only when the transaction ends. `Abandoned` are the private files that no
builder holds, whoever else does: only a death adds one.

### The session

`SessionInv` follows each send of an action from the client to the room and back.
A send carries the revision the client knew; a room that has moved on refuses it, so
a send whose revision the room has left is `Dead`. `Attempts` says that of two sends of
one action on their way the earlier is dead, and that one which has not taken effect
is dead as soon as another has: so no two take effect, whichever arrive, and in
whichever order. It can be kept because a client sends again under a new id only after
a refusal as stale (`Verdicts`: while an action is being sent its earlier sends took no
effect, and when it is told stale, all are dead), and resends a lost request under the
same id. This is the refinement of `Once` too, and what the player is told follows
from the same conjuncts.

`mutate` takes up the acceptance's revision before it has a projection, and `_apply`
takes anything not older than the client's revision: so if an answer from long ago
lowered that, an old projection could replace the view. `Views` says why none does:
whenever the client's revision is below the view's, or a send on its way could bring it
there, every projection still under way is at least as new as the view (`Newer`). An
acceptance can only be older than the view if the stream overtook it, and the
stream's next item is newer than its last; and while the thread waits for an
acceptance it has no synchronization under way.

### The browser

A click sends under a new id each time, so nothing but its order of steps keeps it from
taking effect twice. `BrowserInv` says by the step: while a click is being sent it has
taken effect exactly if the reply that is on its way is ok (`Progress`), and a send that
nobody waits for can only be one whose click was told that nothing is known of it
(`Books`). Pages, streams and other rooms do not matter for that, so it holds with any
number of rooms, and gives the refinement of `Once`.

That a resend stays in its round is about revisions. Every table that was drawn or is on
its way is the room as it was, and as it is unless it has moved since (`Known`). Only an
acceptance gives the page a revision without a table; then the click is over or about to
be (`Sent`), and what is sent again carries the revision of the table that
`mutationStillValid` looked at, or one that the room has left. That compares revisions
of one room with each other, which is the assumption: the page holds one revision,
whichever room it is of. What is forgotten needs the page to be of the click's room too;
where it is not, `EndsElsewhere` names the one step that goes wrong.

### The terminal

`BrowserProofs` also has the instance `Tui` of `Terminal`. Choices are dropped where they
are drawn anew (`KeptIsOnOffer`) and bounded where they are made, by the prompt that is
shown then (`ToggleIsBounded`), so no order of threads matters for `ChosenIsOnOffer`. A
later prompt may ask for fewer, and nothing is dropped for that: what holds is that some
prompt asked for as many (`Asked`, which fewer choices keep: `FewerAreAsked`). `Streamed` follows the last state of
the stream: once the stream has sent the table as it is, the client has it, and the
first of the events thread's hand, the end of the queue and the screen that holds
anything of the stream's holds it. A worker's sync cannot lower the client, and never is
ahead of the table (`Behind`).

### The stores

In `Feedback` the danger is a vote written to a round that has expired since it
was read, which would create it again without an expiry. The inductive invariant
`FeedbackInv` therefore says of every request in flight (`RequestInv`): that it is
not older than `Patience` (`InTime`), and, between its read and its write, that
its round is still stored and was still votable when the request was asked
(`RoundIsThere`). A round that DynamoDB deletes is older than that allows, by
`MarginAssumption`, and in SQLite, where a purge may take any round, no request is
between the two (`RemovedIsNotVotedOn`); so removals disturb no such request
(`RemovalKeeps`), and both stores' votes keep the rest (`VoteKeeps`).

That both implement `Ledger` needs of every round that it is on the books exactly as
long as the store still counts it (`OnRecord`: an expired item may stay in DynamoDB
after the ledger has closed it, and a combination's counters outlast its rounds), of
the counters that they are the recount (`Recounted`), and of a request that whoever
finds its round open asked in time (`AskedInTime`). A tally is the cardinality of a set
of rounds; one step changes one round's vote, so `CountMoves` says how one count moves,
and the write that DynamoDB's condition lets through is exactly that step.

### The catalog

`CatalogInv` says what each deadline is worth: how old a body is together with how long
it may still be used (`Fresh`), and how long ago the last scan ended together with how
long the next must wait (`Spaced`); a tick adds to one what it takes from the other, and
only the end of a scan sets both. Of the scan under way, `Accounted` says that every key
on a page behind it is still to be read or has an entry that was so, and every key ahead
has none; that its lock is held by one reader who does nothing else is `LockHeld`.

### The bucket

An object belongs to the run that created it, and only that run deletes it: so a run
must never delete what it has said to be published. `Carrying` says that what a run was
told it created are the first parts of its pack, and its own, and that no other part of
that pack is its own unless an answer was lost; `Owned`, that whatever else it owns is of
packs it has published. As each run takes a pack up once (`InOrder`), its rollback stays
clear of those. That the catalog lists whole packs only needs the order as well: the
entry is put last and deleted first (`LatestIsLast`), so a rollback that has begun on the
other two has no entry left, but one it was not told of. `IndexInv` follows the one
rebuild there is until two overlap: what it listed is the catalog, or a change waits.

### The registry

Everything turns on whose the file under a name is (`Imported`). Where there are hard
links, a link finds the name free in the same step. Where there are none, an importer
looks and then renames over whatever is there: that no other importer's pack is
(`NameIsFree`) holds because whoever publishes a pack in this way holds its lock
(`LockIsHeld`), which nobody takes away from a run that still works. `initialize_registry`
takes no lock, so its own file may be renamed over, which is why the property speaks of
imports.

A rollback goes by numbers. `RecordIsTrue` says that a recorded number still belongs to
the run, or to nobody, unless it was given to a new file, which `excused` remembers, and
`NumberIsTrue` says the same of a number that is still to be recorded, which no name of
the run's may hold any more; so the number under a name, found equal to the recorded one,
is the run's own. `OnRecord` says that what a run published is on its record, about to be
put there, about to be removed, or in `left`, where only what was published in the moment
before an interruption or refused by the system is: a rollback that is through its record
has left nothing else. Two rollbacks about to remove the same pack
would both have published the file under its name, so one of them is excused.
`OthersKeep` states once what a step must leave alone for the invariant to hold of all
runs but its own.

### The activator

`ActivationInv` is what the code never writes down: at which step, and with which notes,
what is on disk and in the service. `Switched`, `Installed` and `Midway` say it of a run
that goes forward, `Undoing` of the handlers, and each only as long as the run has not
lost track (`broken`). What an answer of ok rests on must hold even then: at `answer` the
service was started with what is on disk now, and runs a release that is whole, so that
the answer may take the release out of `broken`. A run killed at any step leaves what the
next one starts from: `AbandonedPacks` says that a run which leaves nothing of a pack
behind has not begun with it, or has undone it.

That rollbacks go back, and that the list holds nothing unverified, depends on its order
(`Listing`): the first entry alone may not have passed, and if it is not the oldest, a
rollback that sorts the list could move it to a place where nobody excuses it. The list is
in order because every deployment is newer than what is listed; a deployment that failed at
its answer is listed already, and `_record_good` moves it to the end. What was left by a
rollback is never listed again, because `Numbered` says that a pending request is newer
than all of it. That `sorted` sorts (`AscendingSorts`) needs no induction: ranks in a
finite set of numbers are different, so there are as many as places in the list.

### What is not proved

All safety properties of the runs that hold are proved; `SessionIsKept` and
`ResendsStayInRound` for one room, as the former fails with two (section 4) and of the
latter nothing is claimed there. Only model-checked: liveness everywhere (`SilenceIsPassedOver`, `RoundsFinish`,
`EveryChangeIsSeen`, `DirectoryIsCleaned`, `CatalogRecovers` and the others of section 3),
which needs fairness and `ENABLED`, both beyond the prover.

## 6. Not modelled

Left out because they hold no state that two actors share, and are sequential
functions of their input: layout and wording (`_project`'s formatting, the pages,
`app.js`), argument and environment parsing, drawing and pack validation, the
conversion of foreign packs, export, doctors, one-shot scripts, and the
declarative AWS stack but for its notifications and retries. Left out because one
thread or one lock serializes it: the rate limiter (one event loop, one deque per caller).
The shell scripts `deploy.sh` and `rollback.sh` are the activator's counterparts
for hosts where root deploys by hand. Within the modelled components, what is left
out is named in section 2: the count against `max_rooms`, the terminal's status
line and heartbeat, the browser's pack chooser, reports. `PROJECT.json` gives the
reason for each component, and lists every hazard with its line.
