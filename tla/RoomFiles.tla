------------------------------ MODULE RoomFiles ------------------------------
(***************************************************************************)
(* The directory behind one room code (bad_decisions/peer_pressure/        *)
(* service.py): the room's path, files being built, and requests of any    *)
(* number of threads and processes that check the path, open what it       *)
(* names, run a transaction and unlink the path in separate steps.         *)
(*                                                                         *)
(* A file is an inode: without a name it lives on for whoever has it open. *)
(* A transaction is one step: what other requests do to the path while it  *)
(* runs, they may as well do before or after, because SQLite refuses to    *)
(* write to a file its path no longer names.  What transactions do to the  *)
(* room's contents is module Room's business.                              *)
(***************************************************************************)
EXTENDS Integers, FiniteSets

CONSTANTS
  Request,      \* requests being served at a time
  File,         \* inodes; one that nothing refers to is used again
  None,         \* no file
  MaxCrashes    \* bound: requests that die between two steps

ASSUME NoneAssumption == None \notin File
ASSUME CrashesAssumption == MaxCrashes \in Nat

VARIABLES
  path,       \* the file the room's path names
  building,   \* files that have a name ending in BUILDING_SUFFIX
  old,        \* those of them last touched more than an hour ago
  data,       \* what is in a file
  request,    \* what each request is doing, and the file it holds on to
  crashes     \* requests that have died so far

vars == <<path, building, old, data, request, crashes>>

Whole == {"live", "expired", "ended"}
Dead == {"expired", "ended"}

Op == {"create", "clean",   \* create_room; cleanup_expired at startup
       "end",
       "look",              \* join, watch, project: _ensure_live first
       "write"}             \* heartbeat and the other mutations: no _ensure_live

Cleaning == {"create", "clean"}

Steps == {"idle", "list", "inspect", "remove", "sweep", "exists", "fill", "link", "drop",
          "check", "open", "transaction"}

\* Steps in which a request holds on to a file: one it builds, or has open.
Holding == {"fill", "link", "drop", "transaction"}

Idle == [op |-> "clean", at |-> "idle", file |-> None]

Init ==
  /\ path = None /\ building = {} /\ old = {}
  /\ data = [f \in File |-> "empty"]
  /\ request = [r \in Request |-> Idle]
  /\ crashes = 0

-----------------------------------------------------------------------------

At(r, step) == request[r].at = step

Go(r, step, f) == request' = [request EXCEPT ![r].at = step, ![r].file = f]

\* Answered or refused: whatever it had open is closed.
Finish(r) == request' = [request EXCEPT ![r] = Idle]

Free == {f \in File \ building : f # path /\ \A r \in Request : request[r].file # f}

Fresh == CHOOSE f \in Free : TRUE

\* sqlite3.connect opens what the path names, and creates an empty file there if it
\* names nothing.
Named == IF path # None THEN path ELSE Fresh

Connect ==
  /\ path # None \/ Free # {}
  /\ path' = Named
  /\ data' = IF path # None THEN data ELSE [data EXCEPT ![Fresh] = "empty"]

Begin(r, op) ==
  /\ At(r, "idle")
  /\ request' = [request EXCEPT ![r].op = op,
                   ![r].at = IF op \in Cleaning THEN "list" ELSE "check"]
  /\ UNCHANGED <<path, building, old, data, crashes>>

-----------------------------------------------------------------------------
(* cleanup_expired, which every create_room runs first.                    *)

\* The room's file is among those the glob lists, or is not there.
List(r) ==
  /\ At(r, "list")
  /\ Go(r, IF path # None THEN "inspect" ELSE "sweep", None)
  /\ UNCHANGED <<path, building, old, data, crashes>>

Overdue_misses_ended(f) == data'[f] = "expired"

Overdue(f) == data'[f] \in Dead

\* It is opened, read and closed again.  A file without tables raises, and is
\* passed over.
Inspect(r) ==
  /\ At(r, "inspect")
  /\ Connect
  /\ Go(r, IF Overdue(path') THEN "remove" ELSE "sweep", None)
  /\ UNCHANGED <<building, old, crashes>>

\* The path is unlinked for what was read before: by a cleanup, or by end.
Remove(r) ==
  /\ At(r, "remove")
  /\ path' = None
  /\ IF request[r].op = "end" THEN Finish(r) ELSE Go(r, "sweep", None)
  /\ UNCHANGED <<building, old, data, crashes>>

\* Files of builders that crashed go after an hour.
Swept == building' = building \ old /\ old' = {}

Sweep(r) ==
  /\ At(r, "sweep")
  /\ Swept
  /\ IF request[r].op = "create" THEN Go(r, "exists", None) ELSE Finish(r)
  /\ UNCHANGED <<path, data, crashes>>

-----------------------------------------------------------------------------
(* create_room.                                                            *)

Build_in_place(r) ==
  /\ path' = Fresh
  /\ UNCHANGED building

\* A private name for a new file.
Build(r) ==
  /\ building' = building \cup {Fresh}
  /\ UNCHANGED path

\* The path is taken, the server refuses for want of room, or the building starts.
Exists(r) ==
  /\ At(r, "exists")
  /\ \/ Finish(r) /\ UNCHANGED <<path, building, data>>
     \/ /\ path = None /\ Free # {}
        /\ Build(r)
        /\ data' = [data EXCEPT ![Fresh] = "half"]
        /\ Go(r, "fill", Fresh)
  /\ UNCHANGED <<old, crashes>>

\* Schema and first rows; a full disk stops this.
Fill(r) ==
  /\ At(r, "fill")
  /\ \/ /\ data' = [data EXCEPT ![request[r].file] = "live"]
        /\ Go(r, "link", request[r].file)
     \/ Go(r, "drop", request[r].file) /\ UNCHANGED data
  /\ UNCHANGED <<path, building, old, crashes>>

LinkTo_replaces(f) == path' = f

\* os.link fails if the path is taken.
LinkTo(f) == path' = IF path = None THEN f ELSE path

\* Linked or not, the private name goes (finally).
AfterLink(r) == Go(r, "drop", request[r].file)

\* ...and it fails too if a cleanup took the file for a crashed builder's.
Link(r) ==
  /\ At(r, "link")
  /\ IF request[r].file \in building THEN LinkTo(request[r].file) ELSE UNCHANGED path
  /\ AfterLink(r)
  /\ UNCHANGED <<building, old, data, crashes>>

Drop(r) ==
  /\ At(r, "drop")
  /\ building' = building \ {request[r].file} /\ old' = old \ {request[r].file}
  /\ Finish(r)
  /\ UNCHANGED <<path, data, crashes>>

-----------------------------------------------------------------------------
(* Requests to a room.                                                     *)

\* _connect: is_file...
Check(r) ==
  /\ At(r, "check")
  /\ IF path # None THEN Go(r, "open", None) ELSE Finish(r)
  /\ UNCHANGED <<path, building, old, data, crashes>>

\* ...open, and _upgrade, which refuses a file of any other schema.
OpenRoom(r) ==
  /\ At(r, "open")
  /\ Connect
  /\ IF data'[path'] \in Whole THEN Go(r, "transaction", path') ELSE Finish(r)
  /\ UNCHANGED <<building, old, crashes>>

\* _ensure_live: refused, and the path unlinked, if the room it has open is dead.
Look(r) ==
  LET f == request[r].file
  IN  /\ At(r, "transaction") /\ request[r].op = "look"
      /\ path' = IF data[f] \in Dead THEN None ELSE path
      /\ Finish(r)
      /\ UNCHANGED <<building, old, data, crashes>>

\* A bump starts the room's lifetime again; a refused request changes nothing.  (A
\* sync either writes or looks.)
Write(r) ==
  LET f == request[r].file
  IN  /\ At(r, "transaction") /\ request[r].op = "write"
      /\ \/ path = f /\ data[f] = "expired" /\ data' = [data EXCEPT ![f] = "live"]
         \/ UNCHANGED data
      /\ Finish(r)
      /\ UNCHANGED <<path, building, old, crashes>>

\* end: committed, then unlinked by path; so is it when a repeated end finds its first
\* answer, which writes nothing and needs no path.
End(r) ==
  LET f == request[r].file
  IN  /\ At(r, "transaction") /\ request[r].op = "end"
      /\ \/ path = f /\ data' = [data EXCEPT ![f] = "ended"] /\ Go(r, "remove", None)
         \/ data[f] = "ended" /\ UNCHANGED data /\ Go(r, "remove", None)
         \/ UNCHANGED data /\ Finish(r)
      /\ UNCHANGED <<path, building, old, crashes>>

-----------------------------------------------------------------------------
(* Time, and processes that die.                                           *)

Expire(f) ==
  /\ data[f] = "live" /\ f \notin Free
  /\ data' = [data EXCEPT ![f] = "expired"]
  /\ UNCHANGED <<path, building, old, request, crashes>>

Age(f) ==
  /\ f \in building \ old
  /\ old' = old \cup {f}
  /\ UNCHANGED <<path, building, data, request, crashes>>

Crash(r) ==
  /\ ~At(r, "idle") /\ crashes < MaxCrashes
  /\ Finish(r) /\ crashes' = crashes + 1
  /\ UNCHANGED <<path, building, old, data>>

Serve(r) ==
  \/ List(r) \/ Inspect(r) \/ Remove(r) \/ Sweep(r)
  \/ Exists(r) \/ Fill(r) \/ Link(r) \/ Drop(r)
  \/ Check(r) \/ OpenRoom(r) \/ Look(r) \/ Write(r) \/ End(r)

Next ==
  \/ \E r \in Request : Serve(r) \/ Crash(r) \/ \E op \in Op : Begin(r, op)
  \/ \E f \in File : Expire(f) \/ Age(f)

Spec == Init /\ [][Next]_vars

-----------------------------------------------------------------------------
(* Safety.                                                                 *)

\* In particular a request that is answered or refused holds on to nothing, and one
\* in a transaction always has a file to read.
TypeOK ==
  /\ path \in File \cup {None}
  /\ building \in SUBSET File /\ old \in SUBSET building
  /\ data \in [File -> Whole \cup {"empty", "half"}]
  /\ request \in [Request -> [op : Op, at : Steps, file : File \cup {None}]]
  /\ \A r \in Request : request[r].file # None <=> request[r].at \in Holding
  /\ crashes \in 0..MaxCrashes

\* Nobody sees a half-made room: the path never names one, and no transaction has
\* one open (create_room's docstring, 223; test_peer_pressure.py:541).
HalfMadeIsPrivate ==
  /\ path # None => data[path] # "half"
  /\ \A r \in Request : At(r, "transaction") => data[request[r].file] \in Whole

\* A room in place is never replaced by another: of two builders one is refused,
\* also when both found the path free (228, 249-252).
NeverReplaced == [][path # None => path' \in {path, None}]_path

\* A builder that fails at any step takes its private file away: every such file is
\* being built, or its builder died (254-255).
NoLeftovers ==
  Cardinality(building \ {request[r].file : r \in Request}) <= crashes

\* Half-made rooms are private while they are built and gone when that fails.
BuildsArePrivate == TypeOK /\ HalfMadeIsPrivate /\ NoLeftovers

-----------------------------------------------------------------------------
(* Liveness.  Requests run to their end, and somebody creates a room, or   *)
(* restarts the server, again and again.                                   *)

FairSpec ==
  /\ Spec
  /\ \A r \in Request : WF_vars(Serve(r))
  /\ SF_vars(\E r \in Request, op \in Cleaning : Begin(r, op))

\* A dead room goes, also when whoever ended it died before the unlink, unless a
\* request gives it a new lifetime first (docs/PEER_PRESSURE.md:204).
DeadRoomsGo ==
  \A f \in File :
    (path = f /\ data[f] \in Dead) ~> (path # f \/ data[f] \notin Dead)

\* What a builder that died has left behind goes too (196-203).
LeftoversGo == \A f \in File : (f \in old) ~> (f \notin old)

\* The directory is cleaned of both.
DirectoryIsCleaned == DeadRoomsGo /\ LeftoversGo

=============================================================================
