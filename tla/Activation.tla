------------------------------ MODULE Activation ------------------------------
(***************************************************************************)
(* The release activator (deploy/activate-release.py) with the inbox that  *)
(* operators put requests in (operations.py) and the path unit that starts *)
(* it again as long as a request is there.  A run deploys a release, rolls *)
(* back to one, or replaces a pack of the registry, step by step; every    *)
(* step may fail, or be struck by a signal before its effect is noted, and *)
(* a run may be killed between any two.                                    *)
(*                                                                         *)
(* Releases and packs are numbered by the request that brought them, 0     *)
(* being there before: request ids are timestamps, so numbers order them.  *)
(***************************************************************************)
EXTENDS Integers, Sequences, FiniteSets

CONSTANTS
  MaxRequests,  \* bound: requests submitted
  Kept,         \* releases kept in the list of good ones (20)
  None,         \* no release; no list; no request
  MaxFaults,    \* bound: steps that fail, or are struck by a signal
  MaxCrashes    \* bound: runs that are killed

ASSUME BoundsAssumption == MaxRequests \in Nat /\ MaxFaults \in Nat /\ MaxCrashes \in Nat
ASSUME KeptAssumption == Kept \in Nat \ {0}
ASSUME NoneAssumption ==
  None \notin Int \cup Seq(Int)
                \cup [id : Int, kind : {"deploy", "rollback", "replace", "update"},
                       subject : Int \cup {None}]

VARIABLES
  current,    \* the release the symlink names
  releases,   \* how far each release directory is
  good,       \* the file good-releases, if there is one
  registry,   \* pack files in place, retired under a private name, and backed up
  service,    \* what the service was last started with
  request,    \* request.json
  run,        \* the activator's run
  issued,     \* requests submitted so far
  passed,     \* releases that have passed a health check
  left,       \* newer releases that rollbacks have left behind
  broken,     \* what a run could not put right: it says so, or was killed
  faults, crashes

disk == <<current, releases, good, registry>>
history == <<passed, left>>
bounds == <<faults, crashes>>
vars == <<disk, service, request, run, issued, history, broken, bounds>>

Release == 0..MaxRequests
Pack == 0..MaxRequests
Packing == {"replace", "update"}
Switching == {"deploy", "rollback"}

Steps == {"idle", "prepare", "own", "install", "switch", "restart", "health", "record",
          "backup", "retire", "publish", "drop", "answer",
          "restore", "unretire", "again", "remove", "error", "cleanup"}

Down == [release |-> None, packs |-> {}]

NoRun == [at |-> "idle", job |-> None, target |-> None, previous |-> None,
          noted |-> {}, outcome |-> "none"]

\* A host that deploy.sh set up, before or after it kept the list; or an empty one.
Init ==
  /\ current \in {None, 0} /\ good \in {None, <<0>>}
  /\ current = None => good = None
  /\ releases = [r \in Release |-> IF r = current THEN "whole" ELSE "absent"]
  /\ registry = [live |-> {0}, retired |-> {}, backups |-> {}]
  /\ service = IF current = None THEN Down ELSE [release |-> 0, packs |-> {0}]
  /\ request = None /\ run = NoRun /\ issued = 0
  /\ passed = (IF good = None THEN {} ELSE {0}) /\ left = {} /\ broken = {}
  /\ faults = 0 /\ crashes = 0

-----------------------------------------------------------------------------
(* The inbox and the path unit.                                            *)

\* os.link of request.json: only one request is pending.
Submit(kind, subject) ==
  /\ request = None /\ issued < MaxRequests
  /\ issued' = issued + 1
  /\ request' = [id |-> issued + 1, kind |-> kind, subject |-> subject]
  /\ UNCHANGED <<disk, service, run, history, broken, bounds>>

Ask ==
  \/ Submit("deploy", None)
  \/ \E r \in 0..issued \cup {None} : Submit("rollback", r)
  \/ \E kind \in Packing, p \in registry.live : Submit(kind, p)

Start ==
  /\ run.at = "idle" /\ request # None
  /\ run' = [NoRun EXCEPT !.at = "prepare", !.job = request]
  /\ UNCHANGED <<disk, service, request, issued, history, broken, bounds>>

-----------------------------------------------------------------------------
(* A run's steps.                                                          *)

At(step) == run.at = step
Kind == run.job.kind
Id == run.job.id
Go(step) == run' = [run EXCEPT !.at = step]
GoNoting(step, flag) == run' = [run EXCEPT !.at = step, !.noted = @ \cup {flag}]
Noted(flag) == flag \in run.noted

Fault ==
  /\ faults < MaxFaults
  /\ faults' = faults + 1 /\ UNCHANGED crashes

Breaks(what) == broken' = broken \cup {what}

\* What a request that is refused before it changes anything gets.
Refuse ==
  /\ At("prepare")
  /\ Go("error")
  /\ UNCHANGED <<disk, service, request, issued, history, broken, bounds>>

\* current.resolve(strict=True): a symlink to nothing stops every request.
CurrentResolves == current # None => releases[current] # "absent"

\* activate: nothing of that id is there; mkdir.
PrepareDeploy ==
  /\ At("prepare") /\ Kind = "deploy" /\ CurrentResolves /\ releases[Id] = "absent"
  /\ releases' = [releases EXCEPT ![Id] = "empty"]
  /\ run' = [run EXCEPT !.at = "own", !.target = Id, !.previous = current]
  /\ UNCHANGED <<current, good, registry, service, request, issued, history, broken, bounds>>

\* chown, and then the virtual environment; a failure of the first leaves the
\* directory.
Own ==
  /\ At("own")
  /\ \/ /\ releases' = [releases EXCEPT ![Id] = "partial"] /\ Go("install")
        /\ UNCHANGED bounds
     \/ Fault /\ Go("error") /\ UNCHANGED releases
  /\ UNCHANGED <<current, good, registry, service, request, issued, history, broken>>

\* The rest of the installation, frozen and checked; or pip or a check fails.
Install ==
  /\ At("install")
  /\ \/ releases' = [releases EXCEPT ![Id] = "whole"] /\ Go("switch")
     \/ Go("restore") /\ UNCHANGED releases
  /\ UNCHANGED <<current, good, registry, service, request, issued, history, broken, bounds>>

\* _usable_release: a directory with an executable python.
Usable(r) == releases[r] \in {"partial", "whole"}

Listed(i) == Usable(good[i]) /\ good[i] # current

\* select_rollback_target: the one named, the last good one listed, or without a list
\* the newest older one.
Targets ==
  IF run.job.subject # None THEN {r \in {run.job.subject} : Usable(r) /\ r # current}
  ELSE IF good # None
  THEN {good[i] : i \in {i \in DOMAIN good : Listed(i) /\ \A j \in i+1..Len(good) : ~Listed(j)}}
  ELSE LET older == {r \in Release : Usable(r) /\ r < current}
       IN  {r \in older : \A o \in older : o <= r}

PrepareRollback ==
  /\ At("prepare") /\ Kind = "rollback" /\ current # None /\ CurrentResolves
  /\ \E target \in Targets :
       run' = [run EXCEPT !.at = "switch", !.target = target, !.previous = current]
  /\ UNCHANGED <<disk, service, request, issued, history, broken, bounds>>

\* replace_pack: the current release can judge the new pack, the old pack is there, the
\* new one is not.
PrepareReplace ==
  /\ At("prepare") /\ Kind \in Packing /\ current # None /\ Usable(current)
  /\ run.job.subject \in registry.live /\ Id \notin registry.live
  /\ run' = [run EXCEPT !.at = "backup", !.previous = run.job.subject, !.target = Id]
  /\ UNCHANGED <<disk, service, request, issued, history, broken, bounds>>

-----------------------------------------------------------------------------
(* Switching to a release: activate and rollback.                          *)

\* The symlink is replaced, and that is noted; a signal may come between the two.
\* rollback restores in any case and needs no note.
Switch ==
  /\ At("switch")
  /\ \/ /\ current' = run.target /\ GoNoting("restart", "switched")
        /\ UNCHANGED <<bounds, broken>>
     \/ Fault /\ Go("restore") /\ UNCHANGED <<current, broken>>
     \/ /\ Fault /\ Go("restore") /\ current' = run.target
        /\ IF Kind = "deploy" THEN Breaks("release") ELSE UNCHANGED broken
  /\ UNCHANGED <<releases, good, registry, service, request, issued, history>>

\* systemctl restart starts what is on disk then.
Started == IF current = None THEN Down ELSE [release |-> current, packs |-> registry.live]

Restart ==
  /\ At("restart")
  /\ \/ service' = Started /\ GoNoting("health", "restarted") /\ UNCHANGED bounds
     \/ Fault /\ service' = Down /\ GoNoting("restore", "restarted")
  /\ UNCHANGED <<disk, request, issued, history, broken>>

Health_gives_up ==
  /\ At("health")
  /\ \/ Go(IF Kind \in Packing THEN "drop" ELSE "record") /\ UNCHANGED passed
     \/ Go("restore") /\ UNCHANGED passed
  /\ UNCHANGED <<disk, service, request, issued, left, broken, bounds>>

\* _healthy; for a pack also what the service reports of it.  A release that is not
\* whole does not start.
Health ==
  /\ At("health")
  /\ \/ /\ service.release # None /\ releases[service.release] = "whole"
        /\ Go(IF Kind \in Packing THEN "drop" ELSE "record")
        /\ passed' = passed \cup {service.release}
     \/ Go("restore") /\ UNCHANGED passed
  /\ UNCHANGED <<disk, service, request, issued, left, broken, bounds>>

Newest(s) == SubSeq(s, IF Len(s) > Kept THEN Len(s) - Kept + 1 ELSE 1, Len(s))

\* sorted: the i-th is the one that i of them do not exceed.
Ascending(S) ==
  [i \in 1..Cardinality(S) |-> CHOOSE r \in S : Cardinality({o \in S : o <= r}) = i]

Without(s, x) ==
  LET places == Ascending({i \in DOMAIN s : s[i] # x})
  IN  [k \in DOMAIN places |-> s[places[k]]]

\* _record_good.
RecordGood ==
  LET seed == IF run.previous = None THEN <<>> ELSE <<run.previous>>
      existing == IF good = None THEN seed ELSE good
  IN  good' = Newest(Append(Without(existing, Id), Id))

Entries == {run.target} \cup (IF good = None THEN {} ELSE {good[i] : i \in DOMAIN good})

RollbackWatermark_keeps_newer == good' = Newest(Ascending(Entries))

\* _rollback_watermark: everything newer than the target goes.
RollbackWatermark == good' = Newest(Ascending({r \in Entries : r <= run.target}))

RecordDeploy ==
  /\ At("record") /\ Kind = "deploy"
  /\ \/ RecordGood /\ Go("answer") /\ UNCHANGED bounds
     \/ Fault /\ Go("restore") /\ UNCHANGED good
  /\ UNCHANGED <<current, releases, registry, service, request, issued, history, broken>>

\* A list that cannot be written is a warning; a signal is an error.
RecordRollback ==
  /\ At("record") /\ Kind = "rollback"
  /\ \/ /\ RollbackWatermark /\ Go("answer") /\ UNCHANGED bounds
        /\ left' = {r \in left \cup {run.previous} \cup Entries : r > run.target}
                     \cup (left \ {run.target})
     \/ Fault /\ Go("answer") /\ UNCHANGED <<good, left>>
     \/ Fault /\ Go("error") /\ UNCHANGED <<good, left>>
  /\ UNCHANGED <<current, releases, registry, service, request, issued, passed, broken>>

-----------------------------------------------------------------------------
(* Replacing a pack: replace_pack.                                         *)

\* The next step after each: an update frees the name before it publishes.
AfterBackup == IF Kind = "update" THEN "retire" ELSE "publish"
AfterRetire == IF Kind = "update" THEN "publish" ELSE "restart"
AfterPublish == IF Kind = "update" THEN "restart" ELSE "retire"

\* A copy of the old pack; a second run for the same request finds it and stops.
Backup ==
  /\ At("backup")
  /\ \/ /\ Id \notin registry.backups
        /\ registry' = [registry EXCEPT !.backups = @ \cup {Id}]
        /\ Go(AfterBackup) /\ UNCHANGED bounds
     \/ Id \in registry.backups /\ Go("error") /\ UNCHANGED <<registry, bounds>>
     \/ Fault /\ Go("error") /\ UNCHANGED registry
  /\ UNCHANGED <<current, releases, good, service, request, issued, history, broken>>

Retired ==
  registry' = [registry EXCEPT !.live = @ \ {run.previous}, !.retired = @ \cup {run.previous}]

\* Renamed and noted; a failed sync comes after the note, a signal may come before it.
Retire ==
  /\ At("retire")
  /\ \/ Retired /\ GoNoting(AfterRetire, "moved") /\ UNCHANGED <<bounds, broken>>
     \/ Fault /\ Go("restore") /\ UNCHANGED <<registry, broken>>
     \/ Fault /\ Retired /\ GoNoting("restore", "moved") /\ UNCHANGED broken
     \/ Fault /\ Retired /\ Go("restore") /\ Breaks("registry")
  /\ UNCHANGED <<current, releases, good, service, request, issued, history>>

Published == registry' = [registry EXCEPT !.live = @ \cup {Id}]

\* _publish_pack: linked, synced, and only then noted.
Publish ==
  /\ At("publish")
  /\ \/ Published /\ GoNoting(AfterPublish, "published") /\ UNCHANGED <<bounds, broken>>
     \/ Fault /\ Go("restore") /\ UNCHANGED <<registry, broken>>
     \/ Fault /\ Published /\ Go("restore") /\ Breaks("registry")
  /\ UNCHANGED <<current, releases, good, service, request, issued, history>>

\* The retired file goes; what fails after that can no longer be undone.
DropRetired ==
  /\ At("drop")
  /\ \/ /\ registry' = [registry EXCEPT !.retired = @ \ {run.previous}]
        /\ Go("answer") /\ UNCHANGED bounds
     \/ Fault /\ Go("restore") /\ UNCHANGED registry
  /\ UNCHANGED <<current, releases, good, service, request, issued, history, broken>>

-----------------------------------------------------------------------------
(* The handlers.                                                           *)

\* activate restores what it has noted to have switched, rollback in any case.
RestoreRelease ==
  current' = IF Kind = "rollback" \/ Noted("switched") THEN run.previous ELSE current

AfterRestore_keeps_service == IF Kind = "deploy" THEN "remove" ELSE "error"

AfterRestore == IF Kind = "deploy" /\ ~Noted("switched") THEN "remove" ELSE "again"

\* If the symlink cannot be restored the release it names stays.
Restore ==
  /\ At("restore") /\ Kind \in Switching
  /\ \/ RestoreRelease /\ Go(AfterRestore) /\ UNCHANGED <<bounds, broken>>
     \/ Fault /\ AfterRestore = "again" /\ Go("error") /\ UNCHANGED current /\ Breaks("release")
  /\ UNCHANGED <<releases, good, registry, service, request, issued, history>>

AfterUnretire == IF Noted("restarted") THEN "again" ELSE "error"

\* replace_pack takes its own new file away...
Unpublish ==
  /\ At("restore") /\ Kind \in Packing
  /\ \/ /\ registry' = [registry EXCEPT !.live = IF Noted("published") THEN @ \ {Id} ELSE @]
        /\ Go("unretire") /\ UNCHANGED <<bounds, broken>>
     \/ Fault /\ Go(AfterUnretire) /\ UNCHANGED registry /\ Breaks("registry")
  /\ UNCHANGED <<current, releases, good, service, request, issued, history>>

\* The retired file is there, and nothing has its name.
MayUnretire ==
  run.previous \in registry.retired /\ ~(Kind = "update" /\ Id \in registry.live)

Unretired ==
  registry' = [registry EXCEPT !.live = @ \cup {run.previous}, !.retired = @ \ {run.previous}]

\* ...and renames the retired one back, if it has moved it.
Unretire ==
  /\ At("unretire") /\ Go(AfterUnretire)
  /\ \/ Noted("moved") /\ MayUnretire /\ Unretired /\ UNCHANGED <<bounds, broken>>
     \/ Noted("moved") /\ ~MayUnretire /\ UNCHANGED <<registry, bounds>> /\ Breaks("registry")
     \/ ~Noted("moved") /\ UNCHANGED <<registry, bounds, broken>>
     \/ Fault /\ UNCHANGED registry /\ Breaks("registry")
  /\ UNCHANGED <<current, releases, good, service, request, issued, history>>

AfterAgain == IF Kind = "deploy" THEN "remove" ELSE "error"

\* The service is started with what has been restored; a failure is a warning.
RestartAgain ==
  /\ At("again") /\ Go(AfterAgain)
  /\ \/ service' = Started /\ UNCHANGED <<bounds, broken>>
     \/ Fault /\ service' = Down /\ Breaks("release")
  /\ UNCHANGED <<disk, request, issued, history>>

\* rmtree of the failed release, as far as it goes.
RemoveRelease ==
  /\ At("remove") /\ Go("error")
  /\ \/ releases' = [releases EXCEPT ![Id] = "absent"] /\ UNCHANGED bounds
     \/ Fault /\ releases' \in {releases, [releases EXCEPT ![Id] = "partial"]}
  /\ UNCHANGED <<current, good, registry, service, request, issued, history, broken>>

-----------------------------------------------------------------------------
(* Answer and clean up: main.                                              *)

Answered(outcome) == run' = [run EXCEPT !.at = "cleanup", !.outcome = outcome]

\* The result says ok, of a release that serves and has passed; or writing it is one more thing that fails.
Answer ==
  /\ At("answer")
  /\ \/ Answered("ok") /\ UNCHANGED bounds /\ broken' = broken \ {"release"}
     \/ Fault /\ Go(IF Kind = "rollback" THEN "error" ELSE "restore") /\ UNCHANGED broken
  /\ UNCHANGED <<disk, service, request, issued, history>>

AnswerError ==
  /\ At("error")
  /\ Answered("error")
  /\ UNCHANGED <<disk, service, request, issued, history, broken, bounds>>

Taken_on_success == request' = IF run.outcome = "ok" THEN None ELSE request

Taken == request' = None

\* _cleanup_request: the request goes, or the path unit starts a run for it again.
Cleanup ==
  /\ At("cleanup")
  /\ \/ Taken /\ UNCHANGED bounds
     \/ Fault /\ UNCHANGED request
  /\ run' = NoRun
  /\ UNCHANGED <<disk, service, issued, history, broken>>

\* Steps at which what a run has put in place is not proven, and what that is.
Unproven == {"restart", "health", "restore", "unretire", "again", "retire", "publish", "drop"}

Abandoned ==
  {what \in {"release", "registry"} :
     /\ run.at \in Unproven
     /\ \/ what = "release" /\ (Kind \in Switching \/ Noted("restarted"))
        \/ what = "registry" /\ (Noted("moved") \/ Noted("published"))}

\* The run is killed; with it, perhaps, the host goes down and comes up again.
Crash ==
  /\ run.at # "idle" /\ crashes < MaxCrashes
  /\ crashes' = crashes + 1
  /\ service' \in {service, Started}
  /\ run' = NoRun
  /\ broken' = broken \cup Abandoned
  /\ UNCHANGED <<disk, request, issued, history, faults>>

Step ==
  \/ Start \/ Refuse \/ PrepareDeploy \/ Own \/ Install
  \/ PrepareRollback \/ PrepareReplace
  \/ Switch \/ Restart \/ Health \/ RecordDeploy \/ RecordRollback
  \/ Backup \/ Retire \/ Publish \/ DropRetired
  \/ Restore \/ Unpublish \/ Unretire \/ RestartAgain \/ RemoveRelease
  \/ Answer \/ AnswerError \/ Cleanup

Next == Ask \/ Step \/ Crash

Spec == Init /\ [][Next]_vars

\* systemd starts the activator as long as a request is there, and a run goes on.
FairSpec == Spec /\ WF_vars(Step)

-----------------------------------------------------------------------------
(* Safety.                                                                 *)

TypeOK ==
  /\ current \in Release \cup {None}
  /\ releases \in [Release -> {"absent", "empty", "partial", "whole"}]
  /\ good # None => good \in Seq(Release) /\ Len(good) \in 1..Kept
  /\ registry \in [live : SUBSET Pack, retired : SUBSET Pack, backups : SUBSET Pack]
  /\ service \in [release : Release \cup {None}, packs : SUBSET Pack]
  /\ request # None =>
       request \in [id : 1..issued, kind : Packing \cup Switching, subject : Release \cup {None}]
  /\ run.at \in Steps /\ (run.at = "idle" <=> run.job = None)
  /\ run.at # "idle" => run.job = request
  /\ issued \in 0..MaxRequests /\ passed \subseteq Release /\ left \subseteq Release
  /\ broken \subseteq {"release", "registry"}
  /\ faults \in 0..MaxFaults /\ crashes \in 0..MaxCrashes

Resting == run.at = "idle"

\* current never names a release that is gone or has nothing to run, not even while a
\* failed release is removed (858-877), and at rest names a whole one.
CurrentIsThere ==
  current # None /\ "release" \notin broken =>
    /\ releases[current] \in {"partial", "whole"}
    /\ Resting => releases[current] = "whole"

\* A deployment or rollback that failed has put back the release that was serving, and
\* restarted the service with it (docs/DEPLOYMENT.md:107, 171).  Otherwise it is a
\* rollback whose target serves and has passed: only writing that down failed.
FailedSwitchIsUndone ==
  At("error") /\ Kind \in Switching /\ run.target # None /\ "release" \notin broken =>
    /\ service.release = current
    /\ \/ current = run.previous
       \/ Kind = "rollback" /\ current = run.target /\ current \in passed

\* Every listed release but the first, which may be the one that was serving when the
\* list was begun, has passed a health check (docs/DEPLOYMENT.md:161-163).
GoodHavePassed ==
  good # None => \A i \in DOMAIN good : i = 1 \/ good[i] \in passed

\* What deployments and rollbacks start from is always fit to be started.
ReleasesAreSound == TypeOK /\ CurrentIsThere /\ GoodHavePassed

\* When no run is at work the service runs what is on disk: the current release, and
\* one pack file, the retired one gone.
ServiceMatchesDisk ==
  Resting =>
    /\ "release" \notin broken => service.release = current
    /\ broken = {} => Cardinality(registry.live) = 1 /\ registry.retired = {}
    /\ broken = {} /\ current # None => service.packs = registry.live

\* A failure is undone on disk and in the service.
FailureIsUndone == FailedSwitchIsUndone /\ ServiceMatchesDisk

\* Repeating a plain rollback steps further back: it never chooses a newer release that
\* a recorded rollback has left (docs/EASY_DEPLOY.md:135, rollback.sh:13-15).
PlainRollbackGoesBack ==
  [][At("prepare") /\ run'.at = "switch" /\ Kind = "rollback" /\ run.job.subject = None
       => run'.target \notin left]_vars

-----------------------------------------------------------------------------
(* Liveness.                                                               *)

\* The inbox becomes free again, whatever fails in a run or kills it.
InboxFrees == request # None ~> request = None

=============================================================================
