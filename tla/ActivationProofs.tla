-------------------------- MODULE ActivationProofs --------------------------
(***************************************************************************)
(* Safety of Activation, for any number of requests, releases kept,        *)
(* failing steps and killed runs.  What a run has noted of its steps is    *)
(* what the disk shows of them, at every step (Working, WithPack,          *)
(* WithRelease): from that its rollback finds the old release and pack     *)
(* again, unless a fault of the rollback itself, or of a step that cannot  *)
(* be undone, is on record in broken.  The list of good releases is a      *)
(* sequence; the lemmas on Ascending and Without say which of its entries  *)
(* a step keeps, so that none needs to be counted.                         *)
(***************************************************************************)
EXTENDS Activation, FiniteSetTheorems, TLAPS

-----------------------------------------------------------------------------
(* The invariant.                                                          *)

\* Steps before and after a run's own, at which nothing is under way.
Rest == {"idle", "prepare", "error", "cleanup"}

Flags == {"switched", "restarted", "moved", "published"}
Outcomes == {"none", "ok", "error"}
Kinds == Packing \cup Switching

Job == [id : Release, kind : Kinds, subject : Release \cup {None}]

RunType ==
  [at : Steps, job : Job \cup {None}, target : Release \cup {None},
   previous : Release \cup {None}, noted : SUBSET Flags, outcome : Outcomes]

Typed ==
  /\ current \in Release \cup {None}
  /\ releases \in [Release -> {"absent", "empty", "partial", "whole"}]
  /\ good # None => good \in Seq(Release) /\ Len(good) \in 1..Kept
  /\ registry \in [live : SUBSET Pack, retired : SUBSET Pack, backups : SUBSET Pack]
  /\ service \in [release : Release \cup {None}, packs : SUBSET Pack]
  /\ request \in Job \cup {None} /\ run \in RunType
  /\ issued \in 0..MaxRequests /\ passed \subseteq Release /\ left \subseteq Release
  /\ broken \subseteq {"release", "registry"}
  /\ faults \in 0..MaxFaults /\ crashes \in 0..MaxCrashes

Unbroken(what) == what \notin broken

\* A run works for the pending request, each step for some kinds of it only.
Working ==
  /\ request # None => request.id = issued /\ issued >= 1
  /\ run.at = "idle" => run = NoRun
  /\ run.at # "idle" => request # None /\ run.job = request
  /\ run.at = "prepare" => run.target = None /\ run.noted = {}
  /\ run.at \in {"own", "install", "remove"} => Kind = "deploy"
  /\ run.at \in {"switch", "record"} => Kind \in Switching
  /\ run.at \in {"backup", "retire", "publish", "drop", "unretire"} => Kind \in Packing
  /\ run.at \notin Rest => run.target # None
  /\ run.target # None =>
       /\ run.target # run.previous
       /\ Kind = "rollback" => run.previous # None
       /\ Kind \in Packing => run.previous # None
       /\ run.target = Id <=> Kind # "rollback"

\* What a run has noted of what it did, by the step it is at.
WithPack ==
  /\ run.at = "retire" => run.noted = IF Kind = "update" THEN {} ELSE {"published"}
  /\ run.at = "publish" => run.noted = IF Kind = "update" THEN {"moved"} ELSE {}
  /\ run.at = "restart" => run.noted = {"moved", "published"}
  /\ run.at \in {"health", "drop", "answer"} => run.noted = {"moved", "published", "restarted"}
  /\ run.at \in {"restore", "unretire"} => run.noted \subseteq {"moved", "published", "restarted"}
  /\ run.at = "again" => Noted("restarted")

WithRelease ==
  /\ run.at = "restart" => run.noted = {"switched"}
  /\ run.at \in {"health", "record", "answer"} => run.noted = {"switched", "restarted"}

Notes ==
  /\ run.at \in {"own", "install", "switch", "backup"} => run.noted = {}
  /\ run.at # "idle" /\ Kind \in Packing => WithPack
  /\ run.at # "idle" /\ Kind \in Switching => WithRelease

\* Releases there were when the run began; a deployment's own may be left of a run before.
Past ==
  0 .. (IF request # None /\ request.kind # "deploy" THEN issued - 1 ELSE issued)

Numbered ==
  /\ current # None => current \in Past
  /\ \A r \in Release : releases[r] # "absent" => r \in Past
  /\ good # None => \A i \in DOMAIN good : good[i] \in Past
  /\ left \subseteq 0 .. (IF request # None THEN issued - 1 ELSE issued)
  /\ run.at \notin Rest /\ Kind \in Switching /\ run.previous # None => run.previous \in Past

\* The list is in order, all but its first entry have passed, and what rollbacks have
\* left is not on it.
Listing ==
  /\ good = None => left = {}
  /\ good # None =>
       /\ \A i, j \in DOMAIN good : i < j => good[i] < good[j]
       /\ \A i \in DOMAIN good : i = 1 \/ good[i] \in passed
       /\ \A i \in DOMAIN good : good[i] \notin left

Whole(r) == r = None \/ releases[r] = "whole"

\* What is current, by the step.
Switched ==
  /\ run.at \in {"restart", "health", "record", "answer"} => current = run.target
  /\ run.at = "switch" => Usable(run.target)
  /\ run.at \in {"record", "answer"} => run.target \in passed
  /\ Unbroken("release") =>
       /\ run.at \notin Rest => Whole(run.previous)
       /\ run.at \in {"own", "install", "switch", "remove", "again"} => current = run.previous
       /\ run.at = "restore" /\ Kind = "deploy" =>
            current = IF Noted("switched") THEN run.target ELSE run.previous
       /\ run.at = "restore" /\ Kind = "rollback" => current \in {run.previous, run.target}

Installed ==
  /\ run.at = "own" => releases[Id] = "empty"
  /\ run.at = "install" => releases[Id] = "partial"
  /\ run.at \in {"switch", "restart", "health", "record", "answer"} => releases[Id] = "whole"

Switches ==
  /\ run.at \in {"record", "drop", "answer"} => current # None /\ releases[current] = "whole"
  /\ run.at \notin Rest /\ Kind \in Switching => Switched
  /\ run.at # "idle" /\ Kind = "deploy" => Installed
  /\ Unbroken("release") =>
       IF run.at \in {"restart", "health", "restore"} /\ Kind = "rollback"
       THEN current # None /\ Usable(current)
       ELSE Whole(current)

\* What the registry holds while a pack is replaced, and what it holds otherwise.
Live(pack) == registry.live = {pack} /\ registry.retired = {}

Midway ==
  /\ registry.live = (IF Noted("moved") THEN {} ELSE {run.previous})
                       \cup (IF Noted("published") THEN {Id} ELSE {})
  /\ registry.retired = (IF Noted("moved") THEN {run.previous} ELSE {})

Undoing ==
  /\ run.at = "restore" => registry.live = (IF Noted("moved") THEN {} ELSE {run.previous})
                                             \cup (IF Noted("published") THEN {Id} ELSE {})
  /\ run.at = "unretire" => registry.live = (IF Noted("moved") THEN {} ELSE {run.previous})
  /\ registry.retired \subseteq (IF Noted("moved") THEN {run.previous} ELSE {})

Replaces ==
  Unbroken("registry") =>
    /\ run.at \in Rest \/ Kind \in Switching => \E p \in Pack : Live(p)
    /\ run.at \notin Rest /\ Kind \in Packing =>
         /\ run.at \in {"backup", "again"} => Live(run.previous)
         /\ run.at \in {"retire", "publish", "restart", "health", "drop"} => Midway
         /\ run.at = "answer" => Live(Id)
         /\ run.at \in {"restore", "unretire"} => Undoing

\* What the service runs.
NotYetRestarted ==
  \/ run.at \in Rest \cup {"own", "install", "switch", "backup", "retire", "publish", "remove"}
  \/ run.at = "restart" /\ Kind \in Packing
  \/ run.at = "restore" /\ Kind = "deploy" /\ ~Noted("switched")
  \/ run.at \in {"restore", "unretire"} /\ Kind \in Packing /\ ~Noted("restarted")

Serves ==
  /\ run.at \in {"health", "record", "drop", "answer"} => service = Started
  /\ NotYetRestarted /\ Unbroken("release") => service.release = current
  /\ NotYetRestarted /\ broken = {} /\ current # None =>
       service.packs = IF run.at \notin Rest /\ Kind \in Packing
                       THEN {run.previous} ELSE registry.live

ActivationInv ==
  /\ Typed /\ Working /\ Notes
  /\ Numbered /\ Listing
  /\ Switches /\ Replaces /\ Serves
  /\ FailedSwitchIsUndone

-----------------------------------------------------------------------------
(* Lists of releases.                                                      *)

InOrder(s) == \A i, j \in DOMAIN s : i < j => s[i] < s[j]

\* All but the first are in P.
ButFirst(s, P) == \A i \in DOMAIN s : i = 1 \/ s[i] \in P

\* Ascending lists a set in order: ranks in it are different and as many as it has
\* members, so there is one for every place.
LEMMA AscendingSorts ==
  ASSUME NEW S, S \subseteq Int, IsFiniteSet(S)
  PROVE  /\ Ascending(S) \in Seq(S) /\ Len(Ascending(S)) = Cardinality(S)
         /\ InOrder(Ascending(S))
<1> DEFINE n == Cardinality(S)
           upTo(r) == {o \in S : o <= r}
           rank == [r \in S |-> Cardinality(upTo(r))]
<1>1. n \in Nat /\ IsFiniteSet(1..n) /\ Cardinality(1..n) = n
  BY FS_CardinalityType, FS_Interval
<1>2. \A r \in S : rank[r] \in 1..n
  <2> TAKE r \in S
  <2>1. IsFiniteSet(upTo(r)) /\ Cardinality(upTo(r)) <= n
    BY FS_Subset, upTo(r) \in SUBSET S
  <2>2. r \in upTo(r) OBVIOUS
  <2>3. Cardinality(upTo(r)) \in Nat /\ Cardinality(upTo(r)) # 0
    BY <2>1, <2>2, FS_CardinalityType, FS_EmptySet
  <2> QED BY <1>1, <2>1, <2>3
<1>3. \A q, r \in S : q < r => rank[q] < rank[r]
  <2> SUFFICES ASSUME NEW q \in S, NEW r \in S, q < r PROVE rank[q] < rank[r]
    OBVIOUS
  <2>1. upTo(q) \in SUBSET upTo(r) /\ r \in upTo(r) \ upTo(q)
    <3>1. \A o \in S : o <= q => o <= r OBVIOUS
    <3>2. r <= r /\ ~(r <= q) OBVIOUS
    <3> QED BY <3>1, <3>2
  <2>2. IsFiniteSet(upTo(r)) BY FS_Subset, upTo(r) \in SUBSET S
  <2>3. Cardinality(upTo(q)) # Cardinality(upTo(r)) /\ Cardinality(upTo(q)) <= Cardinality(upTo(r))
    BY <2>1, <2>2, FS_Subset
  <2> QED BY <1>1, <1>2, <2>3
<1> HIDE DEF rank, upTo
<1>4. \A q, r \in S : rank[q] = rank[r] => q = r
  <2> SUFFICES ASSUME NEW q \in S, NEW r \in S, rank[q] = rank[r], q # r PROVE FALSE
    OBVIOUS
  <2>1. q \in Int /\ r \in Int /\ rank[q] \in Int BY <1>1, <1>2
  <2>2. q < r \/ r < q BY <2>1
  <2>3. rank[q] < rank[r] \/ rank[r] < rank[q] BY <1>3, <2>2
  <2> QED BY <2>1, <2>3
<1>5. rank \in Injection(S, 1..n)
  <2>1. rank \in [S -> 1..n] BY <1>2 DEF rank
  <2> QED BY <2>1, <1>4 DEF Injection, IsInjective
<1>6. \A i \in 1..n : \E r \in S : rank[r] = i
  <2>1. rank \in Surjection(S, 1..n) BY <1>1, <1>5, FS_Injection
  <2> QED BY <2>1 DEF Surjection
<1>7. \A i \in 1..n : Ascending(S)[i] \in S /\ rank[Ascending(S)[i]] = i
  BY <1>6 DEF Ascending, rank, upTo
<1>8. Ascending(S) \in Seq(S) /\ Len(Ascending(S)) = n /\ DOMAIN Ascending(S) = 1..n
  <2>1. Ascending(S) \in [1..n -> S] BY <1>7 DEF Ascending
  <2> QED BY <1>1, <2>1
<1>9. InOrder(Ascending(S))
  <2> SUFFICES ASSUME NEW i \in 1..n, NEW j \in 1..n, i < j
               PROVE  Ascending(S)[i] < Ascending(S)[j]
    BY <1>8 DEF InOrder
  <2> DEFINE a == Ascending(S)[i]
             b == Ascending(S)[j]
  <2>1. a \in S /\ b \in S /\ rank[a] = i /\ rank[b] = j BY <1>7
  <2> HIDE DEF a, b, n
  <2>2. a \in Int /\ b \in Int BY <2>1
  <2>3. ~(b < a) BY <2>1, <1>1, <1>3
  <2>4. a # b BY <2>1, <1>1
  <2> QED BY <2>2, <2>3, <2>4 DEF a, b
<1> QED BY <1>8, <1>9

\* What Without leaves keeps its order.
LEMMA WithoutSelects ==
  ASSUME NEW s \in Seq(Release), NEW x
  PROVE  /\ Without(s, x) \in Seq(Release)
         /\ \E p \in [DOMAIN Without(s, x) -> DOMAIN s] :
              /\ InOrder(p)
              /\ \A k \in DOMAIN Without(s, x) : Without(s, x)[k] = s[p[k]] /\ s[p[k]] # x
<1> DEFINE S == {i \in DOMAIN s : s[i] # x}
           p == Ascending(S)
<1>1. S \subseteq Int /\ IsFiniteSet(S)
  <2>1. Len(s) \in Nat /\ S \in SUBSET (1..Len(s)) OBVIOUS
  <2>2. IsFiniteSet(1..Len(s)) BY <2>1, FS_Interval
  <2> QED BY <2>1, <2>2, FS_Subset
<1> HIDE DEF S
<1>2. p \in Seq(S) /\ Len(p) \in Nat /\ InOrder(p)
  <2>1. Ascending(S) \in Seq(S) /\ InOrder(Ascending(S)) BY <1>1, AscendingSorts
  <2> QED BY <2>1
<1> HIDE DEF p
<1>3. DOMAIN p = 1..Len(p) /\ \A k \in DOMAIN p : p[k] \in DOMAIN s /\ s[p[k]] # x
  BY <1>2 DEF S
<1>4. Without(s, x) = [k \in DOMAIN p |-> s[p[k]]]
  BY DEF Without, p, S
<1>5. \A k \in DOMAIN p : s[p[k]] \in Release BY <1>3
<1>6. Without(s, x) \in Seq(Release) /\ DOMAIN Without(s, x) = DOMAIN p
  BY <1>2, <1>3, <1>4, <1>5
<1>7. p \in [DOMAIN p -> DOMAIN s] BY <1>2, <1>3
<1> QED BY <1>2, <1>3, <1>4, <1>6, <1>7

\* The newest of a list are a list of the kind.
LEMMA NewestKeeps ==
  ASSUME NEW s \in Seq(Release), Len(s) >= 1, InOrder(s), NEW P, ButFirst(s, P)
  PROVE  /\ Newest(s) \in Seq(Release) /\ Len(Newest(s)) \in 1..Kept
         /\ InOrder(Newest(s)) /\ ButFirst(Newest(s), P)
         /\ \A i \in DOMAIN Newest(s) : \E k \in DOMAIN s : Newest(s)[i] = s[k]
<1> DEFINE first == IF Len(s) > Kept THEN Len(s) - Kept + 1 ELSE 1
<1>1. first \in 1..Len(s) /\ Len(s) - first + 1 \in 1..Kept /\ Len(s) \in Nat
  BY KeptAssumption
<1> HIDE DEF first
<1>2. Newest(s) = SubSeq(s, first, Len(s))
  BY DEF Newest, first
<1>3. /\ Newest(s) \in Seq(Release) /\ Len(Newest(s)) = Len(s) - first + 1
      /\ \A i \in 1..Len(Newest(s)) : Newest(s)[i] = s[i + first - 1]
  BY <1>1, <1>2
<1>4. \A i \in DOMAIN Newest(s) : i + first - 1 \in DOMAIN s /\ i + first - 1 >= i
  BY <1>1, <1>3
<1> DEFINE t == Newest(s)
<1> HIDE DEF t
<1>5. InOrder(t)
  <2> SUFFICES ASSUME NEW i \in DOMAIN t, NEW j \in DOMAIN t, i < j PROVE t[i] < t[j]
    BY DEF InOrder
  <2>1. /\ i + first - 1 \in DOMAIN s /\ j + first - 1 \in DOMAIN s
        /\ i + first - 1 < j + first - 1
    BY <1>1, <1>3, <1>4 DEF t
  <2>2. s[i + first - 1] < s[j + first - 1]
    BY <2>1 DEF InOrder
  <2> QED BY <1>3, <2>2 DEF t
<1>6. ButFirst(t, P)
  <2> SUFFICES ASSUME NEW i \in DOMAIN t, i # 1 PROVE t[i] \in P
    BY DEF ButFirst
  <2>1. i + first - 1 \in DOMAIN s /\ i + first - 1 # 1
    BY <1>1, <1>3, <1>4 DEF t
  <2>2. s[i + first - 1] \in P
    BY <2>1 DEF ButFirst
  <2> QED BY <1>3, <2>2 DEF t
<1>7. \A i \in DOMAIN Newest(s) : \E k \in DOMAIN s : Newest(s)[i] = s[k]
  BY <1>3, <1>4
<1> QED BY <1>1, <1>3, <1>5, <1>6, <1>7 DEF t

LEMMA ShortLists ==
  ASSUME NEW P
  PROVE  /\ <<>> \in Seq(Release) /\ InOrder(<<>>) /\ ButFirst(<<>>, P)
         /\ \A r \in Release : /\ <<r>> \in Seq(Release) /\ InOrder(<<r>>) /\ ButFirst(<<r>>, P)
                               /\ DOMAIN <<r>> = {1} /\ <<r>>[1] = r
BY DEF InOrder, ButFirst

-----------------------------------------------------------------------------
(* Steps of a run.                                                         *)

\* The run goes on to a step, and what it has noted is then as said.
Moves(step, noted) ==
  /\ run' \in RunType
  /\ run'.at = step /\ run'.noted = noted
  /\ run'.job = run.job /\ run'.target = run.target
  /\ run'.previous = run.previous /\ run'.outcome = run.outcome

\* ...the registry holds these files, and a release is in that state.
Stores(live, retired) ==
  /\ registry' \in [live : SUBSET Pack, retired : SUBSET Pack, backups : SUBSET Pack]
  /\ registry'.live = live /\ registry'.retired = retired

Becomes(r, state) ==
  /\ releases' \in [Release -> {"absent", "empty", "partial", "whole"}]
  /\ releases'[r] = state
  /\ \A o \in Release \ {r} : releases'[o] = releases[o]

LEMMA GoMoves ==
  ASSUME Typed, NEW step \in Steps, Go(step)
  PROVE  Moves(step, run.noted)
BY DEF Typed, RunType, Go, Moves

LEMMA NotingMoves ==
  ASSUME Typed, NEW step \in Steps, NEW flag \in Flags, GoNoting(step, flag)
  PROVE  Moves(step, run.noted \cup {flag})
<1>1. run.noted \cup {flag} \in SUBSET Flags BY DEF Typed, RunType
<1> QED BY <1>1 DEF Typed, RunType, GoNoting, Moves

\* What Typed says of the run and its job.
LEMMA RunFields ==
  ASSUME Typed, Working
  PROVE  /\ run \in RunType /\ run.at \in Steps /\ run.noted \subseteq Flags
         /\ run.target \in Release \cup {None} /\ run.previous \in Release \cup {None}
         /\ run.at # "idle" => /\ run.job.id \in Release /\ run.job.id # None
                               /\ run.job.id = issued /\ run.job.kind \in Kinds
                               /\ run.job.subject \in Release \cup {None}
BY BoundsAssumption, NoneAssumption DEF Typed, Working, RunType, Job, Release

LEMMA ReleaseBecomes ==
  ASSUME Typed, NEW r \in Release, NEW state \in {"absent", "empty", "partial", "whole"},
         releases' = [releases EXCEPT ![r] = state]
  PROVE  Becomes(r, state)
BY DEF Typed, Becomes

LEMMA RegistryBecomes ==
  ASSUME Typed, NEW L \in SUBSET Pack, NEW R \in SUBSET Pack,
         registry' = [registry EXCEPT !.live = L, !.retired = R]
  PROVE  Stores(L, R)
BY DEF Typed, Stores

LEMMA StartedTyped ==
  ASSUME Typed
  PROVE  /\ Started \in [release : Release \cup {None}, packs : SUBSET Pack]
         /\ Down \in [release : Release \cup {None}, packs : SUBSET Pack]
         /\ Started.release = current
         /\ current # None => Started.packs = registry.live
BY DEF Typed, Started, Down

USE DEF ActivationInv, At, Kind, Id, Noted, Packing, Switching, Rest, Moves, Unbroken

-----------------------------------------------------------------------------
(* Frames.                                                                 *)

LEMMA NumbersStay ==
  ASSUME Numbered, Listing, UNCHANGED <<current, releases, good, history, request, issued>>,
         \/ run'.at \in Rest \/ run'.job.kind \in Packing
         \/ run.at \notin Rest /\ run'.job = run.job /\ run'.previous = run.previous
  PROVE  Numbered' /\ Listing'
BY DEF Numbered, Past, Listing, history

\* A step that leaves the registry alone and has nothing to do with packs.
LEMMA PacksStay ==
  ASSUME Replaces, UNCHANGED registry, broken \ {"release"} \subseteq broken',
         run.at \in Rest \/ Kind \in Switching,
         run'.at \in Rest \/ run'.job.kind \in Switching
  PROVE  Replaces'
BY DEF Replaces, Live

\* A step of replacing a pack before the service is restarted, or back from there.
LEMMA ReleasesStay ==
  ASSUME Switches, Kind \in Packing, Moves(run'.at, run'.noted),
         run'.at \notin {"record", "drop", "answer"},
         UNCHANGED <<current, releases>>, broken \subseteq broken'
  PROVE  Switches'
BY DEF Switches, Whole, Usable

-----------------------------------------------------------------------------
(* Each action keeps the invariant.                                        *)

\* A run that is killed and leaves nothing of a pack behind has not begun with it, or has
\* undone it.
LEMMA AbandonedPacks ==
  ASSUME ActivationInv, "registry" \notin broken \cup Abandoned,
         run.at \notin Rest \cup {"answer"}, Kind \in Packing
  PROVE  Live(run.previous)
<1>1. CASE run.at \in {"backup", "again"}
  BY <1>1 DEF Replaces
<1>2. CASE run.at \in Unproven \ {"again"}
  <2>1. ~Noted("moved") /\ ~Noted("published") BY <1>2 DEF Abandoned
  <2>2. run.at \notin {"restart", "health", "drop"} BY <2>1 DEF Notes, WithPack
  <2>3. Midway \/ Undoing
    BY <1>2, <2>2 DEF Replaces, Unproven
  <2> QED BY <1>2, <2>1, <2>2, <2>3 DEF Midway, Undoing, Live, Unproven, Replaces
<1> QED BY <1>1, <1>2, RunFields DEF Working, Steps, Unproven

LEMMA RefuseKeeps ==
  ASSUME ActivationInv, Refuse
  PROVE  ActivationInv'
<1>1. /\ Moves("error", run.noted) /\ At("prepare")
      /\ UNCHANGED <<disk, service, request, issued, history, broken, bounds>>
  BY RunFields, GoMoves DEF Refuse, Steps
<1>2. Typed'
  BY <1>1, RunFields, BoundsAssumption DEF Typed, Fault, Breaks, Stores, Becomes, disk,
     bounds, history
<1>3. Working' /\ Notes'
  BY <1>1, RunFields, NoneAssumption DEF Working, Notes, WithPack, WithRelease, Kinds,
     Flags, disk, bounds
<1>4. Numbered' /\ Listing'
  BY <1>1, RunFields, NumbersStay DEF Working, Kinds, disk, bounds
<1>5. Switches'
  BY <1>1, RunFields DEF Switches, Switched, Installed, Whole, Usable, Working, Notes,
     WithRelease, Kinds, disk, bounds
<1>6. Replaces'
  BY <1>1, PacksStay, RunFields DEF Working, Kinds, Breaks, disk, bounds
<1>7. Serves'
  BY <1>1, RunFields DEF Serves, NotYetRestarted, Started, Down, Switches, Switched,
     Replaces, Live, Midway, Undoing, Working, Notes, WithPack, WithRelease, Kinds, disk,
     bounds
<1>8. FailedSwitchIsUndone'
  BY <1>1, RunFields DEF FailedSwitchIsUndone, Switches, Switched, Serves, NotYetRestarted,
     Started, Down, Working, Notes, Kinds, disk, bounds
<1> QED BY <1>2, <1>3, <1>4, <1>5, <1>6, <1>7, <1>8

LEMMA PrepareDeployKeeps ==
  ASSUME ActivationInv, PrepareDeploy
  PROVE  ActivationInv'
<1>1. /\ At("prepare") /\ Kind = "deploy" /\ Id # current /\ current \in Release \cup {None}
      /\ Id \in Release /\ Id # None /\ Id = issued /\ releases[Id] = "absent"
      /\ Becomes(Id, "empty")
      /\ run' \in RunType /\ run'.at = "own" /\ run'.target = Id /\ run'.previous = current
      /\ run'.job = run.job /\ run'.noted = run.noted /\ run'.outcome = run.outcome
      /\ UNCHANGED <<current, good, registry, service, request, issued, history, broken, bounds>>
  <2>1. Id \in Release /\ current \in Release \cup {None} /\ run \in RunType
    BY RunFields DEF PrepareDeploy, Typed
  <2>2. run' \in RunType
    BY <2>1 DEF PrepareDeploy, RunType, Steps
  <2>3. Becomes(Id, "empty") BY <2>1, ReleaseBecomes DEF PrepareDeploy
  <2> QED BY <2>1, <2>2, <2>3, RunFields DEF PrepareDeploy, CurrentResolves, RunType
<1>2. Typed'
  BY <1>1, RunFields, BoundsAssumption DEF Typed, Fault, Breaks, Stores, Becomes, disk,
     bounds, history
<1>3. Working' /\ Notes'
  BY <1>1, RunFields, NoneAssumption DEF Working, Notes, WithPack, WithRelease, Kinds,
     Flags, disk, bounds
<1>4. Numbered' /\ Listing'
  BY <1>1, BoundsAssumption DEF Numbered, Past, Listing, Becomes, Release, Working, history,
     disk, bounds
<1>5. Switches'
  BY <1>1, RunFields DEF Switches, Switched, Installed, Whole, Usable, Working, Notes,
     WithRelease, Kinds, disk, bounds, Becomes
<1>6. Replaces'
  BY <1>1, PacksStay, RunFields DEF Working, Kinds, Breaks, disk, bounds
<1>7. Serves'
  BY <1>1, RunFields DEF Serves, NotYetRestarted, Started, Down, Switches, Switched,
     Replaces, Live, Midway, Undoing, Working, Notes, WithPack, WithRelease, Kinds, disk,
     bounds, Becomes
<1>8. FailedSwitchIsUndone'
  BY <1>1, RunFields DEF FailedSwitchIsUndone, Switches, Switched, Serves, NotYetRestarted,
     Started, Down, Working, Notes, Kinds, disk, bounds, Becomes
<1> QED BY <1>2, <1>3, <1>4, <1>5, <1>6, <1>7, <1>8

LEMMA OwnKeeps ==
  ASSUME ActivationInv, Own
  PROVE  ActivationInv'
<1>1. /\ At("own") /\ run.target = Id
      /\ \/ Becomes(Id, "partial") /\ Moves("install", run.noted) /\ UNCHANGED bounds
         \/ Fault /\ Moves("error", run.noted) /\ UNCHANGED releases
      /\ UNCHANGED <<current, good, registry, service, request, issued, history, broken>>
  BY RunFields, GoMoves, ReleaseBecomes DEF Own, Steps, Working
<1>2. Typed'
  BY <1>1, RunFields, BoundsAssumption DEF Typed, Fault, Breaks, Stores, Becomes, bounds,
     history
<1>3. Working' /\ Notes'
  BY <1>1, RunFields, NoneAssumption DEF Working, Notes, WithPack, WithRelease, Kinds, Flags
<1>4. Numbered' /\ Listing'
  BY <1>1, BoundsAssumption, RunFields DEF Numbered, Past, Listing, Becomes, Release,
     Working, history, disk
<1>5. Switches'
  BY <1>1, RunFields DEF Switches, Switched, Installed, Whole, Usable, Working, Notes,
     WithRelease, Kinds, Becomes
<1>6. Replaces'
  BY <1>1, PacksStay, RunFields DEF Working, Kinds, Breaks
<1>7. Serves'
  BY <1>1, RunFields DEF Serves, NotYetRestarted, Started, Down, Switches, Switched,
     Replaces, Live, Midway, Undoing, Working, Notes, WithPack, WithRelease, Kinds, Becomes
<1>8. FailedSwitchIsUndone'
  BY <1>1, RunFields DEF FailedSwitchIsUndone, Switches, Switched, Serves, NotYetRestarted,
     Started, Down, Working, Notes, Kinds, Becomes
<1> QED BY <1>2, <1>3, <1>4, <1>5, <1>6, <1>7, <1>8

LEMMA InstallKeeps ==
  ASSUME ActivationInv, Install
  PROVE  ActivationInv'
<1>1. /\ At("install") /\ run.target = Id
      /\ \/ Becomes(Id, "whole") /\ Moves("switch", run.noted)
         \/ Moves("restore", run.noted) /\ UNCHANGED releases
      /\ UNCHANGED <<current, good, registry, service, request, issued, history, broken, bounds>>
  BY RunFields, GoMoves, ReleaseBecomes DEF Install, Steps, Working
<1>2. Typed'
  BY <1>1, RunFields, BoundsAssumption DEF Typed, Fault, Breaks, Stores, Becomes, disk,
     bounds, history
<1>3. Working' /\ Notes'
  BY <1>1, RunFields, NoneAssumption DEF Working, Notes, WithPack, WithRelease, Kinds,
     Flags, disk, bounds
<1>4. Numbered' /\ Listing'
  BY <1>1, BoundsAssumption, RunFields DEF Numbered, Past, Listing, Becomes, Release,
     Working, history, disk, bounds
<1>5. Switches'
  BY <1>1, RunFields DEF Switches, Switched, Installed, Whole, Usable, Working, Notes,
     WithRelease, Kinds, disk, bounds, Becomes
<1>6. Replaces'
  BY <1>1, PacksStay, RunFields DEF Working, Kinds, Breaks, disk, bounds
<1>7. Serves'
  BY <1>1, RunFields DEF Serves, NotYetRestarted, Started, Down, Switches, Switched,
     Replaces, Live, Midway, Undoing, Working, Notes, WithPack, WithRelease, Kinds, disk,
     bounds, Becomes
<1>8. FailedSwitchIsUndone'
  BY <1>1, RunFields DEF FailedSwitchIsUndone, Switches, Switched, Serves, NotYetRestarted,
     Started, Down, Working, Notes, Kinds, disk, bounds, Becomes
<1> QED BY <1>2, <1>3, <1>4, <1>5, <1>6, <1>7, <1>8

LEMMA PrepareRollbackKeeps ==
  ASSUME ActivationInv, PrepareRollback
  PROVE  ActivationInv'
<1>1. /\ At("prepare") /\ Kind = "rollback" /\ current # None
      /\ run'.target \in Release /\ run'.target # current /\ Usable(run'.target) /\ run'.target # Id
      /\ run' \in RunType /\ run'.at = "switch" /\ run'.previous = current
      /\ run'.job = run.job /\ run'.noted = run.noted /\ run'.outcome = run.outcome
      /\ UNCHANGED <<disk, service, request, issued, history, broken, bounds>>
  <2>1. run \in RunType /\ current \in Release /\ Id = issued /\ issued \in Nat
    BY RunFields, BoundsAssumption DEF PrepareRollback, Typed
  <2>2. PICK target \in Targets :
          run' = [run EXCEPT !.at = "switch", !.target = target, !.previous = current]
    BY DEF PrepareRollback
  <2>3. target \in Release /\ target # current /\ Usable(target)
    <3>1. CASE run.job.subject # None
      BY <3>1, <2>2, RunFields DEF Targets, PrepareRollback
    <3>2. CASE run.job.subject = None /\ good # None
      <4>1. PICK i \in DOMAIN good : target = good[i] /\ Listed(i)
        BY <3>2, <2>2 DEF Targets
      <4> QED BY <4>1, <3>2 DEF Listed, Typed
    <3>3. CASE run.job.subject = None /\ good = None
      BY <3>3, <2>1, <2>2, BoundsAssumption DEF Targets, Release
    <3> QED BY <3>1, <3>2, <3>3
  <2>4. target # Id
    BY <2>1, <2>3, RunFields DEF PrepareRollback, Numbered, Past, Usable, Working
  <2>5. run' \in RunType
    BY <2>1, <2>2, <2>3 DEF RunType, Steps
  <2> QED BY <2>1, <2>2, <2>3, <2>4, <2>5 DEF PrepareRollback, RunType
<1>2. Typed'
  BY <1>1, RunFields, BoundsAssumption DEF Typed, Fault, Breaks, Stores, Becomes, disk,
     bounds, history
<1>3. Working' /\ Notes'
  <2>1. run'.target # None BY <1>1, NoneAssumption DEF Release
  <2> QED BY <1>1, <2>1, RunFields DEF Working, Notes, WithRelease, Kinds
<1>4. Numbered' /\ Listing'
  BY <1>1 DEF Numbered, Past, Listing, disk, history
<1>5. Switches'
  BY <1>1, RunFields DEF Switches, Switched, Installed, Whole, Usable, Working, Notes,
     WithRelease, Kinds, disk, bounds
<1>6. Replaces'
  BY <1>1, PacksStay, RunFields DEF Working, Kinds, Breaks, disk, bounds
<1>7. Serves'
  BY <1>1, RunFields DEF Serves, NotYetRestarted, Started, Down, Switches, Switched,
     Replaces, Live, Midway, Undoing, Working, Notes, WithPack, WithRelease, Kinds, disk,
     bounds
<1>8. FailedSwitchIsUndone'
  BY <1>1, RunFields DEF FailedSwitchIsUndone, Switches, Switched, Serves, NotYetRestarted,
     Started, Down, Working, Notes, Kinds, disk, bounds
<1> QED BY <1>2, <1>3, <1>4, <1>5, <1>6, <1>7, <1>8

LEMMA PrepareReplaceKeeps ==
  ASSUME ActivationInv, PrepareReplace
  PROVE  ActivationInv'
<1>1. /\ At("prepare") /\ Kind \in Packing /\ current # None
      /\ run'.target = Id /\ run'.previous \in registry.live /\ run'.previous # Id /\ run'.previous # None
      /\ run' \in RunType /\ run'.at = "backup"
      /\ run'.job = run.job /\ run'.noted = run.noted /\ run'.outcome = run.outcome
      /\ UNCHANGED <<disk, service, request, issued, history, broken, bounds>>
  <2>1. Id \in Release /\ run \in RunType /\ run.job.subject \in Release /\ run.job.subject # None
    BY RunFields, BoundsAssumption, NoneAssumption DEF PrepareReplace, Typed, Pack, Release
  <2>2. run' \in RunType
    BY <2>1 DEF PrepareReplace, RunType, Steps
  <2> QED BY <2>1, <2>2, RunFields DEF PrepareReplace, RunType
<1>2. Typed'
  BY <1>1, RunFields, BoundsAssumption DEF Typed, Fault, Breaks, Stores, Becomes, disk,
     bounds, history
<1>3. Working' /\ Notes'
  BY <1>1, RunFields, NoneAssumption DEF Working, Notes, WithPack, WithRelease, Kinds,
     Flags, disk, bounds
<1>4. Numbered' /\ Listing'
  BY <1>1, RunFields, NumbersStay DEF Working, Kinds, disk, bounds
<1>5. Switches'
  BY <1>1, RunFields DEF Switches, Switched, Installed, Whole, Usable, Working, Notes,
     WithRelease, Kinds, disk, bounds
<1>6. Replaces'
  BY <1>1, RunFields DEF Replaces, Live, Midway, Undoing, Working, Notes, WithPack, Kinds,
     Pack, Release, disk, bounds
<1>7. Serves'
  BY <1>1, RunFields DEF Serves, NotYetRestarted, Started, Down, Switches, Switched,
     Replaces, Live, Midway, Undoing, Working, Notes, WithPack, WithRelease, Kinds, disk,
     bounds
<1>8. FailedSwitchIsUndone'
  BY <1>1, RunFields DEF FailedSwitchIsUndone, Switches, Switched, Serves, NotYetRestarted,
     Started, Down, Working, Notes, Kinds, disk, bounds
<1> QED BY <1>2, <1>3, <1>4, <1>5, <1>6, <1>7, <1>8

LEMMA SwitchKeeps ==
  ASSUME ActivationInv, Switch
  PROVE  ActivationInv'
<1>1. /\ At("switch") /\ run.target \in Past /\ run.target # None
      /\ \/ current' = run.target /\ Moves("restart", run.noted \cup {"switched"})
            /\ UNCHANGED <<bounds, broken>>
         \/ Fault /\ Moves("restore", run.noted) /\ UNCHANGED <<current, broken>>
         \/ /\ Fault /\ Moves("restore", run.noted) /\ current' = run.target
            /\ IF Kind = "deploy" THEN Breaks("release") ELSE UNCHANGED broken
      /\ UNCHANGED <<releases, good, registry, service, request, issued, history>>
  <2>1. run.target \in Past /\ run.target # None
    BY RunFields, BoundsAssumption
       DEF Switch, Working, Past, Numbered, Switches, Switched, Usable, Release, Kinds
  <2> QED BY <2>1, RunFields, GoMoves, NotingMoves DEF Switch, Steps, Flags
<1>2. Typed'
  <2>1. broken' \subseteq {"release", "registry"} BY <1>1 DEF Typed, Breaks
  <2>2. faults' \in 0..MaxFaults /\ crashes' \in 0..MaxCrashes
    BY <1>1, BoundsAssumption DEF Typed, Fault, bounds
  <2> QED BY <1>1, <2>1, <2>2, RunFields, StartedTyped DEF Typed, Stores, disk, history
<1>3. Working' /\ Notes'
  BY <1>1, RunFields, NoneAssumption DEF Working, Notes, WithPack, WithRelease, Kinds, Flags
<1>4. Numbered' /\ Listing'
  BY <1>1 DEF Numbered, Past, Listing, history, disk
<1>5. Switches'
  BY <1>1, RunFields DEF Switches, Switched, Installed, Whole, Usable, Working, Notes,
     WithRelease, Kinds, Breaks
<1>6. Replaces'
  BY <1>1, PacksStay, RunFields DEF Working, Kinds, Breaks
<1>7. Serves'
  BY <1>1, RunFields DEF Serves, NotYetRestarted, Started, Down, Switches, Switched,
     Replaces, Live, Midway, Undoing, Working, Notes, WithPack, WithRelease, Kinds, Breaks
<1>8. FailedSwitchIsUndone'
  BY <1>1, RunFields DEF FailedSwitchIsUndone, Switches, Switched, Serves, NotYetRestarted,
     Started, Down, Working, Notes, Kinds, Breaks
<1> QED BY <1>2, <1>3, <1>4, <1>5, <1>6, <1>7, <1>8

LEMMA RestartKeeps ==
  ASSUME ActivationInv, Restart
  PROVE  ActivationInv'
<1>1. /\ At("restart")
      /\ \/ service' = Started /\ Moves("health", run.noted \cup {"restarted"}) /\ UNCHANGED bounds
         \/ Fault /\ service' = Down /\ Moves("restore", run.noted \cup {"restarted"})
      /\ UNCHANGED <<disk, request, issued, history, broken>>
  BY RunFields, GoMoves, NotingMoves DEF Restart, Steps, Flags
<1>2. Typed'
  <2>1. broken' \subseteq {"release", "registry"} BY <1>1 DEF Typed, Breaks
  <2>2. faults' \in 0..MaxFaults /\ crashes' \in 0..MaxCrashes
    BY <1>1, BoundsAssumption DEF Typed, Fault, bounds
  <2> QED BY <1>1, <2>1, <2>2, RunFields, StartedTyped DEF Typed, Stores, disk, history
<1>3. Working' /\ Notes'
  BY <1>1, RunFields, NoneAssumption DEF Working, Notes, WithPack, WithRelease, Kinds,
     Flags, disk, bounds
<1>4. Numbered' /\ Listing'
  BY <1>1, RunFields, NumbersStay DEF Working, Kinds, disk, bounds
<1>5. Switches'
  BY <1>1, RunFields DEF Switches, Switched, Installed, Whole, Usable, Working, Notes,
     WithRelease, Kinds, disk, bounds
<1>6. Replaces'
  BY <1>1, RunFields DEF Replaces, Live, Midway, Undoing, Working, Notes, WithPack, Kinds,
     Pack, Release, disk, bounds
<1>7. Serves'
  BY <1>1, RunFields DEF Serves, NotYetRestarted, Started, Down, Switches, Switched,
     Replaces, Live, Midway, Undoing, Working, Notes, WithPack, WithRelease, Kinds, disk,
     bounds
<1>8. FailedSwitchIsUndone'
  BY <1>1, RunFields DEF FailedSwitchIsUndone, Switches, Switched, Serves, NotYetRestarted,
     Started, Down, Working, Notes, Kinds, disk, bounds
<1> QED BY <1>2, <1>3, <1>4, <1>5, <1>6, <1>7, <1>8

LEMMA HealthKeeps ==
  ASSUME ActivationInv, Health
  PROVE  ActivationInv'
<1>1. /\ At("health")
      /\ \/ /\ service.release # None /\ releases[service.release] = "whole"
            /\ passed' = passed \cup {service.release}
            /\ Moves(IF Kind \in Packing THEN "drop" ELSE "record", run.noted)
         \/ Moves("restore", run.noted) /\ UNCHANGED passed
      /\ passed \subseteq passed'
      /\ UNCHANGED <<disk, service, request, issued, left, broken, bounds>>
  BY RunFields, GoMoves DEF Health, Steps
<1>2. Typed'
  BY <1>1, RunFields, BoundsAssumption DEF Typed, Fault, Breaks, Stores, Becomes, disk,
     bounds, history
<1>3. Working' /\ Notes'
  BY <1>1, RunFields, NoneAssumption DEF Working, Notes, WithPack, WithRelease, Kinds,
     Flags, disk, bounds
<1>4. Numbered' /\ Listing'
  BY <1>1 DEF Numbered, Past, Listing, disk, bounds
<1>5. Switches'
  <2>1. service.release = current BY <1>1, StartedTyped DEF Serves
  <2> QED BY <1>1, <2>1, RunFields
       DEF Switches, Switched, Installed, Whole, Usable, Working, Notes, WithRelease, Kinds, disk
<1>6. Replaces'
  BY <1>1, RunFields DEF Replaces, Live, Midway, Undoing, Working, Notes, WithPack, Kinds,
     Pack, Release, disk, bounds
<1>7. Serves'
  BY <1>1, RunFields DEF Serves, NotYetRestarted, Started, Down, Switches, Switched,
     Replaces, Live, Midway, Undoing, Working, Notes, WithPack, WithRelease, Kinds, disk,
     bounds
<1>8. FailedSwitchIsUndone'
  BY <1>1, RunFields DEF FailedSwitchIsUndone, Switches, Switched, Serves, NotYetRestarted,
     Started, Down, Working, Notes, Kinds, disk, bounds
<1> QED BY <1>2, <1>3, <1>4, <1>5, <1>6, <1>7, <1>8

LEMMA BackupKeeps ==
  ASSUME ActivationInv, Backup
  PROVE  ActivationInv'
<1>1. /\ At("backup")
      /\ \/ /\ Stores(registry.live, registry.retired) /\ UNCHANGED bounds
            /\ Moves(IF Kind = "update" THEN "retire" ELSE "publish", run.noted)
         \/ (Fault \/ UNCHANGED bounds) /\ Moves("error", run.noted) /\ UNCHANGED registry
      /\ UNCHANGED <<current, releases, good, service, request, issued, history, broken>>
  <2>1. Id \in Pack BY RunFields DEF Backup, Pack, Release
  <2>2. registry' = [registry EXCEPT !.backups = @ \cup {Id}]
          => Stores(registry.live, registry.retired)
    BY <2>1 DEF Typed, Stores
  <2> QED BY <2>2, RunFields, GoMoves DEF Backup, AfterBackup, Steps
<1>2. Typed'
  BY <1>1, RunFields, BoundsAssumption DEF Typed, Fault, Breaks, Stores, Becomes, bounds,
     history
<1>3. Working' /\ Notes'
  BY <1>1, RunFields, NoneAssumption DEF Working, Notes, WithPack, WithRelease, Kinds, Flags
<1>4. Numbered' /\ Listing'
  BY <1>1, RunFields, NumbersStay DEF Working, Kinds, disk
<1>5. Switches'
  BY <1>1, ReleasesStay, RunFields DEF Working, Breaks, Stores
<1>6. Replaces'
  BY <1>1, RunFields DEF Replaces, Live, Midway, Undoing, Working, Notes, WithPack, Kinds,
     Pack, Release, Stores
<1>7. Serves'
  BY <1>1, RunFields DEF Serves, NotYetRestarted, Started, Down, Switches, Switched,
     Replaces, Live, Midway, Undoing, Working, Notes, WithPack, WithRelease, Kinds, Stores
<1>8. FailedSwitchIsUndone'
  BY <1>1, RunFields DEF FailedSwitchIsUndone, Switches, Switched, Serves, NotYetRestarted,
     Started, Down, Working, Notes, Kinds, Stores
<1> QED BY <1>2, <1>3, <1>4, <1>5, <1>6, <1>7, <1>8

LEMMA RetireKeeps ==
  ASSUME ActivationInv, Retire
  PROVE  ActivationInv'
<1>1. /\ At("retire")
      /\ \/ /\ Stores(registry.live \ {run.previous}, registry.retired \cup {run.previous})
            /\ Moves(IF Kind = "update" THEN "publish" ELSE "restart", run.noted \cup {"moved"})
            /\ UNCHANGED <<bounds, broken>>
         \/ Fault /\ Moves("restore", run.noted) /\ UNCHANGED <<registry, broken>>
         \/ /\ Fault /\ Stores(registry.live \ {run.previous}, registry.retired \cup {run.previous})
            /\ \/ Moves("restore", run.noted \cup {"moved"}) /\ UNCHANGED broken
               \/ Moves("restore", run.noted) /\ Breaks("registry")
      /\ UNCHANGED <<current, releases, good, service, request, issued, history>>
  <2>1. run.previous \in Pack
    BY RunFields DEF Retire, Working, Pack, Release
  <2>2. Retired => Stores(registry.live \ {run.previous}, registry.retired \cup {run.previous})
    <3> DEFINE L == registry.live \ {run.previous}
               R == registry.retired \cup {run.previous}
    <3>1. L \in SUBSET Pack /\ R \in SUBSET Pack BY <2>1 DEF Typed
    <3>2. Retired => registry' = [registry EXCEPT !.live = L, !.retired = R] BY DEF Retired
    <3> HIDE DEF L, R
    <3>3. Retired => Stores(L, R) BY <3>1, <3>2, RegistryBecomes
    <3> QED BY <3>3 DEF L, R
  <2> QED BY <2>2, RunFields, GoMoves, NotingMoves DEF Retire, AfterRetire, Steps, Flags
<1>2. Typed'
  <2>1. broken' \subseteq {"release", "registry"} BY <1>1 DEF Typed, Breaks
  <2>2. faults' \in 0..MaxFaults /\ crashes' \in 0..MaxCrashes
    BY <1>1, BoundsAssumption DEF Typed, Fault, bounds
  <2> QED BY <1>1, <2>1, <2>2, RunFields, StartedTyped DEF Typed, Stores, disk, history
<1>3. Working' /\ Notes'
  BY <1>1, RunFields, NoneAssumption DEF Working, Notes, WithPack, WithRelease, Kinds, Flags
<1>4. Numbered' /\ Listing'
  BY <1>1, RunFields, NumbersStay DEF Working, Kinds, disk
<1>5. Switches'
  BY <1>1, ReleasesStay, RunFields DEF Working, Breaks, Stores
<1>6. Replaces'
  BY <1>1, RunFields DEF Replaces, Live, Midway, Undoing, Working, Notes, WithPack, Kinds,
     Pack, Release, Breaks, Stores
<1>7. Serves'
  BY <1>1, RunFields DEF Serves, NotYetRestarted, Started, Down, Switches, Switched,
     Replaces, Live, Midway, Undoing, Working, Notes, WithPack, WithRelease, Kinds, Breaks,
     Stores
<1>8. FailedSwitchIsUndone'
  BY <1>1, RunFields DEF FailedSwitchIsUndone, Switches, Switched, Serves, NotYetRestarted,
     Started, Down, Working, Notes, Kinds, Breaks, Stores
<1> QED BY <1>2, <1>3, <1>4, <1>5, <1>6, <1>7, <1>8

LEMMA PublishKeeps ==
  ASSUME ActivationInv, Publish
  PROVE  ActivationInv'
<1>1. /\ At("publish")
      /\ \/ /\ Stores(registry.live \cup {Id}, registry.retired)
            /\ Moves(IF Kind = "update" THEN "restart" ELSE "retire", run.noted \cup {"published"})
            /\ UNCHANGED <<bounds, broken>>
         \/ Fault /\ Moves("restore", run.noted) /\ UNCHANGED <<registry, broken>>
         \/ /\ Fault /\ Stores(registry.live \cup {Id}, registry.retired)
            /\ Moves("restore", run.noted) /\ Breaks("registry")
      /\ UNCHANGED <<current, releases, good, service, request, issued, history>>
  <2>1. Published => Stores(registry.live \cup {Id}, registry.retired)
    BY RunFields DEF Publish, Typed, Stores, Published, Pack, Release
  <2> QED BY <2>1, RunFields, GoMoves, NotingMoves DEF Publish, AfterPublish, Steps, Flags
<1>2. Typed'
  <2>1. broken' \subseteq {"release", "registry"} BY <1>1 DEF Typed, Breaks
  <2>2. faults' \in 0..MaxFaults /\ crashes' \in 0..MaxCrashes
    BY <1>1, BoundsAssumption DEF Typed, Fault, bounds
  <2> QED BY <1>1, <2>1, <2>2, RunFields, StartedTyped DEF Typed, Stores, disk, history
<1>3. Working' /\ Notes'
  BY <1>1, RunFields, NoneAssumption DEF Working, Notes, WithPack, WithRelease, Kinds, Flags
<1>4. Numbered' /\ Listing'
  BY <1>1, RunFields, NumbersStay DEF Working, Kinds, disk
<1>5. Switches'
  BY <1>1, ReleasesStay, RunFields DEF Working, Breaks, Stores
<1>6. Replaces'
  BY <1>1, RunFields DEF Replaces, Live, Midway, Undoing, Working, Notes, WithPack, Kinds,
     Pack, Release, Breaks, Stores
<1>7. Serves'
  BY <1>1, RunFields DEF Serves, NotYetRestarted, Started, Down, Switches, Switched,
     Replaces, Live, Midway, Undoing, Working, Notes, WithPack, WithRelease, Kinds, Breaks,
     Stores
<1>8. FailedSwitchIsUndone'
  BY <1>1, RunFields DEF FailedSwitchIsUndone, Switches, Switched, Serves, NotYetRestarted,
     Started, Down, Working, Notes, Kinds, Breaks, Stores
<1> QED BY <1>2, <1>3, <1>4, <1>5, <1>6, <1>7, <1>8

LEMMA DropRetiredKeeps ==
  ASSUME ActivationInv, DropRetired
  PROVE  ActivationInv'
<1>1. /\ At("drop")
      /\ \/ /\ Stores(registry.live, registry.retired \ {run.previous})
            /\ Moves("answer", run.noted) /\ UNCHANGED bounds
         \/ Fault /\ Moves("restore", run.noted) /\ UNCHANGED registry
      /\ UNCHANGED <<current, releases, good, service, request, issued, history, broken>>
  <2>1. registry' = [registry EXCEPT !.retired = @ \ {run.previous}]
          => Stores(registry.live, registry.retired \ {run.previous})
    BY DEF Typed, Stores
  <2> QED BY <2>1, RunFields, GoMoves DEF DropRetired, Steps
<1>2. Typed'
  BY <1>1, RunFields, BoundsAssumption DEF Typed, Fault, Breaks, Stores, Becomes, bounds,
     history
<1>3. Working' /\ Notes'
  BY <1>1, RunFields, NoneAssumption DEF Working, Notes, WithPack, WithRelease, Kinds, Flags
<1>4. Numbered' /\ Listing'
  BY <1>1, RunFields, NumbersStay DEF Working, Kinds, disk
<1>5. Switches'
  BY <1>1, RunFields DEF Switches, Switched, Installed, Whole, Usable, Working, Notes,
     WithRelease, Kinds, Stores
<1>6. Replaces'
  BY <1>1, RunFields DEF Replaces, Live, Midway, Undoing, Working, Notes, WithPack, Kinds,
     Pack, Release, Stores
<1>7. Serves'
  BY <1>1, RunFields DEF Serves, NotYetRestarted, Started, Down, Switches, Switched,
     Replaces, Live, Midway, Undoing, Working, Notes, WithPack, WithRelease, Kinds, Stores
<1>8. FailedSwitchIsUndone'
  BY <1>1, RunFields DEF FailedSwitchIsUndone, Switches, Switched, Serves, NotYetRestarted,
     Started, Down, Working, Notes, Kinds, Stores
<1> QED BY <1>2, <1>3, <1>4, <1>5, <1>6, <1>7, <1>8

LEMMA RestoreKeeps ==
  ASSUME ActivationInv, Restore
  PROVE  ActivationInv'
<1>1. /\ At("restore") /\ Kind \in Switching
      /\ \/ /\ current' = IF Kind = "rollback" \/ Noted("switched") THEN run.previous ELSE current
            /\ Moves(IF Kind = "deploy" /\ ~Noted("switched") THEN "remove" ELSE "again", run.noted)
            /\ UNCHANGED <<bounds, broken>>
         \/ Fault /\ Moves("error", run.noted) /\ UNCHANGED current /\ Breaks("release")
      /\ UNCHANGED <<releases, good, registry, service, request, issued, history>>
  BY RunFields, GoMoves DEF Restore, RestoreRelease, AfterRestore, Steps
<1>2. Typed'
  <2>1. broken' \subseteq {"release", "registry"} BY <1>1 DEF Typed, Breaks
  <2>2. faults' \in 0..MaxFaults /\ crashes' \in 0..MaxCrashes
    BY <1>1, BoundsAssumption DEF Typed, Fault, bounds
  <2> QED BY <1>1, <2>1, <2>2, RunFields, StartedTyped DEF Typed, Stores, disk, history
<1>3. Working' /\ Notes'
  BY <1>1, RunFields, NoneAssumption DEF Working, Notes, WithPack, WithRelease, Kinds, Flags
<1>4. Numbered' /\ Listing'
  BY <1>1, RunFields DEF Numbered, Past, Listing, history
<1>5. Switches'
  BY <1>1, RunFields DEF Switches, Switched, Installed, Whole, Usable, Working, Notes,
     WithRelease, Kinds, Breaks
<1>6. Replaces'
  BY <1>1, PacksStay DEF Breaks
<1>7. Serves'
  BY <1>1, RunFields DEF Serves, NotYetRestarted, Started, Down, Switches, Switched,
     Replaces, Live, Midway, Undoing, Working, Notes, WithPack, WithRelease, Kinds, Breaks
<1>8. FailedSwitchIsUndone'
  BY <1>1, RunFields DEF FailedSwitchIsUndone, Switches, Switched, Serves, NotYetRestarted,
     Started, Down, Working, Notes, Kinds, Breaks
<1> QED BY <1>2, <1>3, <1>4, <1>5, <1>6, <1>7, <1>8

LEMMA UnpublishKeeps ==
  ASSUME ActivationInv, Unpublish
  PROVE  ActivationInv'
<1>1. /\ At("restore") /\ Kind \in Packing
      /\ \/ /\ Stores(IF Noted("published") THEN registry.live \ {Id} ELSE registry.live,
                   registry.retired)
            /\ Moves("unretire", run.noted) /\ UNCHANGED <<bounds, broken>>
         \/ /\ Fault /\ UNCHANGED registry /\ Breaks("registry")
            /\ Moves(IF Noted("restarted") THEN "again" ELSE "error", run.noted)
      /\ UNCHANGED <<current, releases, good, service, request, issued, history>>
  <2>1. registry' = [registry EXCEPT !.live = IF Noted("published") THEN @ \ {Id} ELSE @]
          => Stores(IF Noted("published") THEN registry.live \ {Id} ELSE registry.live,
                    registry.retired)
    BY DEF Typed, Stores
  <2> QED BY <2>1, RunFields, GoMoves DEF Unpublish, AfterUnretire, Steps
<1>2. Typed'
  <2>1. broken' \subseteq {"release", "registry"} BY <1>1 DEF Typed, Breaks
  <2>2. faults' \in 0..MaxFaults /\ crashes' \in 0..MaxCrashes
    BY <1>1, BoundsAssumption DEF Typed, Fault, bounds
  <2> QED BY <1>1, <2>1, <2>2, RunFields, StartedTyped DEF Typed, Stores, disk, history
<1>3. Working' /\ Notes'
  BY <1>1, RunFields, NoneAssumption DEF Working, Notes, WithPack, WithRelease, Kinds, Flags
<1>4. Numbered' /\ Listing'
  BY <1>1, RunFields, NumbersStay DEF Working, Kinds, disk
<1>5. Switches'
  BY <1>1, ReleasesStay DEF Breaks, Stores
<1>6. Replaces'
  BY <1>1, RunFields DEF Replaces, Live, Midway, Undoing, Working, Notes, WithPack, Kinds,
     Pack, Release, Breaks, Stores
<1>7. Serves'
  BY <1>1, RunFields DEF Serves, NotYetRestarted, Started, Down, Switches, Switched,
     Replaces, Live, Midway, Undoing, Working, Notes, WithPack, WithRelease, Kinds, Breaks,
     Stores
<1>8. FailedSwitchIsUndone'
  BY <1>1, RunFields DEF FailedSwitchIsUndone, Switches, Switched, Serves, NotYetRestarted,
     Started, Down, Working, Notes, Kinds, Breaks, Stores
<1> QED BY <1>2, <1>3, <1>4, <1>5, <1>6, <1>7, <1>8

LEMMA UnretireKeeps ==
  ASSUME ActivationInv, Unretire
  PROVE  ActivationInv'
<1>1. /\ At("unretire") /\ Moves(IF Noted("restarted") THEN "again" ELSE "error", run.noted)
      /\ \/ /\ Noted("moved") /\ run.previous \in registry.retired
            /\ Stores(registry.live \cup {run.previous}, registry.retired \ {run.previous})
            /\ UNCHANGED <<bounds, broken>>
         \/ ~Noted("moved") /\ UNCHANGED <<registry, bounds, broken>>
         \/ (Fault \/ UNCHANGED bounds) /\ UNCHANGED registry /\ Breaks("registry")
      /\ UNCHANGED <<current, releases, good, service, request, issued, history>>
  <2>1. run.previous \in registry.retired => run.previous \in Pack BY DEF Typed
  <2>2. Unretired /\ run.previous \in registry.retired
          => Stores(registry.live \cup {run.previous}, registry.retired \ {run.previous})
    <3> DEFINE L == registry.live \cup {run.previous}
               R == registry.retired \ {run.previous}
    <3>1. run.previous \in registry.retired => L \in SUBSET Pack /\ R \in SUBSET Pack
      BY <2>1 DEF Typed
    <3>2. Unretired => registry' = [registry EXCEPT !.live = L, !.retired = R] BY DEF Unretired
    <3> HIDE DEF L, R
    <3>3. Unretired /\ run.previous \in registry.retired => Stores(L, R)
      BY <3>1, <3>2, RegistryBecomes
    <3> QED BY <3>3 DEF L, R
  <2> QED BY <2>2, RunFields, GoMoves DEF Unretire, AfterUnretire, MayUnretire, Steps
<1>2. Typed'
  <2>1. broken' \subseteq {"release", "registry"} BY <1>1 DEF Typed, Breaks
  <2>2. faults' \in 0..MaxFaults /\ crashes' \in 0..MaxCrashes
    BY <1>1, BoundsAssumption DEF Typed, Fault, bounds
  <2> QED BY <1>1, <2>1, <2>2, RunFields, StartedTyped DEF Typed, Stores, disk, history
<1>3. Working' /\ Notes'
  BY <1>1, RunFields, NoneAssumption DEF Working, Notes, WithPack, WithRelease, Kinds, Flags
<1>4. Numbered' /\ Listing'
  BY <1>1, RunFields, NumbersStay DEF Working, Kinds, disk
<1>5. Switches'
  BY <1>1, ReleasesStay, RunFields DEF Breaks, Working, Stores
<1>6. Replaces'
  BY <1>1, RunFields DEF Replaces, Live, Midway, Undoing, Working, Notes, WithPack, Kinds,
     Pack, Release, Breaks, Stores
<1>7. Serves'
  BY <1>1, RunFields DEF Serves, NotYetRestarted, Started, Down, Switches, Switched,
     Replaces, Live, Midway, Undoing, Working, Notes, WithPack, WithRelease, Kinds, Breaks,
     Stores
<1>8. FailedSwitchIsUndone'
  BY <1>1, RunFields DEF FailedSwitchIsUndone, Switches, Switched, Serves, NotYetRestarted,
     Started, Down, Working, Notes, Kinds, Breaks, Stores
<1> QED BY <1>2, <1>3, <1>4, <1>5, <1>6, <1>7, <1>8

LEMMA RestartAgainKeeps ==
  ASSUME ActivationInv, RestartAgain
  PROVE  ActivationInv'
<1>1. /\ At("again") /\ Moves(IF Kind = "deploy" THEN "remove" ELSE "error", run.noted)
      /\ \/ service' = Started /\ UNCHANGED <<bounds, broken>>
         \/ Fault /\ service' = Down /\ Breaks("release")
      /\ UNCHANGED <<disk, request, issued, history>>
  BY RunFields, GoMoves DEF RestartAgain, AfterAgain, Steps
<1>2. Typed'
  <2>1. broken' \subseteq {"release", "registry"} BY <1>1 DEF Typed, Breaks
  <2>2. faults' \in 0..MaxFaults /\ crashes' \in 0..MaxCrashes
    BY <1>1, BoundsAssumption DEF Typed, Fault, bounds
  <2> QED BY <1>1, <2>1, <2>2, RunFields, StartedTyped DEF Typed, Stores, disk, history
<1>3. Working' /\ Notes'
  BY <1>1, RunFields, NoneAssumption DEF Working, Notes, WithPack, WithRelease, Kinds,
     Flags, disk, bounds
<1>4. Numbered' /\ Listing'
  BY <1>1, RunFields, NumbersStay DEF Working, Kinds, disk, bounds
<1>5. Switches'
  BY <1>1, RunFields DEF Switches, Switched, Installed, Whole, Usable, Working, Notes,
     WithRelease, Kinds, disk, bounds, Breaks
<1>6. Replaces'
  BY <1>1, RunFields DEF Replaces, Live, Midway, Undoing, Working, Notes, WithPack, Kinds,
     Pack, Release, disk, bounds, Breaks
<1>7. Serves'
  BY <1>1, RunFields DEF Serves, NotYetRestarted, Started, Down, Switches, Switched,
     Replaces, Live, Midway, Undoing, Working, Notes, WithPack, WithRelease, Kinds, disk,
     bounds, Breaks
<1>8. FailedSwitchIsUndone'
  BY <1>1, RunFields DEF FailedSwitchIsUndone, Switches, Switched, Serves, NotYetRestarted,
     Started, Down, Working, Notes, Kinds, disk, bounds, Breaks
<1> QED BY <1>2, <1>3, <1>4, <1>5, <1>6, <1>7, <1>8

LEMMA RemoveReleaseKeeps ==
  ASSUME ActivationInv, RemoveRelease
  PROVE  ActivationInv'
<1>1. /\ At("remove") /\ Moves("error", run.noted) /\ run.target = Id
      /\ \/ Becomes(Id, "absent") /\ UNCHANGED bounds
         \/ Fault /\ (UNCHANGED releases \/ Becomes(Id, "partial"))
      /\ UNCHANGED <<current, good, registry, service, request, issued, history, broken>>
  <2>1. Id \in Release /\ run.target = Id
    BY RunFields DEF RemoveRelease, Working
  <2> QED BY <2>1, RunFields, GoMoves, ReleaseBecomes DEF RemoveRelease, Steps
<1>2. Typed'
  BY <1>1, RunFields, BoundsAssumption DEF Typed, Fault, Breaks, Stores, Becomes, bounds,
     history
<1>3. Working' /\ Notes'
  BY <1>1, RunFields, NoneAssumption DEF Working, Notes, WithPack, WithRelease, Kinds, Flags
<1>4. Numbered' /\ Listing'
  BY <1>1, BoundsAssumption, RunFields DEF Numbered, Past, Listing, Becomes, Release,
     Working, history, disk
<1>5. Switches'
  BY <1>1, RunFields DEF Switches, Switched, Installed, Whole, Usable, Working, Notes,
     WithRelease, Kinds, Becomes
<1>6. Replaces'
  BY <1>1, PacksStay, RunFields DEF Working, Kinds, Breaks
<1>7. Serves'
  BY <1>1, RunFields DEF Serves, NotYetRestarted, Started, Down, Switches, Switched,
     Replaces, Live, Midway, Undoing, Working, Notes, WithPack, WithRelease, Kinds, Becomes
<1>8. FailedSwitchIsUndone'
  BY <1>1, RunFields DEF FailedSwitchIsUndone, Switches, Switched, Serves, NotYetRestarted,
     Started, Down, Working, Notes, Kinds, Becomes
<1> QED BY <1>2, <1>3, <1>4, <1>5, <1>6, <1>7, <1>8

LEMMA AnswerKeeps ==
  ASSUME ActivationInv, Answer
  PROVE  ActivationInv'
<1>1. /\ At("answer")
      /\ \/ /\ run' \in RunType /\ run'.at = "cleanup" /\ run'.job = run.job /\ run'.noted = run.noted
               /\ run'.target = run.target /\ run'.previous = run.previous
            /\ UNCHANGED bounds /\ broken' = broken \ {"release"}
         \/ /\ Fault /\ Moves(IF Kind = "rollback" THEN "error" ELSE "restore", run.noted)
            /\ UNCHANGED broken
      /\ UNCHANGED <<disk, service, request, issued, history>>
  <2>1. run \in RunType BY RunFields
  <2>2. Answered("ok") => run' \in RunType
    BY <2>1 DEF Answered, RunType, Steps, Outcomes
  <2> QED BY <2>1, <2>2, RunFields, GoMoves DEF Answer, Answered, Steps, RunType
<1>2. Typed'
  <2>1. broken' \subseteq {"release", "registry"} BY <1>1 DEF Typed, Breaks
  <2>2. faults' \in 0..MaxFaults /\ crashes' \in 0..MaxCrashes
    BY <1>1, BoundsAssumption DEF Typed, Fault, bounds
  <2> QED BY <1>1, <2>1, <2>2, RunFields, StartedTyped DEF Typed, Stores, disk, history
<1>3. Working' /\ Notes'
  BY <1>1, RunFields, NoneAssumption DEF Working, Notes, WithPack, WithRelease, Kinds,
     Flags, disk, bounds
<1>4. Numbered' /\ Listing'
  BY <1>1, RunFields, NumbersStay DEF Working, Kinds, disk, bounds
<1>5. Switches'
  BY <1>1, RunFields DEF Switches, Switched, Installed, Whole, Usable, Working, Notes,
     WithRelease, Kinds, disk, bounds
<1>6. Replaces'
  BY <1>1, RunFields DEF Replaces, Live, Midway, Undoing, Working, Notes, WithPack, Kinds,
     Pack, Release, disk, bounds
<1>7. Serves'
  BY <1>1, RunFields DEF Serves, NotYetRestarted, Started, Down, Switches, Switched,
     Replaces, Live, Midway, Undoing, Working, Notes, WithPack, WithRelease, Kinds, disk,
     bounds
<1>8. FailedSwitchIsUndone'
  <2>1. service.release = current BY <1>1, StartedTyped DEF Serves
  <2> QED BY <1>1, <2>1, RunFields DEF FailedSwitchIsUndone, Switches, Switched, Kinds, disk, history
<1> QED BY <1>2, <1>3, <1>4, <1>5, <1>6, <1>7, <1>8

LEMMA AnswerErrorKeeps ==
  ASSUME ActivationInv, AnswerError
  PROVE  ActivationInv'
<1>1. /\ At("error")
      /\ run' \in RunType /\ run'.at = "cleanup" /\ run'.job = run.job /\ run'.noted = run.noted
      /\ run'.target = run.target /\ run'.previous = run.previous
      /\ UNCHANGED <<disk, service, request, issued, history, broken, bounds>>
  <2>1. run \in RunType BY RunFields
  <2>2. run' \in RunType
    BY <2>1 DEF AnswerError, Answered, RunType, Steps, Outcomes
  <2> QED BY <2>1, <2>2 DEF AnswerError, Answered, RunType
<1>2. Typed'
  BY <1>1, RunFields, BoundsAssumption DEF Typed, Fault, Breaks, Stores, Becomes, disk,
     bounds, history
<1>3. Working' /\ Notes'
  BY <1>1, RunFields, NoneAssumption DEF Working, Notes, WithPack, WithRelease, Kinds,
     Flags, disk, bounds
<1>4. Numbered' /\ Listing'
  BY <1>1, RunFields, NumbersStay DEF Working, Kinds, disk, bounds
<1>5. Switches'
  BY <1>1, RunFields DEF Switches, Switched, Installed, Whole, Usable, Working, Notes,
     WithRelease, Kinds, disk, bounds
<1>6. Replaces'
  BY <1>1, PacksStay, RunFields DEF Working, Kinds, Breaks, disk, bounds
<1>7. Serves'
  BY <1>1, RunFields DEF Serves, NotYetRestarted, Started, Down, Switches, Switched,
     Replaces, Live, Midway, Undoing, Working, Notes, WithPack, WithRelease, Kinds, disk,
     bounds
<1>8. FailedSwitchIsUndone'
  BY <1>1, RunFields DEF FailedSwitchIsUndone, Switches, Switched, Serves, NotYetRestarted,
     Started, Down, Working, Notes, Kinds, disk, bounds
<1> QED BY <1>2, <1>3, <1>4, <1>5, <1>6, <1>7, <1>8

LEMMA CleanupKeeps ==
  ASSUME ActivationInv, Cleanup
  PROVE  ActivationInv'
<1>1. /\ At("cleanup") /\ run' = NoRun /\ NoRun \in RunType
      /\ \/ request' = None /\ UNCHANGED bounds
         \/ Fault /\ UNCHANGED request
      /\ UNCHANGED <<disk, service, issued, history, broken>>
  <2>1. NoRun \in RunType BY DEF NoRun, RunType, Steps, Outcomes
  <2> QED BY <2>1 DEF Cleanup, Taken
<1>2. Typed'
  BY <1>1, RunFields, BoundsAssumption DEF Typed, Fault, Breaks, Stores, Becomes, NoRun,
     disk, bounds, history
<1>3. Working' /\ Notes'
  BY <1>1, RunFields, NoneAssumption DEF Working, Notes, WithPack, WithRelease, Kinds,
     Flags, NoRun, disk, bounds
<1>4. Numbered' /\ Listing'
  BY <1>1, BoundsAssumption, RunFields DEF Numbered, Past, Listing, Working, history, Typed,
     NoRun, disk, bounds
<1>5. Switches'
  BY <1>1, RunFields DEF Switches, Switched, Installed, Whole, Usable, Working, Notes,
     WithRelease, Kinds, NoRun, disk, bounds
<1>6. Replaces'
  BY <1>1, PacksStay DEF NoRun, disk, bounds
<1>7. Serves'
  BY <1>1, RunFields DEF Serves, NotYetRestarted, Started, Down, Switches, Switched,
     Replaces, Live, Midway, Undoing, Working, Notes, WithPack, WithRelease, Kinds, NoRun,
     disk, bounds
<1>8. FailedSwitchIsUndone'
  BY <1>1, RunFields DEF FailedSwitchIsUndone, Switches, Switched, Serves, NotYetRestarted,
     Started, Down, Working, Notes, Kinds, NoRun, disk, bounds
<1> QED BY <1>2, <1>3, <1>4, <1>5, <1>6, <1>7, <1>8

LEMMA CrashKeeps ==
  ASSUME ActivationInv, Crash
  PROVE  ActivationInv'
<1>1. /\ run.at # "idle" /\ run' = NoRun /\ NoRun \in RunType
      /\ crashes < MaxCrashes /\ crashes' = crashes + 1 /\ faults' = faults
      /\ service' \in {service, Started}
      /\ broken' = broken \cup Abandoned
      /\ UNCHANGED <<disk, request, issued, history>>
  <2>1. NoRun \in RunType BY DEF NoRun, RunType, Steps, Outcomes
  <2> QED BY <2>1 DEF Crash
<1>2. Typed'
  <2>1. broken' \subseteq {"release", "registry"} BY <1>1 DEF Typed, Abandoned
  <2>2. faults' \in 0..MaxFaults /\ crashes' \in 0..MaxCrashes
    BY <1>1, BoundsAssumption DEF Typed
  <2> QED BY <1>1, <2>1, <2>2, StartedTyped DEF Typed, disk, history
<1>3. Working' /\ Notes'
  BY <1>1, RunFields, NoneAssumption DEF Working, Notes, WithPack, WithRelease, Kinds,
     Flags, NoRun, Abandoned, Unproven, disk, bounds
<1>4. Numbered' /\ Listing'
  BY <1>1, RunFields, NumbersStay DEF Working, Kinds, NoRun, Abandoned, Unproven, disk,
     bounds
<1>5. Switches'
  BY <1>1, RunFields DEF Switches, Switched, Installed, Whole, Usable, Working, Notes,
     WithRelease, Kinds, NoRun, Abandoned, Unproven, disk, bounds
<1>6. Replaces'
  <2> SUFFICES ASSUME Unbroken("registry")' PROVE Replaces'
    BY DEF Replaces
  <2>1. CASE run.at \in Rest \/ Kind \in Switching
    BY <1>1, <2>1 DEF Replaces, Live, NoRun, disk
  <2>2. CASE run.at = "answer" /\ Kind \in Packing
    BY <1>1, <2>2, RunFields DEF Replaces, Live, NoRun, disk, Pack, Release
  <2>3. CASE run.at \notin Rest \cup {"answer"} /\ Kind \in Packing
    BY <1>1, <2>3, AbandonedPacks, RunFields DEF Replaces, Live, NoRun, disk, Pack, Release, Working
  <2> QED BY <1>1, <2>1, <2>2, <2>3, RunFields DEF Kinds
<1>7. Serves'
  <2>1. \/ /\ service'.release = current
           /\ current # None => service'.packs = registry.live
        \/ /\ service' = service
           /\ run.at \notin {"health", "record", "drop", "answer"}
    BY <1>1, StartedTyped DEF Serves
  <2>2. Unbroken("release")' => service'.release = current
    BY <1>1, <2>1, RunFields
       DEF Serves, NotYetRestarted, Abandoned, Unproven, Notes, WithPack, Kinds, Steps, Working
  <2>3. broken' = {} /\ current # None => service'.packs = registry.live
    BY <1>1, <2>1, AbandonedPacks, RunFields
       DEF Serves, NotYetRestarted, Abandoned, Unproven, Notes, WithPack, Kinds, Steps, Working, Live
  <2> QED BY <1>1, <2>2, <2>3 DEF Serves, NotYetRestarted, NoRun, disk
<1>8. FailedSwitchIsUndone'
  BY <1>1, RunFields DEF FailedSwitchIsUndone, Switches, Switched, Serves, NotYetRestarted,
     Started, Down, Working, Notes, Kinds, NoRun, Abandoned, Unproven, disk, bounds
<1> QED BY <1>2, <1>3, <1>4, <1>5, <1>6, <1>7, <1>8

LEMMA AskKeeps ==
  ASSUME ActivationInv, Ask
  PROVE  ActivationInv'
<1>1. /\ request = None /\ run = NoRun
      /\ issued \in Nat /\ issued' = issued + 1 /\ issued < MaxRequests
      /\ request' # None /\ request'.id = issued + 1 /\ request' \in Job
      /\ UNCHANGED <<disk, service, run, history, broken, bounds>>
  <2>1. PICK kind \in Kinds, subject \in Release \cup {None} : Submit(kind, subject)
    <3>1. issued \in 0..MaxRequests /\ registry.live \subseteq Pack
      BY DEF ActivationInv, Typed
    <3>2. 0..issued \subseteq Release /\ Pack \subseteq Release
      BY <3>1, BoundsAssumption DEF Release, Pack
    <3>3. CASE Submit("deploy", None)
      BY <3>3 DEF Kinds, Switching
    <3>4. ASSUME NEW r \in 0..issued \cup {None}, Submit("rollback", r)
          PROVE  \E kind \in Kinds, subject \in Release \cup {None} : Submit(kind, subject)
      BY <3>2, <3>4 DEF Kinds, Switching
    <3>5. ASSUME NEW kind \in Packing, NEW p \in registry.live, Submit(kind, p)
          PROVE  \E k \in Kinds, subject \in Release \cup {None} : Submit(k, subject)
      BY <3>1, <3>2, <3>5 DEF Kinds
    <3> QED BY <3>3, <3>4, <3>5 DEF Ask
  <2>2. issued + 1 \in Release BY <2>1, BoundsAssumption DEF Submit, Typed, Release
  <2>3. request' = [id |-> issued + 1, kind |-> kind, subject |-> subject]
    BY <2>1 DEF Submit
  <2>4. request' \in Job BY <2>2, <2>3 DEF Job
  <2>5. request' # None
    <3>1. /\ issued + 1 \in Int /\ subject \in Int \cup {None}
          /\ kind \in {"deploy", "rollback", "replace", "update"}
      BY <2>1, <2>2, BoundsAssumption DEF Release, Kinds
    <3> QED BY <2>3, <3>1, NoneAssumption
  <2>6. issued \in Nat BY BoundsAssumption DEF Typed
  <2> QED BY <2>1, <2>3, <2>4, <2>5, <2>6 DEF Submit, Working
<1>2. Typed'
  BY <1>1, BoundsAssumption DEF Typed, disk, bounds, history
<1>3. Working' /\ Notes'
  BY <1>1 DEF Working, Notes, NoRun
<1>4. Numbered' /\ Listing'
  BY <1>1, BoundsAssumption DEF Numbered, Past, Listing, Typed, NoRun, disk, history
<1>5. Switches'
  BY <1>1 DEF Switches, Whole, NoRun, disk
<1>6. Replaces'
  BY <1>1, PacksStay DEF NoRun, disk
<1>7. Serves'
  BY <1>1 DEF Serves, NotYetRestarted, NoRun, disk
<1>8. FailedSwitchIsUndone'
  BY <1>1 DEF FailedSwitchIsUndone, NoRun
<1> QED BY <1>2, <1>3, <1>4, <1>5, <1>6, <1>7, <1>8

LEMMA StartKeeps ==
  ASSUME ActivationInv, Start
  PROVE  ActivationInv'
<1>1. /\ At("idle") /\ request # None /\ run = NoRun
      /\ run' \in RunType /\ run'.at = "prepare" /\ run'.job = request
      /\ run'.target = None /\ run'.noted = {}
      /\ UNCHANGED <<disk, service, request, issued, history, broken, bounds>>
  BY DEF Start, NoRun, Working, Typed, RunType, Steps, Outcomes
<1>2. Typed'
  BY <1>1 DEF Typed, disk, bounds, history
<1>3. Working' /\ Notes'
  BY <1>1 DEF Working, Notes, WithPack, WithRelease
<1>4. Numbered' /\ Listing'
  BY <1>1, NumbersStay DEF disk
<1>5. Switches'
  BY <1>1 DEF Switches, Installed, Whole, disk
<1>6. Replaces'
  BY <1>1, PacksStay DEF disk
<1>7. Serves'
  BY <1>1 DEF Serves, NotYetRestarted, disk
<1>8. FailedSwitchIsUndone'
  BY <1>1 DEF FailedSwitchIsUndone
<1> QED BY <1>2, <1>3, <1>4, <1>5, <1>6, <1>7, <1>8

LEMMA RecordDeployKeeps ==
  ASSUME ActivationInv, RecordDeploy
  PROVE  ActivationInv'
<1>1. /\ At("record") /\ Kind = "deploy" /\ run.target = Id /\ Id \in passed
      /\ current = Id /\ Id \in Release /\ Id = issued /\ issued \in Nat
      /\ \/ RecordGood /\ Moves("answer", run.noted) /\ UNCHANGED bounds
         \/ Fault /\ Moves("restore", run.noted) /\ UNCHANGED good
      /\ UNCHANGED <<current, releases, registry, service, request, issued, history, broken>>
  BY RunFields, GoMoves, BoundsAssumption
     DEF RecordDeploy, Steps, Working, Switches, Switched, Typed
<1>2. /\ good' # None =>
           /\ good' \in Seq(Release) /\ Len(good') \in 1..Kept
           /\ InOrder(good') /\ ButFirst(good', passed)
           /\ \A i \in DOMAIN good' : good'[i] \in Past /\ good'[i] \notin left
      /\ good' = None => good = None
  <2>1. CASE UNCHANGED good
    BY <2>1 DEF Typed, Numbered, Listing, InOrder, ButFirst
  <2>2. CASE RecordGood
    <3> DEFINE seed == IF run.previous = None THEN <<>> ELSE <<run.previous>>
               existing == IF good = None THEN seed ELSE good
               older == Without(existing, Id)
               all == Append(older, Id)
    <3>1. /\ existing \in Seq(Release) /\ InOrder(existing) /\ ButFirst(existing, passed)
          /\ \A i \in DOMAIN existing : existing[i] \in 0..issued /\ existing[i] \notin left
      <4>1. CASE good # None
        BY <4>1, <1>1 DEF Typed, Numbered, Past, Listing, InOrder, ButFirst, Working
      <4>2. CASE good = None /\ run.previous = None
        <5>1. existing = <<>> BY <4>2
        <5>2. DOMAIN <<>> = {} OBVIOUS
        <5> QED BY <5>1, <5>2, ShortLists
      <4>3. CASE good = None /\ run.previous # None
        <5>1. existing = <<run.previous>> /\ run.previous \in 0..issued /\ left = {}
          BY <4>3, <1>1 DEF Numbered, Past, Listing, Working
        <5>2. run.previous \in Release BY <4>3, RunFields
        <5> QED BY <5>1, <5>2, ShortLists
      <4> QED BY <4>1, <4>2, <4>3
    <3> HIDE DEF existing
    <3>2. PICK p \in [DOMAIN older -> DOMAIN existing] :
            /\ InOrder(p)
            /\ \A k \in DOMAIN older : older[k] = existing[p[k]] /\ existing[p[k]] # Id
      BY <3>1, WithoutSelects
    <3>3. older \in Seq(Release) BY <3>1, WithoutSelects
    <3> HIDE DEF older
    <3>4. /\ InOrder(older) /\ ButFirst(older, passed)
          /\ \A k \in DOMAIN older : older[k] \in 0..(issued - 1) /\ older[k] \notin left
      <4>1. InOrder(older) BY <3>1, <3>2 DEF InOrder
      <4>2. \A k \in DOMAIN older : k # 1 => p[k] # 1
        <5> SUFFICES ASSUME NEW k \in DOMAIN older, k # 1 PROVE p[k] # 1
          OBVIOUS
        <5>1. 1 \in DOMAIN older /\ 1 < k BY <3>3
        <5>2. p[1] < p[k] /\ p[1] \in DOMAIN existing BY <3>2, <5>1 DEF InOrder
        <5>3. p[1] \in Nat \ {0} BY <3>1, <5>2
        <5> QED BY <5>2, <5>3
      <4>3. ButFirst(older, passed) BY <3>1, <3>2, <4>2 DEF ButFirst
      <4>4. \A k \in DOMAIN older : older[k] \in 0..issued /\ older[k] # issued
        BY <1>1, <3>1, <3>2
      <4> QED BY <4>1, <4>3, <4>4, <3>1, <3>2, <1>1
    <3>5. Id \notin left
      BY <1>1 DEF Numbered, Working
    <3>6. /\ all \in Seq(Release) /\ Len(all) = Len(older) + 1 /\ all[Len(all)] = Id
          /\ \A k \in 1..Len(older) : all[k] = older[k]
      BY <1>1, <3>3
    <3> HIDE DEF all
    <3>7. /\ Len(all) >= 1 /\ InOrder(all) /\ ButFirst(all, passed)
          /\ \A k \in DOMAIN all : all[k] \in 0..issued /\ all[k] \notin left
      <4>1. InOrder(all)
        <5> SUFFICES ASSUME NEW i \in DOMAIN all, NEW j \in DOMAIN all, i < j
                     PROVE  all[i] < all[j]
          BY DEF InOrder
        <5>1. i \in DOMAIN older /\ all[i] = older[i] BY <3>3, <3>6
        <5>2. CASE j = Len(all) BY <1>1, <3>4, <3>6, <5>1, <5>2
        <5>3. CASE j # Len(all)
          <6>1. j \in DOMAIN older /\ all[j] = older[j] BY <3>3, <3>6, <5>3
          <6> QED BY <3>4, <5>1, <6>1 DEF InOrder
        <5> QED BY <5>2, <5>3
      <4>2. ButFirst(all, passed) BY <1>1, <3>3, <3>4, <3>6 DEF ButFirst
      <4> QED BY <4>1, <4>2, <1>1, <3>3, <3>4, <3>5, <3>6
    <3>8. good' = Newest(all) /\ Past = 0..issued
      BY <1>1, <2>2 DEF RecordGood, all, older, existing, Past, Working
    <3>9. /\ good' \in Seq(Release) /\ Len(good') \in 1..Kept
          /\ InOrder(good') /\ ButFirst(good', passed)
          /\ \A i \in DOMAIN good' : \E k \in DOMAIN all : good'[i] = all[k]
      BY <3>6, <3>7, <3>8, NewestKeeps
    <3>10. good' # None
      BY <3>9, NoneAssumption, BoundsAssumption DEF Release
    <3> QED BY <3>7, <3>8, <3>9, <3>10
  <2> QED BY <1>1, <2>1, <2>2
<1>3. Typed'
  <2>1. passed' = passed /\ left' = left /\ run' \in RunType BY <1>1 DEF history
  <2>2. faults' \in 0..MaxFaults /\ crashes' \in 0..MaxCrashes
    BY <1>1, BoundsAssumption DEF Typed, Fault, bounds
  <2> QED BY <1>1, <1>2, <2>1, <2>2 DEF Typed
<1>4. Working' /\ Notes'
  BY <1>1, RunFields DEF Working, Notes, WithRelease, Kinds
<1>5. Numbered' /\ Listing'
  <2>1. /\ passed' = passed /\ left' = left /\ Past' = Past /\ run'.previous = run.previous
        /\ run.at \notin Rest
    BY <1>1 DEF history, Past
  <2>2. Numbered' BY <1>1, <1>2, <2>1 DEF Numbered
  <2>3. Listing' BY <1>1, <1>2, <2>1 DEF Listing, InOrder, ButFirst
  <2> QED BY <2>2, <2>3
<1>6. Switches'
  BY <1>1, RunFields
     DEF Switches, Switched, Installed, Whole, Usable, Notes, WithRelease, history
<1>7. Replaces'
  BY <1>1, PacksStay
<1>8. Serves'
  BY <1>1, StartedTyped DEF Serves, NotYetRestarted, Started, Notes, WithRelease
<1>9. FailedSwitchIsUndone'
  BY <1>1 DEF FailedSwitchIsUndone
<1> QED BY <1>3, <1>4, <1>5, <1>6, <1>7, <1>8, <1>9

LEMMA RecordRollbackKeeps ==
  ASSUME ActivationInv, RecordRollback
  PROVE  ActivationInv'
<1> DEFINE target == run.target
           newer == {r \in left \cup {run.previous} \cup Entries : r > target}
<1>1. /\ At("record") /\ Kind = "rollback" /\ target \in passed /\ target # Id
      /\ current = target /\ target \in Release /\ Id = issued /\ issued \in Nat
      /\ run.previous \in Release /\ run.previous \in Past /\ target \in Past
      /\ Past = 0..(issued - 1) /\ request # None
      /\ \/ /\ RollbackWatermark /\ Moves("answer", run.noted) /\ UNCHANGED bounds
            /\ left' = newer \cup (left \ {target})
         \/ Fault /\ Moves("answer", run.noted) /\ UNCHANGED <<good, left>>
         \/ Fault /\ Moves("error", run.noted) /\ UNCHANGED <<good, left>>
      /\ UNCHANGED <<current, releases, registry, service, request, issued, passed, broken>>
  <2>1. /\ At("record") /\ Kind = "rollback" /\ target \in passed /\ target # Id
        /\ current = target /\ target # None /\ run.previous # None
    BY RunFields DEF RecordRollback, Working, Switches, Switched
  <2>2. target \in Release /\ run.previous \in Release /\ Id = issued /\ issued \in Nat
    BY <2>1, RunFields, BoundsAssumption DEF Typed
  <2>3. request # None /\ request.kind = "rollback" BY <2>1 DEF Working
  <2>4. Past = 0..(issued - 1) BY <2>3 DEF Past
  <2>5. target \in Past /\ run.previous \in Past BY <2>1 DEF Numbered
  <2> QED BY <2>1, <2>2, <2>3, <2>4, <2>5, RunFields, GoMoves DEF RecordRollback, Steps
<1>2. \A r \in Entries : /\ r \in Release /\ r \in Past
                         /\ r # target => /\ good # None
                                          /\ \E i \in DOMAIN good : r = good[i]
  <2>1. CASE good = None
    <3>1. Entries = {target} BY <2>1 DEF Entries
    <3> QED BY <1>1, <3>1
  <2>2. CASE good # None
    <3>1. \A i \in DOMAIN good : good[i] \in Release /\ good[i] \in Past
      BY <2>2 DEF Typed, Numbered
    <3>2. Entries = {target} \cup {good[i] : i \in DOMAIN good} BY <2>2 DEF Entries
    <3> QED BY <1>1, <2>2, <3>1, <3>2
  <2> QED BY <2>1, <2>2
<1>3. /\ good' # None =>
           /\ good' \in Seq(Release) /\ Len(good') \in 1..Kept
           /\ InOrder(good') /\ ButFirst(good', passed)
           /\ \A i \in DOMAIN good' : good'[i] \in Past /\ good'[i] \notin left'
      /\ good' = None => left' = {}
      /\ left' \subseteq Release /\ left' \subseteq Past
  <2>1. CASE UNCHANGED <<good, left>>
    BY <2>1, <1>1 DEF Typed, Numbered, Listing, InOrder, ButFirst
  <2>2. CASE RollbackWatermark /\ left' = newer \cup (left \ {target})
    <3> DEFINE kept == {r \in Entries : r <= target}
               sorted == Ascending(kept)
    <3>1. kept \subseteq Release /\ target \in kept
      BY <1>1, <1>2 DEF Entries, Release
    <3>2. kept \subseteq Int /\ IsFiniteSet(kept)
      <4>1. IsFiniteSet(Release) /\ Release \subseteq Int
        BY FS_Interval, BoundsAssumption DEF Release
      <4> QED BY <3>1, <4>1, FS_Subset
    <3>3. \A r \in kept : r \in Entries /\ r <= target OBVIOUS
    <3> HIDE DEF kept
    <3>4. sorted \in Seq(kept) /\ Len(sorted) = Cardinality(kept) /\ InOrder(sorted)
      BY <3>2, AscendingSorts
    <3>5. Len(sorted) >= 1
      BY <3>1, <3>2, <3>4, FS_EmptySet, FS_CardinalityType
    <3>6. sorted \in Seq(Release) /\ \A i \in DOMAIN sorted : sorted[i] \in kept
      BY <3>1, <3>4
    <3> HIDE DEF sorted
    <3>7. ButFirst(sorted, passed)
      <4> SUFFICES ASSUME NEW i \in DOMAIN sorted, i # 1, sorted[i] # target
                   PROVE  sorted[i] \in passed
        BY <1>1 DEF ButFirst
      <4>1. 1 \in DOMAIN sorted /\ 1 < i BY <3>5, <3>6
      <4>2. sorted[1] < sorted[i] /\ sorted[i] <= target
        BY <3>3, <3>4, <3>6, <4>1 DEF InOrder
      <4>3. sorted[1] # target /\ sorted[1] \in Entries /\ sorted[i] \in Entries
        <5>1. sorted[1] \in Int /\ sorted[i] \in Int /\ target \in Int
          BY <1>1, <3>2, <3>6, <4>1, BoundsAssumption DEF Release
        <5> QED BY <5>1, <3>3, <3>6, <4>1, <4>2
      <4>4. PICK j \in DOMAIN good : sorted[1] = good[j] BY <1>2, <4>3
      <4>5. good # None /\ \E k \in DOMAIN good : sorted[i] = good[k] BY <1>2, <4>3
      <4>6. PICK k \in DOMAIN good : sorted[i] = good[k] BY <4>5
      <4>7. good[j] < good[k] BY <4>2, <4>4, <4>6
      <4>8. k # 1
        <5>1. j \in Nat \ {0} /\ k \in Nat \ {0} BY <4>5 DEF Typed
        <5>2. good[j] \in Int /\ good[k] \in Int
          BY <4>5, BoundsAssumption DEF Typed, Release
        <5> QED BY <4>5, <4>7, <5>1, <5>2 DEF Listing
      <4> QED BY <4>5, <4>6, <4>8 DEF Listing
    <3>8. good' = Newest(sorted) BY <2>2 DEF RollbackWatermark, sorted, kept
    <3>9. /\ good' \in Seq(Release) /\ Len(good') \in 1..Kept
          /\ InOrder(good') /\ ButFirst(good', passed)
          /\ \A i \in DOMAIN good' : \E k \in DOMAIN sorted : good'[i] = sorted[k]
      BY <3>5, <3>6, <3>4, <3>7, <3>8, NewestKeeps
    <3>10. \A i \in DOMAIN good' : good'[i] \in Entries /\ good'[i] <= target /\ good'[i] \in Release
      BY <3>1, <3>3, <3>6, <3>9
    <3>11. \A i \in DOMAIN good' : good'[i] \notin left'
      <4> SUFFICES ASSUME NEW i \in DOMAIN good', good'[i] \in left' PROVE FALSE
        OBVIOUS
      <4>1. good'[i] \in Int /\ target \in Int
        BY <1>1, <3>10, BoundsAssumption DEF Release
      <4>2. good'[i] \in left \ {target}
        BY <2>2, <3>10, <4>1
      <4>3. good # None /\ \E k \in DOMAIN good : good'[i] = good[k]
        BY <1>2, <3>10, <4>2
      <4> QED BY <4>2, <4>3 DEF Listing
    <3>12. left' \subseteq Release /\ left' \subseteq Past
      BY <1>1, <1>2, <2>2 DEF Typed, Numbered
    <3>13. good' # None
      BY <3>9, NoneAssumption, BoundsAssumption DEF Release
    <3> QED BY <1>2, <3>9, <3>10, <3>11, <3>12, <3>13
  <2> QED BY <1>1, <2>1, <2>2
<1>4. Typed'
  BY <1>1, <1>3, BoundsAssumption DEF Typed, Fault, bounds
<1>5. Working' /\ Notes'
  BY <1>1, RunFields DEF Working, Notes, WithRelease, Kinds
<1>6. Numbered' /\ Listing'
  BY <1>1, <1>3 DEF Numbered, Past, Listing, InOrder, ButFirst
<1>7. Switches'
  BY <1>1 DEF Switches, Switched, Whole, Usable
<1>8. Replaces'
  BY <1>1, PacksStay
<1>9. service = Started /\ service.release = current
  BY <1>1, StartedTyped DEF Serves
<1>10. Serves'
  BY <1>1, <1>9, StartedTyped DEF Serves, NotYetRestarted, Started
<1>11. FailedSwitchIsUndone'
  BY <1>1, <1>9 DEF FailedSwitchIsUndone
<1> QED BY <1>4, <1>5, <1>6, <1>7, <1>8, <1>10, <1>11

LEMMA StutterKeeps ==
  ASSUME ActivationInv, UNCHANGED vars
  PROVE  ActivationInv'
<1>1. Typed' /\ Working' /\ Notes'
  BY DEF vars, disk, bounds, history, Typed, Working, Notes, WithPack, WithRelease
<1>2. Numbered' /\ Listing' /\ Replaces'
  BY DEF vars, disk, history, Numbered, Past, Listing, Replaces, Live, Midway, Undoing
<1>3. Switches' /\ Serves' /\ FailedSwitchIsUndone'
  BY DEF vars, disk, history, Switches, Switched, Installed, Whole, Usable, Serves, Started,
     NotYetRestarted, FailedSwitchIsUndone
<1> QED BY <1>1, <1>2, <1>3

LEMMA InitActivation == Init => ActivationInv
<1> SUFFICES ASSUME Init PROVE ActivationInv
  OBVIOUS
<1>1. 0 \in Release /\ 0 \in Pack /\ Kept \in Nat \ {0} /\ 0 # None
  BY BoundsAssumption, KeptAssumption, NoneAssumption DEF Release, Pack
<1>2. \/ good = None
      \/ good = <<0>> /\ good \in Seq(Release) /\ Len(good) = 1 /\ DOMAIN good = {1}
  BY <1>1 DEF Init
<1>3. Typed
  BY <1>1, <1>2, BoundsAssumption DEF Init, Typed, Down, NoRun, RunType, Steps, Outcomes
<1>4. Working /\ Notes
  BY DEF Init, Working, Notes, NoRun
<1>5. Numbered /\ Listing
  <2>1. good # None => DOMAIN good = {1} /\ good[1] = 0 BY <1>2
  <2>2. issued = 0 /\ request = None /\ run.at = "idle" /\ Past = {0}
    BY DEF Init, NoRun, Past
  <2>3. Numbered
    <3>1. \A r \in Release : releases[r] # "absent" => r = 0
      BY NoneAssumption, BoundsAssumption DEF Init, Release
    <3> QED BY <1>1, <2>1, <2>2, <3>1 DEF Init, Numbered
  <2>4. Listing BY <2>1 DEF Init, Listing
  <2> QED BY <2>3, <2>4
<1>6. Switches
  BY <1>1 DEF Init, Switches, Whole, NoRun
<1>7. Replaces
  BY <1>1 DEF Init, Replaces, Live, NoRun
<1>8. Serves
  BY DEF Init, Serves, NotYetRestarted, NoRun, Down
<1>9. FailedSwitchIsUndone
  BY DEF Init, FailedSwitchIsUndone, NoRun
<1> QED BY <1>3, <1>4, <1>5, <1>6, <1>7, <1>8, <1>9

LEMMA ActivationKept == ActivationInv /\ [Next]_vars => ActivationInv'
<1> SUFFICES ASSUME ActivationInv, [Next]_vars PROVE ActivationInv'
  OBVIOUS
<1>1. CASE Ask BY <1>1, AskKeeps
<1>2. CASE Step
  BY <1>2, StartKeeps, RefuseKeeps, PrepareDeployKeeps, OwnKeeps, InstallKeeps,
     PrepareRollbackKeeps, PrepareReplaceKeeps, SwitchKeeps, RestartKeeps, HealthKeeps,
     RecordDeployKeeps, RecordRollbackKeeps, BackupKeeps, RetireKeeps, PublishKeeps,
     DropRetiredKeeps, RestoreKeeps, UnpublishKeeps, UnretireKeeps, RestartAgainKeeps,
     RemoveReleaseKeeps, AnswerKeeps, AnswerErrorKeeps, CleanupKeeps, Zenon DEF Step
<1>3. CASE Crash BY <1>3, CrashKeeps
<1>4. CASE UNCHANGED vars BY <1>4, StutterKeeps
<1> QED BY <1>1, <1>2, <1>3, <1>4 DEF Next

-----------------------------------------------------------------------------
(* The theorems.                                                           *)

\* Between the steps of any run, and when it was killed, disk, service and what the run
\* has noted agree as ActivationInv says.
THEOREM ActivationIsInvariant == Spec => []ActivationInv
BY InitActivation, ActivationKept, PTL DEF Spec

\* The types hold, current is never a release that is gone (858-877), and what the list
\* of good releases holds has passed its health check, but for the first.
THEOREM ReleasesAreAlwaysSound == Spec => []ReleasesAreSound
<1>1. ActivationInv => ReleasesAreSound
  <2> SUFFICES ASSUME ActivationInv PROVE ReleasesAreSound
    OBVIOUS
  <2>1. request # None =>
          request \in [id : 1..issued, kind : Kinds, subject : Release \cup {None}]
    BY BoundsAssumption DEF Typed, Working, Job, Release
  <2>2. TypeOK
    BY <2>1, RunFields DEF TypeOK, Typed, Working, Kinds, NoRun
  <2>3. CurrentIsThere
    BY DEF CurrentIsThere, Resting, Switches, Whole, Usable
  <2>4. GoodHavePassed
    BY DEF GoodHavePassed, Listing
  <2> QED BY <2>2, <2>3, <2>4 DEF ReleasesAreSound
<1> QED BY <1>1, ActivationIsInvariant, PTL

\* A switch that failed is undone on disk and in the service unless the run says
\* otherwise, and at rest service, current and registry agree (docs/DEPLOYMENT.md:107, 171).
THEOREM FailuresAreUndone == Spec => []FailureIsUndone
<1>1. ActivationInv => FailureIsUndone
  <2> SUFFICES ASSUME ActivationInv PROVE FailureIsUndone
    OBVIOUS
  <2>1. Resting /\ Unbroken("release") => service.release = current
    BY DEF Resting, Serves, NotYetRestarted
  <2>2. Resting /\ broken = {} => Cardinality(registry.live) = 1 /\ registry.retired = {}
    BY FS_Singleton DEF Resting, Replaces, Live
  <2>3. Resting /\ broken = {} /\ current # None => service.packs = registry.live
    BY DEF Resting, Serves, NotYetRestarted
  <2> QED BY <2>1, <2>2, <2>3 DEF FailureIsUndone, ServiceMatchesDisk
<1> QED BY <1>1, ActivationIsInvariant, PTL

\* A plain rollback never goes to a release that a recorded rollback has left for an older
\* one (docs/EASY_DEPLOY.md:135, rollback.sh:13-15).
THEOREM PlainRollbacksGoBack == Spec => PlainRollbackGoesBack
<1> DEFINE Back == At("prepare") /\ run'.at = "switch" /\ Kind = "rollback"
                     /\ run.job.subject = None => run'.target \notin left
<1>1. ActivationInv /\ [Next]_vars => Back
  <2> SUFFICES ASSUME ActivationInv, [Next]_vars, At("prepare"), run'.at = "switch",
                      Kind = "rollback", run.job.subject = None
               PROVE  run'.target \notin left
    OBVIOUS
  <2>1. PrepareRollback
    <3>1. CASE Step
      <4>1. CASE Refuse \/ PrepareDeploy \/ PrepareReplace
        BY <4>1, RunFields DEF Refuse, PrepareDeploy, PrepareReplace, Go, RunType
      <4> QED
        BY <3>1, <4>1 DEF Step, Start, Own, Install, Switch, Restart, Health, RecordDeploy,
           RecordRollback, Backup, Retire, Publish, DropRetired, Restore, Unpublish, Unretire,
           RestartAgain, RemoveRelease, Answer, AnswerError, Cleanup
    <3>2. CASE Ask \/ Crash \/ UNCHANGED vars
      BY <3>2 DEF Ask, Submit, Crash, NoRun, vars
    <3> QED BY <3>1, <3>2 DEF Next
  <2>2. PICK target \in Targets :
          run' = [run EXCEPT !.at = "switch", !.target = target, !.previous = current]
    BY <2>1 DEF PrepareRollback
  <2>3. run'.target = target BY <2>2, RunFields DEF RunType
  <2>4. target \notin left
    BY DEF Targets, Listing
  <2> QED BY <2>3, <2>4
<1> QED BY <1>1, ActivationIsInvariant, PTL DEF Spec, PlainRollbackGoesBack
=============================================================================
