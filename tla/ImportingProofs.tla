-------------------------- MODULE ImportingProofs ---------------------------
(***************************************************************************)
(* Theorems about Importing for any number of packs, importers and inodes, *)
(* and any packs wanted in any order.  Who wrote the file under a name is  *)
(* what everything turns on (Imported).  An importer that has looked, and  *)
(* will rename whatever is there, needs its lock (LockIsHeld) to know that *)
(* no other importer's pack is (NameIsFree).  A rollback that goes by      *)
(* numbers needs its record to be true of them (RecordIsTrue), from before *)
(* it is made (NumberIsTrue), and to have everything that the run          *)
(* published (OnRecord).                                                   *)
(***************************************************************************)
EXTENDS Importing, TLAPS

AtWork == {"ready", "written", "published", "recorded"} \cup Locking
Installing == {"written", "published", "recorded"} \cup Locking

FilesAreNamed == \A p \in Pack : dir[p] # None => file[dir[p]] # None

TempsAreOwn == \A i \in Importer : run[i].temp # None => file[run[i].temp] = i

InOrder(i) ==
  /\ run[i].pc \in Installing => run[i].done < Len(Wanted[i])
  /\ run[i].pc \in AtWork => run[i].left = {}
  /\ run[i].pc = "removing" => run[i].pack # None
  /\ run[i].pc = "failed" => run[i].created = {}

LockIsHeld(i) == run[i].pc \in Locking => ~links /\ lock[Current(i)] = i

NameIsFree(i) == run[i].pc = "looked" => \A j \in Importer : ~Imported(Current(i), j)

\* A number on record has not come back, or its pack is excused.
RecordIsTrue(i) ==
  \A own \in run[i].created : own[1] \notin excused => file[own[2]] \in {i, None}

\* Nor has the number that is to be recorded, also while no name holds it.
NumberIsTrue(i) ==
  run[i].inode # None /\ Current(i) \notin excused => file[run[i].inode] \in {i, None}

\* What a run published is on its record, about to be, or about to be removed.
OnRecord(i) ==
  \A p \in Pack :
    Imported(p, i) /\ run[i].pc \notin {"installed", "killed"} =>
      \/ p \in run[i].left
      \/ <<p, dir[p]>> \in run[i].created
      \/ run[i].pc \in {"renamed", "published"} /\ p = Current(i) /\ dir[p] = run[i].inode
      \/ run[i].pc = "removing" /\ run[i].pack = p

TakesItsOwn(i) ==
  run[i].pc = "removing" /\ run[i].pack \notin excused => Imported(run[i].pack, i)

RunInv(i) ==
  /\ InOrder(i) /\ LockIsHeld(i) /\ NameIsFree(i)
  /\ RecordIsTrue(i) /\ NumberIsTrue(i) /\ OnRecord(i) /\ TakesItsOwn(i)

ImportingInv == TypeOK /\ FilesAreNamed /\ TempsAreOwn /\ \A i \in Importer : RunInv(i)

-----------------------------------------------------------------------------

LEMMA CurrentIsPack ==
  ASSUME TypeOK, NEW i \in Importer, InOrder(i), run[i].pc \in Installing
  PROVE  Current(i) \in Pack
<1>1. Wanted[i] \in Seq(Pack)
  BY ImportingAssumption
<1>2. run[i].done \in Nat /\ run[i].done < Len(Wanted[i])
  BY DEF TypeOK, RunState, InOrder
<1>3. run[i].done + 1 \in 1..Len(Wanted[i])
  BY <1>1, <1>2
<1> QED BY <1>1, <1>3 DEF Current

\* One run takes a step: the others stay as they are.
HasTemp(x) ==
  /\ x.inode # None <=> x.pc \in {"written", "published"} \cup Locking
  /\ x.pc # "killed" =>
       x.temp = IF ~links /\ x.pc \in {"renamed", "published"} THEN None ELSE x.inode

LEMMA OneRun ==
  ASSUME TypeOK, NEW i \in Importer, NEW x \in RunState, HasTemp(x),
         run' = [run EXCEPT ![i] = x]
  PROVE  /\ run' \in [Importer -> RunState] /\ \A j \in Importer : HasTemp(run'[j])
         /\ run'[i] = x
         /\ \A j \in Importer : j # i => run'[j] = run[j]
<1>1. run \in [Importer -> RunState] /\ \A j \in Importer : HasTemp(run[j])
  BY DEF TypeOK, HasTemp, Moved
<1>2. /\ run' \in [Importer -> RunState] /\ run'[i] = x
      /\ \A j \in Importer : j # i => run'[j] = run[j]
  BY <1>1
<1> QED BY <1>1, <1>2

\* A file without names is free again; every other file stays as it is.
LEMMA CollectedEffect ==
  ASSUME TypeOK, NEW names \in [Pack -> Inode \cup {None}],
         NEW runs \in [Importer -> RunState], file' = Collected(names, runs)
  PROVE  /\ file' \in [Inode -> Importer \cup {Initializer, None}]
         /\ \A n \in Inode : file'[n] \in {file[n], None}
         /\ \A p \in Pack : names[p] # None => file'[names[p]] = file[names[p]]
         /\ \A j \in Importer : runs[j].temp # None => file'[runs[j].temp] = file[runs[j].temp]
<1>1. file \in [Inode -> Importer \cup {Initializer, None}]
  BY DEF TypeOK
<1>2. \A n \in Inode : file'[n] = IF Used(n, names, runs) THEN file[n] ELSE None
  BY DEF Collected
<1>3. \A p \in Pack : names[p] # None => names[p] \in Inode /\ Used(names[p], names, runs)
  BY DEF Used
<1>4. \A j \in Importer : runs[j].temp # None => runs[j].temp \in Inode /\ Used(runs[j].temp, names, runs)
  BY DEF Used, RunState
<1> QED BY <1>1, <1>2, <1>3, <1>4 DEF Collected

\* What a step must leave alone for a run that does not take it.
LeavesAlone(j) ==
  /\ run'[j] = run[j] /\ links' = links /\ excused \subseteq excused'
  /\ run[j].pc \in Locking => lock'[Current(j)] = lock[Current(j)]
  /\ \A p \in Pack : Imported(p, j)' => Imported(p, j) /\ dir'[p] = dir[p]
  /\ \A p \in Pack, k \in Importer :
       run[j].pc = "looked" /\ p = Current(j) /\ Imported(p, k)' => Imported(p, k)
  /\ \A n \in Inode : file'[n] \in {file[n], None} \/ Recorded(n) \subseteq excused'
  /\ \A p \in Pack :
       run[j].pc = "removing" /\ p = run[j].pack /\ Imported(p, j)
         => p \in excused' \/ Imported(p, j)'

LEMMA OthersKeep ==
  ASSUME ImportingInv, NEW j \in Importer, LeavesAlone(j)
  PROVE  RunInv(j)'
<1> USE DEF LeavesAlone
<1>1. RunInv(j) /\ TypeOK
  BY DEF ImportingInv
<1>2. Current(j)' = Current(j)
  BY DEF Current
<1>3. InOrder(j)' /\ LockIsHeld(j)'
  BY <1>1, <1>2 DEF RunInv, InOrder, LockIsHeld
<1>4. NameIsFree(j)'
  <2> SUFFICES ASSUME run[j].pc = "looked", NEW k \in Importer PROVE ~Imported(Current(j), k)'
    BY DEF NameIsFree
  <2>1. PICK p \in Pack : p = Current(j)
    BY <1>1, CurrentIsPack DEF RunInv, Locking, Installing
  <2>2. ~Imported(p, k)
    BY <1>1, <2>1 DEF RunInv, NameIsFree
  <2>3. ~Imported(p, k)'
    BY <2>1, <2>2
  <2> QED BY <1>2, <2>1, <2>3 DEF Imported
<1>5. RecordIsTrue(j)'
  <2> SUFFICES ASSUME NEW own \in run[j].created, own[1] \notin excused'
               PROVE  file'[own[2]] \in {j, None}
    BY DEF RecordIsTrue
  <2>1. own = <<own[1], own[2]>> /\ own[1] \in Pack /\ own[2] \in Inode
    BY <1>1 DEF TypeOK, RunState
  <2>2. own[1] \in Recorded(own[2])
    BY <2>1 DEF Recorded
  <2>3. file'[own[2]] \in {file[own[2]], None}
    BY <2>1, <2>2
  <2>4. file[own[2]] \in {j, None}
    BY <1>1 DEF RunInv, RecordIsTrue
  <2> QED BY <2>3, <2>4
<1>6. OnRecord(j)'
  <2> SUFFICES ASSUME NEW p \in Pack, Imported(p, j)', run[j].pc \notin {"installed", "killed"}
               PROVE  \/ p \in run[j].left
                      \/ <<p, dir'[p]>> \in run[j].created
                      \/ run[j].pc \in {"renamed", "published"} /\ p = Current(j) /\ dir'[p] = run[j].inode
                      \/ run[j].pc = "removing" /\ run[j].pack = p
    BY <1>2 DEF OnRecord
  <2>1. Imported(p, j) /\ dir'[p] = dir[p]
    OBVIOUS
  <2> QED BY <1>1, <2>1 DEF RunInv, OnRecord
<1>7. TakesItsOwn(j)'
  <2> SUFFICES ASSUME run[j].pc = "removing", run[j].pack \notin excused'
               PROVE  Imported(run[j].pack, j)'
    BY DEF TakesItsOwn
  <2>1. PICK p \in Pack : p = run[j].pack
    BY <1>1 DEF RunInv, InOrder, TypeOK, RunState
  <2>2. Imported(p, j)
    BY <1>1, <2>1 DEF RunInv, TakesItsOwn
  <2>3. Imported(p, j)'
    BY <2>1, <2>2
  <2> QED BY <2>1, <2>3 DEF Imported
<1>8. NumberIsTrue(j)'
  <2> SUFFICES ASSUME run[j].inode # None, Current(j) \notin excused'
               PROVE  file'[run[j].inode] \in {j, None}
    BY <1>2 DEF NumberIsTrue
  <2>1. run[j].inode \in Inode /\ run[j].pc \in Installing
    BY <1>1 DEF TypeOK, RunState, Installing
  <2>2. Current(j) \in Recorded(run[j].inode)
    BY <1>1, <2>1, CurrentIsPack DEF RunInv, Recorded
  <2>3. file'[run[j].inode] \in {file[run[j].inode], None}
    BY <2>1, <2>2
  <2> QED BY <1>1, <2>3 DEF RunInv, NumberIsTrue
<1> QED BY <1>3, <1>4, <1>5, <1>6, <1>7, <1>8 DEF RunInv

-----------------------------------------------------------------------------
(* The steps.                                                              *)

\* What holds before every step below.
LEMMA Before ==
  ASSUME ImportingInv
  PROVE  /\ links \in BOOLEAN /\ dir \in [Pack -> Inode \cup {None}]
         /\ file \in [Inode -> Importer \cup {Initializer, None}]
         /\ lock \in [Pack -> Importer \cup {None}] /\ run \in [Importer -> RunState]
         /\ setup \in SetupState /\ excused \in SUBSET Pack
         /\ \A i \in Importer : HasTemp(run[i])
         /\ \A p \in Pack : dir[p] # None => dir[p] \in Inode /\ file[dir[p]] # None
         /\ \A i \in Importer :
              run[i].temp # None => run[i].temp \in Inode /\ file[run[i].temp] = i
         /\ \A i \in Importer : run[i].inode \in Inode \cup {None}
BY DEF ImportingInv, TypeOK, HasTemp, Moved, FilesAreNamed, TempsAreOwn, RunState

LEMMA WriteKeeps ==
  ASSUME ImportingInv, NEW i \in Importer, Write(i)
  PROVE  ImportingInv'
<1> USE NoneAssumption
<1>1. PICK n \in Inode :
        /\ file[n] = None /\ file' = [file EXCEPT ![n] = i]
        /\ run' = [run EXCEPT ![i].pc = "written", ![i].temp = n, ![i].inode = n]
        /\ excused' = excused \cup Recorded(n)
  BY DEF Write
<1>2. /\ run[i].pc = "ready" /\ run[i].done < Len(Wanted[i])
      /\ UNCHANGED <<links, dir, lock, setup>>
  BY DEF Write
<1> DEFINE x == [run[i] EXCEPT !.pc = "written", !.temp = n, !.inode = n]
<1>3. x \in RunState /\ HasTemp(x) /\ run' = [run EXCEPT ![i] = x]
  BY <1>1, Before DEF RunState, HasTemp
<1>4. /\ run' \in [Importer -> RunState] /\ \A j \in Importer : HasTemp(run'[j])
      /\ run'[i] = x /\ \A j \in Importer : j # i => run'[j] = run[j]
  BY <1>3, OneRun DEF ImportingInv
<1>5. TypeOK'
  BY <1>1, <1>2, <1>4, Before DEF TypeOK, HasTemp, Moved, Recorded
<1>6. FilesAreNamed' /\ TempsAreOwn'
  BY <1>1, <1>2, <1>4, Before DEF FilesAreNamed, TempsAreOwn
<1>7. \A p \in Pack, j \in Importer : Imported(p, j)' <=> Imported(p, j)
  BY <1>1, <1>2, Before DEF Imported
<1>8. \A m \in Inode : file'[m] \in {file[m], None} \/ Recorded(m) \subseteq excused'
  BY <1>1, Before
<1>9. ASSUME NEW j \in Importer, j # i PROVE RunInv(j)'
  <2>1. LeavesAlone(j)
    BY <1>1, <1>2, <1>4, <1>7, <1>8, <1>9 DEF LeavesAlone
  <2> QED BY <2>1, OthersKeep
<1>10. RunInv(i)'
  <2>1. RunInv(i)
    BY DEF ImportingInv
  <2>2. InOrder(i)' /\ LockIsHeld(i)' /\ NameIsFree(i)' /\ TakesItsOwn(i)'
    BY <1>2, <1>4, <2>1, Before
       DEF RunInv, RunState, InOrder, LockIsHeld, NameIsFree, TakesItsOwn, Locking, Installing, AtWork
  <2>3. RecordIsTrue(i)'
    <3> SUFFICES ASSUME NEW own \in run[i].created, own[1] \notin excused'
                 PROVE  file'[own[2]] \in {i, None}
      BY <1>4, Before DEF RecordIsTrue, RunState
    <3>1. own = <<own[1], own[2]>> /\ own[1] \in Pack /\ own[2] \in Inode
      BY Before DEF RunState
    <3> QED BY <1>1, <2>1, <3>1, Before DEF RunInv, RecordIsTrue
  <2>4. OnRecord(i)'
    <3>1. Current(i)' = Current(i) /\ run'[i].created = run[i].created /\ run'[i].left = run[i].left
      BY <1>4, Before DEF Current, RunState
    <3>2. \A p \in Pack : Imported(p, i) => p \in run[i].left \/ <<p, dir[p]>> \in run[i].created
      BY <1>2, <2>1 DEF RunInv, OnRecord
    <3> QED BY <1>2, <1>7, <3>1, <3>2 DEF OnRecord
  <2>5. NumberIsTrue(i)'
    BY <1>1, <1>4, Before DEF NumberIsTrue, RunState
  <2> QED BY <2>2, <2>3, <2>4, <2>5 DEF RunInv
<1> QED BY <1>5, <1>6, <1>9, <1>10 DEF ImportingInv

\* Steps that change no file and no name.
DirectoryRests ==
  /\ UNCHANGED <<links, dir, file, excused>>
  /\ \A j \in Importer : run'[j].temp \in {run[j].temp, None}

LEMMA RestingKeeps ==
  ASSUME ImportingInv, DirectoryRests
  PROVE  /\ FilesAreNamed' /\ TempsAreOwn'
         /\ \A p \in Pack, j \in Importer : Imported(p, j)' <=> Imported(p, j)
         /\ \A j \in Importer :
              /\ run'[j] = run[j]
              /\ run[j].pc \in Locking => lock'[Current(j)] = lock[Current(j)]
              => RunInv(j)'
<1>1. FilesAreNamed' /\ TempsAreOwn'
  BY Before, NoneAssumption DEF DirectoryRests, FilesAreNamed, TempsAreOwn
<1>2. \A p \in Pack, j \in Importer : Imported(p, j)' <=> Imported(p, j)
  BY DEF DirectoryRests, Imported
<1>3. ASSUME NEW j \in Importer, run'[j] = run[j],
             run[j].pc \in Locking => lock'[Current(j)] = lock[Current(j)]
      PROVE  RunInv(j)'
  <2>1. LeavesAlone(j)
    BY <1>2, <1>3 DEF LeavesAlone, DirectoryRests
  <2> QED BY <2>1, OthersKeep
<1> QED BY <1>1, <1>2, <1>3

\* The step of a run that only moves on, its record the same.
LEMMA MovingOn ==
  ASSUME ImportingInv, NEW i \in Importer, DirectoryRests,
         run'[i].created = run[i].created, run'[i].left = run[i].left,
         run'[i].done = run[i].done, run'[i].inode = run[i].inode,
         run[i].pc \notin {"installed", "killed", "renamed", "published", "removing"}
           \/ (run[i].pc = "renamed" /\ run'[i].pc = "published")
  PROVE  RecordIsTrue(i)' /\ NumberIsTrue(i)' /\ OnRecord(i)'
<1>1. RunInv(i)
  BY DEF ImportingInv
<1>2. Current(i)' = Current(i)
  BY DEF Current
<1>3. RecordIsTrue(i)'
  BY <1>1 DEF RunInv, RecordIsTrue, DirectoryRests
<1>4. ASSUME NEW p \in Pack, Imported(p, i)'
      PROVE  \/ p \in run[i].left
             \/ <<p, dir[p]>> \in run[i].created
             \/ run[i].pc = "renamed" /\ p = Current(i) /\ dir[p] = run[i].inode
  <2>1. Imported(p, i)
    BY <1>4, RestingKeeps
  <2> QED BY <1>1, <2>1 DEF RunInv, OnRecord
<1>5. OnRecord(i)'
  BY <1>2, <1>4 DEF OnRecord, DirectoryRests
<1>6. NumberIsTrue(i)'
  BY <1>1, <1>2 DEF RunInv, NumberIsTrue, DirectoryRests
<1> QED BY <1>3, <1>5, <1>6

LEMMA LockKeeps ==
  ASSUME ImportingInv, NEW i \in Importer, Lock(i) \/ Look(i) \/ Unlock(i)
  PROVE  ImportingInv'
<1> USE NoneAssumption
<1>0. PICK pc \in {"locked", "looked", "published"} :
        /\ Goes(i, pc)
        /\ \/ pc = "locked" /\ run[i].pc = "written"
           \/ pc = "looked" /\ run[i].pc = "locked"
           \/ pc = "published" /\ run[i].pc = "renamed"
  BY DEF Lock, Look, Unlock
<1> DEFINE x == [run[i] EXCEPT !.pc = pc]
<1>1. run[i].pc \in {"written"} \cup Locking
  BY DEF Lock, Look, Unlock, Locking
<1>2. x \in RunState /\ HasTemp(x) /\ run' = [run EXCEPT ![i] = x]
  BY <1>0, <1>1, Before DEF Goes, RunState, HasTemp, Locking
<1>3. /\ run' \in [Importer -> RunState] /\ \A j \in Importer : HasTemp(run'[j])
      /\ run'[i] = x /\ \A j \in Importer : j # i => run'[j] = run[j]
  BY <1>2, OneRun DEF ImportingInv
<1>4. RunInv(i) /\ Current(i) \in Pack
  BY <1>1, CurrentIsPack DEF ImportingInv, RunInv, Locking, Installing
<1>5. /\ UNCHANGED <<links, dir, file, setup, excused>>
      /\ \A p \in Pack : lock'[p] # lock[p] => p = Current(i) /\ lock[p] \in {i, None}
      /\ lock' \in [Pack -> Importer \cup {None}]
  <2>1. CASE Lock(i)
    BY <1>4, <2>1, Before DEF Lock, LockFree
  <2>2. CASE Look(i)
    BY <2>2, Before DEF Look
  <2>3. CASE Unlock(i)
    BY <1>4, <2>3, Before DEF Unlock, RunInv, LockIsHeld, Locking
  <2> QED BY <2>1, <2>2, <2>3
<1>6. TypeOK'
  BY <1>3, <1>5, Before DEF TypeOK, HasTemp, Moved
<1>7. DirectoryRests /\ run'[i].inode = run[i].inode
  BY <1>3, <1>5, Before DEF DirectoryRests, RunState
<1>8. ASSUME NEW j \in Importer, j # i PROVE RunInv(j)'
  <2>1. run'[j] = run[j]
    BY <1>3, <1>8
  <2>2. ASSUME run[j].pc \in Locking PROVE lock'[Current(j)] = lock[Current(j)]
    <3>1. RunInv(j)
      BY DEF ImportingInv
    <3>2. Current(j) \in Pack /\ lock[Current(j)] = j
      BY <2>2, <3>1, CurrentIsPack DEF ImportingInv, RunInv, LockIsHeld, Installing
    <3> QED BY <1>5, <1>8, <3>2
  <2> QED BY <1>7, <2>1, <2>2, RestingKeeps
<1>9. RunInv(i)'
  <2>1. /\ run'[i].created = run[i].created /\ run'[i].left = run[i].left
        /\ run'[i].done = run[i].done /\ run'[i].pc = pc
    BY <1>3, Before DEF RunState
  <2>2. RecordIsTrue(i)' /\ NumberIsTrue(i)' /\ OnRecord(i)'
    <3>1. run[i].pc \notin {"installed", "killed", "renamed", "published", "removing"}
            \/ (run[i].pc = "renamed" /\ pc = "published")
      <4>1. Unlock(i) => pc = "published" /\ run[i].pc = "renamed"
        BY <2>1, Before DEF Unlock, Goes, RunState
      <4>2. Lock(i) \/ Look(i) => run[i].pc \in {"written", "locked"}
        BY DEF Lock, Look
      <4> QED BY <4>1, <4>2
    <3> QED BY <1>7, <2>1, <3>1, MovingOn
  <2>3. InOrder(i)'
    BY <1>1, <1>4, <2>1 DEF RunInv, InOrder, Installing, AtWork, Locking
  <2>4. Current(i)' = Current(i)
    BY <2>1 DEF Current
  <2>5. LockIsHeld(i)'
    <3>1. CASE Lock(i)
      BY <1>4, <1>5, <2>1, <2>4, <3>1, Before DEF Lock, LockIsHeld
    <3>2. CASE Look(i)
      BY <1>4, <2>1, <2>4, <3>2 DEF Look, RunInv, LockIsHeld, Locking
    <3>3. CASE Unlock(i)
      <4>1. pc = "published"
        BY <2>1, <3>3, Before DEF Unlock, Goes, RunState
      <4> QED BY <2>1, <4>1 DEF LockIsHeld, Locking
    <3> QED BY <3>1, <3>2, <3>3
  <2>6. NameIsFree(i)'
    <3> SUFFICES ASSUME pc = "looked", NEW k \in Importer PROVE ~Imported(Current(i), k)'
      BY <2>1 DEF NameIsFree
    <3>1. Look(i)
      BY <2>1, Before DEF Lock, Unlock, Goes, RunState
    <3>2. dir'[Current(i)'] = None
      BY <1>5, <2>4, <3>1 DEF Look
    <3> QED BY <3>2 DEF Imported
  <2>7. TakesItsOwn(i)'
    BY <2>1 DEF TakesItsOwn
  <2> QED BY <2>2, <2>3, <2>5, <2>6, <2>7 DEF RunInv
<1>10. FilesAreNamed' /\ TempsAreOwn'
  BY <1>7, RestingKeeps
<1> QED BY <1>6, <1>8, <1>9, <1>10 DEF ImportingInv

\* A run puts its file under a name that no other run holds or is about to take.
Publishes(i, pc) ==
  /\ run[i].pc = (IF pc = "published" THEN "written" ELSE "looked")
  /\ dir' = [dir EXCEPT ![Current(i)] = run[i].temp]
  /\ file' \in [Inode -> Importer \cup {Initializer, None}]
  /\ \A n \in Inode : file'[n] \in {file[n], None}
  /\ \A p \in Pack : dir'[p] # None => file'[dir'[p]] = file[dir'[p]]
  /\ \A j \in Importer : run[j].temp # None => file'[run[j].temp] = file[run[j].temp]
  /\ \A j \in Importer : ~Imported(Current(i), j)
  /\ \A j \in Importer : j # i /\ run[j].pc = "looked" => Current(j) # Current(i)
  /\ run' = [run EXCEPT ![i].pc = pc, ![i].temp = IF pc = "renamed" THEN None ELSE @]
  /\ pc = "published" <=> links
  /\ UNCHANGED <<links, lock, setup, excused>>

LEMMA PublishesKeeps ==
  ASSUME ImportingInv, NEW i \in Importer, NEW pc \in {"published", "renamed"}, Publishes(i, pc)
  PROVE  ImportingInv'
<1> USE NoneAssumption
<1> DEFINE temp == IF pc = "renamed" THEN None ELSE run[i].temp
           x == [run[i] EXCEPT !.pc = pc, !.temp = temp]
<1>1. run[i].pc \in {"written", "looked"}
  BY DEF Publishes
<1>2. x \in RunState /\ HasTemp(x) /\ run' = [run EXCEPT ![i] = x]
  <2>1. run[i] \in RunState /\ HasTemp(run[i]) /\ temp \in Inode \cup {None}
    BY Before DEF RunState
  <2>2. run' = [run EXCEPT ![i] = x]
    BY Before DEF Publishes, RunState
  <2>3. run[i].temp = run[i].inode /\ run[i].inode # None
    BY <1>1, <2>1 DEF HasTemp, Locking
  <2>4. temp = IF ~links /\ pc \in {"renamed", "published"} THEN None ELSE run[i].inode
    BY <2>3 DEF Publishes
  <2> HIDE DEF temp
  <2>5. x \in RunState /\ x.pc = pc /\ x.temp = temp /\ x.inode = run[i].inode
    BY <2>1 DEF RunState, Locking
  <2> QED BY <2>2, <2>3, <2>4, <2>5 DEF HasTemp, Locking
<1>3. /\ run' \in [Importer -> RunState] /\ \A j \in Importer : HasTemp(run'[j])
      /\ run'[i] = x /\ \A j \in Importer : j # i => run'[j] = run[j]
  BY <1>2, OneRun DEF ImportingInv
<1>4. RunInv(i) /\ Current(i) \in Pack
  BY <1>1, CurrentIsPack DEF ImportingInv, RunInv, Locking, Installing
<1>5. run[i].temp \in Inode /\ file[run[i].temp] = i /\ run[i].temp = run[i].inode
  BY <1>1, Before DEF HasTemp, Locking
<1>6. /\ run'[i].pc = pc /\ run'[i].temp \in {run[i].temp, None}
      /\ run'[i].inode = run[i].inode /\ run'[i].done = run[i].done
      /\ run'[i].created = run[i].created /\ run'[i].left = run[i].left
  BY <1>3, Before DEF RunState
<1>7. /\ dir' \in [Pack -> Inode \cup {None}] /\ dir'[Current(i)] = run[i].temp
      /\ \A p \in Pack : p # Current(i) => dir'[p] = dir[p]
  BY <1>4, <1>5, Before DEF Publishes
<1>8. TypeOK'
  BY <1>3, <1>7, Before DEF TypeOK, HasTemp, Moved, Publishes
<1>9. FilesAreNamed' /\ TempsAreOwn'
  <2>1. ASSUME NEW p \in Pack, dir'[p] # None PROVE file'[dir'[p]] # None
    BY <1>5, <1>7, <2>1, Before DEF Publishes
  <2>2. ASSUME NEW j \in Importer, run'[j].temp # None PROVE file'[run'[j].temp] = j
    <3>1. run'[j].temp = run[j].temp
      BY <1>3, <1>6, <2>2
    <3> QED BY <2>2, <3>1, Before DEF Publishes
  <2> QED BY <2>1, <2>2 DEF FilesAreNamed, TempsAreOwn
\* The only new import is the run's own.
<1>10. \A p \in Pack, j \in Importer :
         IF p = Current(i) THEN ~Imported(p, j) /\ (Imported(p, j)' <=> j = i)
         ELSE dir'[p] = dir[p] /\ (Imported(p, j)' <=> Imported(p, j))
  <2> SUFFICES ASSUME NEW p \in Pack, NEW j \in Importer
               PROVE  IF p = Current(i) THEN ~Imported(p, j) /\ (Imported(p, j)' <=> j = i)
                      ELSE dir'[p] = dir[p] /\ (Imported(p, j)' <=> Imported(p, j))
    OBVIOUS
  <2>1. dir'[p] # None => file'[dir'[p]] = file[dir'[p]]
    BY DEF Publishes
  <2>2. CASE p = Current(i)
    BY <1>5, <1>7, <2>1, <2>2 DEF Imported, Publishes
  <2>3. CASE p # Current(i)
    BY <1>7, <2>1, <2>3 DEF Imported
  <2> QED BY <2>2, <2>3
<1>11. ASSUME NEW j \in Importer, j # i PROVE RunInv(j)'
  <2>1. LeavesAlone(j)
    BY <1>3, <1>10, <1>11 DEF LeavesAlone, Publishes
  <2> QED BY <2>1, OthersKeep
<1>12. Current(i)' = Current(i)
  BY <1>6 DEF Current
<1>13. InOrder(i)' /\ LockIsHeld(i)' /\ NameIsFree(i)' /\ TakesItsOwn(i)'
  <2>1. InOrder(i)'
    BY <1>1, <1>4, <1>6 DEF RunInv, InOrder, Installing, AtWork, Locking
  <2>2. LockIsHeld(i)'
    <3>1. CASE pc = "renamed"
      BY <1>4, <1>6, <1>12, <3>1 DEF Publishes, RunInv, LockIsHeld, Locking
    <3>2. CASE pc = "published"
      BY <1>6, <3>2 DEF LockIsHeld, Locking
    <3> QED BY <3>1, <3>2
  <2>3. NameIsFree(i)' /\ TakesItsOwn(i)'
    BY <1>6 DEF NameIsFree, TakesItsOwn
  <2> QED BY <2>1, <2>2, <2>3
<1>14. RecordIsTrue(i)'
  <2> SUFFICES ASSUME NEW own \in run[i].created, own[1] \notin excused
               PROVE  file'[own[2]] \in {i, None}
    BY <1>6 DEF RecordIsTrue, Publishes
  <2>1. own[2] \in Inode
    BY Before DEF RunState
  <2> QED BY <1>4, <2>1 DEF RunInv, RecordIsTrue, Publishes
<1>15. OnRecord(i)'
  <2> SUFFICES ASSUME NEW p \in Pack, Imported(p, i)'
               PROVE  \/ p \in run[i].left
                      \/ <<p, dir'[p]>> \in run[i].created
                      \/ p = Current(i) /\ dir'[p] = run[i].inode
    BY <1>6, <1>12 DEF OnRecord
  <2>1. CASE p = Current(i)
    BY <1>5, <1>7, <2>1
  <2>2. CASE p # Current(i)
    BY <1>1, <1>4, <1>10, <2>2 DEF RunInv, OnRecord
  <2> QED BY <2>1, <2>2
<1>16. NumberIsTrue(i)'
  BY <1>5, <1>6 DEF NumberIsTrue, Publishes
<1> QED BY <1>8, <1>9, <1>11, <1>13, <1>14, <1>15, <1>16 DEF ImportingInv, RunInv

LEMMA LinkKeeps ==
  ASSUME ImportingInv, NEW i \in Importer, Link(i)
  PROVE  ImportingInv'
<1> USE NoneAssumption
<1>1. RunInv(i) /\ Current(i) \in Pack
  BY CurrentIsPack DEF Link, ImportingInv, RunInv, Installing
<1>2. \A j \in Importer : run[j].pc # "looked"
  BY DEF Link, ImportingInv, RunInv, LockIsHeld, Locking
<1>3. \A j \in Importer : ~Imported(Current(i), j)
  BY DEF Link, Imported
<1>4. file' = file
  BY DEF Link
<1>5. run' = [run EXCEPT ![i].pc = "published", ![i].temp = @]
  BY Before DEF Link, Goes, RunState
<1>6. Publishes(i, "published")
  BY <1>2, <1>3, <1>4, <1>5, Before DEF Link, Publishes
<1> QED BY <1>6, PublishesKeeps

LEMMA RenameKeeps ==
  ASSUME ImportingInv, NEW i \in Importer, Rename(i)
  PROVE  ImportingInv'
<1> USE NoneAssumption
<1>1. RunInv(i) /\ Current(i) \in Pack
  BY CurrentIsPack DEF Rename, ImportingInv, RunInv, Installing, Locking
<1>2. \A j \in Importer : ~Imported(Current(i), j)
  BY <1>1 DEF Rename, RunInv, NameIsFree
<1>3. ASSUME NEW j \in Importer, j # i, run[j].pc = "looked" PROVE Current(j) # Current(i)
  BY <1>1, <1>3 DEF Rename, ImportingInv, RunInv, LockIsHeld, Locking
<1> DEFINE names == [dir EXCEPT ![Current(i)] = run[i].temp]
           runs == [run EXCEPT ![i].pc = "renamed", ![i].temp = None]
<1>4. dir' = names /\ run' = runs /\ file' = Collected(names, runs)
  BY DEF Rename
<1>5. /\ names \in [Pack -> Inode \cup {None}] /\ names[Current(i)] = run[i].temp
      /\ runs \in [Importer -> RunState] /\ \A j \in Importer : j # i => runs[j] = run[j]
  <2>1. run[i] \in RunState /\ run[i].temp \in Inode \cup {None}
    BY Before DEF RunState
  <2> DEFINE x == [run[i] EXCEPT !.pc = "renamed", !.temp = None]
  <2>2. x \in RunState
    BY <2>1 DEF RunState, Locking
  <2>3. runs = [run EXCEPT ![i] = x]
    BY Before DEF RunState
  <2> HIDE DEF x, runs
  <2> QED BY <1>1, <2>1, <2>2, <2>3, Before
<1> HIDE DEF names, runs
<1>6. /\ file' \in [Inode -> Importer \cup {Initializer, None}]
      /\ \A n \in Inode : file'[n] \in {file[n], None}
      /\ \A p \in Pack : names[p] # None => file'[names[p]] = file[names[p]]
      /\ \A j \in Importer : runs[j].temp # None => file'[runs[j].temp] = file[runs[j].temp]
  BY <1>4, <1>5, CollectedEffect DEF ImportingInv
<1>7. \A j \in Importer : run[j].temp # None => file'[run[j].temp] = file[run[j].temp]
  BY <1>1, <1>5, <1>6
<1>8. /\ run[i].pc = "looked" /\ dir' = [dir EXCEPT ![Current(i)] = run[i].temp]
      /\ run' = [run EXCEPT ![i].pc = "renamed", ![i].temp = None]
      /\ ~links /\ UNCHANGED <<links, lock, setup, excused>>
  BY <1>1 DEF Rename, RunInv, LockIsHeld, Locking
<1>9. Publishes(i, "renamed")
  BY <1>2, <1>3, <1>4, <1>7, <1>8, <1>6 DEF Publishes
<1> QED BY <1>9, PublishesKeeps

\* Steps that take names away, and free what has none.
Loses ==
  /\ \A p \in Pack : dir'[p] \in {dir[p], None}
  /\ \A n \in Inode : file'[n] \in {file[n], None}
  /\ \A p \in Pack : dir'[p] # None => file'[dir'[p]] = file[dir'[p]]
  /\ \A j \in Importer :
       run'[j].temp # None => run'[j].temp = run[j].temp /\ file'[run'[j].temp] = file[run'[j].temp]
  /\ links' = links /\ excused \subseteq excused'

LEMMA LosingKeeps ==
  ASSUME ImportingInv, Loses
  PROVE  /\ FilesAreNamed' /\ TempsAreOwn'
         /\ \A p \in Pack, j \in Importer :
              Imported(p, j)' <=> Imported(p, j) /\ dir'[p] # None
         /\ \A j \in Importer :
              /\ run'[j] = run[j]
              /\ run[j].pc \in Locking => lock'[Current(j)] = lock[Current(j)]
              /\ \A p \in Pack :
                   run[j].pc = "removing" /\ run[j].pack = p /\ Imported(p, j)
                     => dir'[p] # None \/ p \in excused'
              => RunInv(j)'
<1>1. FilesAreNamed' /\ TempsAreOwn'
  <2>1. ASSUME NEW p \in Pack, dir'[p] # None PROVE file'[dir'[p]] # None
    BY <2>1, Before DEF Loses
  <2>2. ASSUME NEW j \in Importer, run'[j].temp # None PROVE file'[run'[j].temp] = j
    BY <2>2, Before DEF Loses
  <2> QED BY <2>1, <2>2 DEF FilesAreNamed, TempsAreOwn
<1>2. ASSUME NEW p \in Pack, NEW j \in Importer
      PROVE  Imported(p, j)' <=> Imported(p, j) /\ dir'[p] # None
  <2>1. CASE dir'[p] = None
    BY <2>1 DEF Imported
  <2>2. CASE dir'[p] # None
    <3>1. dir'[p] = dir[p] /\ file'[dir'[p]] = file[dir'[p]]
      BY <2>2 DEF Loses
    <3> QED BY <2>2, <3>1 DEF Imported
  <2> QED BY <2>1, <2>2
<1>3. ASSUME NEW j \in Importer, run'[j] = run[j],
             run[j].pc \in Locking => lock'[Current(j)] = lock[Current(j)],
             \A p \in Pack :
               run[j].pc = "removing" /\ run[j].pack = p /\ Imported(p, j)
                 => dir'[p] # None \/ p \in excused'
      PROVE  RunInv(j)'
  <2>1. \A p \in Pack : Imported(p, j)' => Imported(p, j) /\ dir'[p] = dir[p]
    BY <1>2 DEF Loses
  <2>2. LeavesAlone(j)
    BY <1>2, <1>3, <2>1 DEF LeavesAlone, Loses
  <2> QED BY <2>2, OthersKeep
<1> QED BY <1>1, <1>2, <1>3

\* What Collected leaves of the files, when no name is given.
LEMMA CollectedLoses ==
  ASSUME ImportingInv, NEW runs \in [Importer -> RunState], dir' \in [Pack -> Inode \cup {None}],
         \A p \in Pack : dir'[p] \in {dir[p], None},
         file' = Collected(dir', runs), links' = links, excused \subseteq excused',
         \A j \in Importer : run'[j].temp = runs[j].temp /\ runs[j].temp \in {run[j].temp, None}
  PROVE  Loses /\ file' \in [Inode -> Importer \cup {Initializer, None}]
<1>1. PICK names \in [Pack -> Inode \cup {None}] : names = dir'
  OBVIOUS
<1>2. /\ file' \in [Inode -> Importer \cup {Initializer, None}]
      /\ \A n \in Inode : file'[n] \in {file[n], None}
      /\ \A p \in Pack : names[p] # None => file'[names[p]] = file[names[p]]
      /\ \A j \in Importer : runs[j].temp # None => file'[runs[j].temp] = file[runs[j].temp]
  <2>1. file' = Collected(names, runs)
    BY <1>1
  <2> QED BY <2>1, CollectedEffect DEF ImportingInv
<1> QED BY <1>1, <1>2 DEF Loses

LEMMA RecordKeeps ==
  ASSUME ImportingInv, NEW i \in Importer, Record(i)
  PROVE  ImportingInv'
<1> USE NoneAssumption
<1>1. RunInv(i) /\ Current(i) \in Pack /\ run[i].pc = "published"
  BY CurrentIsPack DEF Record, ImportingInv, RunInv, Installing
<1> DEFINE own == <<Current(i), run[i].inode>>
           x == [run[i] EXCEPT !.pc = "recorded", !.temp = None, !.inode = None,
                               !.created = @ \cup {own}]
<1>2. /\ run[i].inode \in Inode
      /\ Current(i) \notin excused => file[run[i].inode] \in {i, None}
  BY <1>1, Before DEF HasTemp, RunInv, NumberIsTrue
<1>3. x \in RunState /\ HasTemp(x)
  <2>1. run[i] \in RunState /\ own \in Pack \X Inode
    BY <1>1, <1>2, Before
  <2> HIDE DEF own
  <2>2. run[i].created \cup {own} \in SUBSET (Pack \X Inode)
    BY <2>1 DEF RunState
  <2> DEFINE cr == run[i].created \cup {own}
  <2> HIDE DEF cr
  <2>3. [run[i] EXCEPT !.pc = "recorded", !.temp = None, !.inode = None, !.created = cr]
          \in RunState
    BY <2>1, <2>2 DEF RunState, cr
  <2>4. x.pc = "recorded" /\ x.temp = None /\ x.inode = None
    BY <2>1 DEF RunState
  <2> QED BY <2>3, <2>4 DEF cr, HasTemp, Locking
<1>4. run' = [run EXCEPT ![i] = x]
  <2>1. run' = [run EXCEPT ![i].pc = "recorded", ![i].temp = None, ![i].inode = None,
                           ![i].created = @ \cup {<<Current(i), run[i].inode>>}]
    BY DEF Record
  <2>2. run \in [Importer -> RunState]
    BY Before
  <2> QED BY <2>1, <2>2 DEF RunState
<1>5. /\ run' \in [Importer -> RunState] /\ \A j \in Importer : HasTemp(run'[j])
      /\ run'[i] = x /\ \A j \in Importer : j # i => run'[j] = run[j]
  BY <1>3, <1>4, OneRun DEF ImportingInv
<1>6. /\ run'[i].pc = "recorded" /\ run'[i].temp = None /\ run'[i].inode = None
      /\ run'[i].done = run[i].done
      /\ run'[i].created = run[i].created \cup {own} /\ run'[i].left = run[i].left
  BY <1>5, Before DEF RunState
<1>7. UNCHANGED <<links, dir, lock, setup, excused>> /\ file' = Collected(dir', run')
  BY DEF Record
<1>8. Loses /\ file' \in [Inode -> Importer \cup {Initializer, None}]
  <2>1. PICK runs \in [Importer -> RunState] : runs = run'
    BY <1>5
  <2>2. \A j \in Importer : run'[j].temp = runs[j].temp /\ runs[j].temp \in {run[j].temp, None}
    BY <1>5, <1>6, <2>1
  <2> QED BY <1>7, <2>1, <2>2, CollectedLoses, Before
<1>9. TypeOK'
  BY <1>5, <1>7, <1>8, Before DEF TypeOK, HasTemp, Moved
<1>10. ASSUME NEW j \in Importer, j # i PROVE RunInv(j)'
  BY <1>5, <1>7, <1>8, <1>10, LosingKeeps DEF Imported
<1>11. RunInv(i)'
  <2>1. InOrder(i)' /\ LockIsHeld(i)' /\ NameIsFree(i)' /\ TakesItsOwn(i)'
    BY <1>1, <1>6 DEF RunInv, InOrder, LockIsHeld, NameIsFree, TakesItsOwn, Installing, AtWork, Locking
  <2>2. RecordIsTrue(i)'
    <3> SUFFICES ASSUME NEW o \in run[i].created \cup {own}, o[1] \notin excused
                 PROVE  file'[o[2]] \in {i, None}
      BY <1>6, <1>7 DEF RecordIsTrue
    <3>1. o[2] \in Inode
      BY <1>2, Before DEF RunState
    <3>2. file[o[2]] \in {i, None}
      <4>1. CASE o \in run[i].created
        BY <1>1, <4>1 DEF RunInv, RecordIsTrue
      <4>2. CASE o = own
        BY <1>2, <4>2
      <4> QED BY <4>1, <4>2
    <3> QED BY <1>8, <3>1, <3>2 DEF Loses
  <2>3. OnRecord(i)'
    <3> SUFFICES ASSUME NEW p \in Pack, Imported(p, i)'
                 PROVE  p \in run[i].left \/ <<p, dir[p]>> \in run[i].created \cup {own}
      BY <1>6, <1>7 DEF OnRecord
    <3>1. Imported(p, i)
      BY <1>8, LosingKeeps
    <3> QED BY <1>1, <3>1 DEF RunInv, OnRecord
  <2>4. NumberIsTrue(i)'
    BY <1>6 DEF NumberIsTrue
  <2> QED BY <2>1, <2>2, <2>3, <2>4 DEF RunInv
<1> QED BY <1>8, <1>9, <1>10, <1>11, LosingKeeps DEF ImportingInv

LEMMA RaiseKeeps ==
  ASSUME ImportingInv, NEW i \in Importer, run[i].pc \in AtWork, Raise(i)
  PROVE  ImportingInv'
<1> USE NoneAssumption
<1>1. RunInv(i)
  BY DEF ImportingInv
<1> DEFINE x == [run[i] EXCEPT !.temp = None, !.inode = None, !.pc = "undoing",
                               !.left = Untold(i)]
<1>2. x \in RunState /\ HasTemp(x)
  <2>1. run[i] \in RunState
    BY Before
  <2>2. Untold(i) \in SUBSET Pack
    BY <1>1, CurrentIsPack DEF ImportingInv, RunInv, Untold, Installing, Locking
  <2>3. x \in RunState
    BY <2>1, <2>2 DEF RunState
  <2>4. x.pc = "undoing" /\ x.temp = None /\ x.inode = None
    BY <2>1 DEF RunState
  <2> QED BY <2>3, <2>4 DEF HasTemp, Locking
<1>3. run' = [run EXCEPT ![i] = x]
  <2>1. run' = [[run EXCEPT ![i].temp = None, ![i].inode = None] EXCEPT
                  ![i].pc = "undoing", ![i].left = Untold(i)]
    BY DEF Raise, Cleaned
  <2>2. run \in [Importer -> RunState]
    BY Before
  <2> QED BY <2>1, <2>2 DEF RunState
<1>4. /\ run' \in [Importer -> RunState] /\ \A j \in Importer : HasTemp(run'[j])
      /\ run'[i] = x /\ \A j \in Importer : j # i => run'[j] = run[j]
  BY <1>2, <1>3, OneRun DEF ImportingInv
<1>5. /\ run'[i].pc = "undoing" /\ run'[i].temp = None /\ run'[i].created = run[i].created
      /\ run'[i].inode = None /\ run'[i].left = Untold(i)
  BY <1>4, Before DEF RunState
<1>6. UNCHANGED <<links, dir, setup, excused>> /\ file' = Collected(dir', run')
  BY DEF Raise
<1>7. /\ \A p \in Pack : lock'[p] # lock[p] => lock[p] = i
      /\ lock' \in [Pack -> Importer \cup {None}]
  <2>1. CASE run[i].pc \in Locking
    <3>1. Current(i) \in Pack /\ lock[Current(i)] = i
      BY <1>1, <2>1, CurrentIsPack DEF ImportingInv, RunInv, LockIsHeld, Installing
    <3> QED BY <2>1, <3>1, Before DEF Raise
  <2>2. CASE run[i].pc \notin Locking
    BY <2>2, Before DEF Raise
  <2> QED BY <2>1, <2>2
<1>8. Loses /\ file' \in [Inode -> Importer \cup {Initializer, None}]
  <2>1. PICK runs \in [Importer -> RunState] : runs = run'
    BY <1>4
  <2>2. \A j \in Importer : run'[j].temp = runs[j].temp /\ runs[j].temp \in {run[j].temp, None}
    BY <1>4, <1>5, <2>1
  <2> QED BY <1>6, <2>1, <2>2, CollectedLoses, Before
<1>9. TypeOK'
  BY <1>4, <1>6, <1>7, <1>8, Before DEF TypeOK, HasTemp, Moved
<1>10. ASSUME NEW j \in Importer, j # i PROVE RunInv(j)'
  <2>1. ASSUME run[j].pc \in Locking PROVE lock'[Current(j)] = lock[Current(j)]
    <3>1. RunInv(j)
      BY DEF ImportingInv
    <3>2. Current(j) \in Pack /\ lock[Current(j)] = j
      BY <2>1, <3>1, CurrentIsPack DEF ImportingInv, RunInv, LockIsHeld, Installing
    <3> QED BY <1>7, <1>10, <3>2
  <2> QED BY <1>4, <1>6, <1>8, <1>10, <2>1, LosingKeeps DEF Imported
<1>11. RunInv(i)'
  <2>1. InOrder(i)' /\ LockIsHeld(i)' /\ NameIsFree(i)' /\ TakesItsOwn(i)'
    BY <1>5 DEF InOrder, LockIsHeld, NameIsFree, TakesItsOwn, Installing, AtWork, Locking
  <2>2. RecordIsTrue(i)'
    <3> SUFFICES ASSUME NEW o \in run[i].created, o[1] \notin excused
                 PROVE  file'[o[2]] \in {i, None}
      BY <1>5, <1>6 DEF RecordIsTrue
    <3>1. o[2] \in Inode /\ file[o[2]] \in {i, None}
      BY <1>1, Before DEF RunState, RunInv, RecordIsTrue
    <3> QED BY <1>8, <3>1 DEF Loses
  <2>3. OnRecord(i)'
    <3> SUFFICES ASSUME NEW p \in Pack, Imported(p, i)'
                 PROVE  p \in Untold(i) \/ <<p, dir[p]>> \in run[i].created
      BY <1>5, <1>6 DEF OnRecord
    <3>1. Imported(p, i)
      BY <1>8, LosingKeeps
    <3> QED BY <1>1, <3>1 DEF RunInv, OnRecord, InOrder, AtWork, Locking, Untold
  <2>4. NumberIsTrue(i)'
    BY <1>5 DEF NumberIsTrue
  <2> QED BY <2>1, <2>2, <2>3, <2>4 DEF RunInv
<1> QED BY <1>8, <1>9, <1>10, <1>11, LosingKeeps DEF ImportingInv

\* A step that changes nothing but its own run, whose private file stays.
LEMMA OwnStepKeeps ==
  ASSUME ImportingInv, NEW i \in Importer, NEW x \in RunState, HasTemp(x), x.temp = run[i].temp,
         run' = [run EXCEPT ![i] = x], UNCHANGED <<links, dir, file, lock, setup, excused>>,
         RunInv(i)'
  PROVE  ImportingInv'
<1>1. /\ run' \in [Importer -> RunState] /\ \A j \in Importer : HasTemp(run'[j])
      /\ run'[i] = x /\ \A j \in Importer : j # i => run'[j] = run[j]
  BY OneRun DEF ImportingInv
<1>2. TypeOK'
  BY <1>1, Before DEF TypeOK, HasTemp, Moved
<1>3. DirectoryRests
  BY <1>1 DEF DirectoryRests
<1>4. ASSUME NEW j \in Importer, j # i PROVE RunInv(j)'
  BY <1>1, <1>3, <1>4, RestingKeeps
<1>5. FilesAreNamed' /\ TempsAreOwn'
  BY <1>3, RestingKeeps
<1> QED BY <1>2, <1>4, <1>5 DEF ImportingInv

LEMMA ReturnKeeps ==
  ASSUME ImportingInv, NEW i \in Importer, Return(i)
  PROVE  ImportingInv'
<1> USE NoneAssumption
<1>1. RunInv(i) /\ run[i] \in RunState /\ HasTemp(run[i]) /\ run[i].pc = "recorded"
  BY Before DEF ImportingInv, Return
<1>2. PICK x : /\ x = Over(i, "installed") \/ x = [run[i] EXCEPT !.pc = "ready", !.done = @ + 1]
               /\ run' = [run EXCEPT ![i] = x]
  <2> DEFINE last == run[i].done + 1 = Len(Wanted[i])
  <2>1. run' = [run EXCEPT ![i] = IF last THEN Over(i, "installed")
                                  ELSE [run[i] EXCEPT !.pc = "ready", !.done = @ + 1]]
    BY DEF Return
  <2>2. CASE last
    BY <2>1, <2>2
  <2>3. CASE ~last
    BY <2>1, <2>3
  <2> QED BY <2>2, <2>3
<1>3. /\ x \in RunState /\ x.temp = run[i].temp /\ x.left = run[i].left
      /\ x.inode \in {run[i].inode, None}
      /\ \/ x.pc = "installed" /\ x.created = {}
         \/ x.pc = "ready" /\ x.created = run[i].created
  <2>1. CASE x = Over(i, "installed")
    BY <1>1, <2>1 DEF RunState, Over
  <2>2. CASE x = [run[i] EXCEPT !.pc = "ready", !.done = @ + 1]
    <3>1. run[i].done + 1 \in Nat
      BY <1>1 DEF RunState
    <3>2. PICK k \in Nat : x = [run[i] EXCEPT !.pc = "ready", !.done = k]
      BY <2>2, <3>1
    <3> QED BY <1>1, <3>2 DEF RunState
  <2> QED BY <1>2, <2>1, <2>2
<1>4. HasTemp(x) /\ x.inode = None
  BY <1>1, <1>3 DEF HasTemp, Locking
<1>5. UNCHANGED <<links, dir, file, lock, setup, excused>>
  BY DEF Return
<1>6. run'[i] = x
  BY <1>2, Before
<1>7. RunInv(i)'
  <2>1. InOrder(i)' /\ LockIsHeld(i)' /\ NameIsFree(i)' /\ TakesItsOwn(i)'
    BY <1>1, <1>3, <1>6
       DEF RunInv, InOrder, LockIsHeld, NameIsFree, TakesItsOwn, Installing, AtWork, Locking
  <2>2. RecordIsTrue(i)'
    BY <1>1, <1>3, <1>5, <1>6 DEF RunInv, RecordIsTrue
  <2>3. OnRecord(i)'
    <3>1. \A p \in Pack : Imported(p, i) => p \in run[i].left \/ <<p, dir[p]>> \in run[i].created
      BY <1>1 DEF RunInv, OnRecord
    <3> QED BY <1>3, <1>5, <1>6, <3>1 DEF OnRecord, Imported
  <2> QED BY <1>4, <1>6, <2>1, <2>2, <2>3 DEF RunInv, NumberIsTrue
<1> QED BY <1>2, <1>3, <1>4, <1>5, <1>7, OwnStepKeeps

LEMMA KilledKeeps ==
  ASSUME ImportingInv, NEW i \in Importer, Killed(i)
  PROVE  ImportingInv'
<1>1. run[i] \in RunState
  BY Before
<1> DEFINE x == Over(i, "killed")
<1>2. /\ x \in RunState /\ x.temp = run[i].temp /\ x.pc = "killed" /\ x.created = {}
      /\ x.inode = None
  BY <1>1 DEF RunState, Over
<1>3. HasTemp(x)
  BY <1>2 DEF HasTemp, Locking
<1>4. run' = [run EXCEPT ![i] = x] /\ UNCHANGED <<links, dir, file, lock, setup, excused>>
  BY DEF Killed
<1>5. run'[i] = x
  BY <1>4, Before
<1>6. RunInv(i)'
  BY <1>2, <1>5 DEF RunInv, InOrder, LockIsHeld, NameIsFree, RecordIsTrue, NumberIsTrue, OnRecord,
                    TakesItsOwn, Installing, AtWork, Locking
<1> QED BY <1>2, <1>3, <1>4, <1>6, OwnStepKeeps

LEMMA UndoLooksKeeps ==
  ASSUME ImportingInv, NEW i \in Importer, UndoLooks(i)
  PROVE  ImportingInv'
<1> USE NoneAssumption
<1>1. RunInv(i) /\ run[i] \in RunState /\ HasTemp(run[i]) /\ run[i].pc = "undoing"
  BY Before DEF ImportingInv, UndoLooks
<1>2. UNCHANGED <<links, dir, file, lock, setup, excused>>
  BY DEF UndoLooks
<1>3. \A p \in Pack : Imported(p, i) => p \in run[i].left \/ <<p, dir[p]>> \in run[i].created
  BY <1>1 DEF RunInv, OnRecord
<1>4. CASE run[i].created = {}
  <2> DEFINE x == Over(i, "failed")
  <2>1. /\ x \in RunState /\ x.temp = run[i].temp /\ x.pc = "failed" /\ x.created = {}
        /\ x.inode = None
        /\ x.left = run[i].left
    BY <1>1 DEF RunState, Over
  <2>2. HasTemp(x)
    BY <1>1, <2>1 DEF HasTemp, Locking
  <2>3. run' = [run EXCEPT ![i] = x]
    BY <1>4 DEF UndoLooks, Undoable
  <2>4. run'[i] = x
    BY <2>3, Before
  <2>5. OnRecord(i)'
    BY <1>2, <1>3, <1>4, <2>1, <2>4 DEF OnRecord, Imported
  <2>6. RunInv(i)'
    BY <2>1, <2>4, <2>5 DEF RunInv, InOrder, LockIsHeld, NameIsFree, RecordIsTrue, NumberIsTrue,
                            TakesItsOwn, Installing, AtWork, Locking
  <2> QED BY <1>2, <2>1, <2>2, <2>3, <2>6, OwnStepKeeps
<1>5. CASE run[i].created # {}
  <2>1. PICK own \in run[i].created :
          run' = [run EXCEPT ![i].created = @ \ {own},
                             ![i].pc = IF IsOurs(own) THEN "removing" ELSE "undoing",
                             ![i].pack = IF IsOurs(own) THEN own[1] ELSE None]
    BY <1>5 DEF UndoLooks, Undoable
  <2>2. own = <<own[1], own[2]>> /\ own[1] \in Pack /\ own[2] \in Inode
    BY <1>1 DEF RunState
  <2>3. PICK pc \in {"removing", "undoing"}, pack \in Pack \cup {None} :
          /\ pc = IF IsOurs(own) THEN "removing" ELSE "undoing"
          /\ pack = IF IsOurs(own) THEN own[1] ELSE None
    BY <2>2
  <2> DEFINE rest == run[i].created \ {own}
             x == [run[i] EXCEPT !.created = rest, !.pc = pc, !.pack = pack]
  <2>4. rest \in SUBSET (Pack \X Inode)
    BY <1>1 DEF RunState
  <2>5. run' = [run EXCEPT ![i] = x]
    BY <2>1, <2>3, Before DEF RunState
  <2>6. /\ x \in RunState /\ x.temp = run[i].temp /\ x.pc = pc /\ x.pack = pack
        /\ x.created = rest /\ x.left = run[i].left /\ x.inode = run[i].inode
    <3> HIDE DEF rest
    <3> QED BY <1>1, <2>4 DEF RunState
  <2>7. HasTemp(x)
    BY <1>1, <2>6 DEF HasTemp, Locking
  <2>8. run'[i] = x
    BY <2>5, Before
  <2> HIDE DEF x
  <2>9. TakesItsOwn(i)'
    <3> SUFFICES ASSUME pc = "removing", pack \notin excused PROVE Imported(pack, i)'
      BY <1>2, <2>6, <2>8 DEF TakesItsOwn, Imported
    <3>1. dir[own[1]] = own[2] /\ pack = own[1]
      BY <2>3 DEF IsOurs
    <3>2. file[own[2]] \in {i, None}
      BY <1>1, <3>1 DEF RunInv, RecordIsTrue
    <3>3. file[own[2]] # None /\ own[2] # None
      BY <2>2, <3>1, Before
    <3> QED BY <1>2, <3>1, <3>2, <3>3 DEF Imported
  <2>10. OnRecord(i)'
    <3> SUFFICES ASSUME NEW p \in Pack, Imported(p, i), p \notin run[i].left, <<p, dir[p]>> # own
                            => <<p, dir[p]>> \notin run[i].created
                 PROVE  pc = "removing" /\ pack = p
      BY <1>2, <2>6, <2>8 DEF OnRecord, Imported
    <3>1. <<p, dir[p]>> = own
      BY <1>3
    <3>2. own[1] = p /\ IsOurs(own)
      BY <3>1 DEF IsOurs
    <3> QED BY <2>3, <3>2
  <2>11. RecordIsTrue(i)'
    BY <1>1, <1>2, <2>6, <2>8 DEF RunInv, RecordIsTrue
  <2>12. InOrder(i)' /\ LockIsHeld(i)' /\ NameIsFree(i)'
    BY <2>2, <2>3, <2>6, <2>8 DEF InOrder, LockIsHeld, NameIsFree, Installing, AtWork, Locking
  <2>13. RunInv(i)'
    BY <2>6, <2>7, <2>8, <2>9, <2>10, <2>11, <2>12 DEF RunInv, NumberIsTrue, HasTemp, Locking
  <2> QED BY <1>2, <2>5, <2>6, <2>7, <2>13, OwnStepKeeps
<1> QED BY <1>4, <1>5

\* Two rollbacks can be about to remove the same pack only if it is excused.
LEMMA UndoRemovesKeeps ==
  ASSUME ImportingInv, NEW i \in Importer, UndoRemoves(i)
  PROVE  ImportingInv'
<1> USE NoneAssumption
<1>1. RunInv(i) /\ run[i] \in RunState /\ HasTemp(run[i]) /\ run[i].pc = "removing"
  BY Before DEF ImportingInv, UndoRemoves
<1>2. PICK p \in Pack : p = run[i].pack
  BY <1>1 DEF RunInv, InOrder, RunState
<1> DEFINE x == [run[i] EXCEPT !.pc = "undoing", !.pack = None]
<1>3. /\ x \in RunState /\ x.pc = "undoing" /\ x.temp = run[i].temp /\ x.done = run[i].done
      /\ x.created = run[i].created /\ x.left = run[i].left /\ x.inode = run[i].inode
  BY <1>1 DEF RunState
<1>4. HasTemp(x) /\ x.inode = None
  BY <1>1, <1>3 DEF HasTemp, Locking
<1>5. run' = [run EXCEPT ![i] = x]
  BY <1>1, Before DEF UndoRemoves
<1>6. /\ run' \in [Importer -> RunState] /\ \A j \in Importer : HasTemp(run'[j])
      /\ run'[i] = x /\ \A j \in Importer : j # i => run'[j] = run[j]
  BY <1>3, <1>4, <1>5, OneRun DEF ImportingInv
<1>7. /\ dir' = [dir EXCEPT ![p] = None] /\ file' = Collected(dir', run)
      /\ UNCHANGED <<links, lock, setup, excused>>
  BY <1>2 DEF UndoRemoves
<1>8. /\ dir' \in [Pack -> Inode \cup {None}] /\ dir'[p] = None
      /\ \A q \in Pack : q # p => dir'[q] = dir[q]
  BY <1>7, Before
<1>9. Loses /\ file' \in [Inode -> Importer \cup {Initializer, None}]
  <2>1. \A j \in Importer : run'[j].temp = run[j].temp
    BY <1>3, <1>6
  <2>2. run \in [Importer -> RunState] /\ \A q \in Pack : dir'[q] \in {dir[q], None}
    BY <1>8, Before
  <2> QED BY <1>7, <1>8, <2>1, <2>2, CollectedLoses
<1>10. TypeOK'
  BY <1>6, <1>7, <1>8, <1>9, Before DEF TypeOK, HasTemp, Moved
<1>11. ASSUME NEW j \in Importer, j # i PROVE RunInv(j)'
  <2>1. ASSUME NEW q \in Pack, run[j].pc = "removing", run[j].pack = q, Imported(q, j)
        PROVE  dir'[q] # None \/ q \in excused'
    <3>1. CASE q # p
      BY <1>8, <2>1, <3>1 DEF Imported
    <3>2. CASE q = p
      <4>1. ~Imported(p, i)
        BY <1>11, <2>1, <3>2 DEF Imported
      <4> QED BY <1>1, <1>2, <1>7, <3>2, <4>1 DEF RunInv, TakesItsOwn
    <3> QED BY <3>1, <3>2
  <2> QED BY <1>6, <1>7, <1>9, <1>11, <2>1, LosingKeeps
<1>12. RunInv(i)'
  <2>1. InOrder(i)' /\ LockIsHeld(i)' /\ NameIsFree(i)' /\ TakesItsOwn(i)'
    BY <1>3, <1>6 DEF InOrder, LockIsHeld, NameIsFree, TakesItsOwn, Installing, AtWork, Locking
  <2>2. RecordIsTrue(i)'
    <3> SUFFICES ASSUME NEW o \in run[i].created, o[1] \notin excused
                 PROVE  file'[o[2]] \in {i, None}
      BY <1>3, <1>6, <1>7 DEF RecordIsTrue
    <3>1. o[2] \in Inode /\ file[o[2]] \in {i, None}
      BY <1>1, Before DEF RunState, RunInv, RecordIsTrue
    <3> QED BY <1>9, <3>1 DEF Loses
  <2>3. OnRecord(i)'
    <3> SUFFICES ASSUME NEW q \in Pack, Imported(q, i)'
                 PROVE  q \in run[i].left \/ <<q, dir'[q]>> \in run[i].created
      BY <1>3, <1>6 DEF OnRecord
    <3>1. Imported(q, i) /\ dir'[q] # None
      BY <1>9, LosingKeeps
    <3>2. q # p /\ dir'[q] = dir[q]
      BY <1>8, <3>1
    <3> QED BY <1>1, <1>2, <3>1, <3>2 DEF RunInv, OnRecord
  <2> QED BY <1>4, <1>6, <2>1, <2>2, <2>3 DEF RunInv, NumberIsTrue
<1> QED BY <1>9, <1>10, <1>11, <1>12, LosingKeeps DEF ImportingInv

LEMMA UndoIsRefusedKeeps ==
  ASSUME ImportingInv, NEW i \in Importer, UndoIsRefused(i)
  PROVE  ImportingInv'
<1> USE NoneAssumption
<1>1. RunInv(i) /\ run[i] \in RunState /\ HasTemp(run[i]) /\ run[i].pc = "removing"
  BY Before DEF ImportingInv, UndoIsRefused
<1>2. PICK p \in Pack : p = run[i].pack
  BY <1>1 DEF RunInv, InOrder, RunState
<1> DEFINE left == run[i].left \cup {p}
           x == [run[i] EXCEPT !.pc = "undoing", !.pack = None, !.left = left]
<1>3. left \in SUBSET Pack
  BY <1>1 DEF RunState
<1>4. run' = [run EXCEPT ![i] = x] /\ UNCHANGED <<links, dir, file, lock, setup, excused>>
  BY <1>1, <1>2, Before DEF UndoIsRefused, RunState
<1>5. /\ x \in RunState /\ x.pc = "undoing" /\ x.temp = run[i].temp /\ x.inode = run[i].inode
      /\ x.created = run[i].created /\ x.left = left
  <2> HIDE DEF left
  <2> QED BY <1>1, <1>3 DEF RunState
<1>6. HasTemp(x) /\ x.inode = None
  BY <1>1, <1>5 DEF HasTemp, Locking
<1>7. run'[i] = x
  BY <1>4, Before
<1> HIDE DEF x
<1>8. RunInv(i)'
  <2>1. InOrder(i)' /\ LockIsHeld(i)' /\ NameIsFree(i)' /\ NumberIsTrue(i)' /\ TakesItsOwn(i)'
    BY <1>5, <1>6, <1>7 DEF InOrder, LockIsHeld, NameIsFree, NumberIsTrue, TakesItsOwn,
                            Installing, AtWork, Locking
  <2>2. RecordIsTrue(i)'
    BY <1>1, <1>4, <1>5, <1>7 DEF RunInv, RecordIsTrue
  <2>3. OnRecord(i)'
    <3>1. \A q \in Pack : Imported(q, i) => q \in left \/ <<q, dir[q]>> \in run[i].created
      BY <1>1, <1>2 DEF RunInv, OnRecord
    <3> QED BY <1>4, <1>5, <1>7, <3>1 DEF OnRecord, Imported
  <2> QED BY <2>1, <2>2, <2>3 DEF RunInv
<1> QED BY <1>4, <1>5, <1>6, <1>8, OwnStepKeeps

LEMMA RemoveStaleLockKeeps ==
  ASSUME ImportingInv, NEW p \in Pack, RemoveStaleLock(p)
  PROVE  ImportingInv'
<1> USE NoneAssumption
<1>1. /\ lock' = [lock EXCEPT ![p] = None] /\ UNCHANGED <<links, dir, file, run, setup, excused>>
      /\ lock[p] \in Importer /\ run[lock[p]].pc \notin Locking
  BY Before DEF RemoveStaleLock, Locking
<1>2. TypeOK'
  BY <1>1, Before DEF TypeOK, HasTemp, Moved
<1>3. DirectoryRests
  BY <1>1 DEF DirectoryRests
<1>4. ASSUME NEW j \in Importer PROVE RunInv(j)'
  <2>1. ASSUME run[j].pc \in Locking PROVE lock'[Current(j)] = lock[Current(j)]
    <3>1. RunInv(j)
      BY DEF ImportingInv
    <3>2. Current(j) \in Pack /\ lock[Current(j)] = j
      BY <2>1, <3>1, CurrentIsPack DEF ImportingInv, RunInv, LockIsHeld, Installing
    <3> QED BY <1>1, <2>1, <3>2, Before
  <2> QED BY <1>1, <1>3, <2>1, RestingKeeps
<1> QED BY <1>2, <1>3, <1>4, RestingKeeps DEF ImportingInv

LEMMA SetupMovesKeeps ==
  ASSUME ImportingInv, SetupStarts \/ SetupFails
  PROVE  ImportingInv'
<1>1. UNCHANGED <<links, dir, file, lock, run, excused>>
  BY DEF SetupStarts, SetupFails
<1>2. setup' \in SetupState
  BY Before DEF SetupStarts, SetupFails, SetupState
<1>3. TypeOK'
  BY <1>1, <1>2, Before DEF TypeOK, HasTemp, Moved
<1>4. DirectoryRests
  BY <1>1 DEF DirectoryRests
<1>5. \A j \in Importer : RunInv(j)'
  BY <1>1, <1>4, RestingKeeps
<1> QED BY <1>3, <1>4, <1>5, RestingKeeps DEF ImportingInv

\* The file of initialize_registry is no importer's.
LEMMA SetupCopiesKeeps ==
  ASSUME ImportingInv, SetupCopies
  PROVE  ImportingInv'
<1> USE NoneAssumption
<1>1. PICK p \in setup.todo, n \in Inode :
        /\ dir[p] = None /\ file[n] = None
        /\ dir' = [dir EXCEPT ![p] = n] /\ file' = [file EXCEPT ![n] = Initializer]
        /\ setup' = [setup EXCEPT !.todo = @ \ {p}, !.copied = @ \cup {p},
                                  !.pc = IF setup.todo = {p} THEN "over" ELSE "copying"]
        /\ excused' = excused \cup Recorded(n)
  BY DEF SetupCopies
<1>2. UNCHANGED <<links, lock, run>>
  BY DEF SetupCopies
<1>3. p \in Pack
  BY Before DEF SetupState
<1>4. setup' \in SetupState
  BY <1>1, <1>3, Before DEF SetupState
<1>5. /\ dir' \in [Pack -> Inode \cup {None}] /\ dir'[p] = n
      /\ \A q \in Pack : q # p => dir'[q] = dir[q]
  BY <1>1, <1>3, Before
<1>6. TypeOK'
  BY <1>1, <1>2, <1>4, <1>5, Before DEF TypeOK, HasTemp, Moved, Recorded
<1>7. \A q \in Pack : dir[q] # None => dir[q] # n /\ file'[dir[q]] = file[dir[q]]
  BY <1>1, Before
<1>8. file'[n] = Initializer
  BY <1>1, Before
<1>9. FilesAreNamed' /\ TempsAreOwn'
  <2>1. ASSUME NEW q \in Pack, dir'[q] # None PROVE file'[dir'[q]] # None
    BY <1>5, <1>7, <1>8, <2>1, Before
  <2>2. ASSUME NEW j \in Importer, run[j].temp # None PROVE file'[run[j].temp] = j
    BY <1>1, <2>2, Before
  <2> QED BY <1>2, <2>1, <2>2 DEF FilesAreNamed, TempsAreOwn
<1>10. ASSUME NEW q \in Pack, NEW j \in Importer
       PROVE  IF q = p THEN ~Imported(q, j) /\ ~Imported(q, j)'
              ELSE dir'[q] = dir[q] /\ (Imported(q, j)' <=> Imported(q, j))
  <2>1. CASE q = p
    BY <1>1, <1>5, <1>8, <2>1 DEF Imported
  <2>2. CASE q # p
    BY <1>5, <1>7, <2>2 DEF Imported
  <2> QED BY <2>1, <2>2
<1>11. \A m \in Inode : file'[m] \in {file[m], None} \/ Recorded(m) \subseteq excused'
  BY <1>1, Before
<1>12. ASSUME NEW j \in Importer PROVE RunInv(j)'
  <2>1. LeavesAlone(j)
    BY <1>1, <1>2, <1>10, <1>11 DEF LeavesAlone
  <2> QED BY <2>1, OthersKeep
<1> QED BY <1>6, <1>9, <1>12 DEF ImportingInv

\* A pack is taken away by somebody who is not an importer.
LEMMA TakenAwayKeeps ==
  ASSUME ImportingInv, NEW p \in Pack, dir' = [dir EXCEPT ![p] = None],
         file' = Collected(dir', run), excused' = excused \cup InDoubt(p),
         UNCHANGED <<links, lock, run>>, setup' \in SetupState
  PROVE  ImportingInv'
<1> USE NoneAssumption
<1>1. /\ dir' \in [Pack -> Inode \cup {None}] /\ dir'[p] = None
      /\ \A q \in Pack : q # p => dir'[q] = dir[q]
  BY Before
<1>2. Loses /\ file' \in [Inode -> Importer \cup {Initializer, None}]
  <2>1. run \in [Importer -> RunState] /\ \A q \in Pack : dir'[q] \in {dir[q], None}
    BY <1>1, Before
  <2> QED BY <1>1, <2>1, CollectedLoses
<1>3. InDoubt(p) \in SUBSET Pack
  BY DEF InDoubt
<1>4. TypeOK'
  BY <1>1, <1>2, <1>3, Before DEF TypeOK, HasTemp, Moved
<1>5. ASSUME NEW j \in Importer PROVE RunInv(j)'
  <2>1. ASSUME NEW q \in Pack, run[j].pc = "removing", run[j].pack = q, Imported(q, j)
        PROVE  dir'[q] # None \/ q \in excused'
    <3>1. CASE q # p
      BY <1>1, <2>1, <3>1 DEF Imported
    <3>2. CASE q = p
      BY <2>1, <3>2 DEF InDoubt
    <3> QED BY <3>1, <3>2
  <2> QED BY <1>2, <2>1, LosingKeeps
<1> QED BY <1>2, <1>4, <1>5, LosingKeeps DEF ImportingInv

LEMMA SetupUndoesKeeps ==
  ASSUME ImportingInv, SetupUndoes
  PROVE  ImportingInv'
<1>1. PICK p \in setup.copied :
        /\ dir' = [dir EXCEPT ![p] = None] /\ file' = Collected(dir', run)
        /\ setup' = [setup EXCEPT !.copied = @ \ {p}]
        /\ excused' = excused \cup InDoubt(p)
  BY DEF SetupUndoes
<1>2. p \in Pack /\ setup' \in SetupState
  BY <1>1, Before DEF SetupState
<1>3. UNCHANGED <<links, lock, run>>
  BY DEF SetupUndoes
<1> QED BY <1>1, <1>2, <1>3, TakenAwayKeeps

LEMMA RemovedByOtherKeeps ==
  ASSUME ImportingInv, NEW p \in Pack, RemovedByOther(p)
  PROVE  ImportingInv'
BY TakenAwayKeeps, Before DEF RemovedByOther

-----------------------------------------------------------------------------
(* The theorems.                                                           *)

LEMMA ImportingInit == Init => ImportingInv
<1> SUFFICES ASSUME Init PROVE ImportingInv
  OBVIOUS
<1> USE NoneAssumption DEF Init
<1> DEFINE x == [pc |-> "ready", done |-> 0, temp |-> None, inode |-> None, created |-> {},
                 pack |-> None, left |-> {}]
<1>1. x \in RunState /\ \A i \in Importer : run[i] = x
  BY DEF RunState
<1>2. setup \in SetupState
  BY ImportingAssumption DEF SetupState
<1>3. TypeOK
  BY <1>1, <1>2 DEF TypeOK, Moved, Locking
<1>4. FilesAreNamed /\ TempsAreOwn /\ \A p \in Pack, i \in Importer : ~Imported(p, i)
  BY <1>1 DEF FilesAreNamed, TempsAreOwn, Imported
<1>5. ASSUME NEW i \in Importer PROVE RunInv(i)
  BY <1>1, <1>4 DEF RunInv, InOrder, LockIsHeld, NameIsFree, RecordIsTrue, NumberIsTrue, OnRecord,
                    TakesItsOwn, Installing, AtWork, Locking
<1> QED BY <1>3, <1>4, <1>5 DEF ImportingInv

LEMMA ImportingNext == ImportingInv /\ [Next]_vars => ImportingInv'
<1> SUFFICES ASSUME ImportingInv, [Next]_vars PROVE ImportingInv'
  OBVIOUS
<1>1. ASSUME NEW i \in Importer,
             \/ Write(i) \/ Link(i) \/ Lock(i) \/ Look(i) \/ Rename(i) \/ Unlock(i)
             \/ Record(i) \/ Return(i) \/ Refused(i) \/ Interrupted(i) \/ Killed(i)
             \/ UndoLooks(i) \/ UndoRemoves(i) \/ UndoIsRefused(i)
      PROVE  ImportingInv'
  <2>1. CASE Refused(i) \/ Interrupted(i)
    <3>1. run[i].pc \in AtWork /\ Raise(i)
      BY <2>1 DEF Refused, Interrupted, AtWork, Locking
    <3> QED BY <3>1, RaiseKeeps
  <2> QED BY <1>1, <2>1, WriteKeeps, LinkKeeps, LockKeeps, RenameKeeps, RecordKeeps, ReturnKeeps,
             KilledKeeps, UndoLooksKeeps, UndoRemovesKeeps, UndoIsRefusedKeeps
<1>2. ASSUME NEW p \in Pack, RemoveStaleLock(p) \/ RemovedByOther(p) PROVE ImportingInv'
  BY <1>2, RemoveStaleLockKeeps, RemovedByOtherKeeps
<1>3. CASE SetupStarts \/ SetupCopies \/ SetupFails \/ SetupUndoes
  BY <1>3, SetupMovesKeeps, SetupCopiesKeeps, SetupUndoesKeeps
<1>4. CASE UNCHANGED vars
  <2>1. UNCHANGED <<links, dir, file, lock, run, setup, excused>>
    BY <1>4 DEF vars
  <2>2. TypeOK'
    BY <2>1, Before DEF TypeOK, HasTemp, Moved
  <2>3. DirectoryRests
    BY <2>1 DEF DirectoryRests
  <2>4. \A j \in Importer : RunInv(j)'
    BY <2>1, <2>3, RestingKeeps
  <2> QED BY <2>2, <2>3, <2>4, RestingKeeps DEF ImportingInv
<1> QED BY <1>1, <1>2, <1>3, <1>4 DEF Next

\* What the others rest on: locks are held, names looked at are free of imports, records
\* are true and complete.
THEOREM ImportingIsInvariant == Spec => []ImportingInv
BY ImportingInit, ImportingNext, PTL DEF Spec

\* A rollback takes all that its run published and nothing else, whatever the other runs,
\* initialize_registry and the operator do in between (remote.py:120-141), but for what it
\* is refused, was interrupted before recording, or cannot tell from its own.
THEOREM RollbacksAreExact == Spec => []RollbackIsExact
<1>1. ImportingInv => RollbackIsExact
  <2> SUFFICES ASSUME ImportingInv PROVE RollbackIsExact
    OBVIOUS
  <2>1. \A i \in Importer : RunInv(i)
    BY DEF ImportingInv
  <2>2. RollbackTakesItsOwn
    BY <2>1 DEF RunInv, TakesItsOwn, RollbackTakesItsOwn
  <2>3. AllOrNothing
    BY <2>1 DEF RunInv, InOrder, OnRecord, AllOrNothing
  <2> QED BY <2>2, <2>3 DEF RollbackIsExact, ImportingInv
<1> QED BY <1>1, ImportingIsInvariant, PTL

\* No importer overwrites another one's pack, even by the rename that overwrites whatever
\* is there (archive.py:203-239).
THEOREM NothingIsOverwritten == Spec => ImportsAreNotOverwritten
<1> DEFINE Kept == \A p \in Pack, i \in Importer :
                     Imported(p, i) /\ dir'[p] # dir[p] => dir'[p] = None
<1>1. ImportingInv /\ [Next]_vars => Kept
  <2> SUFFICES ASSUME ImportingInv, [Next]_vars, NEW p \in Pack, NEW i \in Importer,
                      Imported(p, i), dir'[p] # dir[p], dir'[p] # None
               PROVE  FALSE
    OBVIOUS
  <2>1. dir[p] # None
    BY DEF Imported
  <2>2. ASSUME NEW j \in Importer, Link(j) PROVE FALSE
    BY <2>1, <2>2, Before DEF Link
  <2>3. ASSUME NEW j \in Importer, Rename(j) PROVE FALSE
    <3>1. p = Current(j)
      BY <2>3, Before DEF Rename
    <3>2. ~Imported(Current(j), i)
      BY <2>3 DEF Rename, ImportingInv, RunInv, NameIsFree
    <3> QED BY <3>1, <3>2
  <2>4. ASSUME NEW j \in Importer, UndoRemoves(j) PROVE FALSE
    BY <2>4, Before DEF UndoRemoves
  <2>5. ASSUME NEW q \in Pack, RemovedByOther(q) PROVE FALSE
    BY <2>5, Before DEF RemovedByOther
  <2>6. CASE SetupCopies \/ SetupUndoes
    BY <2>1, <2>6, Before DEF SetupCopies, SetupUndoes
  <2>7. dir' # dir
    OBVIOUS
  <2> QED BY <2>2, <2>3, <2>4, <2>5, <2>6, <2>7
          DEF Next, vars, Write, Lock, Look, Unlock, Record, Return, Refused, Interrupted, Raise,
              Killed, UndoLooks, UndoIsRefused, RemoveStaleLock, SetupStarts, SetupFails
<1>2. Spec => [][Kept]_vars
  BY <1>1, ImportingIsInvariant, PTL DEF Spec
<1> QED BY <1>2 DEF ImportsAreNotOverwritten

=============================================================================
