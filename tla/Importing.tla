------------------------------ MODULE Importing -----------------------------
(***************************************************************************)
(* A local registry of packs and the commands that fill it: import_pack    *)
(* and initialize_registry of archive.py, import_index of remote.py.  They *)
(* run in processes of their own, which share nothing but the directory.   *)
(*                                                                         *)
(* An importer writes a private file and links it under the pack's name,   *)
(* which fails if the name is taken; where the file system has no hard     *)
(* links it takes a lock file, looks and renames.  import_index does this  *)
(* pack after pack, and takes back what it published if one fails, telling *)
(* its own files by inode.  The numbers of removed files are used again.   *)
(* initialize_registry takes no lock and writes in place.                  *)
(*                                                                         *)
(* Downloads and the archives themselves are over, and valid, before the   *)
(* first step here.  Somebody else (an operator, the release activator)    *)
(* may remove a pack at any time.                                          *)
(***************************************************************************)
EXTENDS Integers, Sequences

CONSTANTS
  Pack,      \* names of packs, <id>.json
  Bundled,   \* those initialize_registry copies
  Importer,  \* runs of import_index; import_pack alone takes the steps of one
             \* pack, and has no rollback
  Wanted,    \* Wanted[i]: the packs that run i installs, in this order
  Inode,     \* inode numbers
  None

ASSUME ImportingAssumption ==
  Bundled \subseteq Pack /\ Wanted \in [Importer -> Seq(Pack)]

VARIABLES
  links,   \* the file system can hard-link
  dir,     \* dir[p]: the inode under p's name, or None
  file,    \* file[n]: who wrote the file with this number, or None if it is free
  lock,    \* lock[p]: the importer that made p's lock file, or None
  run,     \* run[i]: an importer
  setup,   \* initialize_registry
  excused  \* history: packs that the rollback could not tell from its own

vars == <<links, dir, file, lock, run, setup, excused>>

Initializer == "initialize_registry"

ASSUME NoneAssumption ==
  None \notin Pack \cup Inode \cup Importer \cup {Initializer} /\ Initializer \notin Importer

Locking == {"locked", "looked", "renamed"}

RunState ==
  [pc : {"ready", "written", "published", "recorded", "undoing", "removing",
         "installed", "failed", "killed"} \cup Locking,
   done : Nat,                          \* packs that _import_pack returned from
   temp : Inode \cup {None},            \* the private name's file
   inode : Inode \cup {None},           \* its number as fstat gave it, to be recorded
   created : SUBSET (Pack \X Inode),    \* what the caller may roll back
   pack : Pack \cup {None},             \* of the rollback's unlink
   left : SUBSET Pack]                  \* history: published but not recorded, or
                                        \* recorded but not let go

SetupState ==
  [pc : {"new", "copying", "undoing", "over"}, copied : SUBSET Pack, todo : SUBSET Pack]

\* os.replace has consumed the private name.
Moved(i) == ~links /\ run[i].pc \in {"renamed", "published"}

TypeOK ==
  /\ links \in BOOLEAN
  /\ dir \in [Pack -> Inode \cup {None}]
  /\ file \in [Inode -> Importer \cup {Initializer, None}]
  /\ lock \in [Pack -> Importer \cup {None}]
  /\ run \in [Importer -> RunState]
  /\ setup \in SetupState
  /\ excused \in SUBSET Pack
  /\ \A i \in Importer :
       /\ run[i].inode # None <=> run[i].pc \in {"written", "published"} \cup Locking
       /\ run[i].pc # "killed" => run[i].temp = IF Moved(i) THEN None ELSE run[i].inode

Init ==
  /\ links \in BOOLEAN
  /\ dir = [p \in Pack |-> None] /\ file = [n \in Inode |-> None]
  /\ lock = [p \in Pack |-> None]
  /\ run = [i \in Importer |->
       [pc |-> "ready", done |-> 0, temp |-> None, inode |-> None, created |-> {},
        pack |-> None, left |-> {}]]
  /\ setup = [pc |-> "new", copied |-> {}, todo |-> Bundled]
  /\ excused = {}

\* The pack that run i is about to install.
Current(i) == Wanted[i][run[i].done + 1]

\* A number that no name has is free for the next file.
Used(n, names, runs) == (\E p \in Pack : names[p] = n) \/ (\E i \in Importer : runs[i].temp = n)

Collected(names, runs) == [n \in Inode |-> IF Used(n, names, runs) THEN file[n] ELSE None]

\* A number that comes back while a rollback may still look for it, or before it is
\* recorded.
Recorded(n) ==
  {p \in Pack : \E i \in Importer :
     \/ <<p, n>> \in run[i].created
     \/ run[i].inode = n /\ Current(i) = p}

\* A pack removed between a rollback's look and its unlink.
InDoubt(p) == IF \E i \in Importer : run[i].pc = "removing" /\ run[i].pack = p THEN {p} ELSE {}

-----------------------------------------------------------------------------
(* _import_pack.                                                           *)

\* A run that ends forgets its record; a killed one leaves its private file.
Over(i, pc) == [run[i] EXCEPT !.pc = pc, !.done = 0, !.created = {}, !.pack = None,
                             !.inode = None]

Goes(i, pc) == run' = [run EXCEPT ![i].pc = pc]

\* The private file, written and synced.
Write(i) ==
  /\ run[i].pc = "ready" /\ run[i].done < Len(Wanted[i])
  /\ \E n \in Inode :
       /\ file[n] = None
       /\ file' = [file EXCEPT ![n] = i]
       /\ run' = [run EXCEPT ![i].pc = "written", ![i].temp = n, ![i].inode = n]
       /\ excused' = excused \cup Recorded(n)
  /\ UNCHANGED <<links, dir, lock, setup>>

Link(i) ==
  /\ run[i].pc = "written" /\ links /\ dir[Current(i)] = None
  /\ dir' = [dir EXCEPT ![Current(i)] = run[i].temp]
  /\ Goes(i, "published")
  /\ UNCHANGED <<links, file, lock, setup, excused>>

LockFree_assumed(p) == TRUE

\* O_CREAT | O_EXCL.
LockFree(p) == lock[p] = None

Lock(i) ==
  /\ run[i].pc = "written" /\ ~links /\ LockFree(Current(i))
  /\ lock' = [lock EXCEPT ![Current(i)] = i]
  /\ Goes(i, "locked")
  /\ UNCHANGED <<links, dir, file, setup, excused>>

Look(i) ==
  /\ run[i].pc = "locked" /\ dir[Current(i)] = None
  /\ Goes(i, "looked")
  /\ UNCHANGED <<links, dir, file, lock, setup, excused>>

\* os.replace, whatever is there by now.  The private name is no more: if the pack is
\* removed before the caller's record of it, that will be of a number free to others.
Rename(i) ==
  LET names == [dir EXCEPT ![Current(i)] = run[i].temp]
      runs == [run EXCEPT ![i].pc = "renamed", ![i].temp = None]
  IN  /\ run[i].pc = "looked"
      /\ dir' = names /\ run' = runs
      /\ file' = Collected(names, runs)
      /\ UNCHANGED <<links, lock, setup, excused>>

\* The lock file is removed, or the error is suppressed and it stays.
Unlock(i) ==
  /\ run[i].pc = "renamed"
  /\ \E left \in {i, None} : lock' = [lock EXCEPT ![Current(i)] = left]
  /\ Goes(i, "published")
  /\ UNCHANGED <<links, dir, file, setup, excused>>

\* The caller's record; the temporary name goes, if there is one.
Record(i) ==
  LET runs == [run EXCEPT ![i].pc = "recorded", ![i].temp = None, ![i].inode = None,
                          ![i].created = @ \cup {<<Current(i), run[i].inode>>}]
  IN  /\ run[i].pc = "published"
      /\ run' = runs
      /\ file' = Collected(dir, runs)
      /\ UNCHANGED <<links, dir, lock, setup, excused>>

Return(i) ==
  /\ run[i].pc = "recorded"
  /\ run' = [run EXCEPT ![i] =
       IF run[i].done + 1 = Len(Wanted[i]) THEN Over(i, "installed")
       ELSE [run[i] EXCEPT !.pc = "ready", !.done = @ + 1]]
  /\ UNCHANGED <<links, dir, file, lock, setup, excused>>

\* The finally clause: the temporary name goes.
Cleaned(i) == [run EXCEPT ![i].temp = None, ![i].inode = None]

\* What is published and not yet recorded.
Untold(i) == IF run[i].pc \in {"renamed", "published"} THEN {Current(i)} ELSE {}

\* What every exception passes through: the finally clauses remove the lock, if they
\* can, and the temporary name, and import_index starts its rollback.
Raise(i) ==
  LET runs == [Cleaned(i) EXCEPT ![i].pc = "undoing",
                                 ![i].left = Untold(i)]
  IN  /\ run' = runs
      /\ file' = Collected(dir, runs)
      /\ \E left \in {i, None} :
           lock' = IF run[i].pc \in Locking THEN [lock EXCEPT ![Current(i)] = left] ELSE lock
      /\ UNCHANGED <<links, dir, setup, excused>>

\* The name is taken, or the lock is.
Refused(i) ==
  /\ \/ run[i].pc = "written" /\ links /\ dir[Current(i)] # None
     \/ run[i].pc = "written" /\ ~links /\ ~LockFree(Current(i))
     \/ run[i].pc = "locked" /\ dir[Current(i)] # None
  /\ Raise(i)

\* The disk is full, or the user interrupts the run.
Interrupted(i) ==
  /\ run[i].pc \in {"ready", "written", "published", "recorded"} \cup Locking
  /\ Raise(i)

\* The process is killed, or interrupted in its rollback: its lock and its private file
\* stay, and its packs.
Killed(i) ==
  /\ run[i].pc \notin {"installed", "failed", "killed"}
  /\ run' = [run EXCEPT ![i] = Over(i, "killed")]
  /\ UNCHANGED <<links, dir, file, lock, setup, excused>>

\* "remove ... if none is running": somebody removes a lock that was left.
RemoveStaleLock(p) ==
  /\ lock[p] # None /\ run[lock[p]].pc \in {"installed", "failed", "killed"}
  /\ lock' = [lock EXCEPT ![p] = None]
  /\ UNCHANGED <<links, dir, file, run, setup, excused>>

-----------------------------------------------------------------------------
(* The rollback of import_index.                                           *)

\* The record, not the list of packs that were returned.
Undoable(i) == run[i].created

IsOurs_by_name(own) == dir[own[1]] # None

\* lstat: the file that was published, by its number.
IsOurs(own) == dir[own[1]] = own[2]

UndoLooks(i) ==
  /\ run[i].pc = "undoing"
  /\ IF Undoable(i) = {} THEN run' = [run EXCEPT ![i] = Over(i, "failed")]
     ELSE \E own \in Undoable(i) :
          run' = [run EXCEPT ![i].created = @ \ {own},
                               ![i].pc = IF IsOurs(own) THEN "removing" ELSE "undoing",
                               ![i].pack = IF IsOurs(own) THEN own[1] ELSE None]
  /\ UNCHANGED <<links, dir, file, lock, setup, excused>>

UndoRemoves(i) ==
  LET names == [dir EXCEPT ![run[i].pack] = None]
  IN  /\ run[i].pc = "removing"
      /\ run' = [run EXCEPT ![i].pc = "undoing", ![i].pack = None]
      /\ dir' = names
      /\ file' = Collected(names, run)
      /\ UNCHANGED <<links, lock, setup, excused>>

\* The lstat or the unlink raises an OSError, which is suppressed, and the pack stays.
UndoIsRefused(i) ==
  /\ run[i].pc = "removing"
  /\ run' = [run EXCEPT ![i].pc = "undoing", ![i].pack = None,
                        ![i].left = @ \cup {run[i].pack}]
  /\ UNCHANGED <<links, dir, file, lock, setup, excused>>

-----------------------------------------------------------------------------
(* initialize_registry.                                                    *)

\* The directory holds nothing, not even a dotted file.
SetupStarts ==
  /\ setup.pc = "new"
  /\ \A p \in Pack : dir[p] = None /\ lock[p] = None
  /\ \A i \in Importer : run[i].temp = None
  /\ setup' = [setup EXCEPT !.pc = "copying"]
  /\ UNCHANGED <<links, dir, file, lock, run, excused>>

SetupCopies ==
  /\ setup.pc = "copying"
  /\ \E p \in setup.todo, n \in Inode :
       /\ dir[p] = None /\ file[n] = None
       /\ dir' = [dir EXCEPT ![p] = n] /\ file' = [file EXCEPT ![n] = Initializer]
       /\ setup' = [setup EXCEPT !.todo = @ \ {p}, !.copied = @ \cup {p},
                                 !.pc = IF setup.todo = {p} THEN "over" ELSE "copying"]
       /\ excused' = excused \cup Recorded(n)
  /\ UNCHANGED <<links, lock, run>>

\* A name that is taken by now, a full disk, an interruption.
SetupFails ==
  /\ setup.pc = "copying"
  /\ setup' = [setup EXCEPT !.pc = "undoing"]
  /\ UNCHANGED <<links, dir, file, lock, run, excused>>

\* What was copied is unlinked, one by one and by name.
SetupUndoes ==
  /\ setup.pc = "undoing"
  /\ \E p \in setup.copied :
       LET names == [dir EXCEPT ![p] = None]
       IN  /\ dir' = names
           /\ file' = Collected(names, run)
           /\ setup' = [setup EXCEPT !.copied = @ \ {p}]
           /\ excused' = excused \cup InDoubt(p)
  /\ UNCHANGED <<links, lock, run>>

\* Somebody else removes a pack, perhaps just after a rollback found its own there.
RemovedByOther(p) ==
  LET names == [dir EXCEPT ![p] = None]
  IN  /\ dir[p] # None
      /\ dir' = names
      /\ file' = Collected(names, run)
      /\ excused' = excused \cup InDoubt(p)
      /\ UNCHANGED <<links, lock, run, setup>>

Next ==
  \/ \E i \in Importer :
       \/ Write(i) \/ Link(i) \/ Lock(i) \/ Look(i) \/ Rename(i) \/ Unlock(i)
       \/ Record(i) \/ Return(i) \/ Refused(i) \/ Interrupted(i) \/ Killed(i)
       \/ UndoLooks(i) \/ UndoRemoves(i) \/ UndoIsRefused(i)
  \/ \E p \in Pack : RemoveStaleLock(p) \/ RemovedByOther(p)
  \/ SetupStarts \/ SetupCopies \/ SetupFails \/ SetupUndoes

Spec == Init /\ [][Next]_vars

-----------------------------------------------------------------------------
(* Properties.                                                             *)

Imported(p, i) == dir[p] # None /\ file[dir[p]] = i

\* No importer overwrites a pack that another one published, with or without hard
\* links, whoever crashed in between and whichever locks were cleared away after it
\* (archive.py:203-239).
ImportsAreNotOverwritten ==
  [][\A p \in Pack, i \in Importer :
       Imported(p, i) /\ dir'[p] # dir[p] => dir'[p] = None]_vars

\* A rollback removes only what its own run published, also when that was removed and
\* the pack imported by somebody else (remote.py:120-141).  It cannot tell if the new
\* file has the number of the old one, which may happen before the old one is even
\* recorded, or if the pack was removed between its look and its unlink.
RollbackTakesItsOwn ==
  \A i \in Importer :
    run[i].pc = "removing" /\ run[i].pack \notin excused => Imported(run[i].pack, i)

\* A run of import_index that failed has left none of its packs behind, but for one that
\* it was interrupted in between publishing and recording, and those that the system
\* refused to look at or to remove (remote.py:120-141).
AllOrNothing ==
  \A i \in Importer, p \in Pack :
    run[i].pc = "failed" /\ Imported(p, i) => p \in run[i].left

\* A rollback takes all that its run published and nothing else, but for these.
RollbackIsExact == TypeOK /\ RollbackTakesItsOwn /\ AllOrNothing

=============================================================================
