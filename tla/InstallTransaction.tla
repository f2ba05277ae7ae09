-------------------------- MODULE InstallTransaction --------------------------
(***************************************************************************)
(* One installation of a release (packages/installer/src): recovery of     *)
(* what a dead installer left, staging, the stable launcher file, the      *)
(* switch of directories and of the pointer to the current release, data   *)
(* migration, verification, and the two rollbacks (of activateCandidate    *)
(* and of recoverInterruptedInstallation).  Each action is one durable     *)
(* step; between two of them the installer may die, and in each of them    *)
(* the operating system may refuse.                                        *)
(*                                                                         *)
(* Candidate, replaced directory, snapshot and restore backup carry the    *)
(* transaction's fresh id in their names: those of the last transaction    *)
(* are kept, those of earlier ones are never read again.  Data stand for   *)
(* one protected root, and are named by the release whose format they      *)
(* have.  The lock of a dead installer counts as free.                     *)
(***************************************************************************)
EXTENDS Naturals

CONSTANTS
  Installers,
  Releases,
  Format,      \* data format of each release
  Migrates,    \* installers a data migration is configured for
  MaxTroubles, \* bound: installers that die and calls the operating system refuses
  None,
  Torn         \* partly written or partly removed

ASSUME InstallAssumption ==
  /\ Format \in [Releases -> Nat]
  /\ Migrates \subseteq Installers
  /\ MaxTroubles \in Nat
  /\ None \notin Installers \cup Releases
  /\ Torn \notin Installers \cup Releases \cup {None}

VARIABLES
  pc,         \* where each installer is
  fresh,      \* installers that found nothing installed (stable file mode "create")
  had,        \* installers that found a stable file to replace
  rescuing,   \* installers that act for a dead one
  todo,       \* what its rollback has to put back
  lock,       \* holder of the installation lock
  current,    \* current.json
  txn,        \* transaction.json
  installed,  \* directory of each release
  candidate, replaced,        \* directories of the transaction
  data, snapshot, backup,     \* protected data, its snapshot, and what a restore moves away
  file, staged, aside,        \* the stable launcher, its new copy, its old one
  before,     \* history: the system when the transaction began
  wrecked,    \* history: a rollback was given up
  troubles

runVars   == <<pc, fresh, had, rescuing, todo>>
dirVars   == <<installed, candidate, replaced>>
dataVars  == <<data, snapshot, backup>>
fileVars  == <<file, staged, aside>>
pastVars  == <<before, wrecked>>
vars == <<pc, fresh, had, rescuing, todo, lock, current, txn, installed,
          candidate, replaced, data, snapshot, backup, file, staged, aside,
          before, wrecked, troubles>>

Contents == {"absent", "torn", "damaged", "whole"}
Over == {"none", "committed", "rolled-back", "failed"}
Phases == Over \cup {"staging", "ready", "snapshotting", "switching", "migrating",
                     "verifying", "rolling-back"}
Data == Releases \cup {None, Torn}

Undoing == {"point", "remove", "back", "drop", "restore", "copy", "fill", "tidy", "close"}
Activating == {"snapshot", "switch", "replace", "move", "select", "migrate", "migrating",
               "verifying"}
Locked == Undoing \cup Activating \cup {"probe", "rescue", "place", "seal", "verify"}
Unlocked == {"idle", "recover", "stage", "prepare", "stash", "swap", "discard", "activate",
             "keep", "revert"}

Transactions ==
  [phase : Phases, candidate : Releases \cup {None}, previous : Releases \cup {None}]

TypeOK ==
  /\ pc \in [Installers -> Locked \cup Unlocked]
  /\ fresh \in SUBSET Installers
  /\ had \in SUBSET Installers
  /\ rescuing \in SUBSET Installers
  /\ todo \in [Installers -> SUBSET {"target", "back", "candidate"}]
  /\ lock \in Installers \cup {None}
  /\ \A i \in Installers : pc[i] \in Locked <=> lock = i
  /\ current \in Releases \cup {None}
  /\ txn \in Transactions
  /\ txn.candidate = None => txn.phase = "none"
  /\ installed \in [Releases -> Contents]
  /\ candidate \in Contents /\ replaced \in Contents
  /\ data \in Data
  /\ snapshot \in SUBSET Data /\ backup \in SUBSET Data
  /\ file \in Data /\ staged \in Data /\ aside \in Data
  /\ before \in [release : Releases \cup {None}, content : Contents, data : Data]
  /\ wrecked \in BOOLEAN
  /\ troubles \in 0..MaxTroubles

-----------------------------------------------------------------------------
target == txn.candidate

ContentOf(r) == IF r = None THEN "absent" ELSE installed[r]
System == [release |-> current, content |-> ContentOf(current), data |-> data]

Init ==
  /\ pc = [i \in Installers |-> "idle"]
  /\ fresh = {} /\ had = {} /\ rescuing = {}
  /\ todo = [i \in Installers |-> {}]
  /\ lock = None
  /\ txn = [phase |-> "none", candidate |-> None, previous |-> None]
  /\ \/ /\ current = None /\ data = None /\ file = None
        /\ installed = [r \in Releases |-> "absent"]
     \/ \E r \in Releases, c \in {"damaged", "whole"} :
          /\ current = r /\ data \in {None, r} /\ file = r
          /\ installed = [s \in Releases |-> IF s = r THEN c ELSE "absent"]
  /\ candidate = "absent" /\ replaced = "absent"
  /\ snapshot = {} /\ backup = {}
  /\ staged = None /\ aside = None
  /\ before = System /\ wrecked = FALSE
  /\ troubles = 0

Goto(i, where) == pc' = [pc EXCEPT ![i] = where]
Write(phase) == txn' = [txn EXCEPT !.phase = phase]

\* The process ends, and its memory with it.
Ends(i) ==
  /\ Goto(i, "idle")
  /\ fresh' = fresh \ {i} /\ had' = had \ {i} /\ rescuing' = rescuing \ {i}
  /\ todo' = [todo EXCEPT ![i] = {}]

\* The operating system refuses what an installer is doing, or ends it.
Trouble == troubles < MaxTroubles /\ troubles' = troubles + 1

\* previous.dataFormatVersion < target.dataFormatVersion
MigrationRequired ==
  txn.previous # None /\ Format[txn.previous] < Format[target]

-----------------------------------------------------------------------------
(* installProductBundle up to recovery.                                    *)

\* waitForInstallationIdle takes the lock to see that it is free.
Begin(i) ==
  /\ pc[i] = "idle" /\ lock = None
  /\ Goto(i, "probe") /\ lock' = i
  /\ UNCHANGED <<fresh, had, rescuing, todo, current, txn>>
  /\ UNCHANGED <<dirVars, dataVars, fileVars, pastVars, troubles>>

\* ... and gives it back; then the mode for stable files is chosen.
Probed(i) ==
  /\ pc[i] = "probe"
  /\ Goto(i, "recover") /\ lock' = None
  /\ fresh' = IF current = None THEN fresh \cup {i} ELSE fresh \ {i}
  /\ UNCHANGED <<had, rescuing, todo, current, txn>>
  /\ UNCHANGED <<dirVars, dataVars, fileVars, pastVars, troubles>>

\* acquireInstallationLock throws while another installer holds the lock.
LockBusy(i) ==
  /\ lock # None
  /\ \/ pc[i] \in {"recover", "stage", "discard"} /\ Ends(i)
     \/ /\ pc[i] = "activate" /\ Goto(i, "revert")
        /\ UNCHANGED <<fresh, had, rescuing, todo>>
  /\ UNCHANGED <<lock, current, txn>>
  /\ UNCHANGED <<dirVars, dataVars, fileVars, pastVars, troubles>>

-----------------------------------------------------------------------------
(* recoverInterruptedInstallation.                                         *)

NothingToRecover(i) ==
  /\ pc[i] = "recover" /\ lock = None
  /\ txn.phase \in Over \cup {"ready"}
  /\ Goto(i, "stage")
  /\ UNCHANGED <<fresh, had, rescuing, todo, lock, current, txn>>
  /\ UNCHANGED <<dirVars, dataVars, fileVars, pastVars, troubles>>

Recover(i) ==
  /\ pc[i] = "recover" /\ lock = None
  /\ txn.phase \notin Over \cup {"ready"}
  /\ Goto(i, "rescue") /\ lock' = i
  /\ rescuing' = rescuing \cup {i}
  /\ UNCHANGED <<fresh, had, todo, current, txn>>
  /\ UNCHANGED <<dirVars, dataVars, fileVars, pastVars, troubles>>

\* The directories and the pointer are where the switch leaves them.
Switched == installed[target] # "absent" /\ candidate = "absent" /\ current = target

MustUndo ==
  \/ txn.phase \in {"staging", "snapshotting", "migrating", "rolling-back"}
  \/ ~Switched
  \/ txn.phase = "switching" /\ snapshot # {}

\* MUTANT of Leftovers: the release that is being repaired is taken for a new one.
LeftoversOfRepair ==
  IF replaced # "absent" THEN {"target", "back", "candidate"}
  ELSE IF candidate = "absent" THEN {"target", "candidate"}
  ELSE {"candidate"}

\* What a recovery concludes, from what exists, that it has to put back.
Leftovers ==
  IF replaced # "absent" THEN {"target", "back", "candidate"}
  ELSE IF candidate = "absent" /\ txn.previous # target THEN {"target", "candidate"}
  ELSE {"candidate"}

RescueUndoes(i) ==
  /\ pc[i] = "rescue" /\ MustUndo
  /\ Write("rolling-back") /\ Goto(i, "point")
  /\ todo' = [todo EXCEPT ![i] = Leftovers]
  /\ UNCHANGED <<fresh, had, rescuing, lock, current>>
  /\ UNCHANGED <<dirVars, dataVars, fileVars, pastVars, troubles>>

RescueVerifies(i) ==
  /\ pc[i] = "rescue" /\ ~MustUndo
  /\ Write("verifying") /\ Goto(i, "verify")
  /\ UNCHANGED <<fresh, had, rescuing, todo, lock, current>>
  /\ UNCHANGED <<dirVars, dataVars, fileVars, pastVars, troubles>>

-----------------------------------------------------------------------------
(* Rollback: of a failed activation, or by a recovery.                     *)

Then(rest) ==
  IF "target" \in rest THEN "remove"
  ELSE IF "back" \in rest THEN "back"
  ELSE IF "candidate" \in rest THEN "drop" ELSE "restore"

\* MUTANT of Point: the pointer is left for later.
PointNowhere(i) ==
  /\ pc[i] = "point"
  /\ Goto(i, Then(todo[i]))
  /\ UNCHANGED <<fresh, had, rescuing, todo, lock, current, txn>>
  /\ UNCHANGED <<dirVars, dataVars, fileVars, pastVars, troubles>>

\* writeCurrentRelease or clearCurrentRelease, before any directory is touched.
Point(i) ==
  /\ pc[i] = "point"
  /\ current' = txn.previous
  /\ Goto(i, Then(todo[i]))
  /\ UNCHANGED <<fresh, had, rescuing, todo, lock, txn>>
  /\ UNCHANGED <<dirVars, dataVars, fileVars, pastVars, troubles>>

Done(i, task) ==
  /\ todo' = [todo EXCEPT ![i] = @ \ {task}]
  /\ Goto(i, Then(todo[i] \ {task}))

Remove(i) ==
  /\ pc[i] = "remove" /\ Done(i, "target")
  /\ installed' = [installed EXCEPT ![target] = "absent"]
  /\ UNCHANGED <<fresh, had, rescuing, lock, current, txn, candidate, replaced>>
  /\ UNCHANGED <<dataVars, fileVars, pastVars, troubles>>

Back(i) ==
  /\ pc[i] = "back" /\ Done(i, "back")
  /\ installed' = [installed EXCEPT ![target] = replaced]
  /\ replaced' = "absent"
  /\ UNCHANGED <<fresh, had, rescuing, lock, current, txn, candidate>>
  /\ UNCHANGED <<dataVars, fileVars, pastVars, troubles>>

Drop(i) ==
  /\ pc[i] = "drop" /\ Done(i, "candidate")
  /\ candidate' = "absent"
  /\ UNCHANGED <<fresh, had, rescuing, lock, current, txn, installed, replaced>>
  /\ UNCHANGED <<dataVars, fileVars, pastVars, troubles>>

\* restoreDataSnapshot moves what is there aside; what an earlier restore moved is in its way.
MoveAside(i) ==
  /\ pc[i] = "restore" /\ snapshot # {} /\ i \in Migrates
  /\ \/ data = None /\ Goto(i, "fill") /\ UNCHANGED <<data, backup>>
     \/ /\ data # None /\ backup = {}
        /\ backup' = {data} /\ data' = None
        /\ Goto(i, "copy")
  /\ UNCHANGED <<fresh, had, rescuing, todo, lock, current, txn, snapshot>>
  /\ UNCHANGED <<dirVars, fileVars, pastVars, troubles>>

CopyBack(i) ==
  /\ pc[i] \in {"copy", "fill"}
  /\ data' \in snapshot
  /\ Goto(i, IF pc[i] = "copy" THEN "tidy" ELSE "close")
  /\ UNCHANGED <<fresh, had, rescuing, todo, lock, current, txn, snapshot, backup>>
  /\ UNCHANGED <<dirVars, fileVars, pastVars, troubles>>

Tidy(i) ==
  /\ pc[i] = "tidy"
  /\ backup' = {} /\ Goto(i, "close")
  /\ UNCHANGED <<fresh, had, rescuing, todo, lock, current, txn, data, snapshot>>
  /\ UNCHANGED <<dirVars, fileVars, pastVars, troubles>>

\* A recovery goes on to stage its own candidate; a failed activation takes back the stable file.
Onward(i) == IF i \in rescuing THEN "stage" ELSE "revert"

Close(i) ==
  /\ pc[i] = "close" \/ (pc[i] = "restore" /\ snapshot = {})
  /\ Write("rolled-back") /\ lock' = None
  /\ Goto(i, Onward(i)) /\ rescuing' = rescuing \ {i}
  /\ UNCHANGED <<fresh, had, todo, current>>
  /\ UNCHANGED <<dirVars, dataVars, fileVars, pastVars, troubles>>

-----------------------------------------------------------------------------
(* stageCandidate.                                                         *)

StageRefused(i, r) ==
  /\ pc[i] = "stage" /\ lock = None
  /\ \/ txn.phase \notin Over
     \/ current # None /\ Format[current] > Format[r]
  /\ Ends(i)
  /\ UNCHANGED <<lock, current, txn>>
  /\ UNCHANGED <<dirVars, dataVars, fileVars, pastVars, troubles>>

Stage(i, r) ==
  /\ pc[i] = "stage" /\ lock = None
  /\ txn.phase \in Over
  /\ current # None => Format[current] <= Format[r]
  /\ txn' = [phase |-> "staging", candidate |-> r, previous |-> current]
  /\ candidate' = "absent" /\ replaced' = "absent"
  /\ snapshot' = {} /\ backup' = {}
  /\ before' = System
  /\ Goto(i, "place") /\ lock' = i
  /\ UNCHANGED <<fresh, had, rescuing, todo, current, installed, data>>
  /\ UNCHANGED <<fileVars, wrecked, troubles>>

Place(i) ==
  /\ pc[i] = "place"
  /\ candidate' = "whole" /\ Goto(i, "seal")
  /\ UNCHANGED <<fresh, had, rescuing, todo, lock, current, txn, installed, replaced>>
  /\ UNCHANGED <<dataVars, fileVars, pastVars, troubles>>

\* The candidate is verified and the transaction is ready: the lock is free from here
\* until activateCandidate takes it again.
Seal(i) ==
  /\ pc[i] = "seal"
  /\ Write("ready") /\ lock' = None /\ Goto(i, "prepare")
  /\ UNCHANGED <<fresh, had, rescuing, todo, current>>
  /\ UNCHANGED <<dirVars, dataVars, fileVars, pastVars, troubles>>

StageFails(i) ==
  /\ pc[i] \in {"place", "seal"} /\ Trouble
  /\ candidate' = "absent" /\ Write("failed")
  /\ lock' = None /\ Ends(i)
  /\ UNCHANGED <<current, installed, replaced>>
  /\ UNCHANGED <<dataVars, fileVars, pastVars>>

-----------------------------------------------------------------------------
(* prepareStableProductFiles, outside the lock.                            *)

\* A staged or set-aside copy is someone's unfinished replacement.
InTheWay(i) ==
  staged # None \/ aside # None \/ (file # None /\ i \in fresh)

PrepareRefused(i) ==
  /\ pc[i] = "prepare" /\ InTheWay(i)
  /\ Goto(i, "discard")
  /\ UNCHANGED <<fresh, had, rescuing, todo, lock, current, txn>>
  /\ UNCHANGED <<dirVars, dataVars, fileVars, pastVars, troubles>>

Prepare(i) ==
  /\ pc[i] = "prepare" /\ ~InTheWay(i)
  /\ staged' = target
  /\ had' = IF file # None THEN had \cup {i} ELSE had \ {i}
  /\ Goto(i, IF file # None THEN "stash" ELSE "swap")
  /\ UNCHANGED <<fresh, rescuing, todo, lock, current, txn, file, aside>>
  /\ UNCHANGED <<dirVars, dataVars, pastVars, troubles>>

Stash(i) ==
  /\ pc[i] = "stash" /\ file # None
  /\ aside' = file /\ file' = None /\ Goto(i, "swap")
  /\ UNCHANGED <<fresh, had, rescuing, todo, lock, current, txn, staged>>
  /\ UNCHANGED <<dirVars, dataVars, pastVars, troubles>>

Swap(i) ==
  /\ pc[i] = "swap" /\ staged # None
  /\ file' = staged /\ staged' = None /\ Goto(i, "activate")
  /\ UNCHANGED <<fresh, had, rescuing, todo, lock, current, txn, aside>>
  /\ UNCHANGED <<dirVars, dataVars, pastVars, troubles>>

\* A step fails, or another installer has settled the same names meanwhile.
PrepareFails(i) ==
  /\ \/ pc[i] \in {"prepare", "stash", "swap"} /\ Trouble
     \/ /\ \/ pc[i] = "stash" /\ file = None
           \/ pc[i] = "swap" /\ staged = None
        /\ UNCHANGED troubles
  /\ ~(pc[i] = "prepare" /\ InTheWay(i))
  /\ staged' = None
  /\ IF pc[i] = "swap" /\ i \in had /\ aside # None
     THEN file' = aside /\ aside' = None ELSE UNCHANGED <<file, aside>>
  /\ Goto(i, "discard")
  /\ UNCHANGED <<fresh, had, rescuing, todo, lock, current, txn>>
  /\ UNCHANGED <<dirVars, dataVars, pastVars>>

\* discardReadyCandidate
Discard(i) ==
  /\ pc[i] = "discard" /\ lock = None
  /\ candidate' = "absent" /\ Write("failed") /\ Ends(i)
  /\ UNCHANGED <<lock, current, installed, replaced>>
  /\ UNCHANGED <<dataVars, fileVars, pastVars, troubles>>

-----------------------------------------------------------------------------
(* activateCandidate.                                                      *)

\* "this release requires a protected data migration"
ActivateRefused(i) ==
  /\ pc[i] = "activate" /\ lock = None
  /\ MigrationRequired /\ i \notin Migrates
  /\ Write("failed") /\ Goto(i, "revert")
  /\ UNCHANGED <<fresh, had, rescuing, todo, lock, current>>
  /\ UNCHANGED <<dirVars, dataVars, fileVars, pastVars, troubles>>

Activate(i) ==
  /\ pc[i] = "activate" /\ lock = None
  /\ MigrationRequired => i \in Migrates
  /\ Write(IF MigrationRequired THEN "snapshotting" ELSE "switching")
  /\ Goto(i, IF MigrationRequired THEN "snapshot" ELSE "replace")
  /\ todo' = [todo EXCEPT ![i] = {}] /\ lock' = i
  /\ UNCHANGED <<fresh, had, rescuing, current>>
  /\ UNCHANGED <<dirVars, dataVars, fileVars, pastVars, troubles>>

\* createDataSnapshot copies to a temporary directory and renames it.
Snapshot(i) ==
  /\ pc[i] = "snapshot"
  /\ snapshot' = {data} /\ Goto(i, "switch")
  /\ UNCHANGED <<fresh, had, rescuing, todo, lock, current, txn, data, backup>>
  /\ UNCHANGED <<dirVars, fileVars, pastVars, troubles>>

Switch(i) ==
  /\ pc[i] = "switch"
  /\ Write("switching") /\ Goto(i, "replace")
  /\ UNCHANGED <<fresh, had, rescuing, todo, lock, current>>
  /\ UNCHANGED <<dirVars, dataVars, fileVars, pastVars, troubles>>

\* The same revision may be there already: a repair, or one that was installed before.
Replace(i) ==
  /\ pc[i] = "replace" /\ installed[target] # "absent"
  /\ replaced' = installed[target]
  /\ installed' = [installed EXCEPT ![target] = "absent"]
  /\ todo' = [todo EXCEPT ![i] = @ \cup {"back"}]
  /\ Goto(i, "move")
  /\ UNCHANGED <<fresh, had, rescuing, lock, current, txn, candidate>>
  /\ UNCHANGED <<dataVars, fileVars, pastVars, troubles>>

Move(i) ==
  /\ pc[i] = "move" \/ (pc[i] = "replace" /\ installed[target] = "absent")
  /\ installed' = [installed EXCEPT ![target] = candidate]
  /\ candidate' = "absent"
  /\ todo' = [todo EXCEPT ![i] = @ \cup {"target"}]
  /\ Goto(i, "select")
  /\ UNCHANGED <<fresh, had, rescuing, lock, current, txn, replaced>>
  /\ UNCHANGED <<dataVars, fileVars, pastVars, troubles>>

Select(i) ==
  /\ pc[i] = "select"
  /\ current' = target
  /\ Goto(i, IF MigrationRequired THEN "migrate" ELSE "verifying")
  /\ UNCHANGED <<fresh, had, rescuing, todo, lock, txn>>
  /\ UNCHANGED <<dirVars, dataVars, fileVars, pastVars, troubles>>

Migrate(i) ==
  /\ pc[i] = "migrate"
  /\ Write("migrating") /\ Goto(i, "migrating")
  /\ UNCHANGED <<fresh, had, rescuing, todo, lock, current>>
  /\ UNCHANGED <<dirVars, dataVars, fileVars, pastVars, troubles>>

Migrated(i) ==
  /\ pc[i] = "migrating"
  /\ data' = IF data = None THEN None ELSE target
  /\ Goto(i, "verifying")
  /\ UNCHANGED <<fresh, had, rescuing, todo, lock, current, txn, snapshot, backup>>
  /\ UNCHANGED <<dirVars, fileVars, pastVars, troubles>>

Verifying(i) ==
  /\ pc[i] = "verifying"
  /\ Write("verifying") /\ Goto(i, "verify")
  /\ UNCHANGED <<fresh, had, rescuing, todo, lock, current>>
  /\ UNCHANGED <<dirVars, dataVars, fileVars, pastVars, troubles>>

Verified(i) ==
  /\ pc[i] = "verify" /\ installed[target] = "whole"
  /\ Write("committed") /\ lock' = None
  /\ Goto(i, IF i \in rescuing THEN "stage" ELSE "keep")
  /\ rescuing' = rescuing \ {i}
  /\ UNCHANGED <<fresh, had, todo, current>>
  /\ UNCHANGED <<dirVars, dataVars, fileVars, pastVars, troubles>>

-----------------------------------------------------------------------------
(* What goes wrong.                                                        *)

\* What is left of a step that is broken off: nothing, or half of it.
Halfway(i) ==
  \/ UNCHANGED <<dirVars, dataVars, fileVars>>
  \/ /\ pc[i] \in {"place", "drop"}
     /\ candidate' = "torn"
     /\ UNCHANGED <<installed, replaced, dataVars, fileVars>>
  \/ /\ pc[i] = "remove" /\ installed[target] # "absent"
     /\ installed' = [installed EXCEPT ![target] = "torn"]
     /\ UNCHANGED <<candidate, replaced, dataVars, fileVars>>
  \/ /\ \/ pc[i] = "migrating" /\ data # None
        \/ pc[i] \in {"copy", "fill"}
     /\ data' = Torn
     /\ UNCHANGED <<dirVars, snapshot, backup, fileVars>>
  \/ /\ pc[i] = "tidy" /\ backup' = {Torn}
     /\ UNCHANGED <<dirVars, data, snapshot, fileVars>>
  \/ /\ pc[i] = "prepare" /\ ~InTheWay(i) /\ staged' = Torn
     /\ UNCHANGED <<dirVars, dataVars, file, aside>>
  \/ /\ pc[i] = "keep" /\ aside # None /\ aside' = Torn
     /\ UNCHANGED <<dirVars, dataVars, file, staged>>
  \/ /\ pc[i] = "revert" /\ file # None /\ file' = Torn
     /\ UNCHANGED <<dirVars, dataVars, staged, aside>>

\* catch of activateCandidate: roll back what has been moved.
ActivateFails(i) ==
  /\ pc[i] \in Activating /\ Trouble
  /\ Halfway(i)
  /\ IF todo[i] = {}
     THEN Write("failed") /\ Goto(i, "revert") /\ lock' = None
     ELSE Write("rolling-back") /\ Goto(i, "point") /\ UNCHANGED lock
  /\ UNCHANGED <<fresh, had, rescuing, todo, current, pastVars>>

\* Verification fails, in an activation or in a recovery.
Rejected(i) ==
  /\ pc[i] = "verify"
  /\ \/ installed[target] # "whole" /\ UNCHANGED troubles
     \/ Trouble
  /\ Write("rolling-back") /\ Goto(i, "point")
  /\ todo' = [todo EXCEPT ![i] = IF i \in rescuing THEN Leftovers ELSE @]
  /\ UNCHANGED <<fresh, had, rescuing, lock, current>>
  /\ UNCHANGED <<dirVars, dataVars, fileVars, pastVars>>

\* "rollback-failed": the transaction counts as over, in whatever state it is.
GiveUp(i) ==
  /\ Write("failed") /\ wrecked' = TRUE
  /\ IF i \in rescuing THEN Ends(i)
     ELSE Goto(i, "revert") /\ UNCHANGED <<fresh, had, rescuing, todo>>
  /\ lock' = None
  /\ UNCHANGED <<current, before>>

UndoFails(i) ==
  /\ pc[i] \in Undoing \cup {"rescue"} \/ (pc[i] = "verify" /\ i \in rescuing)
  /\ Trouble
  /\ IF pc[i] \in {"copy", "fill"}
     THEN \* restoreDataSnapshot puts back what it moved
       /\ data' \in (IF pc[i] = "copy" THEN backup ELSE {None})
       /\ backup' = IF pc[i] = "copy" THEN {} ELSE backup
       /\ UNCHANGED <<dirVars, snapshot, fileVars>>
     ELSE Halfway(i)
  /\ GiveUp(i)

\* "protected data migration configuration is required for recovery", or
\* "protected data restore backup already exists"
RestoreRefused(i) ==
  /\ pc[i] = "restore" /\ snapshot # {}
  /\ i \notin Migrates \/ (data # None /\ backup # {})
  /\ GiveUp(i)
  /\ UNCHANGED <<dirVars, dataVars, fileVars, troubles>>

Die(i) ==
  /\ pc[i] # "idle" /\ Trouble
  /\ Halfway(i)
  /\ Ends(i)
  /\ lock' = IF lock = i THEN None ELSE lock
  /\ UNCHANGED <<current, txn, pastVars>>

-----------------------------------------------------------------------------
(* The stable file is settled, outside the lock.                           *)

\* commit throws if the file is missing.
Keep(i) ==
  /\ pc[i] = "keep" /\ Ends(i)
  /\ IF file = None THEN UNCHANGED <<staged, aside>>
     ELSE staged' = None /\ aside' = None
  /\ UNCHANGED <<lock, current, txn, file>>
  /\ UNCHANGED <<dirVars, dataVars, pastVars, troubles>>

Revert(i) ==
  /\ pc[i] = "revert" /\ Ends(i)
  /\ staged' = None
  /\ IF i \notin had THEN file' = None /\ UNCHANGED aside
     ELSE IF aside = None THEN UNCHANGED <<file, aside>>
     ELSE file' = aside /\ aside' = None
  /\ UNCHANGED <<lock, current, txn>>
  /\ UNCHANGED <<dirVars, dataVars, pastVars, troubles>>

SettleFails(i) ==
  /\ pc[i] \in {"keep", "revert", "discard"} /\ Trouble
  /\ Halfway(i) /\ Ends(i)
  /\ UNCHANGED <<lock, current, txn, pastVars>>

-----------------------------------------------------------------------------
(* Between installations.                                                  *)

\* The installed product creates its data; it is stopped while a transaction is under way.
Use ==
  /\ txn.phase \in Over /\ current # None /\ data = None
  /\ data' = current
  /\ UNCHANGED <<runVars, lock, current, txn, snapshot, backup>>
  /\ UNCHANGED <<dirVars, fileVars, pastVars, troubles>>

\* cleanupInstallation; some directories may not be removable.
Cleanup ==
  /\ txn.phase \in Over /\ lock = None
  /\ \E gone \in SUBSET (Releases \ {current}) :
       installed' = [r \in Releases |-> IF r \in gone THEN "absent" ELSE installed[r]]
  /\ candidate' = "absent" /\ replaced' = "absent" /\ snapshot' = {}
  /\ UNCHANGED <<runVars, lock, current, txn, data, backup>>
  /\ UNCHANGED <<fileVars, pastVars, troubles>>

Step(i) ==
  \/ Begin(i) \/ Probed(i) \/ LockBusy(i)
  \/ NothingToRecover(i) \/ Recover(i) \/ RescueUndoes(i) \/ RescueVerifies(i)
  \/ Point(i) \/ Remove(i) \/ Back(i) \/ Drop(i)
  \/ MoveAside(i) \/ CopyBack(i) \/ Tidy(i) \/ Close(i)
  \/ \E r \in Releases : StageRefused(i, r) \/ Stage(i, r)
  \/ Place(i) \/ Seal(i) \/ StageFails(i)
  \/ PrepareRefused(i) \/ Prepare(i) \/ Stash(i) \/ Swap(i) \/ PrepareFails(i) \/ Discard(i)
  \/ ActivateRefused(i) \/ Activate(i) \/ Snapshot(i) \/ Switch(i) \/ Replace(i) \/ Move(i)
  \/ Select(i) \/ Migrate(i) \/ Migrated(i) \/ Verifying(i) \/ Verified(i)
  \/ ActivateFails(i) \/ Rejected(i) \/ UndoFails(i) \/ RestoreRefused(i) \/ Die(i)
  \/ Keep(i) \/ Revert(i) \/ SettleFails(i)

Next == Use \/ Cleanup \/ \E i \in Installers : Step(i)

Spec == Init /\ [][Next]_vars

-----------------------------------------------------------------------------
\* While a transaction is under way its user still has what was there before.
shown == IF txn.phase \in Over THEN System ELSE before

Atomic == INSTANCE AtomicInstall WITH system <- shown

\* An attempt to install ends with everything exchanged or nothing: pointer, directory and
\* data (activateCandidate and recoverInterruptedInstallation together).
InstallsAtomically == Atomic!Spec

\* current.json names a complete directory at every moment, also between the steps of an
\* installer that may never go on, except while that very revision is replaced by itself.
Launchable ==
  ~wrecked /\ current # None =>
    \/ installed[current] \in {"damaged", "whole"}
    \/ current = target /\ current = txn.previous /\ txn.phase \in {"switching", "rolling-back"}

-----------------------------------------------------------------------------
(* The invariant the proofs rest on.  PhaseInv says, for each phase on     *)
(* disk, where the old release, its files and its data are: it holds with  *)
(* or without a living installer.  PlaceInv says what a living one knows.  *)

previous == txn.previous

\* Nothing has been moved.
Kept == current = previous /\ ContentOf(previous) = before.content /\ replaced = "absent"
DataKept == data = before.data /\ backup = {}

\* The old directory is in its place, or set aside.
Recoverable ==
  IF previous = target
  THEN \/ replaced = before.content
       \/ replaced = "absent" /\ installed[target] = before.content
  ELSE ContentOf(previous) = before.content

\* The candidate has become the target.
Placed ==
  /\ candidate = "absent" /\ installed[target] = "whole"
  /\ IF previous = target THEN replaced = before.content
     ELSE ContentOf(previous) = before.content

Midway ==
  \/ candidate = "whole" /\ Kept
  \/ /\ candidate = "whole" /\ replaced # "absent" /\ installed[target] = "absent"
     /\ current = previous /\ Recoverable
  \/ Placed /\ current \in {previous, target}

Snapshotted == snapshot = IF MigrationRequired THEN {before.data} ELSE {}
Brought == IF MigrationRequired /\ before.data # None THEN target ELSE before.data

\* The data have the format of the release.
Fits(d, r) == d # None => d \in Releases /\ r # None /\ Format[d] = Format[r]

Healthy ==
  /\ current # None => installed[current] \in {"damaged", "whole"}
  /\ Fits(data, current)

Began ==
  /\ before.release = previous
  /\ IF previous = None THEN before.content = "absent"
     ELSE before.content \in {"damaged", "whole"} /\ Format[previous] <= Format[target]
  /\ Fits(before.data, previous)

InStaging == Kept /\ DataKept /\ snapshot = {}
InReady == InStaging /\ candidate = "whole"
InSnapshotting ==
  /\ Kept /\ DataKept /\ candidate = "whole" /\ MigrationRequired
  /\ snapshot \in {{}, {before.data}}
InSwitching == Midway /\ DataKept /\ Snapshotted
InMigrating ==
  /\ Placed /\ current = target /\ MigrationRequired /\ Snapshotted /\ backup = {}
  /\ data = None <=> before.data = None
InVerifying == Placed /\ current = target /\ Snapshotted /\ data = Brought
InRollback ==
  /\ Recoverable /\ current \in {previous, target}
  /\ current # previous => installed[target] = "whole"
  /\ snapshot = {} => data = before.data
  /\ snapshot \in {{}, {before.data}}

PhaseInv ==
  LET is(phase) == txn.phase = phase IN
  /\ IF txn.phase \in Over THEN Healthy ELSE Began
  /\ is("staging") => InStaging
  /\ is("ready") => InReady
  /\ is("snapshotting") => InSnapshotting
  /\ is("switching") => InSwitching
  /\ is("migrating") => InMigrating
  /\ is("verifying") => InVerifying
  /\ is("rolling-back") => InRollback

Preparing == {"prepare", "stash", "swap", "discard", "activate"}

\* Where an installer is tells the phase, whatever has happened before.
PlaceOf(i) ==
  LET phase == txn.phase IN
  /\ pc[i] \in Preparing => phase = "ready"
  /\ pc[i] = "rescue" => phase \notin Over \cup {"ready"} /\ i \in rescuing
  /\ i \in rescuing => pc[i] \in Undoing \cup {"rescue", "verify"}
  /\ pc[i] \in {"place", "seal"} => phase = "staging"
  /\ pc[i] \in {"snapshot", "switch"} => phase = "snapshotting"
  /\ pc[i] \in {"replace", "move", "select", "migrate"} => phase = "switching"
  /\ pc[i] \in {"migrate", "migrating"} => MigrationRequired
  /\ pc[i] = "migrating" => phase = "migrating"
  /\ pc[i] = "verifying" => phase = IF MigrationRequired THEN "migrating" ELSE "switching"
  /\ pc[i] = "verify" => phase = "verifying"
  /\ pc[i] \in Undoing => phase = "rolling-back"

\* The lock is free while stable files are prepared, and yet one installer at a time is there.
PlaceInv ==
  /\ \A i \in Installers : PlaceOf(i)
  /\ \A i, j \in Installers : pc[i] \in Preparing /\ pc[j] \in Preparing => i = j

\* What it has to put back is what has been moved.
TodoOf(i) ==
  /\ pc[i] = "seal" => candidate = "whole"
  /\ pc[i] = "switch" => snapshot # {}
  /\ pc[i] \in Activating \cup {"verify"} /\ i \notin rescuing =>
       /\ "candidate" \notin todo[i]
       /\ "back" \in todo[i] <=> replaced # "absent"
       /\ "target" \in todo[i] <=> candidate = "absent"
  /\ pc[i] \in {"snapshot", "switch", "replace"} => todo[i] = {}
  /\ pc[i] = "move" => todo[i] = {"back"} /\ installed[target] = "absent"
  /\ pc[i] \in {"select", "migrate", "migrating", "verifying"} => "target" \in todo[i]
  /\ pc[i] \in {"migrate", "verifying"} => current = target
  /\ pc[i] = "verifying" => data = Brought
  /\ pc[i] \in Undoing =>
       /\ pc[i] # "point" => current = previous
       /\ "back" \in todo[i] <=> replaced # "absent"
       /\ "target" \in todo[i] /\ previous = target => "back" \in todo[i]
       /\ pc[i] # "point" =>
            IF pc[i] \in {"remove", "back", "drop"} THEN pc[i] = Then(todo[i]) ELSE todo[i] = {}
  /\ pc[i] \in {"copy", "fill"} => snapshot # {}
  /\ pc[i] \in {"tidy", "close"} => data = before.data

TodoInv == \A i \in Installers : TodoOf(i)

\* After a rollback that was given up nothing is known but where installers are.
IInv == TypeOK /\ PlaceInv /\ (wrecked \/ (PhaseInv /\ TodoInv))
=============================================================================
