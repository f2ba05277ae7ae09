---------------------- MODULE InstallTransactionProofs ----------------------
(***************************************************************************)
(* Types, and where installers stand: what each of them knows of the phase *)
(* on disk and of the others, for any number of installers and releases.   *)
(* Then what recoveries and rollbacks rest on: for each phase on disk,     *)
(* where the old release, its files and its data are (PhaseInv), and what  *)
(* an installer that is alive remembers of it (TodoInv).                   *)
(***************************************************************************)
EXTENDS InstallTransaction, TLAPS

USE InstallAssumption

Bound == Preparing \cup Activating \cup Undoing \cup {"rescue", "place", "seal", "verify"}

\* An installer that is past recovery, or recovers, has a transaction to act on.
LEMMA TargetIsRelease ==
  ASSUME TypeOK, PlaceInv, NEW i \in Installers, pc[i] \in Bound
  PROVE  target \in Releases /\ txn.phase # "none"
<1>1. PlaceOf(i)  BY DEF PlaceInv
<1>2. txn.phase # "none"
  BY <1>1 DEF PlaceOf, Bound, Preparing, Activating, Undoing, Over
<1>3. txn.candidate \in Releases \cup {None} /\ txn.candidate # None
  BY <1>2 DEF TypeOK, Transactions
<1> QED BY <1>2, <1>3 DEF target

\* A write of transaction.json changes the phase and nothing else.
LEMMA WriteTypes ==
  ASSUME TypeOK, NEW phase \in Phases, Write(phase), target \in Releases
  PROVE  /\ txn' \in Transactions
         /\ txn'.phase = phase
         /\ txn'.candidate = txn.candidate /\ txn'.candidate # None
         /\ txn'.previous = txn.previous
BY DEF TypeOK, Write, Transactions, target

\* A step of an installer keeps every variable in its type.
LEMMA TypesStep ==
  ASSUME TypeOK, PlaceInv, NEW i \in Installers, Step(i)
  PROVE  TypeOK'
<1> USE DEF TypeOK, Contents, Data, Locked, Unlocked, Undoing, Activating, dirVars, dataVars,
    fileVars, pastVars, runVars

<1>Begin. CASE Begin(i)
  BY <1>Begin DEF Begin, Goto
<1>Probed. CASE Probed(i)
  BY <1>Probed DEF Probed, Goto
<1>LockBusy. CASE LockBusy(i)
  BY <1>LockBusy DEF LockBusy, Goto, Ends
<1>NothingToRecover. CASE NothingToRecover(i)
  BY <1>NothingToRecover DEF NothingToRecover, Goto
<1>Recover. CASE Recover(i)
  BY <1>Recover DEF Recover, Goto
<1>RescueUndoes. CASE RescueUndoes(i)
  <2>1. target \in Releases
    BY <1>RescueUndoes, TargetIsRelease DEF RescueUndoes, Bound, Preparing
  <2>2. Write("rolling-back")
    BY <1>RescueUndoes DEF RescueUndoes
  <2>3. txn' \in Transactions /\ txn'.candidate # None
    BY <2>1, <2>2, WriteTypes DEF Phases, Over
  <2>4. todo' \in [Installers -> SUBSET {"target", "back", "candidate"}]
    BY <1>RescueUndoes DEF RescueUndoes, Leftovers
  <2> QED BY <1>RescueUndoes, <2>3, <2>4 DEF RescueUndoes, Goto
<1>RescueVerifies. CASE RescueVerifies(i)
  <2>1. target \in Releases
    BY <1>RescueVerifies, TargetIsRelease DEF RescueVerifies, Bound, Preparing
  <2>2. Write("verifying")
    BY <1>RescueVerifies DEF RescueVerifies
  <2>3. txn' \in Transactions /\ txn'.candidate # None
    BY <2>1, <2>2, WriteTypes DEF Phases, Over
  <2> QED BY <1>RescueVerifies, <2>3 DEF RescueVerifies, Goto
<1>Point. CASE Point(i)
  <2>1. txn.previous \in Releases \cup {None}
    BY DEF Transactions
  <2> QED BY <1>Point, <2>1 DEF Point, Goto, Then, target
<1>Remove. CASE Remove(i)
  <2>1. target \in Releases
    BY <1>Remove, TargetIsRelease DEF Remove, Bound, Preparing
  <2>2. installed' \in [Releases -> Contents] /\ replaced' \in Contents /\ candidate' \in Contents
    BY <1>Remove, <2>1 DEF Remove
  <2> QED BY <1>Remove, <2>2 DEF Remove, Done, Goto, Then
<1>Back. CASE Back(i)
  <2>1. target \in Releases
    BY <1>Back, TargetIsRelease DEF Back, Bound, Preparing
  <2>2. installed' \in [Releases -> Contents] /\ replaced' \in Contents /\ candidate' \in Contents
    BY <1>Back, <2>1 DEF Back
  <2> QED BY <1>Back, <2>2 DEF Back, Done, Goto, Then
<1>Drop. CASE Drop(i)
  BY <1>Drop DEF Drop, Done, Goto, Then, target
<1>MoveAside. CASE MoveAside(i)
  BY <1>MoveAside DEF MoveAside, Goto
<1>CopyBack. CASE CopyBack(i)
  BY <1>CopyBack DEF CopyBack, Goto
<1>Tidy. CASE Tidy(i)
  BY <1>Tidy DEF Tidy, Goto
<1>Close. CASE Close(i)
  <2>1. target \in Releases
    BY <1>Close, TargetIsRelease DEF Close, Bound, Preparing
  <2>2. Write("rolled-back")
    BY <1>Close DEF Close
  <2>3. txn' \in Transactions /\ txn'.candidate # None
    BY <2>1, <2>2, WriteTypes DEF Phases, Over
  <2> QED BY <1>Close, <2>3 DEF Close, Goto, Onward
<1>Place. CASE Place(i)
  BY <1>Place DEF Place, Goto
<1>Seal. CASE Seal(i)
  <2>1. target \in Releases
    BY <1>Seal, TargetIsRelease DEF Seal, Bound, Preparing
  <2>2. Write("ready")
    BY <1>Seal DEF Seal
  <2>3. txn' \in Transactions /\ txn'.candidate # None
    BY <2>1, <2>2, WriteTypes DEF Phases, Over
  <2> QED BY <1>Seal, <2>3 DEF Seal, Goto
<1>StageFails. CASE StageFails(i)
  <2>1. target \in Releases
    BY <1>StageFails, TargetIsRelease DEF StageFails, Bound, Preparing
  <2>2. Write("failed")
    BY <1>StageFails DEF StageFails
  <2>3. txn' \in Transactions /\ txn'.candidate # None
    BY <2>1, <2>2, WriteTypes DEF Phases, Over
  <2> QED BY <1>StageFails, <2>3 DEF StageFails, Ends, Goto, Trouble
<1>PrepareRefused. CASE PrepareRefused(i)
  BY <1>PrepareRefused DEF PrepareRefused, Goto, InTheWay
<1>Prepare. CASE Prepare(i)
  <2>1. target \in Releases
    BY <1>Prepare, TargetIsRelease DEF Prepare, Bound, Preparing
  <2> QED BY <1>Prepare, <2>1 DEF Prepare, Goto, InTheWay
<1>Stash. CASE Stash(i)
  BY <1>Stash DEF Stash, Goto
<1>Swap. CASE Swap(i)
  BY <1>Swap DEF Swap, Goto
<1>PrepareFails. CASE PrepareFails(i)
  BY <1>PrepareFails DEF PrepareFails, Goto, Trouble, InTheWay
<1>Discard. CASE Discard(i)
  <2>1. target \in Releases
    BY <1>Discard, TargetIsRelease DEF Discard, Bound, Preparing
  <2>2. Write("failed")
    BY <1>Discard DEF Discard
  <2>3. txn' \in Transactions /\ txn'.candidate # None
    BY <2>1, <2>2, WriteTypes DEF Phases, Over
  <2> QED BY <1>Discard, <2>3 DEF Discard, Ends, Goto
<1>ActivateRefused. CASE ActivateRefused(i)
  <2>1. target \in Releases
    BY <1>ActivateRefused, TargetIsRelease DEF ActivateRefused, Bound, Preparing
  <2>2. Write("failed")
    BY <1>ActivateRefused DEF ActivateRefused
  <2>3. txn' \in Transactions /\ txn'.candidate # None
    BY <2>1, <2>2, WriteTypes DEF Phases, Over
  <2> QED BY <1>ActivateRefused, <2>3 DEF ActivateRefused, Goto
<1>Activate. CASE Activate(i)
  <2>1. target \in Releases
    BY <1>Activate, TargetIsRelease DEF Activate, Bound, Preparing
  <2>2. Write("snapshotting") \/ Write("switching")
    BY <1>Activate DEF Activate
  <2>3. txn' \in Transactions /\ txn'.candidate # None
    BY <2>1, <2>2, WriteTypes DEF Phases, Over
  <2> QED BY <1>Activate, <2>3 DEF Activate, Goto
<1>Snapshot. CASE Snapshot(i)
  BY <1>Snapshot DEF Snapshot, Goto
<1>Switch. CASE Switch(i)
  <2>1. target \in Releases
    BY <1>Switch, TargetIsRelease DEF Switch, Bound, Preparing
  <2>2. Write("switching")
    BY <1>Switch DEF Switch
  <2>3. txn' \in Transactions /\ txn'.candidate # None
    BY <2>1, <2>2, WriteTypes DEF Phases, Over
  <2> QED BY <1>Switch, <2>3 DEF Switch, Goto
<1>Replace. CASE Replace(i)
  <2>1. target \in Releases
    BY <1>Replace, TargetIsRelease DEF Replace, Bound, Preparing
  <2>2. installed' \in [Releases -> Contents] /\ replaced' \in Contents /\ candidate' \in Contents
    BY <1>Replace, <2>1 DEF Replace
  <2> QED BY <1>Replace, <2>2 DEF Replace, Goto
<1>Move. CASE Move(i)
  <2>1. target \in Releases
    BY <1>Move, TargetIsRelease DEF Move, Bound, Preparing
  <2>2. installed' \in [Releases -> Contents] /\ replaced' \in Contents /\ candidate' \in Contents
    BY <1>Move, <2>1 DEF Move
  <2> QED BY <1>Move, <2>2 DEF Move, Goto
<1>Select. CASE Select(i)
  <2>1. target \in Releases
    BY <1>Select, TargetIsRelease DEF Select, Bound, Preparing
  <2> QED BY <1>Select, <2>1 DEF Select, Goto
<1>Migrate. CASE Migrate(i)
  <2>1. target \in Releases
    BY <1>Migrate, TargetIsRelease DEF Migrate, Bound, Preparing
  <2>2. Write("migrating")
    BY <1>Migrate DEF Migrate
  <2>3. txn' \in Transactions /\ txn'.candidate # None
    BY <2>1, <2>2, WriteTypes DEF Phases, Over
  <2> QED BY <1>Migrate, <2>3 DEF Migrate, Goto
<1>Migrated. CASE Migrated(i)
  <2>1. target \in Releases
    BY <1>Migrated, TargetIsRelease DEF Migrated, Bound, Preparing
  <2> QED BY <1>Migrated, <2>1 DEF Migrated, Goto
<1>Verifying. CASE Verifying(i)
  <2>1. target \in Releases
    BY <1>Verifying, TargetIsRelease DEF Verifying, Bound, Preparing
  <2>2. Write("verifying")
    BY <1>Verifying DEF Verifying
  <2>3. txn' \in Transactions /\ txn'.candidate # None
    BY <2>1, <2>2, WriteTypes DEF Phases, Over
  <2> QED BY <1>Verifying, <2>3 DEF Verifying, Goto
<1>Verified. CASE Verified(i)
  <2>1. target \in Releases
    BY <1>Verified, TargetIsRelease DEF Verified, Bound, Preparing
  <2>2. Write("committed")
    BY <1>Verified DEF Verified
  <2>3. txn' \in Transactions /\ txn'.candidate # None
    BY <2>1, <2>2, WriteTypes DEF Phases, Over
  <2> QED BY <1>Verified, <2>3 DEF Verified, Goto
<1>ActivateFails. CASE ActivateFails(i)
  <2>1. target \in Releases
    BY <1>ActivateFails, TargetIsRelease DEF ActivateFails, Bound, Preparing
  <2>2. Write("failed") \/ Write("rolling-back")
    BY <1>ActivateFails DEF ActivateFails
  <2>3. txn' \in Transactions /\ txn'.candidate # None
    BY <2>1, <2>2, WriteTypes DEF Phases, Over
  <2> QED BY <1>ActivateFails, <2>3 DEF ActivateFails, Goto, Trouble, Halfway, InTheWay
<1>Rejected. CASE Rejected(i)
  <2>1. target \in Releases
    BY <1>Rejected, TargetIsRelease DEF Rejected, Bound, Preparing
  <2>2. Write("rolling-back")
    BY <1>Rejected DEF Rejected
  <2>3. txn' \in Transactions /\ txn'.candidate # None
    BY <2>1, <2>2, WriteTypes DEF Phases, Over
  <2>4. todo' \in [Installers -> SUBSET {"target", "back", "candidate"}]
    BY <1>Rejected DEF Rejected, Leftovers
  <2> QED BY <1>Rejected, <2>3, <2>4 DEF Rejected, Goto, Trouble
<1>UndoFails. CASE UndoFails(i)
  <2>1. target \in Releases
    BY <1>UndoFails, TargetIsRelease DEF UndoFails, Bound, Preparing
  <2>2. Write("failed")
    BY <1>UndoFails DEF UndoFails, GiveUp
  <2>3. txn' \in Transactions /\ txn'.candidate # None
    BY <2>1, <2>2, WriteTypes DEF Phases, Over
  <2> QED BY <1>UndoFails, <2>3 DEF UndoFails, Trouble, Halfway, InTheWay, GiveUp, Goto, Ends
<1>RestoreRefused. CASE RestoreRefused(i)
  <2>1. target \in Releases
    BY <1>RestoreRefused, TargetIsRelease DEF RestoreRefused, Bound, Preparing
  <2>2. Write("failed")
    BY <1>RestoreRefused DEF RestoreRefused, GiveUp
  <2>3. txn' \in Transactions /\ txn'.candidate # None
    BY <2>1, <2>2, WriteTypes DEF Phases, Over
  <2> QED BY <1>RestoreRefused, <2>3 DEF RestoreRefused, GiveUp, Goto, Ends
<1>Die. CASE Die(i)
  BY <1>Die DEF Die, Ends, Goto, Trouble, Halfway, InTheWay, target
<1>Keep. CASE Keep(i)
  BY <1>Keep DEF Keep, Ends, Goto
<1>Revert. CASE Revert(i)
  BY <1>Revert DEF Revert, Ends, Goto
<1>SettleFails. CASE SettleFails(i)
  BY <1>SettleFails DEF SettleFails, Ends, Goto, Trouble, Halfway, InTheWay, target
<1>StageRefused. CASE \E r \in Releases : StageRefused(i, r)
  BY <1>StageRefused DEF StageRefused, Ends, Goto
<1>Stage. CASE \E r \in Releases : Stage(i, r)
  <2>1. txn' \in Transactions /\ txn'.candidate # None
    BY <1>Stage DEF Stage, Transactions, Phases
  <2> QED BY <1>Stage, <2>1 DEF Stage, Goto, System, ContentOf
<1> QED BY <1>Begin, <1>Probed, <1>LockBusy, <1>NothingToRecover, <1>Recover, <1>RescueUndoes,
       <1>RescueVerifies, <1>Point, <1>Remove, <1>Back, <1>Drop, <1>MoveAside, <1>CopyBack,
       <1>Tidy, <1>Close, <1>Place, <1>Seal, <1>StageFails, <1>PrepareRefused, <1>Prepare,
       <1>Stash, <1>Swap, <1>PrepareFails, <1>Discard, <1>ActivateRefused, <1>Activate,
       <1>Snapshot, <1>Switch, <1>Replace, <1>Move, <1>Select, <1>Migrate, <1>Migrated,
       <1>Verifying, <1>Verified, <1>ActivateFails, <1>Rejected, <1>UndoFails, <1>RestoreRefused,
       <1>Die, <1>Keep, <1>Revert, <1>SettleFails, <1>StageRefused, <1>Stage
   DEF Step

\* A step of installer i leaves what the others remember alone.
Moves(i) ==
  \A j \in Installers \ {i} :
    pc'[j] = pc[j] /\ todo'[j] = todo[j] /\ (j \in rescuing' <=> j \in rescuing)

Turns(i) ==
  /\ txn' = txn \/ (lock \in {i, None} /\ (txn.phase # "ready" \/ pc[i] \in Preparing))
  /\ pc'[i] \in Preparing => pc[i] \in Preparing \/ txn.phase # "ready"

\* What a step leaves the others is enough for what they know of the phase.
LEMMA OthersStay ==
  ASSUME TypeOK, PlaceInv, NEW i \in Installers, Moves(i), Turns(i), PlaceOf(i)'
  PROVE  PlaceInv'
<1>1. ASSUME NEW j \in Installers, j # i, txn' # txn
      PROVE  pc[j] \notin Locked /\ j \notin rescuing /\ pc[j] \notin Preparing
  <2>1. pc[j] \notin Locked
    BY <1>1 DEF Turns, TypeOK
  <2>2. PlaceOf(j)
    BY <1>1 DEF PlaceInv
  <2>3. j \notin rescuing
    BY <2>1, <2>2 DEF PlaceOf, Locked
  <2>4. pc[j] \notin Preparing
    BY <1>1, <2>2 DEF Turns, PlaceOf, PlaceInv
  <2> QED BY <2>1, <2>3, <2>4
<1>2. ASSUME NEW j \in Installers PROVE PlaceOf(j)'
  <2>1. CASE j = i  BY <2>1
  <2>2. CASE j # i /\ txn' = txn
    <3>1. PlaceOf(j)  BY DEF PlaceInv
    <3> QED BY <2>2, <3>1 DEF PlaceOf, Moves, MigrationRequired, target
  <2>3. CASE j # i /\ txn' # txn
    <3>1. pc'[j] \notin Locked /\ j \notin rescuing' /\ pc'[j] \notin Preparing
      BY <1>1, <2>3 DEF Moves
    <3> QED BY <3>1 DEF PlaceOf, Locked, Activating, Undoing
  <2> QED BY <2>1, <2>2, <2>3
<1>3. ASSUME NEW j \in Installers, NEW k \in Installers, pc'[j] \in Preparing, pc'[k] \in Preparing, j # k
      PROVE  FALSE
  <2>1. CASE j # i /\ k # i
    BY <1>3, <2>1 DEF PlaceInv, Moves
  <2>2. CASE j = i \/ k = i
    <3>1. PICK l \in {j, k} : l # i  BY <1>3, <2>2
    <3>2. pc[l] \in Preparing /\ PlaceOf(l)  BY <1>3, <3>1 DEF Moves, PlaceInv
    <3>3. txn.phase = "ready"  BY <3>2 DEF PlaceOf
    <3>4. pc[i] \in Preparing  BY <1>3, <2>2, <3>3 DEF Turns
    <3> QED BY <3>1, <3>2, <3>4 DEF PlaceInv
  <2> QED BY <2>1, <2>2
<1> QED BY <1>2, <1>3 DEF PlaceInv

\* After its step an installer stands where the phase on disk says it may.
LEMMA OwnPlace ==
  ASSUME TypeOK, PlaceInv, NEW i \in Installers, Step(i)
  PROVE  Moves(i) /\ Turns(i) /\ PlaceOf(i)'
<1>0. PlaceOf(i)
  BY DEF PlaceInv
<1> USE <1>0 DEF Moves, Turns, PlaceOf, TypeOK, Preparing, Over, Locked, Undoing, Activating
<1>Begin. CASE Begin(i)
  <2>1. txn' = txn /\ (MigrationRequired' <=> MigrationRequired)
    BY <1>Begin DEF Begin, MigrationRequired, target
  <2> QED BY <1>Begin, <2>1 DEF Begin, Goto
<1>Probed. CASE Probed(i)
  <2>1. txn' = txn /\ (MigrationRequired' <=> MigrationRequired)
    BY <1>Probed DEF Probed, MigrationRequired, target
  <2> QED BY <1>Probed, <2>1 DEF Probed, Goto
<1>LockBusy. CASE LockBusy(i)
  <2>1. txn' = txn /\ (MigrationRequired' <=> MigrationRequired)
    BY <1>LockBusy DEF LockBusy, MigrationRequired, target
  <2> QED BY <1>LockBusy, <2>1 DEF LockBusy, Goto, Ends
<1>NothingToRecover. CASE NothingToRecover(i)
  <2>1. txn' = txn /\ (MigrationRequired' <=> MigrationRequired)
    BY <1>NothingToRecover DEF NothingToRecover, MigrationRequired, target
  <2> QED BY <1>NothingToRecover, <2>1 DEF NothingToRecover, Goto
<1>Recover. CASE Recover(i)
  <2>1. txn' = txn /\ (MigrationRequired' <=> MigrationRequired)
    BY <1>Recover DEF Recover, MigrationRequired, target
  <2> QED BY <1>Recover, <2>1 DEF Recover, Goto
<1>RescueUndoes. CASE RescueUndoes(i)
  <2>1. target \in Releases
    BY <1>RescueUndoes, TargetIsRelease DEF RescueUndoes, Bound
  <2>2. txn'.phase = "rolling-back" /\ (MigrationRequired' <=> MigrationRequired)
    BY <1>RescueUndoes, <2>1, WriteTypes DEF RescueUndoes, Phases, MigrationRequired, target
  <2> QED BY <1>RescueUndoes, <2>2 DEF RescueUndoes, Goto
<1>RescueVerifies. CASE RescueVerifies(i)
  <2>1. target \in Releases
    BY <1>RescueVerifies, TargetIsRelease DEF RescueVerifies, Bound
  <2>2. txn'.phase = "verifying" /\ (MigrationRequired' <=> MigrationRequired)
    BY <1>RescueVerifies, <2>1, WriteTypes DEF RescueVerifies, Phases, MigrationRequired, target
  <2> QED BY <1>RescueVerifies, <2>2 DEF RescueVerifies, Goto
<1>Point. CASE Point(i)
  <2>1. txn' = txn /\ (MigrationRequired' <=> MigrationRequired)
    BY <1>Point DEF Point, MigrationRequired, target
  <2> QED BY <1>Point, <2>1 DEF Point, Goto, Then
<1>Remove. CASE Remove(i)
  <2>1. txn' = txn /\ (MigrationRequired' <=> MigrationRequired)
    BY <1>Remove DEF Remove, MigrationRequired, target
  <2> QED BY <1>Remove, <2>1 DEF Remove, Done, Goto, Then
<1>Back. CASE Back(i)
  <2>1. txn' = txn /\ (MigrationRequired' <=> MigrationRequired)
    BY <1>Back DEF Back, MigrationRequired, target
  <2> QED BY <1>Back, <2>1 DEF Back, Done, Goto, Then
<1>Drop. CASE Drop(i)
  <2>1. txn' = txn /\ (MigrationRequired' <=> MigrationRequired)
    BY <1>Drop DEF Drop, MigrationRequired, target
  <2> QED BY <1>Drop, <2>1 DEF Drop, Done, Goto, Then
<1>MoveAside. CASE MoveAside(i)
  <2>1. txn' = txn /\ (MigrationRequired' <=> MigrationRequired)
    BY <1>MoveAside DEF MoveAside, MigrationRequired, target
  <2> QED BY <1>MoveAside, <2>1 DEF MoveAside, Goto
<1>CopyBack. CASE CopyBack(i)
  <2>1. txn' = txn /\ (MigrationRequired' <=> MigrationRequired)
    BY <1>CopyBack DEF CopyBack, MigrationRequired, target
  <2> QED BY <1>CopyBack, <2>1 DEF CopyBack, Goto
<1>Tidy. CASE Tidy(i)
  <2>1. txn' = txn /\ (MigrationRequired' <=> MigrationRequired)
    BY <1>Tidy DEF Tidy, MigrationRequired, target
  <2> QED BY <1>Tidy, <2>1 DEF Tidy, Goto
<1>Close. CASE Close(i)
  <2>1. target \in Releases
    BY <1>Close, TargetIsRelease DEF Close, Bound
  <2>2. txn'.phase = "rolled-back" /\ (MigrationRequired' <=> MigrationRequired)
    BY <1>Close, <2>1, WriteTypes DEF Close, Phases, MigrationRequired, target
  <2> QED BY <1>Close, <2>2 DEF Close, Goto, Onward
<1>Place. CASE Place(i)
  <2>1. txn' = txn /\ (MigrationRequired' <=> MigrationRequired)
    BY <1>Place DEF Place, MigrationRequired, target
  <2> QED BY <1>Place, <2>1 DEF Place, Goto
<1>Seal. CASE Seal(i)
  <2>1. target \in Releases
    BY <1>Seal, TargetIsRelease DEF Seal, Bound
  <2>2. txn'.phase = "ready" /\ (MigrationRequired' <=> MigrationRequired)
    BY <1>Seal, <2>1, WriteTypes DEF Seal, Phases, MigrationRequired, target
  <2> QED BY <1>Seal, <2>2 DEF Seal, Goto
<1>StageFails. CASE StageFails(i)
  <2>1. target \in Releases
    BY <1>StageFails, TargetIsRelease DEF StageFails, Bound
  <2>2. txn'.phase = "failed" /\ (MigrationRequired' <=> MigrationRequired)
    BY <1>StageFails, <2>1, WriteTypes DEF StageFails, Phases, MigrationRequired, target
  <2> QED BY <1>StageFails, <2>2 DEF StageFails, Ends, Goto, Trouble
<1>PrepareRefused. CASE PrepareRefused(i)
  <2>1. txn' = txn /\ (MigrationRequired' <=> MigrationRequired)
    BY <1>PrepareRefused DEF PrepareRefused, MigrationRequired, target
  <2> QED BY <1>PrepareRefused, <2>1 DEF PrepareRefused, Goto
<1>Prepare. CASE Prepare(i)
  <2>1. txn' = txn /\ (MigrationRequired' <=> MigrationRequired)
    BY <1>Prepare DEF Prepare, MigrationRequired, target
  <2> QED BY <1>Prepare, <2>1 DEF Prepare, Goto
<1>Stash. CASE Stash(i)
  <2>1. txn' = txn /\ (MigrationRequired' <=> MigrationRequired)
    BY <1>Stash DEF Stash, MigrationRequired, target
  <2> QED BY <1>Stash, <2>1 DEF Stash, Goto
<1>Swap. CASE Swap(i)
  <2>1. txn' = txn /\ (MigrationRequired' <=> MigrationRequired)
    BY <1>Swap DEF Swap, MigrationRequired, target
  <2> QED BY <1>Swap, <2>1 DEF Swap, Goto
<1>PrepareFails. CASE PrepareFails(i)
  <2>1. txn' = txn /\ (MigrationRequired' <=> MigrationRequired)
    BY <1>PrepareFails DEF PrepareFails, MigrationRequired, target
  <2> QED BY <1>PrepareFails, <2>1 DEF PrepareFails, Goto, Trouble
<1>Discard. CASE Discard(i)
  <2>1. target \in Releases
    BY <1>Discard, TargetIsRelease DEF Discard, Bound
  <2>2. txn'.phase = "failed" /\ (MigrationRequired' <=> MigrationRequired)
    BY <1>Discard, <2>1, WriteTypes DEF Discard, Phases, MigrationRequired, target
  <2> QED BY <1>Discard, <2>2 DEF Discard, Ends, Goto
<1>ActivateRefused. CASE ActivateRefused(i)
  <2>1. target \in Releases
    BY <1>ActivateRefused, TargetIsRelease DEF ActivateRefused, Bound
  <2>2. txn'.phase = "failed" /\ (MigrationRequired' <=> MigrationRequired)
    BY <1>ActivateRefused, <2>1, WriteTypes DEF ActivateRefused, Phases, MigrationRequired, target
  <2> QED BY <1>ActivateRefused, <2>2 DEF ActivateRefused, Goto
<1>Activate. CASE Activate(i)
  <2>1. target \in Releases
    BY <1>Activate, TargetIsRelease DEF Activate, Bound
  <2>2. /\ txn'.phase = IF MigrationRequired THEN "snapshotting" ELSE "switching"
        /\ MigrationRequired' <=> MigrationRequired
    BY <1>Activate, <2>1, WriteTypes DEF Activate, Phases, MigrationRequired, target
  <2>3. Moves(i) /\ Turns(i) /\ i \notin rescuing'
    BY <1>Activate, <2>2 DEF Activate, Goto
  <2>4. pc'[i] = IF MigrationRequired THEN "snapshot" ELSE "replace"
    BY <1>Activate DEF Activate, Goto
  <2>5. PlaceOf(i)'
    BY <2>2, <2>3, <2>4
  <2> QED BY <2>3, <2>5
<1>Snapshot. CASE Snapshot(i)
  <2>1. txn' = txn /\ (MigrationRequired' <=> MigrationRequired)
    BY <1>Snapshot DEF Snapshot, MigrationRequired, target
  <2> QED BY <1>Snapshot, <2>1 DEF Snapshot, Goto
<1>Switch. CASE Switch(i)
  <2>1. target \in Releases
    BY <1>Switch, TargetIsRelease DEF Switch, Bound
  <2>2. txn'.phase = "switching" /\ (MigrationRequired' <=> MigrationRequired)
    BY <1>Switch, <2>1, WriteTypes DEF Switch, Phases, MigrationRequired, target
  <2> QED BY <1>Switch, <2>2 DEF Switch, Goto
<1>Replace. CASE Replace(i)
  <2>1. txn' = txn /\ (MigrationRequired' <=> MigrationRequired)
    BY <1>Replace DEF Replace, MigrationRequired, target
  <2> QED BY <1>Replace, <2>1 DEF Replace, Goto
<1>Move. CASE Move(i)
  <2>1. txn' = txn /\ (MigrationRequired' <=> MigrationRequired)
    BY <1>Move DEF Move, MigrationRequired, target
  <2> QED BY <1>Move, <2>1 DEF Move, Goto
<1>Select. CASE Select(i)
  <2>1. txn' = txn /\ (MigrationRequired' <=> MigrationRequired)
    BY <1>Select DEF Select, MigrationRequired, target
  <2> QED BY <1>Select, <2>1 DEF Select, Goto
<1>Migrate. CASE Migrate(i)
  <2>1. target \in Releases
    BY <1>Migrate, TargetIsRelease DEF Migrate, Bound
  <2>2. txn'.phase = "migrating" /\ (MigrationRequired' <=> MigrationRequired)
    BY <1>Migrate, <2>1, WriteTypes DEF Migrate, Phases, MigrationRequired, target
  <2> QED BY <1>Migrate, <2>2 DEF Migrate, Goto
<1>Migrated. CASE Migrated(i)
  <2>1. txn' = txn /\ (MigrationRequired' <=> MigrationRequired)
    BY <1>Migrated DEF Migrated, MigrationRequired, target
  <2> QED BY <1>Migrated, <2>1 DEF Migrated, Goto
<1>Verifying. CASE Verifying(i)
  <2>1. target \in Releases
    BY <1>Verifying, TargetIsRelease DEF Verifying, Bound
  <2>2. txn'.phase = "verifying" /\ (MigrationRequired' <=> MigrationRequired)
    BY <1>Verifying, <2>1, WriteTypes DEF Verifying, Phases, MigrationRequired, target
  <2> QED BY <1>Verifying, <2>2 DEF Verifying, Goto
<1>Verified. CASE Verified(i)
  <2>1. target \in Releases
    BY <1>Verified, TargetIsRelease DEF Verified, Bound
  <2>2. txn'.phase = "committed" /\ (MigrationRequired' <=> MigrationRequired)
    BY <1>Verified, <2>1, WriteTypes DEF Verified, Phases, MigrationRequired, target
  <2> QED BY <1>Verified, <2>2 DEF Verified, Goto
<1>ActivateFails. CASE ActivateFails(i)
  <2>1. target \in Releases
    BY <1>ActivateFails, TargetIsRelease DEF ActivateFails, Bound
  <2>2. /\ txn'.phase = IF todo[i] = {} THEN "failed" ELSE "rolling-back"
        /\ MigrationRequired' <=> MigrationRequired
    BY <1>ActivateFails, <2>1, WriteTypes DEF ActivateFails, Phases, MigrationRequired, target
  <2>3. Moves(i) /\ Turns(i) /\ i \notin rescuing'
    BY <1>ActivateFails, <2>2 DEF ActivateFails, Goto, Trouble
  <2>4. pc'[i] = IF todo[i] = {} THEN "revert" ELSE "point"
    BY <1>ActivateFails DEF ActivateFails, Goto, Trouble
  <2>5. PlaceOf(i)'
    BY <2>2, <2>3, <2>4
  <2> QED BY <2>3, <2>5
<1>Rejected. CASE Rejected(i)
  <2>1. target \in Releases
    BY <1>Rejected, TargetIsRelease DEF Rejected, Bound
  <2>2. txn'.phase = "rolling-back" /\ (MigrationRequired' <=> MigrationRequired)
    BY <1>Rejected, <2>1, WriteTypes DEF Rejected, Phases, MigrationRequired, target
  <2> QED BY <1>Rejected, <2>2 DEF Rejected, Goto, Trouble
<1>UndoFails. CASE UndoFails(i)
  <2>1. target \in Releases
    BY <1>UndoFails, TargetIsRelease DEF UndoFails, Bound
  <2>2. txn'.phase = "failed" /\ (MigrationRequired' <=> MigrationRequired)
    BY <1>UndoFails, <2>1, WriteTypes DEF UndoFails, GiveUp, Phases, MigrationRequired, target
  <2> QED BY <1>UndoFails, <2>2 DEF UndoFails, Trouble, GiveUp, Goto, Ends
<1>RestoreRefused. CASE RestoreRefused(i)
  <2>1. target \in Releases
    BY <1>RestoreRefused, TargetIsRelease DEF RestoreRefused, Bound
  <2>2. txn'.phase = "failed" /\ (MigrationRequired' <=> MigrationRequired)
    BY <1>RestoreRefused, <2>1, WriteTypes DEF RestoreRefused, GiveUp, Phases, MigrationRequired, target
  <2> QED BY <1>RestoreRefused, <2>2 DEF RestoreRefused, GiveUp, Goto, Ends
<1>Die. CASE Die(i)
  <2>1. txn' = txn /\ (MigrationRequired' <=> MigrationRequired)
    BY <1>Die DEF Die, MigrationRequired, target
  <2> QED BY <1>Die, <2>1 DEF Die, Ends, Goto, Trouble
<1>Keep. CASE Keep(i)
  <2>1. txn' = txn /\ (MigrationRequired' <=> MigrationRequired)
    BY <1>Keep DEF Keep, MigrationRequired, target
  <2> QED BY <1>Keep, <2>1 DEF Keep, Ends, Goto
<1>Revert. CASE Revert(i)
  <2>1. txn' = txn /\ (MigrationRequired' <=> MigrationRequired)
    BY <1>Revert DEF Revert, MigrationRequired, target
  <2> QED BY <1>Revert, <2>1 DEF Revert, Ends, Goto
<1>SettleFails. CASE SettleFails(i)
  <2>1. txn' = txn /\ (MigrationRequired' <=> MigrationRequired)
    BY <1>SettleFails DEF SettleFails, MigrationRequired, target
  <2> QED BY <1>SettleFails, <2>1 DEF SettleFails, Ends, Goto, Trouble
<1>StageRefused. CASE \E r \in Releases : StageRefused(i, r)
  BY <1>StageRefused DEF StageRefused, Ends, Goto
<1>Stage. CASE \E r \in Releases : Stage(i, r)
  <2>1. txn'.phase = "staging"  BY <1>Stage DEF Stage
  <2> QED BY <1>Stage, <2>1 DEF Stage, Goto
<1> QED BY <1>Begin, <1>Probed, <1>LockBusy, <1>NothingToRecover, <1>Recover, <1>RescueUndoes,
       <1>RescueVerifies, <1>Point, <1>Remove, <1>Back, <1>Drop, <1>MoveAside, <1>CopyBack,
       <1>Tidy, <1>Close, <1>Place, <1>Seal, <1>StageFails, <1>PrepareRefused, <1>Prepare,
       <1>Stash, <1>Swap, <1>PrepareFails, <1>Discard, <1>ActivateRefused, <1>Activate,
       <1>Snapshot, <1>Switch, <1>Replace, <1>Move, <1>Select, <1>Migrate, <1>Migrated,
       <1>Verifying, <1>Verified, <1>ActivateFails, <1>Rejected, <1>UndoFails, <1>RestoreRefused,
       <1>Die, <1>Keep, <1>Revert, <1>SettleFails, <1>StageRefused, <1>Stage
   DEF Step

\* A step of an installer keeps what all of them know of the phase.
LEMMA PlacesStep ==
  ASSUME TypeOK, PlaceInv, NEW i \in Installers, Step(i)
  PROVE  PlaceInv'
BY OwnPlace, OthersStay

\* The installed product moves no installer.
LEMMA UseKeepsPlaces ==
  ASSUME TypeOK, PlaceInv, Use
  PROVE  TypeOK' /\ PlaceInv'
<1>1. TypeOK'
  BY DEF Use, TypeOK, Data, target, runVars, dirVars, dataVars, fileVars, pastVars
<1>2. ASSUME NEW i \in Installers PROVE PlaceOf(i)'
  BY <1>2 DEF Use, PlaceInv, PlaceOf, MigrationRequired, target, runVars
<1> QED BY <1>1, <1>2 DEF Use, PlaceInv, runVars

\* Nor does a cleanup.
LEMMA CleanupKeepsPlaces ==
  ASSUME TypeOK, PlaceInv, Cleanup
  PROVE  TypeOK' /\ PlaceInv'
<1>1. TypeOK'
  BY DEF Cleanup, TypeOK, Contents, Data, target, runVars, dirVars, dataVars, fileVars, pastVars
<1>2. ASSUME NEW i \in Installers PROVE PlaceOf(i)'
  BY <1>2 DEF Cleanup, PlaceInv, PlaceOf, MigrationRequired, target, runVars
<1> QED BY <1>1, <1>2 DEF Cleanup, PlaceInv, runVars

\* Before the first installation everything is typed and nobody has begun.
LEMMA InitPlaces ==
  ASSUME Init
  PROVE  TypeOK /\ PlaceInv
<1>1. TypeOK
  <2>1. \A i \in Installers : pc[i] = "idle" /\ lock = None /\ i # None
    BY DEF Init
  <2>2. \A i \in Installers : pc[i] \in Locked <=> lock = i
    BY <2>1 DEF Locked, Undoing, Activating
  <2>3. pc \in [Installers -> Locked \cup Unlocked]
    BY DEF Init, Unlocked
  <2>4. txn \in Transactions /\ txn.candidate = None /\ txn.phase = "none"
    BY DEF Init, Transactions, Phases, Over
  <2>5. /\ current \in Releases \cup {None} /\ data \in Data /\ file \in Data
        /\ installed \in [Releases -> Contents]
    BY DEF Init, Data, Contents
  <2>6. before \in [release : Releases \cup {None}, content : Contents, data : Data]
    BY <2>5 DEF Init, System, ContentOf, Contents
  <2>7. /\ fresh = {} /\ had = {} /\ rescuing = {} /\ lock = None
        /\ todo \in [Installers -> SUBSET {"target", "back", "candidate"}]
    BY DEF Init
  <2>8. /\ candidate \in Contents /\ replaced \in Contents
        /\ snapshot \in SUBSET Data /\ backup \in SUBSET Data
        /\ staged \in Data /\ aside \in Data
    BY DEF Init, Contents, Data
  <2>9. wrecked \in BOOLEAN
    BY DEF Init
  <2>10. troubles \in 0..MaxTroubles
    <3>1. troubles = 0  BY DEF Init
    <3>2. MaxTroubles \in Nat  BY InstallAssumption
    <3> QED BY <3>1, <3>2
  <2> QED BY <2>2, <2>3, <2>4, <2>5, <2>6, <2>7, <2>8, <2>9, <2>10 DEF TypeOK
<1>2. PlaceInv
  BY DEF Init, PlaceInv, PlaceOf, Preparing, Undoing
<1> QED BY <1>1, <1>2

PlacesInv == TypeOK /\ PlaceInv

\* Types and places are inductive together.
LEMMA PlacesNext ==
  ASSUME PlacesInv, [Next]_vars
  PROVE  PlacesInv'
<1> USE DEF PlacesInv
<1>1. CASE Use  BY <1>1, UseKeepsPlaces
<1>2. CASE Cleanup  BY <1>2, CleanupKeepsPlaces
<1>3. ASSUME NEW i \in Installers, Step(i) PROVE PlacesInv'
  BY <1>3, TypesStep, PlacesStep
<1>4. CASE UNCHANGED vars
  <2>1. TypeOK'
    BY <1>4 DEF vars, TypeOK, target
  <2>2. PlaceInv'
    BY <1>4 DEF vars, PlaceInv, PlaceOf, MigrationRequired, target
  <2> QED BY <2>1, <2>2
<1> QED BY <1>1, <1>2, <1>3, <1>4 DEF Next

\* Every variable keeps its type, and an installer is inside the lock exactly while it
\* stands at one of the calls the code makes inside the lock (installation-lock.ts).
THEOREM TypeCorrect == Spec => []TypeOK
<1>1. Init => PlacesInv  BY InitPlaces DEF PlacesInv
<1>2. PlacesInv /\ [Next]_vars => PlacesInv'  BY PlacesNext
<1>3. PlacesInv => TypeOK  BY DEF PlacesInv
<1> QED BY <1>1, <1>2, <1>3, PTL DEF Spec

\* Where an installer stands tells the phase on disk, and the installers that settle stable
\* files outside the lock are never two at a time.
THEOREM PlacesHold == Spec => []PlaceInv
<1>1. Init => PlacesInv  BY InitPlaces DEF PlacesInv
<1>2. PlacesInv /\ [Next]_vars => PlacesInv'  BY PlacesNext
<1>3. PlacesInv => PlaceInv  BY DEF PlacesInv
<1> QED BY <1>1, <1>2, <1>3, PTL DEF Spec

-----------------------------------------------------------------------------
(* Recoveries and rollbacks.                                               *)

\* A write of transaction.json keeps the releases the transaction is about.
LEMMA Keeps ==
  ASSUME TypeOK, NEW phase \in Phases, Write(phase), target \in Releases
  PROVE  /\ txn'.phase = phase
         /\ target' = target /\ previous' = previous
         /\ MigrationRequired' <=> MigrationRequired
BY WriteTypes DEF MigrationRequired, target, previous

Shape == <<current, txn, dirVars, dataVars, before>>

\* What is on disk decides PhaseInv: a step that changes none of it keeps it.
LEMMA ShapeKeepsPhase ==
  ASSUME PhaseInv, UNCHANGED Shape
  PROVE  PhaseInv'
BY DEF PhaseInv, Shape, dirVars, dataVars, Healthy, Began, Fits, InStaging, InReady, InSnapshotting,
   InSwitching, InMigrating, InVerifying, InRollback, Kept, DataKept, Recoverable, Placed,
   Midway, Snapshotted, Brought, ContentOf, MigrationRequired, target, previous

\* What an installer remembers is about the disk, and it only remembers inside the lock.
LEMMA OthersRemember ==
  ASSUME TypeOK, TodoInv, NEW i \in Installers, Moves(i), TodoOf(i)',
         lock \in {i, None} \/ UNCHANGED Shape
  PROVE  TodoInv'
<1>1. ASSUME NEW j \in Installers, j # i PROVE TodoOf(j)'
  <2>1. TodoOf(j) /\ pc'[j] = pc[j] /\ todo'[j] = todo[j] /\ (j \in rescuing' <=> j \in rescuing)
    BY <1>1 DEF TodoInv, Moves
  <2>2. CASE lock \in {i, None}
    <3>1. pc'[j] \notin Locked
      BY <1>1, <2>1, <2>2 DEF TypeOK
    <3> QED BY <3>1 DEF TodoOf, Locked, Activating, Undoing
  <2>3. CASE UNCHANGED Shape
    BY <2>1, <2>3 DEF TodoOf, Shape, dirVars, dataVars, Brought, MigrationRequired, target, previous
  <2> QED BY <2>2, <2>3
<1> QED BY <1>1 DEF TodoInv

\* The candidate is a release, and every release has its directory's content.
LEMMA TargetContent ==
  ASSUME TypeOK, target \in Releases
  PROVE  /\ target # None
         /\ previous = target => ContentOf(previous) = installed[target]
         /\ previous \in Releases \cup {None}
         /\ \A r \in Releases : ContentOf(r) = installed[r]
         /\ ContentOf(None) = "absent"
BY DEF TypeOK, Transactions, ContentOf, target, previous

\* An old release is never torn or absent.
LEMMA OldIsThere ==
  ASSUME TypeOK, Began, target \in Releases, previous = target
  PROVE  before.content \in {"damaged", "whole"}
BY TargetContent DEF Began

\* Every phase under way can be rolled back.
LEMMA AnyPhaseRollsBack ==
  ASSUME TypeOK, PhaseInv, target \in Releases, txn.phase \notin Over
  PROVE  Began /\ InRollback
<1>0. Began /\ txn.phase \in Phases \ Over
  BY DEF PhaseInv, TypeOK, Transactions
<1>1. CASE txn.phase \in {"staging", "ready"}
  <2>1. InStaging
    BY <1>1 DEF PhaseInv, InReady
  <2> QED BY <1>0, <2>1, TargetContent DEF InStaging, InRollback, Kept, DataKept, Recoverable
<1>2. CASE txn.phase = "snapshotting"
  <2>1. InSnapshotting
    BY <1>2 DEF PhaseInv
  <2> QED BY <1>0, <2>1, TargetContent DEF InSnapshotting, InRollback, Kept, DataKept, Recoverable
<1>3. CASE txn.phase = "switching"
  <2>1. InSwitching
    BY <1>3 DEF PhaseInv
  <2>2. /\ Recoverable /\ current \in {previous, target}
        /\ current # previous => installed[target] = "whole"
    BY <2>1, TargetContent DEF InSwitching, Midway, Kept, Recoverable, Placed
  <2> QED BY <1>0, <2>1, <2>2 DEF InSwitching, InRollback, DataKept, Snapshotted
<1>4. CASE txn.phase = "migrating"
  <2>1. InMigrating
    BY <1>4 DEF PhaseInv
  <2> QED BY <1>0, <2>1 DEF InMigrating, InRollback, Placed, Recoverable, Snapshotted
<1>5. CASE txn.phase = "verifying"
  <2>1. InVerifying
    BY <1>5 DEF PhaseInv
  <2> QED BY <1>0, <2>1 DEF InVerifying, InRollback, Placed, Recoverable, Snapshotted, Brought
<1>6. CASE txn.phase = "rolling-back"
  BY <1>0, <1>6 DEF PhaseInv
<1> QED BY <1>0, <1>1, <1>2, <1>3, <1>4, <1>5, <1>6 DEF Phases

\* A transaction that ends with the system it began with leaves a healthy one.
LEMMA BeforeIsHealthy ==
  ASSUME TypeOK, TypeOK', Began, System' = before
  PROVE  Healthy'
<1>1. current' = previous /\ ContentOf(current)' = before.content /\ data' = before.data
  BY DEF System, Began
<1>2. current' \in Releases \cup {None}
  BY DEF TypeOK
<1> QED BY <1>1, <1>2 DEF Healthy, Began, Fits, ContentOf

\* Pointer, directory and data make up the system.
LEMMA IsBefore ==
  ASSUME TypeOK, Began, current' = previous, ContentOf(current)' = before.content, data' = before.data
  PROVE  System' = before
<1>1. before = [release |-> before.release, content |-> before.content, data |-> before.data]
  BY DEF TypeOK
<1> QED BY <1>1 DEF System, Began

-----------------------------------------------------------------------------
(* Steps.  Good is what is known of the state a step starts from.          *)

Good == TypeOK /\ PlaceInv /\ PhaseInv /\ TodoInv

\* The parts of Good, for one installer.
LEMMA Known ==
  ASSUME Good, NEW i \in Installers
  PROVE  TypeOK /\ PlaceInv /\ PhaseInv /\ PlaceOf(i) /\ TodoOf(i)
BY DEF Good, PlaceInv, TodoInv

\* Steps that leave pointer, transaction, directories and data alone.
LEMMA QuietSteps ==
  ASSUME Good, NEW i \in Installers,
         \/ Begin(i) \/ Probed(i) \/ LockBusy(i) \/ NothingToRecover(i) \/ Recover(i)
         \/ (\E r \in Releases : StageRefused(i, r))
         \/ PrepareRefused(i) \/ Prepare(i) \/ Stash(i) \/ Swap(i) \/ PrepareFails(i)
         \/ Keep(i) \/ Revert(i) \/ SettleFails(i)
  PROVE  UNCHANGED Shape /\ PhaseInv' /\ TodoOf(i)'
<1>1. UNCHANGED Shape
  BY DEF Begin, Probed, LockBusy, NothingToRecover, Recover, StageRefused, PrepareRefused, Prepare,
     Stash, Swap, PrepareFails, Keep, Revert, SettleFails, Halfway, Shape, dirVars, dataVars, pastVars
<1>2. pc'[i] \in Unlocked \cup {"probe", "rescue"}
  BY Known DEF Begin, Probed, LockBusy, NothingToRecover, Recover, StageRefused, PrepareRefused,
     Prepare, Stash, Swap, PrepareFails, Keep, Revert, SettleFails, Goto, Ends, TypeOK, Unlocked
<1>3. TodoOf(i)'
  BY <1>2 DEF TodoOf, Unlocked, Activating, Undoing
<1> QED BY <1>1, <1>3, ShapeKeepsPhase DEF Good

\* What a recovery decides, from what it finds, is right for every phase.
LEMMA RescueSteps ==
  ASSUME Good, TypeOK', NEW i \in Installers, RescueUndoes(i) \/ RescueVerifies(i)
  PROVE  PhaseInv' /\ TodoOf(i)'
<1>1. target \in Releases /\ txn.phase \in Phases \ (Over \cup {"ready"}) /\ i \in rescuing
  BY Known, TargetIsRelease DEF RescueUndoes, RescueVerifies, PlaceOf, Bound, TypeOK, Transactions
<1>2. Began /\ InRollback
  BY <1>1, Known, AnyPhaseRollsBack
<1>3. CASE RescueUndoes(i)
  <2>1. /\ txn'.phase = "rolling-back" /\ target' = target /\ previous' = previous
        /\ MigrationRequired' <=> MigrationRequired
    BY <1>1, <1>3, Keeps, Known DEF RescueUndoes, Phases
  <2>2. UNCHANGED <<current, dirVars, dataVars, before>>
    BY <1>3 DEF RescueUndoes, pastVars
  <2>3. Began' /\ InRollback'
    BY <1>2, <2>1, <2>2 DEF Began, InRollback, Recoverable, ContentOf, Fits, dirVars, dataVars
  <2>4. pc'[i] = "point" /\ todo'[i] = Leftovers
    BY <1>3, Known DEF RescueUndoes, Goto, TypeOK
  <2>5. TodoOf(i)'
    BY <2>1, <2>2, <2>4 DEF TodoOf, Activating, Undoing, Leftovers, previous, dirVars
  <2> QED BY <2>1, <2>3, <2>5 DEF PhaseInv, Over
<1>4. CASE RescueVerifies(i)
  <2>1. /\ txn'.phase = "verifying" /\ target' = target /\ previous' = previous
        /\ MigrationRequired' <=> MigrationRequired
    BY <1>1, <1>4, Keeps, Known DEF RescueVerifies, Phases
  <2>2. UNCHANGED <<current, dirVars, dataVars, before>>
    BY <1>4 DEF RescueVerifies, pastVars
  <2>3. InVerifying
    <3>1. txn.phase \in {"switching", "verifying"} /\ Switched
      BY <1>1, <1>4 DEF RescueVerifies, MustUndo, Phases
    <3>2. CASE txn.phase = "switching"
      <4>1. InSwitching /\ snapshot = {}
        BY <1>4, <3>2, Known DEF PhaseInv, RescueVerifies, MustUndo
      <4> QED BY <3>1, <4>1 DEF InSwitching, Switched, Midway, Snapshotted, DataKept, InVerifying, Brought
    <3>3. CASE txn.phase = "verifying"
      BY <3>3, Known DEF PhaseInv
    <3> QED BY <3>1, <3>2, <3>3
  <2>4. Began' /\ InVerifying'
    BY <1>2, <2>1, <2>2, <2>3
    DEF Began, InVerifying, Placed, Snapshotted, Brought, ContentOf, Fits, dirVars, dataVars
  <2>5. pc'[i] = "verify" /\ i \in rescuing'
    BY <1>1, <1>4, Known DEF RescueVerifies, Goto, TypeOK
  <2>6. TodoOf(i)'
    BY <2>5 DEF TodoOf, Activating, Undoing
  <2> QED BY <2>1, <2>4, <2>6 DEF PhaseInv, Over
<1> QED BY <1>3, <1>4

\* What a rollback may count on at each of its steps.
LEMMA InRollbackKnown ==
  ASSUME Good, NEW i \in Installers, pc[i] \in Undoing
  PROVE  /\ target \in Releases /\ txn.phase = "rolling-back" /\ Began /\ InRollback
         /\ previous \in Releases \cup {None} /\ target # None
         /\ previous = target => before.content # "absent"
         /\ todo[i] \in SUBSET {"target", "back", "candidate"}
         /\ lock = i
<1>1. target \in Releases /\ txn.phase = "rolling-back"
  BY Known, TargetIsRelease DEF PlaceOf, Bound
<1>2. Began /\ InRollback
  BY <1>1, Known DEF PhaseInv, Over
<1>3. lock = i /\ todo[i] \in SUBSET {"target", "back", "candidate"}
  BY Known DEF TypeOK, Locked
<1> QED BY <1>1, <1>2, <1>3, Known, TargetContent, OldIsThere

\* Each step of a rollback leaves a state the next recovery can roll back.
LEMMA RollbackSteps ==
  ASSUME Good, TypeOK', NEW i \in Installers,
         \/ Point(i) \/ Remove(i) \/ Back(i) \/ Drop(i)
         \/ MoveAside(i) \/ CopyBack(i) \/ Tidy(i)
  PROVE  PhaseInv' /\ TodoOf(i)'
<1> SUFFICES txn' = txn /\ txn.phase = "rolling-back" /\ Began' /\ InRollback' /\ TodoOf(i)'
  BY DEF PhaseInv, Over
<1>Point. CASE Point(i)
  <2>1. pc[i] \in {"point"}
    BY <1>Point DEF Point
  <2>2. /\ target \in Releases /\ txn.phase = "rolling-back" /\ Began /\ InRollback
        /\ previous \in Releases \cup {None} /\ target # None
        /\ previous = target => before.content # "absent"
        /\ todo[i] \in SUBSET {"target", "back", "candidate"}
    BY <2>1, InRollbackKnown DEF Undoing
  <2>3. UNCHANGED <<txn, target, previous, before, installed, replaced, data, snapshot>>
    BY <1>Point DEF Point, dirVars, dataVars, pastVars, target, previous
  <2>4. current' = previous /\ pc'[i] = Then(todo[i]) /\ todo'[i] = todo[i]
    BY <1>Point, Known DEF Point, Goto, TypeOK, previous
  <2>5. Began' /\ InRollback'
    BY <2>2, <2>3, <2>4 DEF Began, Fits, InRollback, Recoverable, ContentOf
  <2>6. TodoOf(i)'
    BY <2>1, <2>2, <2>3, <2>4, Known DEF TodoOf, Activating, Undoing, Then
  <2> QED BY <2>2, <2>3, <2>5, <2>6
<1>Remove. CASE Remove(i)
  <2>1. pc[i] \in {"remove"}
    BY <1>Remove DEF Remove
  <2>2. /\ target \in Releases /\ txn.phase = "rolling-back" /\ Began /\ InRollback
        /\ previous \in Releases \cup {None} /\ target # None
        /\ previous = target => before.content # "absent"
        /\ todo[i] \in SUBSET {"target", "back", "candidate"}
    BY <2>1, InRollbackKnown DEF Undoing
  <2>3. UNCHANGED <<txn, target, previous, before, current, replaced, data, snapshot>>
    BY <1>Remove DEF Remove, dirVars, dataVars, pastVars, target, previous
  <2>4. /\ pc'[i] = Then(todo[i] \ {"target"}) /\ todo'[i] = todo[i] \ {"target"}
        /\ installed' = [installed EXCEPT ![target] = "absent"]
    BY <1>Remove, Known DEF Remove, Done, Goto, TypeOK
  <2>5. /\ current = previous /\ "target" \in todo[i]
        /\ "back" \in todo[i] <=> replaced # "absent"
        /\ previous = target => "back" \in todo[i]
    BY <2>1, <2>2, Known DEF TodoOf, Undoing, Then
  <2>6. Recoverable'
    BY <2>2, <2>3, <2>4, <2>5, Known DEF InRollback, Recoverable, ContentOf, TypeOK
  <2>7. Began' /\ InRollback'
    BY <2>2, <2>3, <2>5, <2>6 DEF Began, Fits, InRollback
  <2>8. TodoOf(i)'
    BY <2>2, <2>3, <2>4, <2>5 DEF TodoOf, Activating, Undoing, Then
  <2> QED BY <2>2, <2>3, <2>7, <2>8
<1>Back. CASE Back(i)
  <2>1. pc[i] \in {"back"}
    BY <1>Back DEF Back
  <2>2. /\ target \in Releases /\ txn.phase = "rolling-back" /\ Began /\ InRollback
        /\ previous \in Releases \cup {None} /\ target # None
        /\ previous = target => before.content # "absent"
        /\ todo[i] \in SUBSET {"target", "back", "candidate"}
    BY <2>1, InRollbackKnown DEF Undoing
  <2>3. UNCHANGED <<txn, target, previous, before, current, data, snapshot>>
    BY <1>Back DEF Back, dirVars, dataVars, pastVars, target, previous
  <2>4. /\ pc'[i] = Then(todo[i] \ {"back"}) /\ todo'[i] = todo[i] \ {"back"}
        /\ installed' = [installed EXCEPT ![target] = replaced] /\ replaced' = "absent"
    BY <1>Back, Known DEF Back, Done, Goto, TypeOK
  <2>5. /\ current = previous /\ "target" \notin todo[i] /\ "back" \in todo[i]
        /\ replaced # "absent"
    BY <2>1, <2>2, Known DEF TodoOf, Undoing, Then
  <2>6. Recoverable'
    BY <2>2, <2>3, <2>4, <2>5, Known DEF InRollback, Recoverable, ContentOf, TypeOK
  <2>7. Began' /\ InRollback'
    BY <2>2, <2>3, <2>5, <2>6 DEF Began, Fits, InRollback
  <2>8. TodoOf(i)'
    BY <2>2, <2>3, <2>4, <2>5 DEF TodoOf, Activating, Undoing, Then
  <2> QED BY <2>2, <2>3, <2>7, <2>8
<1>Drop. CASE Drop(i)
  <2>1. pc[i] \in {"drop"}
    BY <1>Drop DEF Drop
  <2>2. /\ target \in Releases /\ txn.phase = "rolling-back" /\ Began /\ InRollback
        /\ previous \in Releases \cup {None} /\ target # None
        /\ previous = target => before.content # "absent"
        /\ todo[i] \in SUBSET {"target", "back", "candidate"}
    BY <2>1, InRollbackKnown DEF Undoing
  <2>3. UNCHANGED <<txn, target, previous, before, current, installed, replaced, data, snapshot>>
    BY <1>Drop DEF Drop, dirVars, dataVars, pastVars, target, previous
  <2>4. pc'[i] = Then(todo[i] \ {"candidate"}) /\ todo'[i] = todo[i] \ {"candidate"}
    BY <1>Drop, Known DEF Drop, Done, Goto, TypeOK
  <2>5. current = previous /\ todo[i] = {"candidate"} /\ replaced = "absent"
    BY <2>1, <2>2, Known DEF TodoOf, Undoing, Then
  <2>6. Began' /\ InRollback'
    BY <2>2, <2>3 DEF Began, Fits, InRollback, Recoverable, ContentOf
  <2>7. TodoOf(i)'
    BY <2>2, <2>3, <2>4, <2>5 DEF TodoOf, Activating, Undoing, Then
  <2> QED BY <2>2, <2>3, <2>6, <2>7
<1>MoveAside. CASE MoveAside(i)
  <2>1. pc[i] \in {"restore"}
    BY <1>MoveAside DEF MoveAside
  <2>2. /\ target \in Releases /\ txn.phase = "rolling-back" /\ Began /\ InRollback
        /\ previous \in Releases \cup {None} /\ target # None
        /\ previous = target => before.content # "absent"
        /\ todo[i] \in SUBSET {"target", "back", "candidate"}
    BY <2>1, InRollbackKnown DEF Undoing
  <2>3. UNCHANGED <<txn, target, previous, before, current, installed, replaced, snapshot>>
    BY <1>MoveAside DEF MoveAside, dirVars, dataVars, pastVars, target, previous
  <2>4. snapshot # {} /\ pc'[i] \in {"fill", "copy"} /\ todo'[i] = todo[i]
    BY <1>MoveAside, Known DEF MoveAside, Goto, TypeOK
  <2>5. current = previous /\ todo[i] = {} /\ replaced = "absent"
    BY <2>1, Known DEF TodoOf, Undoing
  <2>6. Began' /\ InRollback'
    BY <2>2, <2>3, <2>4 DEF Began, Fits, InRollback, Recoverable, ContentOf
  <2>7. TodoOf(i)'
    BY <2>2, <2>3, <2>4, <2>5 DEF TodoOf, Activating, Undoing, Then
  <2> QED BY <2>2, <2>3, <2>6, <2>7
<1>CopyBack. CASE CopyBack(i)
  <2>1. pc[i] \in {"copy", "fill"}
    BY <1>CopyBack DEF CopyBack
  <2>2. /\ target \in Releases /\ txn.phase = "rolling-back" /\ Began /\ InRollback
        /\ previous \in Releases \cup {None} /\ target # None
        /\ previous = target => before.content # "absent"
        /\ todo[i] \in SUBSET {"target", "back", "candidate"}
    BY <2>1, InRollbackKnown DEF Undoing
  <2>3. UNCHANGED <<txn, target, previous, before, current, installed, replaced, snapshot>>
    BY <1>CopyBack DEF CopyBack, dirVars, dataVars, pastVars, target, previous
  <2>4. data' \in snapshot /\ pc'[i] \in {"tidy", "close"} /\ todo'[i] = todo[i]
    BY <1>CopyBack, Known DEF CopyBack, Goto, TypeOK
  <2>5. data' = before.data
    BY <2>2, <2>4 DEF InRollback
  <2>6. current = previous /\ todo[i] = {} /\ replaced = "absent"
    BY <2>1, Known DEF TodoOf, Undoing
  <2>7. Began' /\ InRollback'
    BY <2>2, <2>3, <2>5 DEF Began, Fits, InRollback, Recoverable, ContentOf
  <2>8. TodoOf(i)'
    BY <2>2, <2>3, <2>4, <2>5, <2>6 DEF TodoOf, Activating, Undoing, Then
  <2> QED BY <2>2, <2>3, <2>7, <2>8
<1>Tidy. CASE Tidy(i)
  <2>1. pc[i] \in {"tidy"}
    BY <1>Tidy DEF Tidy
  <2>2. /\ target \in Releases /\ txn.phase = "rolling-back" /\ Began /\ InRollback
        /\ previous \in Releases \cup {None} /\ target # None
        /\ previous = target => before.content # "absent"
        /\ todo[i] \in SUBSET {"target", "back", "candidate"}
    BY <2>1, InRollbackKnown DEF Undoing
  <2>3. UNCHANGED <<txn, target, previous, before, current, installed, replaced, data, snapshot>>
    BY <1>Tidy DEF Tidy, dirVars, dataVars, pastVars, target, previous
  <2>4. pc'[i] = "close" /\ todo'[i] = todo[i]
    BY <1>Tidy, Known DEF Tidy, Goto, TypeOK
  <2>5. current = previous /\ todo[i] = {} /\ replaced = "absent" /\ data = before.data
    BY <2>1, Known DEF TodoOf, Undoing
  <2>6. Began' /\ InRollback'
    BY <2>2, <2>3 DEF Began, Fits, InRollback, Recoverable, ContentOf
  <2>7. TodoOf(i)'
    BY <2>2, <2>3, <2>4, <2>5 DEF TodoOf, Activating, Undoing, Then
  <2> QED BY <2>2, <2>3, <2>6, <2>7
<1> QED BY <1>Point, <1>Remove, <1>Back, <1>Drop, <1>MoveAside, <1>CopyBack, <1>Tidy

-----------------------------------------------------------------------------
(* A transaction that ends without having installed anything.              *)

Ending(i) ==
  \/ Close(i) \/ StageFails(i) \/ Discard(i) \/ ActivateRefused(i)
  \/ ActivateFails(i) /\ todo[i] = {}

\* Where nothing has been moved the system is the one from before.
LEMMA KeptIsBefore ==
  ASSUME TypeOK, target \in Releases, Began, Kept, DataKept, UNCHANGED <<current, installed, data>>
  PROVE  System' = before
<1>1. ContentOf(current)' = ContentOf(current)
  BY DEF ContentOf
<1> QED BY <1>1, IsBefore DEF Kept, DataKept

\* Whatever ends a transaction short of success has put everything back.
LEMMA EndingUndoes ==
  ASSUME Good, TypeOK', NEW i \in Installers, Ending(i)
  PROVE  /\ System' = before /\ Began /\ txn'.phase \in Over
         /\ txn.phase \notin Over /\ pc'[i] \in Unlocked /\ wrecked' = wrecked
<1>1. pc[i] \in Activating \cup Undoing \cup {"place", "seal", "discard", "activate"}
  BY DEF Ending, Close, StageFails, Discard, ActivateRefused, ActivateFails, Undoing
<1>2. target \in Releases /\ txn.phase \notin Over
  BY <1>1, Known, TargetIsRelease DEF PlaceOf, Bound, Preparing, Activating, Over
<1>3. Began
  BY <1>2, Known DEF PhaseInv
<1>4. txn'.phase \in Over
  BY <1>2, Known, Keeps
  DEF Ending, Close, StageFails, Discard, ActivateRefused, ActivateFails, Phases, Over
<1>5. pc'[i] \in Unlocked /\ wrecked' = wrecked
  BY Known DEF Ending, Close, StageFails, Discard, ActivateRefused, ActivateFails, Onward, Goto,
     Ends, TypeOK, Unlocked, pastVars
<1>6. CASE Close(i)
  <2>1. pc[i] \in {"close", "restore"} /\ (pc[i] = "restore" => snapshot = {})
    BY <1>6 DEF Close
  <2>2. InRollback /\ (previous = target => before.content # "absent")
    BY <2>1, InRollbackKnown DEF Undoing
  <2>3. /\ current = previous /\ todo[i] = {} /\ replaced = "absent"
        /\ pc[i] = "close" => data = before.data
    BY <2>1, Known DEF TodoOf, Undoing
  <2>4. data = before.data
    BY <2>1, <2>2, <2>3 DEF InRollback
  <2>5. ContentOf(current) = before.content
    BY <1>2, <2>2, <2>3, Known, TargetContent DEF InRollback, Recoverable
  <2>6. UNCHANGED <<current, installed, data>>
    BY <1>6 DEF Close, dirVars, dataVars
  <2>7. ContentOf(current)' = ContentOf(current)
    BY <2>6 DEF ContentOf
  <2> QED BY <1>2, <1>3, <1>4, <1>5, <2>3, <2>4, <2>5, <2>6, <2>7, Known, IsBefore
<1>7. CASE StageFails(i) \/ Discard(i) \/ ActivateRefused(i)
  <2>1. txn.phase \in {"staging", "ready"}
    BY <1>7, Known DEF StageFails, Discard, ActivateRefused, PlaceOf, Preparing
  <2>2. Kept /\ DataKept
    BY <2>1, Known DEF PhaseInv, InReady, InStaging
  <2>3. UNCHANGED <<current, installed, data>>
    BY <1>7 DEF StageFails, Discard, ActivateRefused, dirVars, dataVars
  <2> QED BY <1>2, <1>3, <1>4, <1>5, <2>2, <2>3, Known, KeptIsBefore
<1>8. CASE ActivateFails(i) /\ todo[i] = {}
  <2>1. pc[i] \in {"snapshot", "switch", "replace"}
    BY <1>8, Known DEF ActivateFails, Activating, TodoOf
  <2>2. Kept /\ DataKept
    <3>1. CASE pc[i] \in {"snapshot", "switch"}
      BY <3>1, Known DEF PlaceOf, PhaseInv, InSnapshotting
    <3>2. CASE pc[i] = "replace"
      <4>1. InSwitching /\ i \notin rescuing
        BY <3>2, Known DEF PlaceOf, PhaseInv, Undoing
      <4>2. replaced = "absent" /\ candidate # "absent"
        BY <1>8, <3>2, <4>1, Known DEF TodoOf, Activating
      <4> QED BY <4>1, <4>2 DEF InSwitching, Midway, Placed
    <3> QED BY <2>1, <3>1, <3>2
  <2>3. UNCHANGED <<current, installed, data>>
    BY <1>8, <2>1 DEF ActivateFails, Halfway, dirVars, dataVars
  <2> QED BY <1>2, <1>3, <1>4, <1>5, <2>2, <2>3, Known, KeptIsBefore
<1> QED BY <1>6, <1>7, <1>8 DEF Ending

\* And so leaves a healthy system.
LEMMA EndingSteps ==
  ASSUME Good, TypeOK', NEW i \in Installers, Ending(i)
  PROVE  PhaseInv' /\ TodoOf(i)'
<1>1. txn'.phase \in Over /\ pc'[i] \in Unlocked
  BY EndingUndoes
<1>2. Healthy'
  BY EndingUndoes, Known, BeforeIsHealthy
<1> QED BY <1>1, <1>2 DEF PhaseInv, TodoOf, Over, Unlocked, Activating, Undoing

-----------------------------------------------------------------------------
(* Staging.                                                                *)

\* Staging touches nothing that is in use.
LEMMA StagingSteps ==
  ASSUME Good, TypeOK', NEW i \in Installers,
         (\E r \in Releases : Stage(i, r)) \/ Place(i) \/ Seal(i)
  PROVE  PhaseInv' /\ TodoOf(i)'
<1>1. ASSUME NEW r \in Releases, Stage(i, r) PROVE PhaseInv' /\ TodoOf(i)'
  <2>1. Healthy /\ current \in Releases \cup {None}
    BY <1>1, Known DEF Stage, PhaseInv, TypeOK
  <2>2. /\ target' = r /\ previous' = current /\ txn'.phase = "staging"
        /\ before' = [release |-> current, content |-> ContentOf(current), data |-> data]
        /\ UNCHANGED <<current, installed, data>>
        /\ replaced' = "absent" /\ snapshot' = {} /\ backup' = {}
        /\ current # None => Format[current] <= Format[r]
    BY <1>1 DEF Stage, System, target, previous
  <2>3. Began'
    BY <2>1, <2>2 DEF Began, Healthy, Fits, ContentOf
  <2>4. InStaging'
    BY <2>2 DEF InStaging, Kept, DataKept, ContentOf
  <2>5. pc'[i] = "place"
    BY <1>1, Known DEF Stage, Goto, TypeOK
  <2> QED BY <2>2, <2>3, <2>4, <2>5 DEF PhaseInv, Over, TodoOf, Activating, Undoing
<1>2. CASE Place(i)
  <2>1. Began /\ InStaging /\ txn.phase = "staging"
    BY <1>2, Known DEF Place, PlaceOf, PhaseInv, Over
  <2>2. /\ UNCHANGED <<current, txn, installed, replaced, data, snapshot, backup, before>>
        /\ candidate' = "whole"
    BY <1>2 DEF Place, dataVars, pastVars
  <2>3. Began' /\ InStaging'
    BY <2>1, <2>2 DEF Began, Fits, InStaging, Kept, DataKept, ContentOf, target, previous
  <2>4. pc'[i] = "seal"
    BY <1>2, Known DEF Place, Goto, TypeOK
  <2> QED BY <2>1, <2>2, <2>3, <2>4 DEF PhaseInv, Over, TodoOf, Activating, Undoing
<1>3. CASE Seal(i)
  <2>1. Began /\ InStaging /\ candidate = "whole" /\ target \in Releases
    BY <1>3, Known, TargetIsRelease DEF Seal, PlaceOf, PhaseInv, Over, TodoOf, Bound
  <2>2. txn'.phase = "ready" /\ target' = target /\ previous' = previous
    BY <1>3, <2>1, Known, Keeps DEF Seal, Phases
  <2>3. UNCHANGED <<current, dirVars, dataVars, before>>
    BY <1>3 DEF Seal, pastVars
  <2>4. Began' /\ InReady'
    BY <2>1, <2>2, <2>3
    DEF Began, Fits, InReady, InStaging, Kept, DataKept, ContentOf, dirVars, dataVars
  <2>5. pc'[i] = "prepare"
    BY <1>3, Known DEF Seal, Goto, TypeOK
  <2> QED BY <2>2, <2>4, <2>5 DEF PhaseInv, Over, TodoOf, Activating, Undoing
<1> QED BY <1>1, <1>2, <1>3

-----------------------------------------------------------------------------
(* Activation.                                                             *)

\* An activation knows what it has moved.
LEMMA ActivatingKnown ==
  ASSUME Good, NEW i \in Installers, pc[i] \in Activating \cup {"verify"}
  PROVE  /\ target \in Releases /\ target # None /\ txn.phase \notin Over /\ Began
         /\ previous \in Releases \cup {None}
         /\ previous = target => before.content # "absent"
         /\ ContentOf(target) = installed[target]
         /\ lock = i /\ todo[i] \in SUBSET {"target", "back", "candidate"}
         /\ i \notin rescuing =>
              /\ "candidate" \notin todo[i]
              /\ "back" \in todo[i] <=> replaced # "absent"
              /\ "target" \in todo[i] <=> candidate = "absent"
         /\ pc[i] # "verify" => i \notin rescuing
<1>1. target \in Releases /\ txn.phase \notin Over
  BY Known, TargetIsRelease DEF PlaceOf, Bound, Activating, Over
<1>2. Began
  BY <1>1, Known DEF PhaseInv
<1>3. lock = i /\ todo[i] \in SUBSET {"target", "back", "candidate"}
  BY Known DEF TypeOK, Locked
<1>4. pc[i] # "verify" => i \notin rescuing
  BY Known DEF PlaceOf, Activating, Undoing
<1>5. i \notin rescuing =>
        /\ "candidate" \notin todo[i]
        /\ "back" \in todo[i] <=> replaced # "absent"
        /\ "target" \in todo[i] <=> candidate = "absent"
  BY Known DEF TodoOf
<1> QED BY <1>1, <1>2, <1>3, <1>4, <1>5, Known, TargetContent, OldIsThere

\* Each step of an activation leaves a state a recovery can roll back.
LEMMA ActivationSteps ==
  ASSUME Good, TypeOK', NEW i \in Installers,
         \/ Activate(i) \/ Snapshot(i) \/ Switch(i) \/ Replace(i) \/ Move(i)
         \/ Select(i) \/ Migrate(i) \/ Migrated(i) \/ Verifying(i)
  PROVE  PhaseInv' /\ TodoOf(i)'
<1>Activate. CASE Activate(i)
  <2>1. target \in Releases /\ txn.phase = "ready"
    BY <1>Activate, Known, TargetIsRelease DEF Activate, PlaceOf, Preparing, Bound
  <2>2. Began /\ InReady
    BY <2>1, Known DEF PhaseInv, Over
  <2>3. /\ txn'.phase = IF MigrationRequired THEN "snapshotting" ELSE "switching"
        /\ target' = target /\ previous' = previous /\ (MigrationRequired' <=> MigrationRequired)
    BY <1>Activate, <2>1, Known, Keeps DEF Activate, Phases
  <2>4. UNCHANGED <<current, dirVars, dataVars, before>>
    BY <1>Activate DEF Activate, pastVars
  <2>5. Began' /\ (IF MigrationRequired THEN InSnapshotting' ELSE InSwitching')
    BY <2>2, <2>3, <2>4
    DEF Began, Fits, InReady, InStaging, InSnapshotting, InSwitching, Kept, DataKept, Midway,
        Snapshotted, ContentOf, dirVars, dataVars
  <2>6. /\ pc'[i] = IF MigrationRequired THEN "snapshot" ELSE "replace"
        /\ todo'[i] = {}
    BY <1>Activate, Known DEF Activate, Goto, TypeOK
  <2>7. TodoOf(i)'
    BY <2>2, <2>4, <2>6 DEF TodoOf, InReady, InStaging, Kept, Activating, Undoing, dirVars
  <2> QED BY <2>3, <2>5, <2>7 DEF PhaseInv, Over
<1>Snapshot. CASE Snapshot(i)
  <2>1. pc[i] \in {"snapshot"}
    BY <1>Snapshot DEF Snapshot
  <2>2. /\ target \in Releases /\ target # None /\ txn.phase \notin Over /\ Began
        /\ previous \in Releases \cup {None}
        /\ previous = target => before.content # "absent"
        /\ ContentOf(target) = installed[target]
        /\ todo[i] \in SUBSET {"target", "back", "candidate"} /\ i \notin rescuing
        /\ "candidate" \notin todo[i]
        /\ "back" \in todo[i] <=> replaced # "absent"
        /\ "target" \in todo[i] <=> candidate = "absent"
    BY <2>1, ActivatingKnown DEF Activating
  <2>3. InSnapshotting /\ txn.phase = "snapshotting" /\ todo[i] = {}
    BY <2>1, Known DEF PlaceOf, PhaseInv, TodoOf
  <2>4. UNCHANGED <<txn, current, dirVars, data, backup, before>> /\ snapshot' = {data}
    BY <1>Snapshot DEF Snapshot, pastVars
  <2>5. Began' /\ InSnapshotting'
    BY <2>2, <2>3, <2>4 DEF Began, Fits, InSnapshotting, Kept, DataKept, ContentOf,
       MigrationRequired, target, previous, dirVars
  <2>6. pc'[i] = "switch" /\ todo'[i] = todo[i]
    BY <1>Snapshot, Known DEF Snapshot, Goto, TypeOK
  <2>7. TodoOf(i)'
    BY <2>2, <2>3, <2>4, <2>6 DEF TodoOf, Activating, Undoing, dirVars
  <2> QED BY <2>3, <2>4, <2>5, <2>7 DEF PhaseInv, Over
<1>Switch. CASE Switch(i)
  <2>1. pc[i] \in {"switch"}
    BY <1>Switch DEF Switch
  <2>2. /\ target \in Releases /\ target # None /\ txn.phase \notin Over /\ Began
        /\ previous \in Releases \cup {None}
        /\ previous = target => before.content # "absent"
        /\ ContentOf(target) = installed[target]
        /\ todo[i] \in SUBSET {"target", "back", "candidate"} /\ i \notin rescuing
        /\ "candidate" \notin todo[i]
        /\ "back" \in todo[i] <=> replaced # "absent"
        /\ "target" \in todo[i] <=> candidate = "absent"
    BY <2>1, ActivatingKnown DEF Activating
  <2>3. InSnapshotting /\ todo[i] = {} /\ snapshot # {}
    BY <2>1, Known DEF PlaceOf, PhaseInv, TodoOf
  <2>4. /\ txn'.phase = "switching" /\ target' = target /\ previous' = previous
        /\ MigrationRequired' <=> MigrationRequired
    BY <1>Switch, <2>2, Known, Keeps DEF Switch, Phases
  <2>5. UNCHANGED <<current, dirVars, dataVars, before>>
    BY <1>Switch DEF Switch, pastVars
  <2>6. Began' /\ InSwitching'
    BY <2>2, <2>3, <2>4, <2>5 DEF Began, Fits, InSnapshotting, InSwitching, Kept, DataKept, Midway,
       Snapshotted, ContentOf, dirVars, dataVars
  <2>7. pc'[i] = "replace" /\ todo'[i] = todo[i]
    BY <1>Switch, Known DEF Switch, Goto, TypeOK
  <2>8. TodoOf(i)'
    BY <2>2, <2>3, <2>5, <2>7 DEF TodoOf, Activating, Undoing, dirVars
  <2> QED BY <2>4, <2>6, <2>8 DEF PhaseInv, Over
<1>Replace. CASE Replace(i)
  <2>1. pc[i] \in {"replace"}
    BY <1>Replace DEF Replace
  <2>2. /\ target \in Releases /\ target # None /\ txn.phase \notin Over /\ Began
        /\ previous \in Releases \cup {None}
        /\ previous = target => before.content # "absent"
        /\ ContentOf(target) = installed[target]
        /\ todo[i] \in SUBSET {"target", "back", "candidate"} /\ i \notin rescuing
        /\ "candidate" \notin todo[i]
        /\ "back" \in todo[i] <=> replaced # "absent"
        /\ "target" \in todo[i] <=> candidate = "absent"
    BY <2>1, ActivatingKnown DEF Activating
  <2>3. InSwitching /\ txn.phase = "switching" /\ todo[i] = {}
    BY <2>1, Known DEF PlaceOf, PhaseInv, TodoOf
  <2>4. candidate = "whole" /\ Kept
    BY <2>2, <2>3 DEF InSwitching, Midway, Placed
  <2>5. /\ UNCHANGED <<txn, target, previous, current, candidate, data, snapshot, backup, before>>
        /\ installed[target] # "absent" /\ replaced' = installed[target]
        /\ installed' = [installed EXCEPT ![target] = "absent"]
    BY <1>Replace DEF Replace, dataVars, pastVars, target, previous
  <2>6. installed'[target] = "absent" /\ Recoverable'
    BY <2>2, <2>4, <2>5, Known DEF Kept, Recoverable, ContentOf, TypeOK
  <2>7. Midway'
    BY <2>2, <2>4, <2>5, <2>6 DEF Midway, Kept
  <2>8. Began' /\ DataKept' /\ Snapshotted'
    BY <2>2, <2>3, <2>5
    DEF Began, Fits, InSwitching, DataKept, Snapshotted, MigrationRequired
  <2>9. pc'[i] = "move" /\ todo'[i] = {"back"}
    BY <1>Replace, <2>3, Known DEF Replace, Goto, TypeOK
  <2>10. TodoOf(i)'
    BY <2>4, <2>5, <2>6, <2>9 DEF TodoOf, Activating, Undoing
  <2> QED BY <2>3, <2>5, <2>7, <2>8, <2>10 DEF PhaseInv, InSwitching, Over
<1>Move. CASE Move(i)
  <2>1. pc[i] \in {"move", "replace"}
    BY <1>Move DEF Move
  <2>2. /\ target \in Releases /\ target # None /\ txn.phase \notin Over /\ Began
        /\ previous \in Releases \cup {None}
        /\ previous = target => before.content # "absent"
        /\ ContentOf(target) = installed[target]
        /\ todo[i] \in SUBSET {"target", "back", "candidate"} /\ i \notin rescuing
        /\ "candidate" \notin todo[i]
        /\ "back" \in todo[i] <=> replaced # "absent"
        /\ "target" \in todo[i] <=> candidate = "absent"
    BY <2>1, ActivatingKnown DEF Activating
  <2>3. InSwitching /\ txn.phase = "switching"
    BY <2>1, Known DEF PlaceOf, PhaseInv
  <2>4. /\ todo[i] \in {{}, {"back"}} /\ installed[target] = "absent"
        /\ pc[i] = "move" => todo[i] = {"back"}
    BY <1>Move, <2>1, Known DEF Move, TodoOf
  <2>5. candidate = "whole" /\ current = previous
    BY <2>2, <2>3, <2>4 DEF InSwitching, Midway, Placed, Kept
  <2>6. IF previous = target THEN replaced = before.content ELSE ContentOf(previous) = before.content
    BY <2>2, <2>3, <2>4 DEF InSwitching, Midway, Placed, Kept, Recoverable
  <2>7. /\ UNCHANGED <<txn, target, previous, current, replaced, data, snapshot, backup, before>>
        /\ candidate' = "absent" /\ installed' = [installed EXCEPT ![target] = candidate]
    BY <1>Move DEF Move, dataVars, pastVars, target, previous
  <2>8. Placed'
    BY <2>2, <2>5, <2>6, <2>7, Known DEF Placed, ContentOf, TypeOK
  <2>9. Began' /\ DataKept' /\ Snapshotted'
    BY <2>2, <2>3, <2>7
    DEF Began, Fits, InSwitching, DataKept, Snapshotted, MigrationRequired
  <2>10. pc'[i] = "select" /\ todo'[i] = todo[i] \cup {"target"}
    BY <1>Move, Known DEF Move, Goto, TypeOK
  <2>11. TodoOf(i)'
    BY <2>2, <2>7, <2>10 DEF TodoOf, Activating, Undoing
  <2> QED BY <2>3, <2>5, <2>7, <2>8, <2>9, <2>11 DEF PhaseInv, InSwitching, Midway, Over
<1>Select. CASE Select(i)
  <2>1. pc[i] \in {"select"}
    BY <1>Select DEF Select
  <2>2. /\ target \in Releases /\ target # None /\ txn.phase \notin Over /\ Began
        /\ previous \in Releases \cup {None}
        /\ previous = target => before.content # "absent"
        /\ ContentOf(target) = installed[target]
        /\ todo[i] \in SUBSET {"target", "back", "candidate"} /\ i \notin rescuing
        /\ "candidate" \notin todo[i]
        /\ "back" \in todo[i] <=> replaced # "absent"
        /\ "target" \in todo[i] <=> candidate = "absent"
    BY <2>1, ActivatingKnown DEF Activating
  <2>3. InSwitching /\ txn.phase = "switching" /\ "target" \in todo[i]
    BY <2>1, Known DEF PlaceOf, PhaseInv, TodoOf
  <2>4. Placed
    BY <2>2, <2>3 DEF InSwitching, Midway
  <2>5. /\ UNCHANGED <<txn, target, previous, dirVars, dataVars, before>>
        /\ current' = target
    BY <1>Select DEF Select, pastVars, target, previous
  <2>6. Began' /\ InSwitching'
    BY <2>2, <2>3, <2>4, <2>5 DEF Began, Fits, InSwitching, Midway, Placed, DataKept, Snapshotted,
       MigrationRequired, ContentOf, dirVars, dataVars
  <2>7. /\ pc'[i] = IF MigrationRequired THEN "migrate" ELSE "verifying"
        /\ todo'[i] = todo[i]
    BY <1>Select, Known DEF Select, Goto, TypeOK
  <2>8. ~MigrationRequired => data' = Brought'
    BY <2>3, <2>5 DEF InSwitching, DataKept, Brought, MigrationRequired, dataVars
  <2>9. TodoOf(i)'
    BY <2>2, <2>3, <2>5, <2>7, <2>8 DEF TodoOf, Activating, Undoing, dirVars
  <2> QED BY <2>3, <2>5, <2>6, <2>9 DEF PhaseInv, Over
<1>Migrate. CASE Migrate(i)
  <2>1. pc[i] \in {"migrate"}
    BY <1>Migrate DEF Migrate
  <2>2. /\ target \in Releases /\ target # None /\ txn.phase \notin Over /\ Began
        /\ previous \in Releases \cup {None}
        /\ previous = target => before.content # "absent"
        /\ ContentOf(target) = installed[target]
        /\ todo[i] \in SUBSET {"target", "back", "candidate"} /\ i \notin rescuing
        /\ "candidate" \notin todo[i]
        /\ "back" \in todo[i] <=> replaced # "absent"
        /\ "target" \in todo[i] <=> candidate = "absent"
    BY <2>1, ActivatingKnown DEF Activating
  <2>3. InSwitching /\ MigrationRequired /\ "target" \in todo[i] /\ current = target
    BY <2>1, Known DEF PlaceOf, PhaseInv, TodoOf
  <2>4. Placed
    BY <2>2, <2>3 DEF InSwitching, Midway
  <2>5. /\ txn'.phase = "migrating" /\ target' = target /\ previous' = previous
        /\ MigrationRequired' <=> MigrationRequired
    BY <1>Migrate, <2>2, Known, Keeps DEF Migrate, Phases
  <2>6. UNCHANGED <<current, dirVars, dataVars, before>>
    BY <1>Migrate DEF Migrate, pastVars
  <2>7. Began' /\ InMigrating'
    BY <2>2, <2>3, <2>4, <2>5, <2>6 DEF Began, Fits, InSwitching, InMigrating, Placed, DataKept,
       Snapshotted, ContentOf, dirVars, dataVars
  <2>8. pc'[i] = "migrating" /\ todo'[i] = todo[i]
    BY <1>Migrate, Known DEF Migrate, Goto, TypeOK
  <2>9. TodoOf(i)'
    BY <2>2, <2>3, <2>6, <2>8 DEF TodoOf, Activating, Undoing, dirVars
  <2> QED BY <2>5, <2>7, <2>9 DEF PhaseInv, Over
<1>Migrated. CASE Migrated(i)
  <2>1. pc[i] \in {"migrating"}
    BY <1>Migrated DEF Migrated
  <2>2. /\ target \in Releases /\ target # None /\ txn.phase \notin Over /\ Began
        /\ previous \in Releases \cup {None}
        /\ previous = target => before.content # "absent"
        /\ ContentOf(target) = installed[target]
        /\ todo[i] \in SUBSET {"target", "back", "candidate"} /\ i \notin rescuing
        /\ "candidate" \notin todo[i]
        /\ "back" \in todo[i] <=> replaced # "absent"
        /\ "target" \in todo[i] <=> candidate = "absent"
    BY <2>1, ActivatingKnown DEF Activating
  <2>3. InMigrating /\ txn.phase = "migrating" /\ "target" \in todo[i]
    BY <2>1, Known DEF PlaceOf, PhaseInv, TodoOf
  <2>4. /\ UNCHANGED <<txn, target, previous, current, dirVars, snapshot, backup, before>>
        /\ data' = IF data = None THEN None ELSE target
    BY <1>Migrated DEF Migrated, pastVars, target, previous
  <2>5. Began' /\ InMigrating'
    BY <2>2, <2>3, <2>4 DEF Began, Fits, InMigrating, Placed, Snapshotted, MigrationRequired,
       ContentOf, dirVars
  <2>6. data' = Brought'
    BY <2>3, <2>4 DEF InMigrating, Brought, MigrationRequired
  <2>7. pc'[i] = "verifying" /\ todo'[i] = todo[i]
    BY <1>Migrated, Known DEF Migrated, Goto, TypeOK
  <2>8. TodoOf(i)'
    BY <2>2, <2>3, <2>4, <2>6, <2>7 DEF TodoOf, InMigrating, Activating, Undoing, dirVars
  <2> QED BY <2>3, <2>4, <2>5, <2>8 DEF PhaseInv, Over
<1>Verifying. CASE Verifying(i)
  <2>1. pc[i] \in {"verifying"}
    BY <1>Verifying DEF Verifying
  <2>2. /\ target \in Releases /\ target # None /\ txn.phase \notin Over /\ Began
        /\ previous \in Releases \cup {None}
        /\ previous = target => before.content # "absent"
        /\ ContentOf(target) = installed[target]
        /\ todo[i] \in SUBSET {"target", "back", "candidate"} /\ i \notin rescuing
        /\ "candidate" \notin todo[i]
        /\ "back" \in todo[i] <=> replaced # "absent"
        /\ "target" \in todo[i] <=> candidate = "absent"
    BY <2>1, ActivatingKnown DEF Activating
  <2>3. data = Brought /\ current = target /\ "target" \in todo[i]
    BY <2>1, Known DEF TodoOf
  <2>4. Placed /\ Snapshotted
    <3>1. InMigrating \/ InSwitching
      BY <2>1, Known DEF PlaceOf, PhaseInv
    <3> QED BY <2>2, <2>3, <3>1 DEF InMigrating, InSwitching, Midway
  <2>5. /\ txn'.phase = "verifying" /\ target' = target /\ previous' = previous
        /\ MigrationRequired' <=> MigrationRequired
    BY <1>Verifying, <2>2, Known, Keeps DEF Verifying, Phases
  <2>6. UNCHANGED <<current, dirVars, dataVars, before>>
    BY <1>Verifying DEF Verifying, pastVars
  <2>7. Began' /\ InVerifying'
    BY <2>2, <2>3, <2>4, <2>5, <2>6 DEF Began, Fits, InVerifying, Placed, Snapshotted, Brought,
       ContentOf, dirVars, dataVars
  <2>8. pc'[i] = "verify" /\ todo'[i] = todo[i]
    BY <1>Verifying, Known DEF Verifying, Goto, TypeOK
  <2>9. TodoOf(i)'
    BY <2>2, <2>6, <2>8 DEF TodoOf, Activating, Undoing, dirVars
  <2> QED BY <2>5, <2>7, <2>9 DEF PhaseInv, Over
<1> QED BY <1>Activate, <1>Snapshot, <1>Switch, <1>Replace, <1>Move, <1>Select, <1>Migrate,
    <1>Migrated, <1>Verifying

\* What is committed is whole, and can read the data.
LEMMA VerifiedStep ==
  ASSUME Good, TypeOK', NEW i \in Installers, Verified(i)
  PROVE  /\ Began /\ InVerifying /\ target \in Releases /\ txn'.phase = "committed"
         /\ UNCHANGED <<current, dirVars, dataVars, before, wrecked>>
         /\ installed[target] = "whole"
         /\ PhaseInv' /\ TodoOf(i)'
<1>1. Began /\ InVerifying /\ target \in Releases
  BY Known, ActivatingKnown DEF Verified, PlaceOf, PhaseInv
<1>2. txn'.phase = "committed"
  BY <1>1, Known, Keeps DEF Verified, Phases, Over
<1>3. UNCHANGED <<current, dirVars, dataVars, before, wrecked>> /\ installed[target] = "whole"
  BY DEF Verified, pastVars
<1>4. Fits(Brought, target)
  BY <1>1, TargetContent, Known DEF Brought, Began, Fits, MigrationRequired, target, previous
<1>5. Healthy'
  BY <1>1, <1>3, <1>4 DEF InVerifying, Healthy, Fits, dirVars, dataVars
<1>6. pc'[i] \in {"stage", "keep"}
  BY Known DEF Verified, Goto, TypeOK
<1> QED BY <1>1, <1>2, <1>3, <1>5, <1>6 DEF PhaseInv, Over, TodoOf, Activating, Undoing

-----------------------------------------------------------------------------
(* What goes wrong.                                                        *)

\* A verification that fails rolls back from a complete switch.
LEMMA RejectedStep ==
  ASSUME Good, TypeOK', NEW i \in Installers, Rejected(i)
  PROVE  PhaseInv' /\ TodoOf(i)'
<1>1. pc[i] = "verify"
  BY DEF Rejected
<1>2. InVerifying /\ txn.phase = "verifying"
  BY <1>1, Known DEF PlaceOf, PhaseInv
<1>3. target \in Releases /\ Began /\ InRollback
  BY <1>1, Known, ActivatingKnown, AnyPhaseRollsBack
<1>4. /\ txn'.phase = "rolling-back" /\ target' = target /\ previous' = previous
      /\ MigrationRequired' <=> MigrationRequired
  BY <1>3, Known, Keeps DEF Rejected, Phases
<1>5. UNCHANGED <<current, dirVars, dataVars, before>>
  BY DEF Rejected, pastVars
<1>6. Began' /\ InRollback'
  BY <1>3, <1>4, <1>5 DEF Began, InRollback, Recoverable, ContentOf, Fits, dirVars, dataVars
<1>7. pc'[i] = "point" /\ todo'[i] = IF i \in rescuing THEN Leftovers ELSE todo[i]
  BY Known DEF Rejected, Goto, TypeOK
<1>8. replaced = "absent" => previous # target
  BY <1>1, <1>2, ActivatingKnown DEF InVerifying, Placed
<1>9. i \notin rescuing => ("back" \in todo[i] <=> replaced # "absent")
  BY <1>1, ActivatingKnown
<1>10. TodoOf(i)'
  BY <1>4, <1>5, <1>7, <1>8, <1>9 DEF TodoOf, Activating, Undoing, Leftovers, previous, dirVars
<1> QED BY <1>4, <1>6, <1>10 DEF PhaseInv, Over

\* A failed activation remembers all that it has moved.
LEMMA ActivateFailsStep ==
  ASSUME Good, TypeOK', NEW i \in Installers, ActivateFails(i), todo[i] # {}
  PROVE  PhaseInv' /\ TodoOf(i)'
<1>1. pc[i] \in Activating
  BY DEF ActivateFails
<1>2. target \in Releases /\ txn.phase \notin Over /\ Began /\ InRollback
  BY <1>1, Known, ActivatingKnown, AnyPhaseRollsBack
<1>3. /\ txn'.phase = "rolling-back" /\ target' = target /\ previous' = previous
      /\ MigrationRequired' <=> MigrationRequired
  BY <1>2, Known, Keeps DEF ActivateFails, Phases
<1>4. UNCHANGED <<current, dirVars, snapshot, before>>
  BY <1>1 DEF ActivateFails, Halfway, Activating, dirVars, dataVars, pastVars
<1>5. data' = data \/ snapshot # {}
  <2>1. CASE pc[i] # "migrating"
    BY <1>1, <2>1 DEF ActivateFails, Halfway, Activating, dataVars
  <2>2. CASE pc[i] = "migrating"
    BY <2>2, Known DEF PlaceOf, PhaseInv, InMigrating, Snapshotted
  <2> QED BY <2>1, <2>2
<1>6. Began' /\ InRollback'
  BY <1>2, <1>3, <1>4, <1>5 DEF Began, InRollback, Recoverable, ContentOf, Fits, dirVars
<1>7. pc'[i] = "point" /\ todo'[i] = todo[i]
  BY Known DEF ActivateFails, Goto, TypeOK
<1>8. "back" \in todo[i] <=> replaced # "absent"
  BY <1>1, ActivatingKnown DEF Activating
<1>9. "target" \in todo[i] /\ previous = target => "back" \in todo[i]
  <2>1. SUFFICES ASSUME "target" \in todo[i], previous = target
                 PROVE  replaced # "absent"
    BY <1>8
  <2>2. candidate = "absent" /\ before.content # "absent"
    BY <1>1, <2>1, ActivatingKnown DEF Activating
  <2>3. pc[i] \notin {"snapshot", "switch"}
    BY <2>1, Known DEF TodoOf
  <2>4. InSwitching \/ InMigrating
    BY <1>1, <2>3, Known DEF Activating, PlaceOf, PhaseInv
  <2>5. Placed
    BY <2>2, <2>4 DEF InSwitching, InMigrating, Midway
  <2> QED BY <2>1, <2>2, <2>5 DEF Placed
<1>10. TodoOf(i)'
  BY <1>3, <1>4, <1>7, <1>8, <1>9 DEF TodoOf, Activating, Undoing, previous, dirVars
<1> QED BY <1>3, <1>6, <1>10 DEF PhaseInv, Over

\* A death, in the middle of a step or not, leaves a state a recovery can roll back.
LEMMA DieStep ==
  ASSUME Good, TypeOK', NEW i \in Installers, Die(i)
  PROVE  PhaseInv' /\ TodoOf(i)' /\ (lock = i \/ UNCHANGED Shape)
<1>1. TodoOf(i)'
  BY Known DEF Die, Ends, Goto, TypeOK, TodoOf, Activating, Undoing
<1>2. UNCHANGED <<txn, target, previous, current, before>> /\ Halfway(i)
  BY DEF Die, pastVars, target, previous
<1>3. CASE UNCHANGED <<dirVars, dataVars>>
  <2>1. UNCHANGED Shape
    BY <1>2, <1>3 DEF Shape
  <2> QED BY <1>1, <2>1, Known, ShapeKeepsPhase
<1>4. CASE pc[i] = "place" /\ UNCHANGED <<installed, replaced, dataVars>>
  <2>1. lock = i
    BY <1>4, Known DEF TypeOK, Locked
  <2>2. Began /\ InStaging /\ txn.phase = "staging"
    BY <1>4, Known DEF PlaceOf, PhaseInv, Over
  <2>3. Began' /\ InStaging'
    BY <1>2, <1>4, <2>2 DEF Began, Fits, InStaging, Kept, DataKept, ContentOf, dataVars
  <2> QED BY <1>1, <1>2, <2>1, <2>2, <2>3 DEF PhaseInv, Over
<1>5. CASE pc[i] \in {"drop", "remove", "copy", "fill", "tidy"}
  <2>1. /\ target \in Releases /\ txn.phase = "rolling-back" /\ Began /\ InRollback
        /\ previous \in Releases \cup {None} /\ target # None
        /\ previous = target => before.content # "absent"
        /\ lock = i
    BY <1>5, InRollbackKnown DEF Undoing
  <2>2. UNCHANGED <<replaced, snapshot>> /\ (data' = data \/ snapshot # {})
    BY <1>2, <1>5, Known DEF Halfway, TodoOf, dirVars, dataVars
  <2>3. current = previous
    BY <1>5, Known DEF TodoOf, Undoing
  <2>4. Recoverable'
    <3>1. CASE pc[i] # "remove"
      <4>1. installed' = installed
        BY <1>2, <1>5, <3>1 DEF Halfway, dirVars
      <4> QED BY <1>2, <2>1, <2>2, <4>1 DEF InRollback, Recoverable, ContentOf
    <3>2. CASE pc[i] = "remove"
      <4>1. previous = target => replaced = before.content
        BY <2>1, <3>2, Known DEF TodoOf, Undoing, Then, InRollback, Recoverable
      <4>2. \A r \in Releases : r # target => installed'[r] = installed[r]
        BY <1>2, <3>2, Known DEF Halfway, TypeOK, dirVars
      <4> QED BY <1>2, <2>1, <2>2, <4>1, <4>2 DEF InRollback, Recoverable, ContentOf
    <3> QED BY <3>1, <3>2
  <2>5. Began' /\ InRollback'
    BY <1>2, <2>1, <2>2, <2>3, <2>4 DEF Began, Fits, InRollback
  <2> QED BY <1>1, <1>2, <2>1, <2>5 DEF PhaseInv, Over
<1>6. CASE pc[i] = "migrating" /\ data # None /\ data' = Torn /\ UNCHANGED <<dirVars, snapshot, backup>>
  <2>1. lock = i /\ Began
    BY <1>6, Known, ActivatingKnown DEF Activating
  <2>2. InMigrating /\ txn.phase = "migrating"
    BY <1>6, Known DEF PlaceOf, PhaseInv
  <2>3. Torn # None
    BY InstallAssumption
  <2>4. Began' /\ InMigrating'
    BY <1>2, <1>6, <2>1, <2>2, <2>3
    DEF Began, Fits, InMigrating, Placed, Snapshotted, MigrationRequired, ContentOf, dirVars
  <2> QED BY <1>1, <1>2, <2>1, <2>2, <2>4 DEF PhaseInv, Over
<1> QED BY <1>2, <1>3, <1>4, <1>5, <1>6 DEF Halfway

-----------------------------------------------------------------------------
(* The invariant.                                                          *)

\* Who stands inside the lock holds it.
LEMMA LockedOrQuiet ==
  ASSUME Good, NEW i \in Installers, pc[i] \in Locked
  PROVE  lock = i
BY Known DEF TypeOK

\* A step of an installer keeps the phases and what the others remember.
LEMMA PhasesStep ==
  ASSUME Good, TypeOK', NEW i \in Installers, Step(i), ~wrecked'
  PROVE  PhaseInv' /\ TodoInv'
<1>0. Moves(i)
  BY OwnPlace, Known
<1> SUFFICES PhaseInv' /\ TodoOf(i)' /\ (lock \in {i, None} \/ UNCHANGED Shape)
  BY <1>0, OthersRemember, Known DEF Good
<1>1. CASE \/ Begin(i) \/ Probed(i) \/ LockBusy(i) \/ NothingToRecover(i) \/ Recover(i)
           \/ (\E r \in Releases : StageRefused(i, r))
           \/ PrepareRefused(i) \/ Prepare(i) \/ Stash(i) \/ Swap(i) \/ PrepareFails(i)
           \/ Keep(i) \/ Revert(i) \/ SettleFails(i)
  BY <1>1, QuietSteps
<1>2. CASE RescueUndoes(i) \/ RescueVerifies(i)
  <2>1. lock = i
    BY <1>2, LockedOrQuiet DEF RescueUndoes, RescueVerifies, Locked
  <2> QED BY <1>2, <2>1, RescueSteps
<1>3. CASE \/ Point(i) \/ Remove(i) \/ Back(i) \/ Drop(i)
           \/ MoveAside(i) \/ CopyBack(i) \/ Tidy(i)
  <2>1. lock = i
    BY <1>3, LockedOrQuiet
    DEF Point, Remove, Back, Drop, MoveAside, CopyBack, Tidy, Locked, Undoing
  <2> QED BY <1>3, <2>1, RollbackSteps
<1>4. CASE Ending(i)
  <2>1. lock \in {i, None}
    BY <1>4, LockedOrQuiet DEF Ending, Close, StageFails, Discard, ActivateRefused, ActivateFails,
       Locked, Undoing
  <2> QED BY <1>4, <2>1, EndingSteps
<1>5. CASE (\E r \in Releases : Stage(i, r)) \/ Place(i) \/ Seal(i)
  <2>1. lock \in {i, None}
    BY <1>5, LockedOrQuiet DEF Stage, Place, Seal, Locked
  <2> QED BY <1>5, <2>1, StagingSteps
<1>6. CASE \/ Activate(i) \/ Snapshot(i) \/ Switch(i) \/ Replace(i) \/ Move(i)
           \/ Select(i) \/ Migrate(i) \/ Migrated(i) \/ Verifying(i)
  <2>1. lock \in {i, None}
    BY <1>6, LockedOrQuiet DEF Activate, Snapshot, Switch, Replace, Move, Select, Migrate,
       Migrated, Verifying, Locked, Activating
  <2> QED BY <1>6, <2>1, ActivationSteps
<1>7. CASE Verified(i)
  <2>1. lock = i
    BY <1>7, LockedOrQuiet DEF Verified, Locked
  <2> QED BY <1>7, <2>1, VerifiedStep
<1>8. CASE Rejected(i) \/ (ActivateFails(i) /\ todo[i] # {})
  <2>1. lock = i
    BY <1>8, LockedOrQuiet DEF Rejected, ActivateFails, Locked
  <2> QED BY <1>8, <2>1, RejectedStep, ActivateFailsStep
<1>9. CASE Die(i)
  BY <1>9, DieStep
<1>10. CASE UndoFails(i) \/ RestoreRefused(i)
  BY <1>10 DEF UndoFails, RestoreRefused, GiveUp
<1> QED BY <1>1, <1>2, <1>3, <1>4, <1>5, <1>6, <1>7, <1>8, <1>9, <1>10 DEF Step, Ending

\* The product that creates its data keeps them.
LEMMA UsePhases ==
  ASSUME Good, Use
  PROVE  PhaseInv' /\ TodoInv'
<1>1. /\ UNCHANGED <<txn, current, installed, pc>> /\ txn.phase \in Over
      /\ data' = current /\ current \in Releases
  BY DEF Use, runVars, dirVars, Good, TypeOK
<1>2. Healthy'
  BY <1>1 DEF Good, PhaseInv, Healthy, Fits
<1>3. ASSUME NEW i \in Installers PROVE TodoOf(i)'
  <2>1. pc'[i] \in Unlocked \cup {"probe"}
    BY <1>1, Known
    DEF PlaceOf, TypeOK, Over, Locked, Unlocked, Activating, Undoing
  <2> QED BY <2>1 DEF TodoOf, Unlocked, Activating, Undoing
<1> QED BY <1>1, <1>2, <1>3 DEF PhaseInv, TodoInv, Over

\* A cleanup keeps them.
LEMMA CleanupPhases ==
  ASSUME Good, Cleanup
  PROVE  PhaseInv' /\ TodoInv'
<1>1. /\ UNCHANGED <<txn, current, data, pc>> /\ txn.phase \in Over
      /\ current # None => installed'[current] = installed[current]
  BY DEF Cleanup, runVars, Good, TypeOK
<1>2. Healthy'
  BY <1>1 DEF Good, PhaseInv, Healthy, Fits
<1>3. ASSUME NEW i \in Installers PROVE TodoOf(i)'
  <2>1. pc'[i] \in Unlocked \cup {"probe"}
    BY <1>1, Known
    DEF PlaceOf, TypeOK, Over, Locked, Unlocked, Activating, Undoing
  <2> QED BY <2>1 DEF TodoOf, Unlocked, Activating, Undoing
<1> QED BY <1>1, <1>2, <1>3 DEF PhaseInv, TodoInv, Over

\* A rollback that was given up is never forgotten.
LEMMA StaysWrecked ==
  ASSUME [Next]_vars, wrecked
  PROVE  wrecked'
<1>1. ASSUME NEW i \in Installers, Step(i) PROVE wrecked'
  BY <1>1 DEF Step, Begin, Probed, LockBusy, NothingToRecover, Recover, RescueUndoes, RescueVerifies,
     Point, Remove, Back, Drop, MoveAside, CopyBack, Tidy, Close, StageRefused, Stage, Place, Seal,
     StageFails, PrepareRefused, Prepare, Stash, Swap, PrepareFails, Discard, ActivateRefused,
     Activate, Snapshot, Switch, Replace, Move, Select, Migrate, Migrated, Verifying, Verified,
     ActivateFails, Rejected, UndoFails, RestoreRefused, GiveUp, Die, Keep, Revert, SettleFails,
     pastVars
<1> QED BY <1>1 DEF Next, Use, Cleanup, pastVars, vars

\* The invariant holds before the first installation.
LEMMA InitGood ==
  ASSUME Init
  PROVE  Good
<1>1. TypeOK /\ PlaceInv
  BY InitPlaces
<1>2. txn.phase = "none" /\ Healthy
  BY DEF Init, Healthy, Fits
<1>3. PhaseInv
  BY <1>2 DEF PhaseInv, Over
<1>4. TodoInv
  BY DEF Init, TodoInv, TodoOf, Activating, Undoing
<1> QED BY <1>1, <1>3, <1>4 DEF Good

\* The invariant is inductive.
LEMMA IInvStep ==
  ASSUME IInv, [Next]_vars
  PROVE  IInv'
<1>1. TypeOK' /\ PlaceInv'
  BY PlacesNext DEF IInv, PlacesInv
<1>2. CASE wrecked'
  BY <1>1, <1>2 DEF IInv
<1>3. CASE ~wrecked'
  <2>1. Good
    BY <1>3, StaysWrecked DEF IInv, Good
  <2>2. PhaseInv' /\ TodoInv'
    <3>1. CASE Use  BY <2>1, <3>1, UsePhases
    <3>2. CASE Cleanup  BY <2>1, <3>2, CleanupPhases
    <3>3. ASSUME NEW i \in Installers, Step(i) PROVE PhaseInv' /\ TodoInv'
      BY <1>1, <1>3, <2>1, <3>3, PhasesStep
    <3>4. CASE UNCHANGED vars
      <4>1. UNCHANGED Shape
        BY <3>4 DEF vars, Shape, dirVars, dataVars
      <4>2. PhaseInv'
        BY <2>1, <4>1, ShapeKeepsPhase DEF Good
      <4>3. TodoInv'
        BY <2>1, <3>4 DEF Good, TodoInv, TodoOf, vars, Brought, MigrationRequired, target, previous
      <4> QED BY <4>2, <4>3
    <3> QED BY <3>1, <3>2, <3>3, <3>4 DEF Next
  <2> QED BY <1>1, <2>2 DEF IInv
<1> QED BY <1>2, <1>3

\* In each phase on disk the old release, its files and its data are where a recovery looks
\* for them, and what a living installer remembers of its moves is what has been moved
\* (activateCandidate and recoverInterruptedInstallation in transaction.ts).
THEOREM IInvHolds == Spec => []IInv
<1>1. Init => IInv  BY InitGood DEF Good, IInv
<1>2. IInv /\ [Next]_vars => IInv'  BY IInvStep
<1> QED BY <1>1, <1>2, PTL DEF Spec

\* Every phase leaves a launchable release behind the pointer.
LEMMA LaunchableFromIInv ==
  ASSUME IInv
  PROVE  Launchable
<1> SUFFICES ASSUME ~wrecked, current # None
             PROVE  \/ installed[current] \in {"damaged", "whole"}
                    \/ /\ current = target /\ current = txn.previous
                       /\ txn.phase \in {"switching", "rolling-back"}
  BY DEF Launchable
<1>1. TypeOK /\ PhaseInv
  BY DEF IInv
<1>2. CASE txn.phase \in Over
  BY <1>1, <1>2 DEF PhaseInv, Healthy
<1>3. CASE txn.phase \notin Over
  <2>1. Began /\ txn.phase \in Phases \ Over
    BY <1>1, <1>3 DEF PhaseInv, TypeOK, Transactions
  <2>2. current \in Releases /\ ContentOf(current) = installed[current]
    BY <1>1 DEF TypeOK, ContentOf
  <2>3. current = previous => before.content \in {"damaged", "whole"}
    BY <2>1 DEF Began
  <2>4. CASE txn.phase \in {"staging", "ready", "snapshotting"}
    <3>1. Kept
      BY <1>1, <2>4 DEF PhaseInv, InReady, InStaging, InSnapshotting
    <3> QED BY <2>2, <2>3, <3>1 DEF Kept
  <2>5. CASE txn.phase = "switching"
    BY <1>1, <2>2, <2>3, <2>5
    DEF PhaseInv, InSwitching, Midway, Kept, Recoverable, Placed, previous
  <2>6. CASE txn.phase \in {"migrating", "verifying"}
    <3>1. Placed /\ current = target
      BY <1>1, <2>6 DEF PhaseInv, InMigrating, InVerifying
    <3> QED BY <2>2, <3>1 DEF Placed
  <2>7. CASE txn.phase = "rolling-back"
    BY <1>1, <2>2, <2>3, <2>7 DEF PhaseInv, InRollback, Recoverable, previous
  <2> QED BY <2>1, <2>4, <2>5, <2>6, <2>7 DEF Phases
<1> QED BY <1>2, <1>3

\* Whatever dies or is refused, and wherever, current.json names a complete directory, except
\* while a release is repaired by itself or after a rollback that reported its own failure
\* (writeCurrentRelease and the renames of activateCandidate).
THEOREM AlwaysLaunchable == Spec => []Launchable
<1>1. IInv => Launchable  BY LaunchableFromIInv
<1> QED BY <1>1, IInvHolds, PTL

-----------------------------------------------------------------------------
(* All or nothing.                                                         *)

\* What the user has is a system of the promise.
LEMMA ShownIsTyped ==
  ASSUME TypeOK'
  PROVE  shown' \in Atomic!Systems
<1>1. ContentOf(current)' \in Contents
  BY DEF TypeOK, ContentOf, Contents
<1> QED BY <1>1 DEF shown, System, Atomic!Systems, TypeOK, Contents, Data

\* A step that neither begins nor ends a transaction, nor uses the product, shows nothing.
LEMMA Hidden ==
  ASSUME UNCHANGED <<before>>, txn'.phase \in Over <=> txn.phase \in Over,
         txn.phase \in Over => UNCHANGED <<current, installed, data>>
  PROVE  UNCHANGED shown
BY DEF shown, System, ContentOf

\* A step of an installer shows nothing, or an installation.
LEMMA StepShows ==
  ASSUME Good, TypeOK', NEW i \in Installers, Step(i), ~wrecked'
  PROVE  UNCHANGED shown \/ \E r \in Releases : Atomic!Install(r)
<1>1. CASE \/ Begin(i) \/ Probed(i) \/ LockBusy(i) \/ NothingToRecover(i) \/ Recover(i)
           \/ (\E r \in Releases : StageRefused(i, r))
           \/ PrepareRefused(i) \/ Prepare(i) \/ Stash(i) \/ Swap(i) \/ PrepareFails(i)
           \/ Keep(i) \/ Revert(i) \/ SettleFails(i)
  <2>1. UNCHANGED Shape
    BY <1>1, QuietSteps
  <2> QED BY <2>1, Hidden DEF Shape, dirVars, dataVars
<1>2. CASE Ending(i)
  <2>1. System' = before /\ txn'.phase \in Over /\ txn.phase \notin Over
    BY <1>2, EndingUndoes
  <2> QED BY <2>1 DEF shown
<1>3. CASE \E r \in Releases : Stage(i, r)
  <2>1. before' = System /\ txn.phase \in Over /\ txn'.phase = "staging"
    BY <1>3 DEF Stage
  <2> QED BY <2>1 DEF shown, Over
<1>4. CASE Verified(i)
  <2>1. /\ Began /\ InVerifying /\ target \in Releases /\ txn'.phase = "committed"
        /\ UNCHANGED <<current, installed, data>> /\ installed[target] = "whole"
    BY <1>4, VerifiedStep DEF dirVars, dataVars
  <2>2. txn.phase \notin Over
    BY <1>4, Known DEF Verified, PlaceOf, Over
  <2>3. System' = Atomic!Whole(target, Brought)
    BY <2>1, Known, TargetContent DEF System, ContentOf, InVerifying, Atomic!Whole
  <2>4. shown = before /\ shown' = Atomic!Whole(target, Brought)
    BY <2>1, <2>2, <2>3 DEF shown, Over
  <2>5. before.release = previous /\ shown.release = previous /\ shown.data = before.data
    BY <2>1, <2>4 DEF Began
  <2>6. /\ previous # None => previous \in Releases /\ Format[previous] <= Format[target]
        /\ MigrationRequired <=> previous # None /\ Format[previous] < Format[target]
    BY <2>1, Known, TargetContent DEF Began, MigrationRequired, previous
  <2>7. Format[target] \in Nat /\ (previous # None => Format[previous] \in Nat)
    BY <2>1, <2>6
  <2>8. Atomic!Install(target)
    <3>1. CASE MigrationRequired
      BY <2>4, <2>5, <2>6, <2>7, <3>1 DEF Atomic!Install, Brought
    <3>2. CASE ~MigrationRequired
      BY <2>4, <2>5, <2>6, <2>7, <3>2 DEF Atomic!Install, Brought
    <3> QED BY <3>1, <3>2
  <2> QED BY <2>1, <2>8
<1>5. CASE \/ RescueUndoes(i) \/ RescueVerifies(i)
           \/ Point(i) \/ Remove(i) \/ Back(i) \/ Drop(i) \/ MoveAside(i) \/ CopyBack(i) \/ Tidy(i)
           \/ Place(i) \/ Seal(i)
           \/ Activate(i) \/ Snapshot(i) \/ Switch(i) \/ Replace(i) \/ Move(i)
           \/ Select(i) \/ Migrate(i) \/ Migrated(i) \/ Verifying(i)
           \/ Rejected(i) \/ (ActivateFails(i) /\ todo[i] # {})
  <2>1. UNCHANGED before
    BY <1>5 DEF RescueUndoes, RescueVerifies, Point, Remove, Back, Drop, MoveAside, CopyBack, Tidy,
       Place, Seal, Activate, Snapshot, Switch, Replace, Move, Select, Migrate, Migrated, Verifying,
       Rejected, ActivateFails, pastVars
  <2>2. pc[i] \in (Locked \ {"probe"}) \cup {"activate"}
    BY <1>5 DEF RescueUndoes, RescueVerifies, Point, Remove, Back, Drop, MoveAside, CopyBack, Tidy,
       Place, Seal, Activate, Snapshot, Switch, Replace, Move, Select, Migrate, Migrated, Verifying,
       Rejected, ActivateFails, Locked, Activating, Undoing
  <2>3. txn.phase \notin Over /\ target \in Releases
    BY <2>2, Known, TargetIsRelease DEF PlaceOf, Bound, Locked, Activating, Undoing, Preparing, Over
  <2>4. txn' = txn \/ \E phase \in Phases \ Over : Write(phase)
    BY <1>5 DEF RescueUndoes, RescueVerifies, Point, Remove, Back, Drop, MoveAside, CopyBack, Tidy,
       Place, Seal, Activate, Snapshot, Switch, Replace, Move, Select, Migrate, Migrated, Verifying,
       Rejected, ActivateFails, Phases, Over
  <2>5. txn'.phase \notin Over
    BY <2>3, <2>4, Known, Keeps
  <2> QED BY <2>1, <2>3, <2>5, Hidden
<1>6. CASE Die(i)
  <2>1. UNCHANGED <<txn, current, before>>
    BY <1>6 DEF Die, pastVars
  <2>2. CASE UNCHANGED <<installed, data>>
    BY <2>1, <2>2, Hidden
  <2>3. CASE ~UNCHANGED <<installed, data>>
    <3>1. pc[i] \in {"remove", "migrating", "copy", "fill"}
      BY <1>6, <2>3 DEF Die, Halfway, dirVars, dataVars
    <3>2. txn.phase \notin Over
      BY <3>1, Known DEF PlaceOf, Undoing, Over
    <3> QED BY <2>1, <3>2, Hidden
  <2> QED BY <2>2, <2>3
<1>7. CASE UndoFails(i) \/ RestoreRefused(i)
  BY <1>7 DEF UndoFails, RestoreRefused, GiveUp
<1> QED BY <1>1, <1>2, <1>3, <1>4, <1>5, <1>6, <1>7 DEF Step, Ending

\* Every step maps to a step of the promise.
LEMMA Implements ==
  ASSUME IInv, IInv', [Next]_vars
  PROVE  [Atomic!Next]_<<shown, wrecked>>
<1>0. TypeOK /\ TypeOK' /\ wrecked \in BOOLEAN /\ wrecked' \in BOOLEAN
  BY DEF IInv, TypeOK
<1>1. CASE wrecked'
  <2>1. shown' \in Atomic!Systems
    BY <1>0, ShownIsTyped
  <2> QED BY <1>0, <1>1, <2>1 DEF Atomic!Next
<1>2. CASE ~wrecked'
  <2>1. Good /\ ~wrecked /\ UNCHANGED wrecked
    BY <1>0, <1>2, StaysWrecked DEF IInv, Good
  <2>2. CASE Use
    <3>1. /\ shown = System /\ shown' = System' /\ current # None /\ data = None
          /\ UNCHANGED <<current, installed>> /\ data' = current
      BY <2>2 DEF Use, shown, dirVars
    <3>2. ContentOf(current)' = ContentOf(current)
      BY <3>1 DEF ContentOf
    <3>3. Atomic!Use
      BY <3>1, <3>2 DEF Atomic!Use, System
    <3> QED BY <2>1, <3>3 DEF Atomic!Next
  <2>3. CASE Cleanup
    <3>1. /\ txn.phase \in Over /\ UNCHANGED <<txn, current, data>>
          /\ current # None => installed'[current] = installed[current]
      BY <1>0, <2>3 DEF Cleanup, TypeOK
    <3>2. UNCHANGED shown
      BY <3>1 DEF shown, System, ContentOf
    <3> QED BY <2>1, <3>2
  <2>4. ASSUME NEW i \in Installers, Step(i) PROVE [Atomic!Next]_<<shown, wrecked>>
    <3>1. UNCHANGED shown \/ \E r \in Releases : Atomic!Install(r)
      BY <1>0, <1>2, <2>1, <2>4, StepShows
    <3> QED BY <2>1, <3>1 DEF Atomic!Next
  <2>5. CASE UNCHANGED vars
    <3>1. UNCHANGED <<shown, wrecked>>
      BY <2>5 DEF vars, shown, System, ContentOf
    <3> QED BY <3>1
  <2> QED BY <2>2, <2>3, <2>4, <2>5 DEF Next
<1> QED BY <1>1, <1>2

\* An attempt to install, with all the attempts that recover it, changes release, files and
\* data together or not at all, whenever an installer dies and whatever is refused
\* (installReleaseBundle in bundle-installation.ts).
THEOREM AllOrNothing == Spec => InstallsAtomically
<1>1. Init => Atomic!Init
  <2>1. ASSUME Init PROVE Atomic!Init
    <3>1. shown = System /\ wrecked = FALSE
      BY <2>1 DEF Init, shown, Over
    <3>2. CASE current = None /\ data = None
      BY <3>1, <3>2 DEF Atomic!Init, shown, System, ContentOf
    <3>3. CASE \E r \in Releases, c \in {"damaged", "whole"} :
                 current = r /\ data \in {None, r} /\ installed[r] = c
      BY <3>1, <3>3 DEF Atomic!Init, shown, System, ContentOf
    <3> QED BY <2>1, <3>2, <3>3 DEF Init
  <2> QED BY <2>1
<1>2. IInv /\ IInv' /\ [Next]_vars => [Atomic!Next]_<<shown, wrecked>>
  BY Implements
<1> QED BY <1>1, <1>2, IInvHolds, PTL DEF Spec, InstallsAtomically, Atomic!Spec, shown

=============================================================================
