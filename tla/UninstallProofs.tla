--------------------------- MODULE UninstallProofs ---------------------------
(***************************************************************************)
(* What holds of Uninstall for any number of attempts, requests and        *)
(* troubles.  A launcher that exits leaves the lock to its helper, and a   *)
(* helper that lives keeps it until it removes the state: on that rest     *)
(* what is removed, what is told of it and what a new installation finds.  *)
(***************************************************************************)
EXTENDS Uninstall, TLAPS

\* How far a launcher and its helper are tells what became of the attempt.
Progress(r) ==
  /\ r.launcher \in {"none", "spawn"} \cup Stopping => r.helper = "none"
  /\ r.launcher \in {"lock", "exit"} => r.helper \in {"parent", "gone"}
  /\ r.launcher # "gone" => r.outcome = "none"
  /\ r.launcher = "gone" => r.outcome # "none"
  /\ r.outcome = "refused" => r.helper \in {"none", "gone"}
  /\ r.outcome = "refused" \/ r.launcher # "gone" => r.end # "removed"
  /\ r.by = "command" => ~r.blocked /\ r.outcome # "uncertain"
  /\ r.end # "none" => r.helper = "gone"
  /\ r.partly => r.helper \in {"logs", "data", "state", "launcher", "gone"}
  /\ windows /\ r.partly => r.helper \in {"data", "state", "gone"}
  /\ windows => r.helper # "launcher"
Progressed == \A a \in Attempts : Progress(attempt[a])

\* Until a command's launcher dies before it took the lock, whoever took it has it.
Holding(a) == attempt[a].helper \in (Stopping \cup Removing) \ {"launcher"}
Owed(a) ==
  /\ attempt[a].launcher = "exit" \/ attempt[a].outcome = "accepted"
  /\ attempt[a].helper \notin {"launcher", "gone"}
Locked ==
  Lockless \/
    /\ install = "staging" => lock = Installer
    /\ \A a \in Attempts : Holding(a) \/ Owed(a) => lock = Helper(a)

\* What failed is in the log, or was there until a later removal took the log.
Noted ==
  \A a \in Attempts : attempt[a].end = "failed" =>
    \/ log # "none"
    \/ \E b \in Attempts \ {a} :
         attempt[b].helper \in Removing \cup {"gone"} /\ attempt[b].end # "failed"

\* As long as nothing is installed, what is past is removed, or a shell is to
\* remove it, or tried and said that it could not.
Program == files \cap ProgramFiles = {}
Waited == windows /\ sweeper = "inplace"
Past ==
  install \in {"none", "waiting"} =>
    \A a \in Attempts :
      /\ attempt[a].helper \in Removing \ {"program"} /\ ~attempt[a].partly => Program \/ Waited
      /\ attempt[a].end = "removed" =>
           files \cap {"program", "launcher"} = {} \/ Waited \/ (windows /\ log # "none")

\* What is being installed has its launcher in place, unless it met a removal
\* without the lock; while it is the product, nobody has the lock.
Standing ==
  /\ install = "done" => lock = Free
  /\ ~unguarded => /\ (install = "prepared" /\ staged) \/ install = "done" => "launcher" \in files
                   /\ install = "done" => "program" \in files

IInv == TypeOK /\ Progressed /\ Locked /\ Noted /\ Past /\ Standing

USE UninstallAssumption

-----------------------------------------------------------------------------
(* The lock, and what a step makes of an attempt.                          *)

\* The names in the lock are told apart.
LEMMA Names ==
  /\ Free # Installer
  /\ \A a \in Attempts : Helper(a) # Free /\ Helper(a) # Installer
  /\ \A a, b \in Attempts : Helper(a) = Helper(b) => a = b
BY DEF Free, Installer, Helper

Pcs == {"none", "spawn", "lock", "exit", "gone"} \cup Stopping
Hcs == {"none", "parent", "surface", "held", "gone"} \cup Stopping \cup Removing

\* Who asked stays, and nobody comes to block an attempt.
Shrinks ==
  /\ attempt' \in [Attempts -> AttemptType]
  /\ \A b \in Attempts : /\ attempt'[b].by = attempt[b].by
                         /\ attempt'[b].blocked => attempt[b].blocked

\* All that the invariant says of an attempt is as it was.
Stays(b) ==
  /\ attempt'[b].launcher = attempt[b].launcher /\ attempt'[b].outcome = attempt[b].outcome
  /\ attempt'[b].helper = attempt[b].helper /\ attempt'[b].partly = attempt[b].partly
  /\ attempt'[b].end = attempt[b].end
Alone(a) == Shrinks /\ \A b \in Attempts \ {a} : Stays(b)

LauncherTo(a, pc) ==
  /\ Alone(a) /\ attempt'[a].launcher = pc /\ attempt'[a].outcome = attempt[a].outcome
  /\ attempt'[a].helper = attempt[a].helper /\ attempt'[a].partly = attempt[a].partly
  /\ attempt'[a].end = attempt[a].end
HelperTo(a, pc) ==
  /\ Alone(a) /\ attempt'[a].launcher = attempt[a].launcher
  /\ attempt'[a].outcome = attempt[a].outcome /\ attempt'[a].helper = pc
  /\ attempt'[a].partly = attempt[a].partly /\ attempt'[a].end = attempt[a].end
LauncherEnds(a, outcome) ==
  /\ Alone(a) /\ attempt'[a].launcher = "gone" /\ attempt'[a].outcome = outcome
  /\ attempt'[a].partly = attempt[a].partly /\ attempt'[a].end = attempt[a].end
HelperFails(a) ==
  /\ Alone(a) /\ attempt'[a].launcher = attempt[a].launcher
  /\ attempt'[a].outcome = attempt[a].outcome /\ attempt'[a].partly = attempt[a].partly
  /\ attempt'[a].helper = "gone" /\ attempt'[a].end = "failed"

\* One attempt gets another record of its type.
LEMMA Replaced ==
  ASSUME attempt \in [Attempts -> AttemptType], NEW a \in Attempts, NEW new \in AttemptType,
         attempt' = [attempt EXCEPT ![a] = new],
         new.by = attempt[a].by, new.blocked => attempt[a].blocked
  PROVE  Alone(a) /\ attempt'[a] = new
BY DEF Alone, Shrinks, Stays

LEMMA AdvancesLauncher ==
  ASSUME attempt \in [Attempts -> AttemptType], NEW a \in Attempts, NEW pc \in Pcs,
         Advances(a, "launcher", pc)
  PROVE  LauncherTo(a, pc)
<1>. DEFINE new == [attempt[a] EXCEPT !.launcher = pc]
<1>1. /\ new \in AttemptType /\ new.by = attempt[a].by /\ new.blocked = attempt[a].blocked
      /\ new.launcher = pc /\ new.outcome = attempt[a].outcome
      /\ new.helper = attempt[a].helper /\ new.partly = attempt[a].partly
      /\ new.end = attempt[a].end
  BY DEF AttemptType, Pcs
<1>2. attempt' = [attempt EXCEPT ![a] = new]
  BY DEF Advances
<1>. HIDE DEF new
<1>. QED
  BY <1>1, <1>2, Replaced DEF LauncherTo

LEMMA AdvancesHelper ==
  ASSUME attempt \in [Attempts -> AttemptType], NEW a \in Attempts, NEW pc \in Hcs,
         Advances(a, "helper", pc)
  PROVE  HelperTo(a, pc)
<1>. DEFINE new == [attempt[a] EXCEPT !.helper = pc]
<1>1. /\ new \in AttemptType /\ new.by = attempt[a].by /\ new.blocked = attempt[a].blocked
      /\ new.launcher = attempt[a].launcher /\ new.outcome = attempt[a].outcome
      /\ new.helper = pc /\ new.partly = attempt[a].partly /\ new.end = attempt[a].end
  BY DEF AttemptType, Hcs
<1>2. attempt' = [attempt EXCEPT ![a] = new]
  BY DEF Advances
<1>. HIDE DEF new
<1>. QED
  BY <1>1, <1>2, Replaced DEF HelperTo

LEMMA FailsLauncher ==
  ASSUME attempt \in [Attempts -> AttemptType], NEW a \in Attempts, Fails(a, "launcher")
  PROVE  /\ LauncherEnds(a, "refused") /\ log' = log
         /\ attempt'[a].helper = IF attempt[a].helper = "none" THEN "none" ELSE "gone"
<1>. DEFINE left == IF attempt[a].helper = "none" THEN "none" ELSE "gone"
            new == [attempt[a] EXCEPT !.launcher = "gone", !.outcome = "refused", !.helper = left]
<1>0. attempt[a] \in AttemptType
  OBVIOUS
<1>1. /\ new \in AttemptType /\ new.by = attempt[a].by /\ new.blocked = attempt[a].blocked
      /\ new.launcher = "gone" /\ new.outcome = "refused"
      /\ new.helper = left /\ new.partly = attempt[a].partly /\ new.end = attempt[a].end
  <2>1. left \in {"none", "gone"}
    OBVIOUS
  <2>. HIDE DEF left
  <2>. QED
    BY <1>0, <2>1 DEF AttemptType
<1>2. attempt' = [attempt EXCEPT ![a] = new]
  BY Zenon DEF Fails
<1>3. log' = log
  BY DEF Fails
<1>. HIDE DEF new
<1>. QED
  BY <1>1, <1>2, <1>3, Replaced DEF LauncherEnds

LEMMA FailsHelper ==
  ASSUME attempt \in [Attempts -> AttemptType], NEW a \in Attempts, Fails(a, "helper")
  PROVE  HelperFails(a) /\ log' = "written"
<1>. DEFINE new == [attempt[a] EXCEPT !.helper = "gone", !.end = "failed"]
<1>0. attempt[a] \in AttemptType
  OBVIOUS
<1>1. /\ new \in AttemptType /\ new.by = attempt[a].by /\ new.blocked = attempt[a].blocked
      /\ new.launcher = attempt[a].launcher /\ new.outcome = attempt[a].outcome
      /\ new.helper = "gone" /\ new.partly = attempt[a].partly /\ new.end = "failed"
  BY <1>0 DEF AttemptType
<1>2. attempt' = [attempt EXCEPT ![a] = new]
  BY Zenon DEF Fails
<1>3. log' = "written"
  BY DEF Fails
<1>. HIDE DEF new
<1>. QED
  BY <1>1, <1>2, <1>3, Replaced DEF HelperFails

\* An interface that closes blocks its attempt no more.
LEMMA ClosedStays ==
  ASSUME attempt \in [Attempts -> AttemptType], NEW ss, Closed(ss)
  PROVE  Shrinks /\ \A b \in Attempts : Stays(b)
<1>1. ASSUME NEW r \in AttemptType
      PROVE  /\ [r EXCEPT !.blocked = FALSE] \in AttemptType
             /\ [r EXCEPT !.blocked = FALSE].by = r.by
             /\ ~[r EXCEPT !.blocked = FALSE].blocked
             /\ [r EXCEPT !.blocked = FALSE].launcher = r.launcher
             /\ [r EXCEPT !.blocked = FALSE].outcome = r.outcome
             /\ [r EXCEPT !.blocked = FALSE].helper = r.helper
             /\ [r EXCEPT !.blocked = FALSE].partly = r.partly
             /\ [r EXCEPT !.blocked = FALSE].end = r.end
  BY DEF AttemptType
<1>2. \A b \in Attempts : attempt'[b] = [attempt[b] EXCEPT !.blocked = FALSE] \/ attempt'[b] = attempt[b]
  BY DEF Closed
<1>3. attempt' = [b \in Attempts |-> attempt'[b]]
  BY DEF Closed
<1>4. ASSUME NEW b \in Attempts
      PROVE  /\ attempt'[b] \in AttemptType /\ attempt'[b].by = attempt[b].by
             /\ (attempt'[b].blocked => attempt[b].blocked)
             /\ Stays(b)
  <2>1. attempt[b] \in AttemptType
    OBVIOUS
  <2>2. CASE attempt'[b] = [attempt[b] EXCEPT !.blocked = FALSE]
    BY <1>1, <2>1, <2>2 DEF Stays
  <2>3. CASE attempt'[b] = attempt[b]
    BY <2>1, <2>3 DEF Stays
  <2>. QED
    BY <1>2, <2>2, <2>3
<1>5. attempt' \in [Attempts -> AttemptType]
  BY <1>3, <1>4
<1>. QED
  BY <1>4, <1>5 DEF Shrinks

\* The check of the launcher passed, and may have closed Desktop.
LauncherChecked(a, closes) ==
  attempt' = [b \in Attempts |->
    [attempt[b] EXCEPT !.launcher = IF a = b THEN "sync" ELSE @,
                       !.blocked = @ /\ ~(closes /\ attempt[b].by = "desktop")]]
LEMMA CheckedLauncher ==
  ASSUME attempt \in [Attempts -> AttemptType], NEW a \in Attempts, NEW closes \in BOOLEAN,
         LauncherChecked(a, closes)
  PROVE  LauncherTo(a, "sync")
<1>1. ASSUME NEW b \in Attempts
      PROVE  /\ attempt'[b] \in AttemptType /\ attempt'[b].by = attempt[b].by
             /\ (attempt'[b].blocked => attempt[b].blocked)
             /\ attempt'[b].launcher = IF a = b THEN "sync" ELSE attempt[b].launcher
             /\ attempt'[b].helper = attempt[b].helper
             /\ attempt'[b].outcome = attempt[b].outcome
             /\ attempt'[b].partly = attempt[b].partly
             /\ attempt'[b].end = attempt[b].end
  <2>1. attempt[b] \in AttemptType
    OBVIOUS
  <2>. DEFINE pc == IF a = b THEN "sync" ELSE attempt[b].launcher
  <2>2. PICK free \in BOOLEAN :
          /\ attempt'[b] = [attempt[b] EXCEPT !.launcher = pc, !.blocked = free]
          /\ (free => attempt[b].blocked)
    <3>1. attempt'[b] = [attempt[b] EXCEPT !.launcher = pc,
                           !.blocked = @ /\ ~(closes /\ attempt[b].by = "desktop")]
      BY Zenon DEF LauncherChecked
    <3>. QED
      BY <3>1, Zenon
  <2>3. pc \in {"sync", attempt[b].launcher} /\ pc = IF a = b THEN "sync" ELSE attempt[b].launcher
    OBVIOUS
  <2>. HIDE DEF pc
  <2>. DEFINE new == [attempt[b] EXCEPT !.launcher = pc, !.blocked = free]
  <2>4. /\ new \in AttemptType /\ new.by = attempt[b].by /\ new.blocked = free
        /\ new.launcher = pc /\ new.helper = attempt[b].helper
        /\ new.outcome = attempt[b].outcome /\ new.partly = attempt[b].partly
        /\ new.end = attempt[b].end
    BY <2>1, <2>3 DEF AttemptType, Stopping
  <2>5. attempt'[b] = new
    BY <2>2
  <2>. HIDE DEF new
  <2>. QED
    BY <2>2, <2>3, <2>4, <2>5
<1>2. attempt' \in [Attempts -> AttemptType]
  <2>1. attempt' = [b \in Attempts |-> attempt'[b]]
    BY Zenon DEF LauncherChecked
  <2>. QED
    BY <1>1, <2>1
<1>3. Shrinks
  BY <1>1, <1>2 DEF Shrinks
<1>4. \A b \in Attempts \ {a} : Stays(b)
  BY <1>1 DEF Stays
<1>. QED
  BY <1>1, <1>3, <1>4 DEF LauncherTo, Alone

\* The check of the helper passed, and may have closed Desktop.
HelperChecked(a, closes) ==
  attempt' = [b \in Attempts |->
    [attempt[b] EXCEPT !.helper = IF a = b THEN "sync" ELSE @,
                       !.blocked = @ /\ ~(closes /\ attempt[b].by = "desktop")]]
LEMMA CheckedHelper ==
  ASSUME attempt \in [Attempts -> AttemptType], NEW a \in Attempts, NEW closes \in BOOLEAN,
         HelperChecked(a, closes)
  PROVE  HelperTo(a, "sync")
<1>1. ASSUME NEW b \in Attempts
      PROVE  /\ attempt'[b] \in AttemptType /\ attempt'[b].by = attempt[b].by
             /\ (attempt'[b].blocked => attempt[b].blocked)
             /\ attempt'[b].helper = IF a = b THEN "sync" ELSE attempt[b].helper
             /\ attempt'[b].launcher = attempt[b].launcher
             /\ attempt'[b].outcome = attempt[b].outcome
             /\ attempt'[b].partly = attempt[b].partly
             /\ attempt'[b].end = attempt[b].end
  <2>1. attempt[b] \in AttemptType
    OBVIOUS
  <2>. DEFINE pc == IF a = b THEN "sync" ELSE attempt[b].helper
  <2>2. PICK free \in BOOLEAN :
          /\ attempt'[b] = [attempt[b] EXCEPT !.helper = pc, !.blocked = free]
          /\ (free => attempt[b].blocked)
    <3>1. attempt'[b] = [attempt[b] EXCEPT !.helper = pc,
                           !.blocked = @ /\ ~(closes /\ attempt[b].by = "desktop")]
      BY Zenon DEF HelperChecked
    <3>. QED
      BY <3>1, Zenon
  <2>3. pc \in {"sync", attempt[b].helper} /\ pc = IF a = b THEN "sync" ELSE attempt[b].helper
    OBVIOUS
  <2>. HIDE DEF pc
  <2>. DEFINE new == [attempt[b] EXCEPT !.helper = pc, !.blocked = free]
  <2>4. /\ new \in AttemptType /\ new.by = attempt[b].by /\ new.blocked = free
        /\ new.helper = pc /\ new.launcher = attempt[b].launcher
        /\ new.outcome = attempt[b].outcome /\ new.partly = attempt[b].partly
        /\ new.end = attempt[b].end
    BY <2>1, <2>3 DEF AttemptType, Stopping
  <2>5. attempt'[b] = new
    BY <2>2
  <2>. HIDE DEF new
  <2>. QED
    BY <2>2, <2>3, <2>4, <2>5
<1>2. attempt' \in [Attempts -> AttemptType]
  <2>1. attempt' = [b \in Attempts |-> attempt'[b]]
    BY Zenon DEF HelperChecked
  <2>. QED
    BY <1>1, <2>1
<1>3. Shrinks
  BY <1>1, <1>2 DEF Shrinks
<1>4. \A b \in Attempts \ {a} : Stays(b)
  BY <1>1 DEF Stays
<1>. QED
  BY <1>1, <1>3, <1>4 DEF HelperTo, Alone

\* On to the next target, or to the end.
LEMMA ProceedsMoves ==
  ASSUME attempt \in [Attempts -> AttemptType], windows \in BOOLEAN, NEW a \in Attempts,
         NEW failed \in BOOLEAN, Proceeds(a, failed), attempt[a].helper \in Removing
  PROVE  /\ Alone(a) /\ attempt'[a].launcher = attempt[a].launcher
         /\ attempt'[a].outcome = attempt[a].outcome
         /\ attempt'[a].partly = (attempt[a].partly \/ failed)
         /\ attempt[a].helper = "program" => attempt'[a].helper = "logs"
         /\ attempt[a].helper = "logs" => attempt'[a].helper \in {"data", "state"}
         /\ attempt[a].helper = "data" => attempt'[a].helper = "state"
         /\ attempt[a].helper = "state" =>
              attempt'[a].helper = IF windows THEN "gone" ELSE "launcher"
         /\ attempt[a].helper = "launcher" => attempt'[a].helper = "gone"
         /\ attempt'[a].helper # "gone" => attempt'[a].end = attempt[a].end
         /\ attempt'[a].helper = "gone" =>
              attempt'[a].end = IF attempt[a].partly \/ failed THEN "failed" ELSE "removed"
         /\ log' = IF attempt'[a].helper = "gone" /\ (attempt[a].partly \/ failed) THEN "written"
                   ELSE IF attempt[a].helper = "logs" /\ ~failed THEN "none" ELSE log
<1>0. attempt[a] \in AttemptType
  OBVIOUS
<1>1. PICK partly \in BOOLEAN : partly = (attempt[a].partly \/ failed)
  BY <1>0 DEF AttemptType
<1>. DEFINE next == After(a)[attempt[a].helper]
            end == IF next = "gone" THEN Result(partly) ELSE attempt[a].end
<1>2. /\ attempt[a].helper = "program" => next = "logs"
      /\ attempt[a].helper = "logs" => next \in {"data", "state"}
      /\ attempt[a].helper = "data" => next = "state"
      /\ attempt[a].helper = "state" => next = IF windows THEN "gone" ELSE "launcher"
      /\ attempt[a].helper = "launcher" => next = "gone"
      /\ next \in {"logs", "data", "state", "launcher", "gone"}
  BY DEF After, Removing
<1>3. /\ end \in {"none", "removed", "failed"}
      /\ next # "gone" => end = attempt[a].end
      /\ next = "gone" => end = IF partly THEN "failed" ELSE "removed"
  BY <1>0 DEF AttemptType, Result
<1>4. /\ attempt' = [attempt EXCEPT ![a].helper = next,
                       ![a].partly = attempt[a].partly \/ failed,
                       ![a].end = IF next = "gone" THEN Result(attempt[a].partly \/ failed) ELSE @]
      /\ log' = IF next = "gone" /\ Result(attempt[a].partly \/ failed) = "failed" THEN "written"
                ELSE IF attempt[a].helper = "logs" /\ ~failed THEN "none" ELSE log
  BY Zenon DEF Proceeds
<1>5. attempt' = [attempt EXCEPT ![a] =
                    [attempt[a] EXCEPT !.helper = next, !.partly = partly, !.end = end]]
  BY <1>0, <1>1, <1>4
<1>6. log' = IF next = "gone" /\ (attempt[a].partly \/ failed) THEN "written"
             ELSE IF attempt[a].helper = "logs" /\ ~failed THEN "none" ELSE log
  BY <1>4 DEF Result
<1>. HIDE DEF next, end
<1>. DEFINE new == [attempt[a] EXCEPT !.helper = next, !.partly = partly, !.end = end]
<1>7. /\ new \in AttemptType /\ new.by = attempt[a].by /\ new.blocked = attempt[a].blocked
      /\ new.launcher = attempt[a].launcher /\ new.outcome = attempt[a].outcome
      /\ new.helper = next /\ new.partly = partly /\ new.end = end
  <2>1. next \in Removing \cup {"gone"} /\ end \in {"none", "removed", "failed"}
    BY <1>2, <1>3 DEF Removing
  <2>. QED
    BY <1>0, <2>1 DEF AttemptType
<1>8. attempt' = [attempt EXCEPT ![a] = new]
  BY <1>5
<1>. HIDE DEF new
<1>9. Alone(a) /\ attempt'[a] = new
  BY <1>7, <1>8, Replaced
<1>. QED
  BY <1>1, <1>2, <1>3, <1>6, <1>7, <1>9

\* What both stop the product with touches neither lock nor files, and what may
\* have been installed; types are kept.
Frame == UNCHANGED <<windows, lock, files, sweeper, unguarded, install, staged>>

LEMMA FrameTypes ==
  ASSUME TypeOK, Frame, attempt' \in [Attempts -> AttemptType],
         surface' \in [Surfaces -> {"closed", "open", "asking", "leaving"}],
         core' \in {"off", "idle", "busy", "draining"},
         service' \in {"on-demand", "background"}, sync' \in {"absent", "off", "on"},
         log' \in {"none", "written", "reported"}, troubles' \in 0 .. MaxTroubles
  PROVE  TypeOK'
BY DEF TypeOK, Frame

LEMMA LauncherStops ==
  ASSUME TypeOK, NEW a \in Attempts, StopsProduct(a, "launcher")
  PROVE  /\ TypeOK' /\ Frame /\ log' = log /\ attempt[a].launcher \in Stopping
         /\ \/ \E pc \in {"sync", "core", "stop", "spawn"} : LauncherTo(a, pc)
            \/ /\ LauncherEnds(a, "refused")
               /\ attempt'[a].helper = IF attempt[a].helper = "none" THEN "none" ELSE "gone"
<1>0. /\ attempt \in [Attempts -> AttemptType] /\ log \in {"none", "written", "reported"}
      /\ surface \in [Surfaces -> {"closed", "open", "asking", "leaving"}]
      /\ core \in {"off", "idle", "busy", "draining"}
      /\ service \in {"on-demand", "background"} /\ sync \in {"absent", "off", "on"}
      /\ troubles \in 0 .. MaxTroubles
  BY DEF TypeOK
<1>1. CASE ChecksWork(a, "launcher")
  <2>1. /\ Frame /\ attempt[a].launcher \in Stopping
        /\ UNCHANGED <<core, service, sync>> /\ troubles' \in 0 .. MaxTroubles
    <3>1. Frame /\ attempt[a].launcher = "check" /\ UNCHANGED <<core, service, sync>>
      BY <1>1, Zenon DEF ChecksWork, Frame, installVars
    <3>2. NoTrouble \/ Trouble
      BY <1>1, Zenon DEF ChecksWork
    <3>. QED
      BY <1>0, <3>1, <3>2 DEF Trouble, NoTrouble, Stopping
  <2>2. surface' \in [Surfaces -> {"closed", "open", "asking", "leaving"}]
    <3>1. surface' = surface \/ surface' = [surface EXCEPT !["desktop"] = "closed"]
      BY <1>1, Zenon DEF ChecksWork
    <3>. QED
      BY <1>0, <3>1
  <2>3. CASE Fails(a, "launcher")
    <3>1. LauncherEnds(a, "refused") /\ attempt' \in [Attempts -> AttemptType]
      BY <1>0, <2>3, FailsLauncher DEF LauncherEnds, Alone, Shrinks
    <3>. QED
      BY <1>0, <2>1, <2>2, <2>3, <3>1, FailsLauncher, FrameTypes
  <2>4. CASE log' = log /\ LauncherChecked(a, ClosesDesktop(a, "launcher"))
    <3>1. ClosesDesktop(a, "launcher") \in BOOLEAN
      BY DEF ClosesDesktop, TypeOK
    <3>2. LauncherTo(a, "sync")
      BY <1>0, <2>4, <3>1, CheckedLauncher
    <3>. QED
      BY <1>0, <2>1, <2>2, <2>4, <3>2, FrameTypes DEF LauncherTo, Alone, Shrinks
  <2>5. Fails(a, "launcher") \/ (log' = log /\ LauncherChecked(a, ClosesDesktop(a, "launcher")))
    BY <1>1, Zenon DEF ChecksWork, LauncherChecked
  <2>. QED
    BY <2>3, <2>4, <2>5
<1>2. CASE LowersSync(a, "launcher")
  <2>1. /\ Frame /\ attempt[a].launcher \in Stopping
        /\ UNCHANGED <<surface, core, service>> /\ troubles' \in 0 .. MaxTroubles
        /\ sync' \in {"absent", "off", "on"}
    BY <1>2 DEF LowersSync, Frame, Stopping, installVars, TypeOK, Trouble, NoTrouble
  <2>2. Fails(a, "launcher") \/ (log' = log /\ Advances(a, "launcher", "core"))
    BY <1>2 DEF LowersSync
  <2>3. CASE Fails(a, "launcher")
    <3>1. LauncherEnds(a, "refused") /\ attempt' \in [Attempts -> AttemptType]
      BY <1>0, <2>3, FailsLauncher DEF LauncherEnds, Alone, Shrinks
    <3>. QED
      BY <1>0, <2>1, <2>3, <3>1, FailsLauncher, FrameTypes
  <2>4. CASE log' = log /\ Advances(a, "launcher", "core")
    <3>1. LauncherTo(a, "core") /\ attempt' \in [Attempts -> AttemptType]
      BY <1>0, <2>4, AdvancesLauncher DEF LauncherTo, Alone, Shrinks, Pcs, Stopping, Removing
    <3>. QED
      BY <1>0, <2>1, <2>4, <3>1, FrameTypes
  <2>. QED
    BY <2>2, <2>3, <2>4
<1>3. CASE LowersCore(a, "launcher")
  <2>1. /\ Frame /\ attempt[a].launcher \in Stopping /\ UNCHANGED <<surface, sync, troubles>>
        /\ core' \in {"off", "idle", "busy", "draining"}
        /\ service' \in {"on-demand", "background"}
    BY <1>3 DEF LowersCore, Frame, Stopping, installVars, pastVars, TypeOK
  <2>2. Fails(a, "launcher") \/ (log' = log /\ Advances(a, "launcher", "stop"))
    BY <1>3 DEF LowersCore
  <2>3. CASE Fails(a, "launcher")
    <3>1. LauncherEnds(a, "refused") /\ attempt' \in [Attempts -> AttemptType]
      BY <1>0, <2>3, FailsLauncher DEF LauncherEnds, Alone, Shrinks
    <3>. QED
      BY <1>0, <2>1, <2>3, <3>1, FailsLauncher, FrameTypes
  <2>4. CASE log' = log /\ Advances(a, "launcher", "stop")
    <3>1. LauncherTo(a, "stop") /\ attempt' \in [Attempts -> AttemptType]
      BY <1>0, <2>4, AdvancesLauncher DEF LauncherTo, Alone, Shrinks, Pcs, Stopping, Removing
    <3>. QED
      BY <1>0, <2>1, <2>4, <3>1, FrameTypes
  <2>. QED
    BY <2>2, <2>3, <2>4
<1>4. CASE StopsCore(a, "launcher")
  <2>1. /\ Frame /\ attempt[a].launcher \in Stopping
        /\ UNCHANGED <<surface, service, sync, troubles>>
        /\ core' \in {"off", "idle", "busy", "draining"}
    BY <1>4 DEF StopsCore, Frame, Stopping, installVars, pastVars, TypeOK
  <2>2. Fails(a, "launcher") \/ (log' = log /\ Advances(a, "launcher", "spawn"))
    BY <1>4 DEF StopsCore
  <2>3. CASE Fails(a, "launcher")
    <3>1. LauncherEnds(a, "refused") /\ attempt' \in [Attempts -> AttemptType]
      BY <1>0, <2>3, FailsLauncher DEF LauncherEnds, Alone, Shrinks
    <3>. QED
      BY <1>0, <2>1, <2>3, <3>1, FailsLauncher, FrameTypes
  <2>4. CASE log' = log /\ Advances(a, "launcher", "spawn")
    <3>1. LauncherTo(a, "spawn") /\ attempt' \in [Attempts -> AttemptType]
      BY <1>0, <2>4, AdvancesLauncher DEF LauncherTo, Alone, Shrinks, Pcs, Stopping, Removing
    <3>. QED
      BY <1>0, <2>1, <2>4, <3>1, FrameTypes
  <2>. QED
    BY <2>2, <2>3, <2>4
<1>. QED
  BY <1>1, <1>2, <1>3, <1>4 DEF StopsProduct

LEMMA HelperStops ==
  ASSUME TypeOK, NEW a \in Attempts, StopsProduct(a, "helper")
  PROVE  /\ TypeOK' /\ Frame /\ attempt[a].helper \in Stopping
         /\ \/ /\ \E pc \in {"sync", "core", "stop", "program"} : HelperTo(a, pc)
               /\ log' = log
            \/ HelperFails(a) /\ log' = "written"
<1>0. /\ attempt \in [Attempts -> AttemptType] /\ log \in {"none", "written", "reported"}
      /\ surface \in [Surfaces -> {"closed", "open", "asking", "leaving"}]
      /\ core \in {"off", "idle", "busy", "draining"}
      /\ service \in {"on-demand", "background"} /\ sync \in {"absent", "off", "on"}
      /\ troubles \in 0 .. MaxTroubles
  BY DEF TypeOK
<1>1. CASE ChecksWork(a, "helper")
  <2>1. /\ Frame /\ attempt[a].helper \in Stopping
        /\ UNCHANGED <<core, service, sync>> /\ troubles' \in 0 .. MaxTroubles
    <3>1. Frame /\ attempt[a].helper = "check" /\ UNCHANGED <<core, service, sync>>
      BY <1>1, Zenon DEF ChecksWork, Frame, installVars
    <3>2. NoTrouble \/ Trouble
      BY <1>1, Zenon DEF ChecksWork
    <3>. QED
      BY <1>0, <3>1, <3>2 DEF Trouble, NoTrouble, Stopping
  <2>2. surface' \in [Surfaces -> {"closed", "open", "asking", "leaving"}]
    <3>1. surface' = surface \/ surface' = [surface EXCEPT !["desktop"] = "closed"]
      BY <1>1, Zenon DEF ChecksWork
    <3>. QED
      BY <1>0, <3>1
  <2>3. CASE Fails(a, "helper")
    <3>1. HelperFails(a) /\ attempt' \in [Attempts -> AttemptType]
      BY <1>0, <2>3, FailsHelper DEF HelperFails, Alone, Shrinks
    <3>. QED
      BY <1>0, <2>1, <2>2, <2>3, <3>1, FailsHelper, FrameTypes
  <2>4. CASE log' = log /\ HelperChecked(a, ClosesDesktop(a, "helper"))
    <3>1. ClosesDesktop(a, "helper") \in BOOLEAN
      BY DEF ClosesDesktop, TypeOK
    <3>2. HelperTo(a, "sync")
      BY <1>0, <2>4, <3>1, CheckedHelper
    <3>. QED
      BY <1>0, <2>1, <2>2, <2>4, <3>2, FrameTypes DEF HelperTo, Alone, Shrinks
  <2>5. Fails(a, "helper") \/ (log' = log /\ HelperChecked(a, ClosesDesktop(a, "helper")))
    BY <1>1, Zenon DEF ChecksWork, HelperChecked
  <2>. QED
    BY <2>3, <2>4, <2>5
<1>2. CASE LowersSync(a, "helper")
  <2>1. /\ Frame /\ attempt[a].helper \in Stopping
        /\ UNCHANGED <<surface, core, service>> /\ troubles' \in 0 .. MaxTroubles
        /\ sync' \in {"absent", "off", "on"}
    BY <1>2 DEF LowersSync, Frame, Stopping, installVars, TypeOK, Trouble, NoTrouble
  <2>2. Fails(a, "helper") \/ (log' = log /\ Advances(a, "helper", "core"))
    BY <1>2 DEF LowersSync
  <2>3. CASE Fails(a, "helper")
    <3>1. HelperFails(a) /\ attempt' \in [Attempts -> AttemptType]
      BY <1>0, <2>3, FailsHelper DEF HelperFails, Alone, Shrinks
    <3>. QED
      BY <1>0, <2>1, <2>3, <3>1, FailsHelper, FrameTypes
  <2>4. CASE log' = log /\ Advances(a, "helper", "core")
    <3>1. HelperTo(a, "core") /\ attempt' \in [Attempts -> AttemptType]
      BY <1>0, <2>4, AdvancesHelper DEF HelperTo, Alone, Shrinks, Hcs, Stopping, Removing
    <3>. QED
      BY <1>0, <2>1, <2>4, <3>1, FrameTypes
  <2>. QED
    BY <2>2, <2>3, <2>4
<1>3. CASE LowersCore(a, "helper")
  <2>1. /\ Frame /\ attempt[a].helper \in Stopping /\ UNCHANGED <<surface, sync, troubles>>
        /\ core' \in {"off", "idle", "busy", "draining"}
        /\ service' \in {"on-demand", "background"}
    BY <1>3 DEF LowersCore, Frame, Stopping, installVars, pastVars, TypeOK
  <2>2. Fails(a, "helper") \/ (log' = log /\ Advances(a, "helper", "stop"))
    BY <1>3 DEF LowersCore
  <2>3. CASE Fails(a, "helper")
    <3>1. HelperFails(a) /\ attempt' \in [Attempts -> AttemptType]
      BY <1>0, <2>3, FailsHelper DEF HelperFails, Alone, Shrinks
    <3>. QED
      BY <1>0, <2>1, <2>3, <3>1, FailsHelper, FrameTypes
  <2>4. CASE log' = log /\ Advances(a, "helper", "stop")
    <3>1. HelperTo(a, "stop") /\ attempt' \in [Attempts -> AttemptType]
      BY <1>0, <2>4, AdvancesHelper DEF HelperTo, Alone, Shrinks, Hcs, Stopping, Removing
    <3>. QED
      BY <1>0, <2>1, <2>4, <3>1, FrameTypes
  <2>. QED
    BY <2>2, <2>3, <2>4
<1>4. CASE StopsCore(a, "helper")
  <2>1. /\ Frame /\ attempt[a].helper \in Stopping
        /\ UNCHANGED <<surface, service, sync, troubles>>
        /\ core' \in {"off", "idle", "busy", "draining"}
    BY <1>4 DEF StopsCore, Frame, Stopping, installVars, pastVars, TypeOK
  <2>2. Fails(a, "helper") \/ (log' = log /\ Advances(a, "helper", "program"))
    BY <1>4 DEF StopsCore
  <2>3. CASE Fails(a, "helper")
    <3>1. HelperFails(a) /\ attempt' \in [Attempts -> AttemptType]
      BY <1>0, <2>3, FailsHelper DEF HelperFails, Alone, Shrinks
    <3>. QED
      BY <1>0, <2>1, <2>3, <3>1, FailsHelper, FrameTypes
  <2>4. CASE log' = log /\ Advances(a, "helper", "program")
    <3>1. HelperTo(a, "program") /\ attempt' \in [Attempts -> AttemptType]
      BY <1>0, <2>4, AdvancesHelper DEF HelperTo, Alone, Shrinks, Hcs, Stopping, Removing
    <3>. QED
      BY <1>0, <2>1, <2>4, <3>1, FrameTypes
  <2>. QED
    BY <2>2, <2>3, <2>4
<1>. QED
  BY <1>1, <1>2, <1>3, <1>4 DEF StopsProduct

\* The launcher's own steps.
LEMMA AsksMoves ==
  ASSUME TypeOK, NEW a \in Attempts, NEW request \in Requests[a], Asks(a, request)
  PROVE  /\ TypeOK' /\ Frame /\ log' = log
         /\ \A b \in Attempts \ {a} : attempt'[b] = attempt[b]
         /\ attempt[a] = NoAttempt
         /\ attempt'[a].launcher = "check" /\ attempt'[a].outcome = "none"
         /\ attempt'[a].helper = "none" /\ attempt'[a].partly = FALSE /\ attempt'[a].end = "none"
         /\ attempt'[a].by = "command" => ~attempt'[a].blocked
<1>0. PICK blocked \in BOOLEAN : blocked = (request.by \in Surfaces)
  <2>1. CASE request.by \in Surfaces
    BY <2>1
  <2>2. CASE request.by \notin Surfaces
    <3>1. FALSE = (request.by \in Surfaces)
      BY <2>2
    <3>. QED
      BY <3>1
  <2>. QED
    BY <2>1, <2>2
<1>. DEFINE new == [NoAttempt EXCEPT !.by = request.by, !.purge = request.purge,
                      !.blocked = request.by \in Surfaces, !.launcher = "check"]
<1>1. request.by \in {"command", "tui", "desktop"} /\ request.purge \in BOOLEAN
  <2>1. request \in [by : {"command", "tui", "desktop"}, purge : BOOLEAN]
    BY Zenon
  <2>. QED
    BY <2>1
<1>2. attempt' = [attempt EXCEPT ![a] = new] /\ attempt[a] = NoAttempt
  BY Zenon DEF Asks
<1>3. new = [NoAttempt EXCEPT !.by = request.by, !.purge = request.purge,
                              !.blocked = blocked, !.launcher = "check"]
  BY <1>0, Zenon
<1>. HIDE DEF new
<1>4. new = [by |-> request.by, purge |-> request.purge, blocked |-> blocked,
             launcher |-> "check", outcome |-> "none", helper |-> "none", partly |-> FALSE,
             end |-> "none"]
  BY <1>3 DEF NoAttempt
<1>5. /\ new \in AttemptType /\ new.by = request.by /\ new.blocked = blocked
      /\ new.launcher = "check" /\ new.outcome = "none" /\ new.helper = "none"
      /\ new.partly = FALSE /\ new.end = "none"
  BY <1>1, <1>4 DEF AttemptType, Surfaces, Stopping
<1>6. request.by = "command" => ~blocked
  BY <1>0 DEF Surfaces
<1>7. /\ Frame /\ UNCHANGED <<log, core, service, sync, troubles>>
      /\ surface' \in [Surfaces -> {"closed", "open", "asking", "leaving"}]
  BY DEF Asks, Frame, fileVars, installVars, pastVars, TypeOK
<1>8. attempt' \in [Attempts -> AttemptType] /\ attempt'[a] = new
      /\ \A b \in Attempts \ {a} : attempt'[b] = attempt[b]
  BY <1>2, <1>5 DEF TypeOK
<1>9. TypeOK'
  BY <1>7, <1>8, FrameTypes DEF TypeOK
<1>. QED
  BY <1>2, <1>5, <1>6, <1>7, <1>8, <1>9

LEMMA SpawnsMoves ==
  ASSUME TypeOK, NEW a \in Attempts, Spawns(a)
  PROVE  /\ TypeOK' /\ Frame /\ log' = log /\ attempt[a].launcher = "spawn"
         /\ \/ /\ Alone(a) /\ attempt'[a].launcher = "lock" /\ attempt'[a].helper = "parent"
               /\ attempt'[a].outcome = attempt[a].outcome
               /\ attempt'[a].partly = attempt[a].partly /\ attempt'[a].end = attempt[a].end
            \/ /\ LauncherEnds(a, "refused")
               /\ attempt'[a].helper = IF attempt[a].helper = "none" THEN "none" ELSE "gone"
<1>0. attempt \in [Attempts -> AttemptType] /\ attempt[a] \in AttemptType
  BY DEF TypeOK
<1>1. /\ Frame /\ attempt[a].launcher = "spawn"
      /\ UNCHANGED <<surface, core, service, sync>> /\ troubles' \in 0 .. MaxTroubles
  BY DEF Spawns, Frame, productVars, installVars, TypeOK, Trouble, NoTrouble
<1>2. CASE Fails(a, "launcher")
  <2>1. attempt' \in [Attempts -> AttemptType]
    BY <1>0, <1>2, FailsLauncher DEF LauncherEnds, Alone, Shrinks
  <2>. QED
    BY <1>0, <1>1, <1>2, <2>1, FailsLauncher, FrameTypes DEF TypeOK
<1>3. CASE attempt' = [attempt EXCEPT ![a].launcher = "lock", ![a].helper = "parent"] /\ log' = log
  <2>. DEFINE new == [attempt[a] EXCEPT !.launcher = "lock", !.helper = "parent"]
  <2>1. /\ new \in AttemptType /\ new.by = attempt[a].by /\ new.blocked = attempt[a].blocked
        /\ new.launcher = "lock" /\ new.outcome = attempt[a].outcome
        /\ new.helper = "parent" /\ new.partly = attempt[a].partly /\ new.end = attempt[a].end
    BY <1>0 DEF AttemptType
  <2>2. attempt' = [attempt EXCEPT ![a] = new]
    BY <1>0, <1>3
  <2>. HIDE DEF new
  <2>3. Alone(a) /\ attempt'[a] = new
    BY <1>0, <2>1, <2>2, Replaced
  <2>4. TypeOK'
    BY <1>1, <1>3, <2>3, FrameTypes DEF TypeOK, Alone, Shrinks
  <2>. QED
    BY <1>1, <1>3, <2>1, <2>3, <2>4
<1>. QED
  BY <1>2, <1>3 DEF Spawns

\* A launcher ends by itself, is killed, or is no longer waited for.
LEMMA EndsMoves ==
  ASSUME TypeOK, NEW a \in Attempts, NEW outcome \in {"accepted", "died", "uncertain"},
         attempt' = [attempt EXCEPT ![a].launcher = "gone", ![a].outcome = outcome]
  PROVE  LauncherEnds(a, outcome) /\ attempt'[a].helper = attempt[a].helper
<1>0. attempt \in [Attempts -> AttemptType] /\ attempt[a] \in AttemptType
  BY DEF TypeOK
<1>. DEFINE new == [attempt[a] EXCEPT !.launcher = "gone", !.outcome = outcome]
<1>1. /\ new \in AttemptType /\ new.by = attempt[a].by /\ new.blocked = attempt[a].blocked
      /\ new.launcher = "gone" /\ new.outcome = outcome
      /\ new.helper = attempt[a].helper /\ new.partly = attempt[a].partly
      /\ new.end = attempt[a].end
  BY <1>0 DEF AttemptType
<1>2. attempt' = [attempt EXCEPT ![a] = new]
  BY <1>0
<1>. HIDE DEF new
<1>. QED
  BY <1>0, <1>1, <1>2, Replaced DEF LauncherEnds

LEMMA ExitsMoves ==
  ASSUME TypeOK, NEW a \in Attempts, Exits(a)
  PROVE  /\ TypeOK' /\ Frame /\ log' = log /\ attempt[a].launcher = "exit"
         /\ LauncherEnds(a, "accepted") /\ attempt'[a].helper = attempt[a].helper
<1>1. LauncherEnds(a, "accepted") /\ attempt'[a].helper = attempt[a].helper
  BY EndsMoves DEF Exits
<1>2. /\ Frame /\ attempt[a].launcher = "exit"
      /\ UNCHANGED <<log, surface, core, service, sync, troubles>>
  BY DEF Exits, Frame, productVars, fileVars, installVars, pastVars
<1>3. TypeOK'
  BY <1>1, <1>2, FrameTypes DEF TypeOK, LauncherEnds, Alone, Shrinks
<1>. QED
  BY <1>1, <1>2, <1>3

LEMMA LauncherDiesMoves ==
  ASSUME TypeOK, NEW a \in Attempts, NEW outcome \in {"died", "uncertain"},
         LauncherDies(a, outcome)
  PROVE  /\ TypeOK' /\ Frame /\ log' = log /\ attempt[a].launcher \notin {"none", "gone"}
         /\ outcome = "uncertain" => attempt[a].blocked
         /\ LauncherEnds(a, outcome) /\ attempt'[a].helper = attempt[a].helper
<1>1. LauncherEnds(a, outcome) /\ attempt'[a].helper = attempt[a].helper
  BY EndsMoves DEF LauncherDies
<1>2. /\ Frame /\ attempt[a].launcher \notin {"none", "gone"}
      /\ outcome = "uncertain" => attempt[a].blocked
      /\ UNCHANGED <<log, surface, core, service, sync>> /\ troubles' \in 0 .. MaxTroubles
  BY DEF LauncherDies, Frame, productVars, fileVars, installVars, Trouble, TypeOK
<1>3. TypeOK'
  BY <1>1, <1>2, FrameTypes DEF TypeOK, LauncherEnds, Alone, Shrinks
<1>. QED
  BY <1>1, <1>2, <1>3

\* It takes the lock for its helper, or fails.
LEMMA LocksMoves ==
  ASSUME TypeOK, NEW a \in Attempts, Locks(a)
  PROVE  /\ TypeOK' /\ log' = log /\ attempt[a].launcher = "lock"
         /\ UNCHANGED <<windows, files, sweeper, unguarded, staged>>
         /\ \/ /\ LauncherTo(a, "exit") /\ Available /\ lock' = Helper(a)
               /\ install' = IF install = "done" THEN "old" ELSE install
            \/ /\ Frame /\ LauncherEnds(a, "refused")
               /\ attempt'[a].helper = IF attempt[a].helper = "none" THEN "none" ELSE "gone"
<1>0. attempt \in [Attempts -> AttemptType]
  BY DEF TypeOK
<1>1. /\ UNCHANGED <<windows, files, sweeper, unguarded, staged, surface, core, service, sync,
                     troubles>>
      /\ attempt[a].launcher = "lock"
  BY DEF Locks, productVars, pastVars
<1>2. CASE Fails(a, "launcher") /\ UNCHANGED <<lock, install>>
  <2>1. Frame /\ attempt' \in [Attempts -> AttemptType]
    BY <1>0, <1>1, <1>2, FailsLauncher DEF LauncherEnds, Alone, Shrinks, Frame
  <2>. QED
    BY <1>0, <1>1, <1>2, <2>1, FailsLauncher, FrameTypes DEF TypeOK
<1>3. CASE /\ Available /\ lock' = Helper(a) /\ Advances(a, "launcher", "exit") /\ log' = log
           /\ install' = IF install = "done" THEN "old" ELSE install
  <2>1. LauncherTo(a, "exit")
    BY <1>0, <1>3, AdvancesLauncher DEF Pcs
  <2>2. TypeOK'
    BY <1>1, <1>3, <2>1 DEF TypeOK, LauncherTo, Alone, Shrinks
  <2>. QED
    BY <1>1, <1>3, <2>1, <2>2
<1>. QED
  BY <1>2, <1>3 DEF Locks

\* The helper's own steps.
LEMMA WaitsMoves ==
  ASSUME TypeOK, NEW a \in Attempts, HelperWaits(a)
  PROVE  /\ TypeOK' /\ Frame
         /\ \/ HelperFails(a) /\ log' = "written" /\ attempt[a].helper \in {"parent", "surface", "held"}
            \/ /\ log' = log /\ attempt[a].helper = "parent" /\ attempt[a].launcher = "gone"
               /\ HelperTo(a, IF attempt[a].by = "command" THEN "program" ELSE "surface")
            \/ log' = log /\ attempt[a].helper = "surface" /\ HelperTo(a, "held")
            \/ /\ log' = log /\ attempt[a].helper = "held" /\ lock = Helper(a)
               /\ HelperTo(a, "check")
<1>0. attempt \in [Attempts -> AttemptType]
  BY DEF TypeOK
<1>1. Frame /\ UNCHANGED <<surface, core, service, sync, troubles>>
  BY DEF HelperWaits, Frame, productVars, installVars, pastVars
<1>2. CASE Fails(a, "helper") /\ attempt[a].helper \in {"parent", "surface", "held"}
  <2>1. attempt' \in [Attempts -> AttemptType] /\ log' = "written" /\ HelperFails(a)
    BY <1>0, <1>2, FailsHelper DEF HelperFails, Alone, Shrinks
  <2>. QED
    BY <1>1, <1>2, <2>1, FrameTypes DEF TypeOK
<1>3. ASSUME NEW pc \in Hcs, Advances(a, "helper", pc), log' = log
      PROVE  TypeOK' /\ HelperTo(a, pc)
  <2>1. HelperTo(a, pc) /\ attempt' \in [Attempts -> AttemptType]
    BY <1>0, <1>3, AdvancesHelper DEF HelperTo, Alone, Shrinks
  <2>. QED
    BY <1>1, <1>3, <2>1, FrameTypes DEF TypeOK
<1>. QED
  BY <1>1, <1>2, <1>3 DEF HelperWaits, GivesUp, Hcs, Stopping, Removing

LEMMA HelperDiesMoves ==
  ASSUME TypeOK, NEW a \in Attempts, HelperDies(a)
  PROVE  /\ TypeOK' /\ Frame /\ log' = log /\ HelperTo(a, "gone")
         /\ attempt[a].helper \notin {"none", "gone"}
<1>0. attempt \in [Attempts -> AttemptType]
  BY DEF TypeOK
<1>1. HelperTo(a, "gone") /\ attempt' \in [Attempts -> AttemptType]
  BY <1>0, AdvancesHelper DEF HelperDies, Hcs, HelperTo, Alone, Shrinks
<1>2. /\ Frame /\ UNCHANGED <<log, surface, core, service, sync>>
      /\ troubles' \in 0 .. MaxTroubles /\ attempt[a].helper \notin {"none", "gone"}
  BY DEF HelperDies, Frame, productVars, fileVars, installVars, Trouble, TypeOK
<1>. QED
  BY <1>1, <1>2, FrameTypes DEF TypeOK

LEMMA RemovesMoves ==
  ASSUME TypeOK, NEW a \in Attempts, Removes(a)
  PROVE  /\ TypeOK' /\ UNCHANGED <<windows, sweeper, install>>
         /\ Proceeds(a, FALSE) /\ attempt[a].helper \in Removing
         /\ files' = files \ Target(attempt[a].helper)
         /\ lock' = IF attempt[a].helper = "state" THEN Free ELSE lock
         /\ staged' = (staged /\ attempt[a].helper \notin {"program", "state"})
         /\ unguarded' = (unguarded \/ (InstallerAtWork /\ (Lockless \/ attempt[a].helper = "launcher")))
<1>0. attempt \in [Attempts -> AttemptType] /\ windows \in BOOLEAN
  BY DEF TypeOK
<1>1. /\ UNCHANGED <<windows, sweeper, install, surface, core, service, sync, troubles>>
      /\ Proceeds(a, FALSE) /\ attempt[a].helper \in Removing
      /\ files' = files \ Target(attempt[a].helper)
      /\ lock' = IF attempt[a].helper = "state" THEN Free ELSE lock
      /\ staged' = (staged /\ attempt[a].helper \notin {"program", "state"})
  BY DEF Removes, productVars, pastVars
<1>2. unguarded' = (unguarded \/ (InstallerAtWork /\ (Lockless \/ attempt[a].helper = "launcher")))
  BY <1>1, Zenon DEF Proceeds
<1>3. attempt' \in [Attempts -> AttemptType] /\ log' \in {"none", "written", "reported"}
  BY <1>0, <1>1, ProceedsMoves DEF Alone, Shrinks, TypeOK
<1>4. staged' \in BOOLEAN /\ unguarded' \in BOOLEAN
  BY <1>1, <1>2
<1>5. TypeOK'
  BY <1>1, <1>3, <1>4 DEF TypeOK
<1>. QED
  BY <1>1, <1>2, <1>5

LEMMA RemovesNotMoves ==
  ASSUME TypeOK, NEW a \in Attempts, RemovesNot(a)
  PROVE  /\ TypeOK' /\ UNCHANGED <<windows, lock, install>> /\ attempt[a].helper \in Removing
         /\ unguarded' = (unguarded \/ (InstallerAtWork /\ (Lockless \/ attempt[a].helper = "launcher")))
         /\ \/ /\ windows /\ attempt[a].helper = "program" /\ Proceeds(a, FALSE)
               /\ \/ sweeper' = "aside" /\ files' = files \ ProgramFiles /\ staged' = FALSE
                  \/ sweeper' = "inplace" /\ UNCHANGED <<files, staged>>
            \/ /\ ~(windows /\ attempt[a].helper = "program") /\ Proceeds(a, TRUE)
               /\ UNCHANGED <<files, sweeper, staged>>
<1>0. attempt \in [Attempts -> AttemptType] /\ windows \in BOOLEAN
  BY DEF TypeOK
<1>1. /\ UNCHANGED <<windows, lock, install, surface, core, service, sync>>
      /\ attempt[a].helper \in Removing
  BY DEF RemovesNot, productVars
<1>2. \/ /\ windows /\ attempt[a].helper = "program" /\ Proceeds(a, FALSE)
         /\ \/ sweeper' = "aside" /\ files' = files \ ProgramFiles /\ staged' = FALSE
            \/ sweeper' = "inplace" /\ UNCHANGED <<files, staged>>
      \/ /\ ~(windows /\ attempt[a].helper = "program") /\ Proceeds(a, TRUE)
         /\ UNCHANGED <<files, sweeper, staged>>
  BY DEF RemovesNot
<1>3. PICK failed \in BOOLEAN : Proceeds(a, failed)
  BY <1>2
<1>4. unguarded' = (unguarded \/ (InstallerAtWork /\ (Lockless \/ attempt[a].helper = "launcher")))
  BY <1>3, Zenon DEF Proceeds
<1>5. attempt' \in [Attempts -> AttemptType] /\ log' \in {"none", "written", "reported"}
  BY <1>0, <1>1, <1>3, ProceedsMoves DEF Alone, Shrinks, TypeOK
<1>6. /\ unguarded' \in BOOLEAN /\ staged' \in BOOLEAN /\ troubles' \in 0 .. MaxTroubles
      /\ sweeper' \in {"none", "aside", "inplace"}
      /\ files' \subseteq {"program", "launcher", "state", "data"}
  <2>1. NoTrouble \/ Trouble
    BY Zenon DEF RemovesNot
  <2>2. troubles' \in 0 .. MaxTroubles
    BY <2>1 DEF Trouble, NoTrouble, TypeOK
  <2>3. unguarded' \in BOOLEAN
    BY <1>4
  <2>4. /\ staged' \in BOOLEAN /\ sweeper' \in {"none", "aside", "inplace"}
        /\ files' \subseteq {"program", "launcher", "state", "data"}
    BY <1>2 DEF TypeOK
  <2>. QED
    BY <2>2, <2>3, <2>4
<1>7. TypeOK'
  BY <1>1, <1>5, <1>6 DEF TypeOK
<1>. QED
  BY <1>1, <1>2, <1>4, <1>7

\* Interfaces, Core, the shell that sweeps, and an installer touch no attempt but
\* to let it go on.
LEMMA SurfacesMove ==
  ASSUME TypeOK,
         \/ \E a \in Attempts : Learns(a)
         \/ \E s \in Surfaces : Closes(s) \/ Opens(s)
         \/ CoreWorks
  PROVE  /\ TypeOK' /\ UNCHANGED <<windows, lock, sweeper, unguarded, install, staged>>
         /\ Shrinks /\ \A b \in Attempts : Stays(b)
         /\ files' \in {files, files \cup {"state"}}
         /\ log' = log \/ (log = "written" /\ log' = "reported")
<1>1. CASE \E a \in Attempts : Learns(a)
  <2>1. /\ Frame /\ UNCHANGED <<attempt, log, core, service, sync, troubles>>
        /\ surface' \in [Surfaces -> {"closed", "open", "asking", "leaving"}]
    BY <1>1 DEF Learns, Frame, fileVars, installVars, pastVars, TypeOK
  <2>. QED
    BY <2>1, FrameTypes DEF TypeOK, Frame, Shrinks, Stays
<1>2. ASSUME NEW s \in Surfaces, Closes(s)
      PROVE  /\ TypeOK' /\ Frame /\ UNCHANGED log
             /\ Shrinks /\ \A b \in Attempts : Stays(b)
  <2>1. /\ Frame /\ UNCHANGED <<log, core, service, sync, troubles>>
        /\ surface' \in [Surfaces -> {"closed", "open", "asking", "leaving"}]
    BY <1>2 DEF Closes, Closed, Frame, fileVars, installVars, pastVars, TypeOK
  <2>2. Shrinks /\ \A b \in Attempts : Stays(b)
    BY <1>2, ClosedStays DEF Closes, TypeOK
  <2>. QED
    BY <2>1, <2>2, FrameTypes DEF TypeOK, Shrinks
<1>3. ASSUME NEW s \in Surfaces, Opens(s)
      PROVE  /\ TypeOK' /\ UNCHANGED <<windows, lock, sweeper, unguarded, install, staged>>
             /\ UNCHANGED attempt /\ files' = files \cup {"state"}
             /\ log' = log \/ (log = "written" /\ log' = "reported")
  BY <1>3 DEF Opens, installVars, TypeOK, Trouble
<1>4. CASE CoreWorks
  <2>1. /\ Frame /\ UNCHANGED <<attempt, log, surface, service, sync, troubles>>
        /\ core' \in {"off", "idle", "busy", "draining"}
    BY <1>4 DEF CoreWorks, Frame, fileVars, installVars, pastVars, TypeOK
  <2>. QED
    BY <2>1, FrameTypes DEF TypeOK, Frame, Shrinks, Stays
<1>5. ASSUME UNCHANGED attempt PROVE Shrinks /\ \A b \in Attempts : Stays(b)
  BY <1>5 DEF TypeOK, Shrinks, Stays
<1>. QED
  BY <1>1, <1>2, <1>3, <1>4, <1>5 DEF Frame

LEMMA SweepsMoves ==
  ASSUME TypeOK, Sweeps
  PROVE  TypeOK'
<1>1. /\ UNCHANGED <<windows, attempt, lock, surface, core, service, sync, install, staged>>
      /\ sweeper' = "none"
  BY DEF Sweeps, productVars, installVars
<1>2. files' \subseteq files /\ log' \in {log, "written"}
  BY DEF Sweeps
<1>3. unguarded' \in BOOLEAN
  <2>1. CASE unguarded' = (unguarded \/ (sweeper = "inplace" /\ InstallerAtWork))
    BY <2>1
  <2>2. CASE unguarded' = unguarded
    BY <2>2 DEF TypeOK
  <2>. QED
    BY <2>1, <2>2, Zenon DEF Sweeps
<1>4. troubles' \in 0 .. MaxTroubles
  <2>1. NoTrouble \/ Trouble
    BY Zenon DEF Sweeps
  <2>. QED
    BY <2>1 DEF Trouble, NoTrouble, TypeOK
<1>. QED
  BY <1>1, <1>2, <1>3, <1>4 DEF TypeOK

LEMMA InstallsMove ==
  ASSUME TypeOK, Installs
  PROVE  /\ TypeOK' /\ UNCHANGED <<windows, attempt, log, sweeper, unguarded>>
         /\ install \notin {"done", "old"} /\ install' \notin {"none", "waiting"}
<1>1. /\ UNCHANGED <<windows, attempt, log, sweeper, unguarded, surface, core, service, sync,
                     troubles>>
  BY DEF Installs, InstallStages, InstallPrepares, InstallActivates, InstallOnly, productVars,
     pastVars
<1>2. /\ install \notin {"done", "old"}
      /\ install' \in {"staging", "prepared", "done", "failed"} /\ staged' \in BOOLEAN
      /\ files' \subseteq files \cup {"program", "launcher", "state"}
      /\ lock' \in {lock, Free, Installer}
  BY DEF Installs, InstallStages, InstallPrepares, InstallActivates, TypeOK
<1>3. TypeOK'
  BY <1>1, <1>2 DEF TypeOK
<1>. QED
  BY <1>1, <1>2, <1>3

-----------------------------------------------------------------------------
(* What leaves lock and files alone.                                       *)

\* Nobody but one attempt goes on.
Beside(a) ==
  \A b \in Attempts \ {a} : /\ Stays(b) /\ attempt'[b].by = attempt[b].by
                            /\ attempt'[b].blocked => attempt[b].blocked

LEMMA AloneIsBeside ==
  ASSUME NEW a \in Attempts, Alone(a)
  PROVE  /\ Beside(a) /\ attempt'[a].by = attempt[a].by
         /\ attempt'[a].blocked => attempt[a].blocked
BY DEF Alone, Beside, Shrinks

LEMMA ProgressedKept ==
  ASSUME Progressed, windows' = windows, NEW a \in Attempts, Beside(a), Progress(attempt[a])'
  PROVE  Progressed'
<1>1. ASSUME NEW b \in Attempts \ {a} PROVE Progress(attempt[b])'
  BY <1>1 DEF Progressed, Progress, Beside, Stays
<1>. QED
  BY <1>1 DEF Progressed

\* An outcome is final.
LEMMA LocklessStays ==
  ASSUME Lockless,
         \A b \in Attempts : attempt[b].outcome # "none" =>
           attempt'[b].outcome = attempt[b].outcome /\ attempt'[b].by = attempt[b].by
  PROVE  Lockless'
BY DEF Lockless

LEMMA LockedKept ==
  ASSUME Locked, lock' = lock, install' = install, NEW a \in Attempts, Beside(a),
         attempt[a].outcome # "none" =>
           attempt'[a].outcome = attempt[a].outcome /\ attempt'[a].by = attempt[a].by,
         (Holding(a) \/ Owed(a))' => Holding(a) \/ Owed(a) \/ lock = Helper(a) \/ Lockless
  PROVE  Locked'
<1>1. CASE Lockless
  <2>1. Lockless'
    BY <1>1, LocklessStays DEF Beside, Stays
  <2>. QED
    BY <2>1 DEF Locked
<1>2. CASE ~Lockless
  <2>1. install' = "staging" => lock' = Installer
    BY <1>2 DEF Locked
  <2>2. ASSUME NEW b \in Attempts, (Holding(b) \/ Owed(b))'
        PROVE  lock' = Helper(b)'
    <3>1. CASE b = a
      BY <1>2, <2>2, <3>1 DEF Locked, Helper
    <3>2. CASE b # a
      <4>1. Holding(b) \/ Owed(b)
        BY <2>2, <3>2 DEF Beside, Stays, Holding, Owed
      <4>. QED
        BY <1>2, <4>1 DEF Locked, Helper
    <3>. QED
      BY <3>1, <3>2
  <2>. QED
    BY <2>1, <2>2 DEF Locked, Installer
<1>. QED
  BY <1>1, <1>2

LEMMA NotedKept ==
  ASSUME Noted, log' = log \/ log' = "written" \/ log' = "reported", NEW a \in Attempts, Beside(a),
         log' = log /\ attempt'[a].end = "failed" => attempt[a].end = "failed",
         attempt[a].helper \in Removing \cup {"gone"} => attempt'[a].helper \in Removing \cup {"gone"}
  PROVE  Noted'
<1>1. CASE log' # "none"
  BY <1>1 DEF Noted
<1>2. CASE log' = "none"
  <2>1. log' = log
    BY <1>2
  <2>2. ASSUME NEW b \in Attempts, attempt'[b].end = "failed"
        PROVE  attempt[b].end = "failed"
    BY <2>1, <2>2 DEF Beside, Stays
  <2>3. ASSUME NEW b \in Attempts, attempt[b].helper \in Removing \cup {"gone"},
               attempt[b].end # "failed"
        PROVE  attempt'[b].helper \in Removing \cup {"gone"} /\ attempt'[b].end # "failed"
    BY <2>1, <2>3 DEF Beside, Stays
  <2>. QED
    BY <1>2, <2>1, <2>2, <2>3 DEF Noted
<1>. QED
  BY <1>1, <1>2

LEMMA PastKept ==
  ASSUME Past, windows' = windows, sweeper' = sweeper, files' \subseteq files \cup {"state"},
         log # "none" => log' # "none",
         install' \in {"none", "waiting"} => install' = install,
         NEW a \in Attempts, Beside(a),
         attempt'[a].helper \in Removing \ {"program"} =>
           attempt'[a].helper = attempt[a].helper /\ attempt'[a].partly = attempt[a].partly,
         attempt'[a].end = "removed" => attempt[a].end = "removed"
  PROVE  Past'
<1>. SUFFICES ASSUME install' \in {"none", "waiting"}, NEW b \in Attempts
              PROVE  /\ attempt'[b].helper \in Removing \ {"program"} /\ ~attempt'[b].partly =>
                          Program' \/ Waited'
                     /\ attempt'[b].end = "removed" =>
                          \/ files' \cap {"program", "launcher"} = {} \/ Waited'
                          \/ (windows' /\ log' # "none")
  BY DEF Past
<1>1. /\ attempt'[b].helper \in Removing \ {"program"} =>
           attempt'[b].helper = attempt[b].helper /\ attempt'[b].partly = attempt[b].partly
      /\ attempt'[b].end = "removed" => attempt[b].end = "removed"
  BY DEF Beside, Stays
<1>2. (Program => Program') /\ (Waited => Waited')
  BY DEF Program, ProgramFiles, Waited
<1>3. files \cap {"program", "launcher"} = {} => files' \cap {"program", "launcher"} = {}
  OBVIOUS
<1>. QED
  BY <1>1, <1>2, <1>3 DEF Past

\* A step of one attempt that touches neither lock nor files.
LEMMA FrameKeeps ==
  ASSUME IInv, Frame, TypeOK', log' = log \/ log' = "written", NEW a \in Attempts, Beside(a),
         Progress(attempt[a])',
         attempt[a].outcome # "none" =>
           attempt'[a].outcome = attempt[a].outcome /\ attempt'[a].by = attempt[a].by,
         (Holding(a) \/ Owed(a))' => Holding(a) \/ Owed(a) \/ lock = Helper(a) \/ Lockless,
         log' = log /\ attempt'[a].end = "failed" => attempt[a].end = "failed",
         attempt[a].helper \in Removing \cup {"gone"} => attempt'[a].helper \in Removing \cup {"gone"},
         attempt'[a].helper \in Removing \ {"program"} =>
           attempt'[a].helper = attempt[a].helper /\ attempt'[a].partly = attempt[a].partly,
         attempt'[a].end = "removed" => attempt[a].end = "removed"
  PROVE  IInv'
<1>1. Progressed'
  BY ProgressedKept DEF IInv, Frame
<1>2. Locked'
  BY LockedKept DEF IInv, Frame
<1>3. Noted'
  BY NotedKept DEF IInv
<1>4. Past'
  BY PastKept DEF IInv, Frame
<1>5. Standing'
  BY DEF IInv, Frame, Standing, Free
<1>. QED
  BY <1>1, <1>2, <1>3, <1>4, <1>5 DEF IInv

\* The first step of an attempt.
LEMMA AsksKeeps ==
  ASSUME IInv, NEW a \in Attempts, NEW request \in Requests[a], Asks(a, request)
  PROVE  IInv'
<1>1. /\ TypeOK' /\ Frame /\ log' = log /\ attempt[a] = NoAttempt
      /\ \A b \in Attempts \ {a} : attempt'[b] = attempt[b]
      /\ attempt'[a].launcher = "check" /\ attempt'[a].outcome = "none"
      /\ attempt'[a].helper = "none" /\ attempt'[a].partly = FALSE /\ attempt'[a].end = "none"
      /\ attempt'[a].by = "command" => ~attempt'[a].blocked
  BY AsksMoves DEF IInv
<1>2. Beside(a)
  BY <1>1 DEF Beside, Stays
<1>3. Progress(attempt[a])'
  BY <1>1 DEF Progress, Stopping
<1>4. attempt[a].outcome = "none" /\ attempt[a].helper = "none"
  BY <1>1 DEF NoAttempt
<1>5. ~Holding(a)' /\ ~Owed(a)'
  BY <1>1 DEF Holding, Owed, Stopping, Removing
<1>. QED
  BY <1>1, <1>2, <1>3, <1>4, <1>5, FrameKeeps DEF Removing

\* A launcher that ends before it may have removed anything.
LEMMA LauncherEndsKeeps ==
  ASSUME IInv, TypeOK', Frame, log' = log, NEW a \in Attempts,
         NEW outcome \in {"refused", "accepted", "died", "uncertain"},
         LauncherEnds(a, outcome), attempt[a].launcher \notin {"none", "gone"},
         attempt'[a].helper = attempt[a].helper \/ attempt'[a].helper = "gone",
         outcome = "refused" => attempt'[a].helper \in {"none", "gone"},
         outcome = "accepted" => attempt[a].launcher = "exit",
         outcome = "uncertain" => attempt[a].blocked
  PROVE  IInv'
<1>1. /\ Beside(a) /\ attempt'[a].by = attempt[a].by /\ windows' = windows
      /\ attempt'[a].blocked => attempt[a].blocked
      /\ attempt'[a].launcher = "gone" /\ attempt'[a].outcome = outcome
      /\ attempt'[a].partly = attempt[a].partly /\ attempt'[a].end = attempt[a].end
  BY AloneIsBeside DEF LauncherEnds, Frame
<1>2. Progress(attempt[a])
  BY DEF IInv, Progressed
<1>3. Progress(attempt[a])'
  BY <1>1, <1>2 DEF Progress, Stopping
<1>4. attempt[a].outcome = "none"
  BY <1>2 DEF Progress
<1>5. (Holding(a) \/ Owed(a))' => Holding(a) \/ Owed(a)
  BY <1>1 DEF Holding, Owed, Stopping, Removing
<1>. QED
  BY <1>1, <1>3, <1>4, <1>5, FrameKeeps DEF Removing

LEMMA ExitsKeeps ==
  ASSUME IInv, NEW a \in Attempts, Exits(a)
  PROVE  IInv'
BY ExitsMoves, LauncherEndsKeeps DEF IInv

LEMMA LauncherDiesKeeps ==
  ASSUME IInv, NEW a \in Attempts, NEW outcome \in {"died", "uncertain"},
         LauncherDies(a, outcome)
  PROVE  IInv'
BY LauncherDiesMoves, LauncherEndsKeeps DEF IInv

\* A launcher that stops the product, or spawns its helper.
LEMMA LauncherToKeeps ==
  ASSUME IInv, TypeOK', Frame, log' = log, NEW a \in Attempts,
         attempt[a].launcher \in Stopping \cup {"spawn"}, Beside(a),
         attempt'[a].by = attempt[a].by, attempt'[a].blocked => attempt[a].blocked,
         attempt'[a].outcome = attempt[a].outcome, attempt'[a].partly = attempt[a].partly,
         attempt'[a].end = attempt[a].end,
         \/ /\ attempt'[a].launcher \in Stopping \cup {"spawn"}
            /\ attempt'[a].helper = attempt[a].helper
         \/ attempt'[a].launcher = "lock" /\ attempt'[a].helper = "parent"
  PROVE  IInv'
<1>1. Progress(attempt[a]) /\ windows' = windows
  BY DEF IInv, Progressed, Frame
<1>2. attempt[a].helper = "none" /\ attempt[a].outcome = "none"
  BY <1>1 DEF Progress, Stopping
<1>3. Progress(attempt[a])'
  BY <1>1, <1>2 DEF Progress, Stopping
<1>4. ~Holding(a)' /\ ~Owed(a)'
  BY <1>2 DEF Holding, Owed, Stopping, Removing
<1>. QED
  BY <1>2, <1>3, <1>4, FrameKeeps DEF Removing

LEMMA LauncherStopsKeeps ==
  ASSUME IInv, NEW a \in Attempts, StopsProduct(a, "launcher")
  PROVE  IInv'
<1>1. /\ TypeOK' /\ Frame /\ log' = log /\ attempt[a].launcher \in Stopping
      /\ \/ \E pc \in {"sync", "core", "stop", "spawn"} : LauncherTo(a, pc)
         \/ /\ LauncherEnds(a, "refused")
            /\ attempt'[a].helper = IF attempt[a].helper = "none" THEN "none" ELSE "gone"
  BY LauncherStops DEF IInv
<1>2. CASE \E pc \in {"sync", "core", "stop", "spawn"} : LauncherTo(a, pc)
  BY <1>1, <1>2, AloneIsBeside, LauncherToKeeps DEF LauncherTo, Stopping
<1>3. CASE /\ LauncherEnds(a, "refused")
           /\ attempt'[a].helper = IF attempt[a].helper = "none" THEN "none" ELSE "gone"
  BY <1>1, <1>3, LauncherEndsKeeps DEF Stopping
<1>. QED
  BY <1>1, <1>2, <1>3

LEMMA SpawnsKeeps ==
  ASSUME IInv, NEW a \in Attempts, Spawns(a)
  PROVE  IInv'
<1>1. /\ TypeOK' /\ Frame /\ log' = log /\ attempt[a].launcher = "spawn"
      /\ \/ /\ Alone(a) /\ attempt'[a].launcher = "lock" /\ attempt'[a].helper = "parent"
            /\ attempt'[a].outcome = attempt[a].outcome
            /\ attempt'[a].partly = attempt[a].partly /\ attempt'[a].end = attempt[a].end
         \/ /\ LauncherEnds(a, "refused")
            /\ attempt'[a].helper = IF attempt[a].helper = "none" THEN "none" ELSE "gone"
  BY SpawnsMoves DEF IInv
<1>2. CASE /\ LauncherEnds(a, "refused")
           /\ attempt'[a].helper = IF attempt[a].helper = "none" THEN "none" ELSE "gone"
  BY <1>1, <1>2, LauncherEndsKeeps
<1>. QED
  BY <1>1, <1>2, AloneIsBeside, LauncherToKeeps

\* A helper that gives up writes it down; one that dies does not.
LEMMA HelperEndsKeeps ==
  ASSUME IInv, TypeOK', Frame, NEW a \in Attempts, attempt[a].helper \notin {"none", "gone"},
         \/ HelperFails(a) /\ log' = "written"
         \/ HelperTo(a, "gone") /\ log' = log
  PROVE  IInv'
<1>1. /\ Beside(a) /\ attempt'[a].by = attempt[a].by /\ windows' = windows
      /\ attempt'[a].blocked => attempt[a].blocked
      /\ attempt'[a].launcher = attempt[a].launcher /\ attempt'[a].outcome = attempt[a].outcome
      /\ attempt'[a].partly = attempt[a].partly /\ attempt'[a].helper = "gone"
      /\ attempt'[a].end \in {attempt[a].end, "failed"}
      /\ log' = log => attempt'[a].end = attempt[a].end \/ log' = "written"
  BY AloneIsBeside DEF HelperFails, HelperTo, Frame
<1>2. Progress(attempt[a])
  BY DEF IInv, Progressed
<1>3. Progress(attempt[a])'
  BY <1>1, <1>2 DEF Progress, Stopping
<1>4. ~Holding(a)' /\ ~Owed(a)'
  BY <1>1 DEF Holding, Owed, Stopping, Removing
<1>5. Noted'
  BY <1>1, NotedKept DEF IInv, HelperFails, HelperTo, Noted
<1>6. Progressed'
  BY <1>1, <1>3, ProgressedKept DEF IInv
<1>7. Locked'
  BY <1>1, <1>4, LockedKept DEF IInv, Frame
<1>8. Past'
  BY <1>1, PastKept DEF IInv, Frame, Removing, HelperFails, HelperTo
<1>9. Standing'
  BY DEF IInv, Frame, Standing, Free
<1>. QED
  BY <1>5, <1>6, <1>7, <1>8, <1>9 DEF IInv

LEMMA HelperDiesKeeps ==
  ASSUME IInv, NEW a \in Attempts, HelperDies(a)
  PROVE  IInv'
BY HelperDiesMoves, HelperEndsKeeps DEF IInv

\* A helper goes on with its work, to begin the removal at last.
LEMMA HelperToKeeps ==
  ASSUME IInv, TypeOK', Frame, log' = log, NEW a \in Attempts,
         NEW pc \in Stopping \cup {"surface", "held", "program"}, HelperTo(a, pc),
         attempt[a].helper \in Stopping \cup {"parent", "surface", "held"},
         attempt[a].helper = "parent" => attempt[a].launcher = "gone",
         pc \in Stopping \cup {"program"} => Holding(a) \/ Owed(a) \/ lock = Helper(a) \/ Lockless
  PROVE  IInv'
<1>1. /\ Beside(a) /\ attempt'[a].by = attempt[a].by /\ windows' = windows
      /\ attempt'[a].blocked => attempt[a].blocked
      /\ attempt'[a].launcher = attempt[a].launcher /\ attempt'[a].outcome = attempt[a].outcome
      /\ attempt'[a].partly = attempt[a].partly /\ attempt'[a].helper = pc
      /\ attempt'[a].end = attempt[a].end
  BY AloneIsBeside DEF HelperTo, Frame
<1>2. Progress(attempt[a])
  BY DEF IInv, Progressed
<1>3. attempt[a].helper # "none" /\ attempt[a].helper # "gone" /\ attempt[a].launcher = "gone"
  <2>1. attempt[a].launcher \in Pcs
    BY DEF IInv, TypeOK, AttemptType, Pcs
  <2>. QED
    BY <1>2, <2>1 DEF Progress, Pcs, Stopping
<1>4. Progress(attempt[a])'
  BY <1>1, <1>2, <1>3 DEF Progress, Stopping
<1>5. (Holding(a) \/ Owed(a))' => Holding(a) \/ Owed(a) \/ lock = Helper(a) \/ Lockless
  BY <1>1, <1>3 DEF Holding, Owed, Stopping, Removing
<1>6. attempt[a].helper \notin Removing \cup {"gone"} /\ pc \notin Removing \ {"program"}
  BY <1>3 DEF Stopping, Removing
<1>. QED
  BY <1>1, <1>4, <1>5, <1>6, FrameKeeps

LEMMA HelperStopsKeeps ==
  ASSUME IInv, NEW a \in Attempts, StopsProduct(a, "helper")
  PROVE  IInv'
<1>1. /\ TypeOK' /\ Frame /\ attempt[a].helper \in Stopping
      /\ \/ /\ \E pc \in {"sync", "core", "stop", "program"} : HelperTo(a, pc)
            /\ log' = log
         \/ HelperFails(a) /\ log' = "written"
  BY HelperStops DEF IInv
<1>2. Holding(a) /\ attempt[a].helper \notin {"none", "gone", "parent"}
  BY <1>1 DEF Holding, Stopping, Removing
<1>3. CASE log' = log /\ \E pc \in {"sync", "core", "stop", "program"} : HelperTo(a, pc)
  <2>1. PICK pc \in Stopping \cup {"program"} : HelperTo(a, pc)
    BY <1>3 DEF Stopping
  <2>. QED
    BY <1>1, <1>2, <1>3, <2>1, HelperToKeeps
<1>4. CASE HelperFails(a) /\ log' = "written"
  BY <1>1, <1>2, <1>4, HelperEndsKeeps
<1>. QED
  BY <1>1, <1>3, <1>4

LEMMA WaitsKeeps ==
  ASSUME IInv, NEW a \in Attempts, HelperWaits(a)
  PROVE  IInv'
<1>1. /\ TypeOK' /\ Frame
      /\ \/ HelperFails(a) /\ log' = "written" /\ attempt[a].helper \in {"parent", "surface", "held"}
         \/ /\ log' = log /\ attempt[a].helper = "parent" /\ attempt[a].launcher = "gone"
            /\ HelperTo(a, IF attempt[a].by = "command" THEN "program" ELSE "surface")
         \/ log' = log /\ attempt[a].helper = "surface" /\ HelperTo(a, "held")
         \/ /\ log' = log /\ attempt[a].helper = "held" /\ lock = Helper(a)
            /\ HelperTo(a, "check")
  BY WaitsMoves DEF IInv
<1>2. Progress(attempt[a])
  BY DEF IInv, Progressed
<1>3. CASE HelperFails(a) /\ log' = "written" /\ attempt[a].helper \in {"parent", "surface", "held"}
  BY <1>1, <1>3, HelperEndsKeeps
<1>4. CASE /\ log' = log /\ attempt[a].helper = "parent" /\ attempt[a].launcher = "gone"
           /\ HelperTo(a, IF attempt[a].by = "command" THEN "program" ELSE "surface")
  <2>1. CASE attempt[a].by # "command"
    <3>1. HelperTo(a, "surface")
      BY <1>4, <2>1
    <3>. QED
      BY <1>1, <1>4, <3>1, HelperToKeeps DEF Stopping
  <2>2. CASE attempt[a].by = "command"
    <3>1. attempt[a].outcome \in {"accepted", "died"}
      <4>1. attempt[a].outcome \in {"none", "refused", "accepted", "died", "uncertain"}
        BY DEF IInv, TypeOK, AttemptType
      <4>. QED
        BY <1>2, <1>4, <2>2, <4>1 DEF Progress
    <3>2. Owed(a) \/ Lockless
      BY <1>4, <2>2, <3>1 DEF Owed, Lockless
    <3>3. HelperTo(a, "program")
      BY <1>4, <2>2
    <3>. QED
      BY <1>1, <1>4, <3>2, <3>3, HelperToKeeps
  <2>. QED
    BY <2>1, <2>2
<1>5. CASE log' = log /\ attempt[a].helper = "surface" /\ HelperTo(a, "held")
  BY <1>1, <1>5, HelperToKeeps DEF Stopping
<1>6. CASE log' = log /\ attempt[a].helper = "held" /\ lock = Helper(a) /\ HelperTo(a, "check")
  BY <1>1, <1>6, HelperToKeeps DEF Stopping
<1>. QED
  BY <1>1, <1>3, <1>4, <1>5, <1>6

-----------------------------------------------------------------------------
(* What takes the lock, or removes and adds files.                         *)

\* Whoever may take the lock, or releases it as the installer, takes it from nobody.
LEMMA NobodyHolds ==
  ASSUME Locked, ~Lockless, Available \/ lock = Installer
  PROVE  \A b \in Attempts : ~Holding(b) /\ ~Owed(b)
<1>. SUFFICES ASSUME NEW b \in Attempts, Holding(b) \/ Owed(b) PROVE FALSE
  OBVIOUS
<1>1. lock = Helper(b)
  BY DEF Locked
<1>2. attempt[b].helper # "gone"
  BY DEF Holding, Owed, Stopping, Removing
<1>3. Available
  BY <1>1, Names
<1>. QED
  BY <1>1, <1>2, <1>3, Names DEF Available

LEMMA LocksKeeps ==
  ASSUME IInv, NEW a \in Attempts, Locks(a)
  PROVE  IInv'
<1>1. /\ TypeOK' /\ log' = log /\ attempt[a].launcher = "lock"
      /\ UNCHANGED <<windows, files, sweeper, unguarded, staged>>
      /\ \/ /\ LauncherTo(a, "exit") /\ Available /\ lock' = Helper(a)
            /\ install' = IF install = "done" THEN "old" ELSE install
         \/ /\ Frame /\ LauncherEnds(a, "refused")
            /\ attempt'[a].helper = IF attempt[a].helper = "none" THEN "none" ELSE "gone"
  BY LocksMoves DEF IInv
<1>2. CASE /\ Frame /\ LauncherEnds(a, "refused")
           /\ attempt'[a].helper = IF attempt[a].helper = "none" THEN "none" ELSE "gone"
  BY <1>1, <1>2, LauncherEndsKeeps
<1>3. CASE /\ LauncherTo(a, "exit") /\ Available /\ lock' = Helper(a)
           /\ install' = IF install = "done" THEN "old" ELSE install
  <2>1. /\ Beside(a) /\ attempt'[a].by = attempt[a].by
        /\ attempt'[a].blocked => attempt[a].blocked
        /\ attempt'[a].launcher = "exit" /\ attempt'[a].outcome = attempt[a].outcome
        /\ attempt'[a].partly = attempt[a].partly /\ attempt'[a].helper = attempt[a].helper
        /\ attempt'[a].end = attempt[a].end
    BY <1>3, AloneIsBeside DEF LauncherTo
  <2>2. Progress(attempt[a])
    BY DEF IInv, Progressed
  <2>3. Progress(attempt[a])'
    BY <1>1, <2>1, <2>2 DEF Progress, Stopping
  <2>4. Progressed'
    BY <1>1, <2>1, <2>3, ProgressedKept DEF IInv
  <2>5. Locked'
    <3>1. CASE Lockless
      <4>1. Lockless'
        BY <2>1, <3>1, LocklessStays DEF Beside, Stays
      <4>. QED
        BY <4>1 DEF Locked
    <3>2. CASE ~Lockless
      <4>1. \A b \in Attempts : ~Holding(b) /\ ~Owed(b)
        BY <1>3, <3>2, NobodyHolds DEF IInv
      <4>2. \A b \in Attempts \ {a} : ~Holding(b)' /\ ~Owed(b)'
        BY <2>1, <4>1 DEF Beside, Stays, Holding, Owed
      <4>3. install' # "staging"
        BY <1>3, <3>2, Names DEF IInv, Locked, Available
      <4>. QED
        BY <1>3, <4>2, <4>3 DEF Locked, Helper
    <3>. QED
      BY <3>1, <3>2
  <2>6. Noted'
    BY <1>1, <2>1, NotedKept DEF IInv
  <2>7. Past'
    BY <1>1, <1>3, <2>1, PastKept DEF IInv
  <2>8. Standing'
    BY <1>1, <1>3 DEF IInv, Standing
  <2>. QED
    BY <1>1, <2>4, <2>5, <2>6, <2>7, <2>8 DEF IInv
<1>. QED
  BY <1>1, <1>2, <1>3

\* A helper goes on from one target to the next.
LEMMA ProceedsProgress ==
  ASSUME TypeOK, Progressed, Locked, windows' = windows, NEW a \in Attempts,
         NEW failed \in BOOLEAN, Proceeds(a, failed), attempt[a].helper \in Removing,
         windows => attempt[a].helper # "program" \/ ~failed,
         lock' = lock \/ attempt[a].helper = "state", install' = install
  PROVE  /\ Progressed' /\ Locked' /\ Beside(a)
         /\ attempt[a].helper = "program" => ~attempt[a].partly
         /\ attempt[a].end = "none" /\ attempt[a].launcher = "gone"
<1>0. attempt \in [Attempts -> AttemptType] /\ windows \in BOOLEAN
  BY DEF TypeOK
<1>1. /\ Alone(a) /\ attempt'[a].launcher = attempt[a].launcher
      /\ attempt'[a].outcome = attempt[a].outcome
      /\ attempt'[a].partly = (attempt[a].partly \/ failed)
      /\ attempt[a].helper = "program" => attempt'[a].helper = "logs"
      /\ attempt[a].helper = "logs" => attempt'[a].helper \in {"data", "state"}
      /\ attempt[a].helper = "data" => attempt'[a].helper = "state"
      /\ attempt[a].helper = "state" =>
           attempt'[a].helper = IF windows THEN "gone" ELSE "launcher"
      /\ attempt[a].helper = "launcher" => attempt'[a].helper = "gone"
      /\ attempt'[a].helper # "gone" => attempt'[a].end = attempt[a].end
      /\ attempt'[a].helper = "gone" =>
           attempt'[a].end = IF attempt[a].partly \/ failed THEN "failed" ELSE "removed"
  BY <1>0, ProceedsMoves
<1>2. /\ Beside(a) /\ attempt'[a].by = attempt[a].by
      /\ attempt'[a].blocked => attempt[a].blocked
  BY <1>1, AloneIsBeside
<1>3. Progress(attempt[a])
  BY DEF Progressed
<1>4. /\ attempt[a].launcher = "gone" /\ attempt[a].end = "none"
      /\ attempt[a].outcome # "refused"
      /\ attempt[a].helper = "program" => ~attempt[a].partly
  <2>1. attempt[a].launcher \in Pcs
    BY DEF TypeOK, AttemptType, Pcs
  <2>. QED
    BY <1>3, <2>1 DEF Progress, Pcs, Stopping, Removing
<1>5. Progress(attempt[a])'
  BY <1>1, <1>2, <1>3, <1>4 DEF Progress, Stopping, Removing
<1>6. Locked'
  <2>1. CASE Lockless
    <3>1. Lockless'
      BY <1>1, <1>2, <2>1, LocklessStays DEF Beside, Stays
    <3>. QED
      BY <3>1 DEF Locked
  <2>2. CASE lock' = lock
    <3>1. (Holding(a) \/ Owed(a))' => Holding(a)
      BY <1>1 DEF Holding, Owed, Removing, Stopping
    <3>. QED
      BY <1>1, <1>2, <2>2, <3>1, LockedKept
  <2>3. CASE ~Lockless /\ attempt[a].helper = "state"
    <3>1. lock = Helper(a)
      BY <2>3 DEF Locked, Holding, Removing
    <3>2. ~Holding(a)' /\ ~Owed(a)'
      BY <1>1, <2>3 DEF Holding, Owed, Removing, Stopping
    <3>3. ASSUME NEW b \in Attempts \ {a} PROVE ~Holding(b)' /\ ~Owed(b)'
      <4>1. ~Holding(b) /\ ~Owed(b)
        BY <2>3, <3>1, Names DEF Locked
      <4>. QED
        BY <1>2, <4>1 DEF Beside, Stays, Holding, Owed
    <3>4. install' # "staging"
      BY <2>3, <3>1, Names DEF Locked
    <3>. QED
      BY <3>2, <3>3, <3>4 DEF Locked
  <2>. QED
    BY <2>1, <2>2, <2>3
<1>. QED
  BY <1>2, <1>4, <1>5, <1>6, ProgressedKept

LEMMA ProceedsNotes ==
  ASSUME TypeOK, Progressed, Noted, NEW a \in Attempts, NEW failed \in BOOLEAN,
         Proceeds(a, failed), attempt[a].helper \in Removing
  PROVE  Noted'
<1>0. attempt \in [Attempts -> AttemptType] /\ windows \in BOOLEAN
  BY DEF TypeOK
<1>1. /\ Alone(a) /\ attempt'[a].partly = (attempt[a].partly \/ failed)
      /\ attempt[a].helper = "program" => attempt'[a].helper = "logs"
      /\ attempt[a].helper = "logs" => attempt'[a].helper \in {"data", "state"}
      /\ attempt[a].helper = "data" => attempt'[a].helper = "state"
      /\ attempt[a].helper = "state" =>
           attempt'[a].helper = IF windows THEN "gone" ELSE "launcher"
      /\ attempt[a].helper = "launcher" => attempt'[a].helper = "gone"
      /\ attempt'[a].helper # "gone" => attempt'[a].end = attempt[a].end
      /\ attempt'[a].helper = "gone" =>
           attempt'[a].end = IF attempt[a].partly \/ failed THEN "failed" ELSE "removed"
      /\ log' = IF attempt'[a].helper = "gone" /\ (attempt[a].partly \/ failed) THEN "written"
                ELSE IF attempt[a].helper = "logs" /\ ~failed THEN "none" ELSE log
  BY <1>0, ProceedsMoves
<1>2. Beside(a) /\ attempt'[a].helper \in Removing \cup {"gone"}
  BY <1>1, AloneIsBeside DEF Removing
<1>3. attempt[a].end = "none"
  BY DEF Progressed, Progress, Removing
<1>4. CASE log' = "none" /\ attempt[a].helper = "logs"
  BY <1>1, <1>2, <1>3, <1>4 DEF Noted, Removing
<1>5. CASE log' = "written"
  BY <1>5 DEF Noted
<1>6. CASE log' = log /\ attempt'[a].end # "failed"
  BY <1>1, <1>2, <1>6, NotedKept
<1>. QED
  BY <1>1, <1>3, <1>4, <1>5, <1>6

\* The files of the program that a removal on Windows has put aside.
LEMMA ProgramOnWindows ==
  /\ windows => ProgramFiles = {"program", "launcher"}
  /\ ~windows => ProgramFiles = {"program"}
BY DEF ProgramFiles

\* What is past while a helper proceeds: the others lose at most the log, and that
\* to a helper that has removed the program.
LEMMA ProceedsPast ==
  ASSUME TypeOK, Progressed, Past, windows' = windows, install' = install, NEW a \in Attempts,
         NEW failed \in BOOLEAN, Proceeds(a, failed), attempt[a].helper \in Removing,
         windows => attempt[a].helper # "program" \/ ~failed,
         files' \subseteq files,
         sweeper' = sweeper \/ Waited' \/ files' \cap {"program", "launcher"} = {},
         ~failed => \/ files' \cap Target(attempt[a].helper) = {}
                    \/ attempt[a].helper = "program" /\ Waited'
  PROVE  Past'
<1>1. /\ Alone(a) /\ attempt'[a].partly = (attempt[a].partly \/ failed)
      /\ attempt[a].helper = "program" => attempt'[a].helper = "logs"
      /\ attempt[a].helper = "logs" => attempt'[a].helper \in {"data", "state"}
      /\ attempt[a].helper = "data" => attempt'[a].helper = "state"
      /\ attempt[a].helper = "state" =>
           attempt'[a].helper = IF windows THEN "gone" ELSE "launcher"
      /\ attempt[a].helper = "launcher" => attempt'[a].helper = "gone"
      /\ attempt'[a].helper # "gone" => attempt'[a].end = attempt[a].end
      /\ attempt'[a].helper = "gone" =>
           attempt'[a].end = IF attempt[a].partly \/ failed THEN "failed" ELSE "removed"
      /\ log' = IF attempt'[a].helper = "gone" /\ (attempt[a].partly \/ failed) THEN "written"
                ELSE IF attempt[a].helper = "logs" /\ ~failed THEN "none" ELSE log
  BY ProceedsMoves DEF TypeOK
<1>2. Beside(a)
  BY <1>1, AloneIsBeside
<1>3. /\ attempt[a].end = "none"
      /\ windows /\ attempt[a].partly => attempt[a].helper \notin {"program", "logs", "launcher"}
      /\ windows => attempt[a].helper # "launcher"
      /\ attempt[a].helper = "program" => ~attempt[a].partly
  BY DEF Progressed, Progress, Removing
<1>. SUFFICES ASSUME install' \in {"none", "waiting"}, ~Waited',
                     files' \cap {"program", "launcher"} # {}, NEW b \in Attempts
              PROVE  /\ attempt'[b].helper \in Removing \ {"program"} /\ ~attempt'[b].partly =>
                          Program'
                     /\ attempt'[b].end = "removed" => windows' /\ log' # "none"
  <2>1. files' \cap {"program", "launcher"} = {} => Program'
    BY DEF Program, ProgramFiles
  <2>. QED
    BY <2>1 DEF Past
<1>4. ~Waited /\ (Program => Program') /\ files \cap {"program", "launcher"} # {}
  BY DEF Waited, Program, ProgramFiles
<1>5. /\ attempt[b].helper \in Removing \ {"program"} /\ ~attempt[b].partly => Program
      /\ attempt[b].end = "removed" => windows /\ log # "none"
  BY <1>4 DEF Past
<1>6. CASE b # a
  <2>1. Stays(b)
    BY <1>2, <1>6 DEF Beside
  <2>2. attempt[b].end = "removed" => log' # "none"
    <3>. SUFFICES ASSUME attempt[b].end = "removed", log' = "none" PROVE FALSE
      OBVIOUS
    <3>1. windows /\ log # "none"
      BY <1>5
    <3>2. attempt[a].helper = "logs"
      BY <1>1, <3>1
    <3>3. ~attempt[a].partly
      BY <1>3, <3>1, <3>2
    <3>4. Program
      BY <1>4, <3>2, <3>3 DEF Past, Removing
    <3>. QED
      BY <1>4, <3>1, <3>4, ProgramOnWindows DEF Program
  <2>. QED
    BY <1>4, <1>5, <2>1, <2>2 DEF Stays
<1>7. CASE b = a
  <2>1. attempt[a].helper = "program" /\ ~failed => Program'
    BY <1>4 DEF Program, ProgramFiles, Target
  <2>2. attempt[a].helper \in Removing \ {"program"} /\ ~attempt[a].partly => Program'
    BY <1>4, <1>5, <1>7
  <2>3. ~attempt'[a].partly => Program'
    BY <1>1, <1>3, <2>1, <2>2 DEF Removing
  <2>4. attempt'[a].end # "removed"
    <3>. SUFFICES ASSUME attempt'[a].end = "removed" PROVE FALSE
      OBVIOUS
    <3>1. attempt'[a].helper = "gone" /\ ~attempt[a].partly /\ ~failed
      BY <1>1, <1>3
    <3>2. /\ attempt[a].helper \in {"state", "launcher"}
          /\ attempt[a].helper = "state" => windows
      BY <1>1, <3>1 DEF Removing
    <3>3. Program'
      BY <2>2, <3>1, <3>2 DEF Removing
    <3>4. CASE windows
      BY <3>3, <3>4, ProgramOnWindows DEF Program, ProgramFiles
    <3>5. CASE ~windows
      <4>1. files' \cap {"launcher"} = {}
        BY <3>1, <3>2, <3>5 DEF Target
      <4>2. files' \cap {"program"} = {}
        BY <3>3, <3>5 DEF Program, ProgramFiles
      <4>. QED
        BY <4>1, <4>2
    <3>. QED
      BY <3>4, <3>5
  <2>. QED
    BY <1>7, <2>3, <2>4
<1>. QED
  BY <1>6, <1>7

LEMMA RemovesKeeps ==
  ASSUME IInv, NEW a \in Attempts, Removes(a)
  PROVE  IInv'
<1>1. /\ TypeOK' /\ UNCHANGED <<windows, sweeper, install>>
      /\ Proceeds(a, FALSE) /\ attempt[a].helper \in Removing
      /\ files' = files \ Target(attempt[a].helper)
      /\ lock' = IF attempt[a].helper = "state" THEN Free ELSE lock
      /\ staged' = (staged /\ attempt[a].helper \notin {"program", "state"})
      /\ unguarded' = (unguarded \/ (InstallerAtWork /\ (Lockless \/ attempt[a].helper = "launcher")))
  BY RemovesMoves DEF IInv
<1>2. Progressed' /\ Locked'
  BY <1>1, ProceedsProgress DEF IInv
<1>3. Noted'
  BY <1>1, ProceedsNotes DEF IInv
<1>4. Past'
  BY <1>1, ProceedsPast DEF IInv
<1>5. Standing'
  <2>1. ASSUME ~unguarded', install \in {"prepared", "done"}
        PROVE  /\ ~unguarded /\ ~Lockless /\ attempt[a].helper # "launcher"
               /\ lock = Helper(a)
    BY <1>1, <2>1 DEF InstallerAtWork, IInv, Locked, Holding
  <2>2. ASSUME install = "done" PROVE lock' = Free
    BY <1>1, <2>2 DEF IInv, Standing
  <2>3. ASSUME ~unguarded' PROVE install # "done"
    BY <2>1, <2>3, Names DEF IInv, Standing
  <2>4. ASSUME ~unguarded', install = "prepared", staged' PROVE "launcher" \in files'
    BY <1>1, <2>1, <2>4 DEF IInv, Standing, Target, Removing
  <2>. QED
    BY <1>1, <2>2, <2>3, <2>4 DEF Standing, Free
<1>. QED
  BY <1>1, <1>2, <1>3, <1>4, <1>5 DEF IInv

LEMMA RemovesNotKeeps ==
  ASSUME IInv, NEW a \in Attempts, RemovesNot(a)
  PROVE  IInv'
<1>1. /\ TypeOK' /\ UNCHANGED <<windows, lock, install>> /\ attempt[a].helper \in Removing
      /\ unguarded' = (unguarded \/ (InstallerAtWork /\ (Lockless \/ attempt[a].helper = "launcher")))
      /\ \/ /\ windows /\ attempt[a].helper = "program" /\ Proceeds(a, FALSE)
            /\ \/ sweeper' = "aside" /\ files' = files \ ProgramFiles /\ staged' = FALSE
               \/ sweeper' = "inplace" /\ UNCHANGED <<files, staged>>
         \/ /\ ~(windows /\ attempt[a].helper = "program") /\ Proceeds(a, TRUE)
            /\ UNCHANGED <<files, sweeper, staged>>
  BY RemovesNotMoves DEF IInv
<1>2. PICK failed \in BOOLEAN :
        /\ Proceeds(a, failed) /\ (windows => attempt[a].helper # "program" \/ ~failed)
        /\ files' \subseteq files
        /\ (sweeper' = sweeper \/ Waited' \/ files' \cap {"program", "launcher"} = {})
        /\ (~failed => \/ files' \cap Target(attempt[a].helper) = {}
                       \/ attempt[a].helper = "program" /\ Waited')
  <2>1. CASE ~(windows /\ attempt[a].helper = "program") /\ Proceeds(a, TRUE)
             /\ UNCHANGED <<files, sweeper, staged>>
    BY <2>1
  <2>2. CASE /\ windows /\ attempt[a].helper = "program" /\ Proceeds(a, FALSE)
             /\ sweeper' = "aside" /\ files' = files \ ProgramFiles
    BY <2>2, ProgramOnWindows DEF Target
  <2>3. CASE /\ windows /\ attempt[a].helper = "program" /\ Proceeds(a, FALSE)
             /\ sweeper' = "inplace" /\ files' = files
    BY <1>1, <2>3 DEF Waited
  <2>. QED
    BY <1>1, <2>1, <2>2, <2>3
<1>3. Progressed' /\ Locked'
  BY <1>1, <1>2, ProceedsProgress DEF IInv
<1>4. Noted'
  BY <1>1, <1>2, ProceedsNotes DEF IInv
<1>5. Past'
  BY <1>1, <1>2, ProceedsPast DEF IInv
<1>6. Standing'
  <2>1. ASSUME ~unguarded', install \in {"prepared", "done"}
        PROVE  /\ ~unguarded /\ ~Lockless /\ attempt[a].helper # "launcher"
               /\ lock = Helper(a)
    BY <1>1, <2>1 DEF InstallerAtWork, IInv, Locked, Holding
  <2>2. ASSUME ~unguarded' PROVE install # "done"
    BY <2>1, <2>2, Names DEF IInv, Standing
  <2>3. ASSUME ~unguarded', install = "prepared", staged' PROVE "launcher" \in files'
    BY <1>1, <2>1, <2>3 DEF IInv, Standing
  <2>4. install = "done" => lock' = Free
    BY <1>1 DEF IInv, Standing
  <2>. QED
    BY <1>1, <2>2, <2>3, <2>4 DEF Standing, Free
<1>. QED
  BY <1>1, <1>3, <1>4, <1>5, <1>6 DEF IInv

\* What interfaces, Core, a sweep and an installer do: every attempt stays.
AllStay ==
  \A b \in Attempts : /\ Stays(b) /\ attempt'[b].by = attempt[b].by
                      /\ attempt'[b].blocked => attempt[b].blocked

LEMMA StayKeeps ==
  ASSUME IInv, AllStay, windows' = windows, log # "none" => log' # "none"
  PROVE  /\ Progressed' /\ Noted' /\ (Lockless => Lockless')
         /\ \A b \in Attempts : (Holding(b)' => Holding(b)) /\ (Owed(b)' => Owed(b))
<1>1. Progressed'
  BY DEF IInv, Progressed, Progress, AllStay, Stays
<1>2. Noted'
  BY DEF IInv, Noted, AllStay, Stays
<1>3. Lockless => Lockless'
  BY DEF Lockless, AllStay, Stays
<1>4. \A b \in Attempts : (Holding(b)' => Holding(b)) /\ (Owed(b)' => Owed(b))
  BY DEF Holding, Owed, AllStay, Stays
<1>. QED
  BY <1>1, <1>2, <1>3, <1>4

\* The lock stays too.
LEMMA StayLocked ==
  ASSUME IInv, AllStay, windows' = windows, log # "none" => log' # "none",
         lock' = lock, install' = install
  PROVE  Locked'
<1>1. CASE Lockless
  BY <1>1, StayKeeps DEF Locked
<1>2. CASE ~Lockless
  BY <1>2, StayKeeps DEF IInv, Locked, Helper, Installer
<1>. QED
  BY <1>1, <1>2

\* Nothing of the program comes back, and nothing is forgotten.
LEMMA StayPast ==
  ASSUME IInv, AllStay, windows' = windows, log # "none" => log' # "none", install' = install,
         files' \subseteq files \cup {"state"},
         Waited => Waited' \/ files' \cap {"program", "launcher"} = {} \/ (windows /\ log' # "none"),
         Waited /\ ~Waited' /\ files' \cap {"program", "launcher"} # {} =>
           \A b \in Attempts : attempt[b].helper \notin Removing
  PROVE  Past'
<1>. SUFFICES ASSUME install' \in {"none", "waiting"}, NEW b \in Attempts, ~Waited',
                     files' \cap {"program", "launcher"} # {}
              PROVE  /\ attempt'[b].helper \in Removing \ {"program"} /\ ~attempt'[b].partly =>
                          Program'
                     /\ attempt'[b].end = "removed" => windows' /\ log' # "none"
  <2>1. files' \cap {"program", "launcher"} = {} => Program'
    BY DEF Program, ProgramFiles
  <2>. QED
    BY <2>1 DEF Past
<1>1. files \cap {"program", "launcher"} # {} /\ (Program => Program')
  BY DEF Program, ProgramFiles
<1>2. Stays(b)
  BY DEF AllStay
<1>3. CASE Waited
  BY <1>2, <1>3 DEF Stays
<1>4. CASE ~Waited
  BY <1>1, <1>2, <1>4 DEF IInv, Past, Stays
<1>. QED
  BY <1>3, <1>4

LEMMA SurfacesKeep ==
  ASSUME IInv,
         \/ \E a \in Attempts : Learns(a)
         \/ \E s \in Surfaces : Closes(s) \/ Opens(s)
         \/ CoreWorks
  PROVE  IInv'
<1>1. /\ TypeOK' /\ UNCHANGED <<windows, lock, sweeper, unguarded, install, staged>>
      /\ Shrinks /\ \A b \in Attempts : Stays(b)
      /\ files' \in {files, files \cup {"state"}}
      /\ log' = log \/ (log = "written" /\ log' = "reported")
  BY SurfacesMove DEF IInv
<1>2. AllStay
  BY <1>1 DEF AllStay, Shrinks
<1>3. Progressed' /\ Noted' /\ Locked'
  BY <1>1, <1>2, StayKeeps, StayLocked
<1>4. Past'
  BY <1>1, <1>2, StayPast DEF Waited
<1>5. Standing'
  BY <1>1 DEF IInv, Standing, Free
<1>. QED
  BY <1>1, <1>3, <1>4, <1>5 DEF IInv

LEMMA SweepsKeeps ==
  ASSUME IInv, Sweeps
  PROVE  IInv'
<1>1. /\ TypeOK' /\ UNCHANGED <<windows, attempt, lock, install, staged>> /\ sweeper' = "none"
  BY SweepsMoves DEF IInv, Sweeps, installVars
<1>2. AllStay
  BY <1>1 DEF AllStay, Stays
<1>3. \/ /\ files' = IF sweeper = "inplace" THEN files \ ProgramFiles ELSE files
         /\ log' = log
      \/ /\ \A a \in Attempts : attempt[a].helper \notin Removing
         /\ log' = "written" /\ files' = files
  BY DEF Sweeps
<1>4. Progressed' /\ Noted' /\ Locked'
  BY <1>1, <1>2, <1>3, StayKeeps, StayLocked
<1>5. Past'
  <2>1. files' \subseteq files
    BY <1>3
  <2>2. CASE /\ files' = IF sweeper = "inplace" THEN files \ ProgramFiles ELSE files
             /\ log' = log
    <3>1. Waited => files' \cap {"program", "launcher"} = {}
      BY <2>2, ProgramOnWindows DEF Waited
    <3>. QED
      BY <1>1, <1>2, <2>1, <2>2, <3>1, StayPast
  <2>3. CASE /\ \A a \in Attempts : attempt[a].helper \notin Removing
             /\ log' = "written" /\ files' = files
    <3>1. Waited => windows /\ log' # "none"
      BY <2>3 DEF Waited
    <3>. QED
      BY <1>1, <1>2, <2>1, <2>3, <3>1, StayPast
  <2>. QED
    BY <1>3, <2>2, <2>3
<1>6. Standing'
  <2>1. CASE files' = files
    <3>1. ~unguarded' => ~unguarded
      BY Zenon DEF Sweeps
    <3>. QED
      BY <1>1, <2>1, <3>1 DEF IInv, Standing, Free
  <2>2. CASE files' # files
    <3>1. unguarded' = (unguarded \/ (sweeper = "inplace" /\ InstallerAtWork)) /\ sweeper = "inplace"
      <4>1. unguarded' = (unguarded \/ (sweeper = "inplace" /\ InstallerAtWork))
        BY <2>2, Zenon DEF Sweeps
      <4>. QED
        BY <1>3, <2>2, <4>1
    <3>. QED
      BY <1>1, <3>1 DEF IInv, Standing, InstallerAtWork, Free
  <2>. QED
    BY <2>1, <2>2
<1>. QED
  BY <1>1, <1>4, <1>5, <1>6 DEF IInv

LEMMA InstallsKeeps ==
  ASSUME IInv, Installs
  PROVE  IInv'
<1>1. /\ TypeOK' /\ UNCHANGED <<windows, attempt, log, sweeper, unguarded>>
      /\ install \notin {"done", "old"} /\ install' \notin {"none", "waiting"}
  BY InstallsMove DEF IInv
<1>2. AllStay
  BY <1>1 DEF AllStay, Stays
<1>3. Progressed' /\ Noted' /\ (Lockless => Lockless')
      /\ \A b \in Attempts : (Holding(b)' => Holding(b)) /\ (Owed(b)' => Owed(b))
  BY <1>1, <1>2, StayKeeps
<1>4. Past'
  BY <1>1 DEF Past
<1>5. Locked'
  <2>1. CASE Lockless
    BY <1>3, <2>1 DEF Locked
  <2>2. CASE ~Lockless /\ (Available \/ lock = Installer)
    <3>1. \A b \in Attempts : ~Holding(b)' /\ ~Owed(b)'
      BY <1>3, <2>2, NobodyHolds DEF IInv
    <3>2. install' = "staging" => lock' = Installer
      BY DEF Installs, InstallStages, InstallPrepares, InstallActivates
    <3>. QED
      BY <3>1, <3>2 DEF Locked, Installer
  <2>3. CASE ~Lockless /\ ~(Available \/ lock = Installer)
    <3>1. lock' = lock /\ install' # "staging"
      BY <2>3 DEF Installs, InstallStages, InstallPrepares, InstallActivates, IInv, Locked
    <3>. QED
      BY <1>3, <2>3, <3>1 DEF IInv, Locked, Helper
  <2>. QED
    BY <2>1, <2>2, <2>3
<1>6. Standing'
  <2>1. CASE InstallStages
    BY <1>1, <2>1 DEF InstallStages, Standing
  <2>2. CASE InstallPrepares
    BY <1>1, <2>2 DEF InstallPrepares, Standing
  <2>3. CASE InstallActivates
    BY <1>1, <2>3 DEF InstallActivates, IInv, Standing, Free
  <2>. QED
    BY <2>1, <2>2, <2>3 DEF Installs
<1>. QED
  BY <1>1, <1>3, <1>4, <1>5, <1>6 DEF IInv

-----------------------------------------------------------------------------
(* The invariant, and what follows of the system.                          *)

LEMMA InitHolds == Init => IInv
<1>. SUFFICES ASSUME Init PROVE IInv
  OBVIOUS
<1>1. \A a \in Attempts : attempt[a] = NoAttempt
  BY DEF Init
<1>2. NoAttempt \in AttemptType
  BY DEF NoAttempt, AttemptType
<1>3. TypeOK
  <2>1. surface \in [Surfaces -> {"closed", "open", "asking", "leaving"}]
    BY DEF Init
  <2>2. /\ attempt \in [Attempts -> AttemptType] /\ core \in {"off", "idle", "busy", "draining"}
        /\ sync \in {"absent", "off", "on"} /\ troubles \in 0 .. MaxTroubles
    BY <1>2 DEF Init
  <2>. QED
    BY <2>1, <2>2 DEF Init, TypeOK
<1>4. Progressed
  <2>1. /\ NoAttempt.launcher = "none" /\ NoAttempt.outcome = "none" /\ NoAttempt.end = "none"
        /\ NoAttempt.helper = "none" /\ NoAttempt.by = "nobody" /\ NoAttempt.partly = FALSE
    BY DEF NoAttempt
  <2>. QED
    BY <1>1, <2>1 DEF Progressed, Progress
<1>5. Locked
  BY <1>1 DEF Init, Locked, Holding, Owed, NoAttempt, Stopping, Removing
<1>6. Noted /\ Past
  BY <1>1 DEF Noted, Past, NoAttempt, Removing
<1>7. Standing
  BY DEF Init, Standing
<1>. QED
  BY <1>3, <1>4, <1>5, <1>6, <1>7 DEF IInv

LEMMA StutterKeeps == IInv /\ UNCHANGED vars => IInv'
<1>. SUFFICES ASSUME IInv, UNCHANGED vars PROVE IInv'
  OBVIOUS
<1>1. UNCHANGED <<windows, attempt, lock, surface, core, service, sync, files, log, sweeper,
                  install, staged, unguarded, troubles>>
  BY DEF vars
<1>2. TypeOK'
  BY <1>1 DEF IInv, TypeOK, Helper, Free, Installer
<1>3. AllStay
  BY <1>1 DEF AllStay, Stays
<1>4. Progressed' /\ Noted' /\ Locked' /\ Past'
  BY <1>1, <1>3, StayKeeps, StayLocked, StayPast DEF Waited
<1>5. Standing'
  BY <1>1 DEF IInv, Standing, Free
<1>. QED
  BY <1>2, <1>4, <1>5 DEF IInv

LEMMA NextKeeps == IInv /\ Next => IInv'
<1>. SUFFICES ASSUME IInv, Next PROVE IInv'
  OBVIOUS
<1>1. ASSUME NEW a \in Attempts, NEW request \in Requests[a], Asks(a, request) PROVE IInv'
  BY <1>1, AsksKeeps
<1>2. ASSUME NEW a \in Attempts, LauncherStep(a) PROVE IInv'
  BY <1>2, LauncherStopsKeeps, SpawnsKeeps, LocksKeeps, ExitsKeeps DEF LauncherStep
<1>3. ASSUME NEW a \in Attempts, HelperStep(a) PROVE IInv'
  BY <1>3, HelperStopsKeeps, WaitsKeeps, RemovesKeeps DEF HelperStep
<1>4. ASSUME NEW a \in Attempts, RemovesNot(a) PROVE IInv'
  BY <1>4, RemovesNotKeeps
<1>5. ASSUME NEW a \in Attempts, NEW outcome \in {"died", "uncertain"}, LauncherDies(a, outcome)
      PROVE  IInv'
  BY <1>5, LauncherDiesKeeps
<1>6. ASSUME NEW a \in Attempts, HelperDies(a) PROVE IInv'
  BY <1>6, HelperDiesKeeps
<1>7. CASE \/ \E a \in Attempts : Learns(a)
           \/ \E s \in Surfaces : Closes(s) \/ Opens(s)
           \/ CoreWorks
  BY <1>7, SurfacesKeep
<1>8. CASE Sweeps
  BY <1>8, SweepsKeeps
<1>9. CASE Installs
  BY <1>9, InstallsKeeps
<1>. QED
  BY <1>1, <1>2, <1>3, <1>4, <1>5, <1>6, <1>7, <1>8, <1>9 DEF Next

\* The invariant from which the rest follows holds of the system.
THEOREM IInvHolds == Spec => []IInv
<1>1. IInv /\ [Next]_vars => IInv'
  BY NextKeeps, StutterKeeps
<1>. QED
  BY <1>1, InitHolds, PTL DEF Spec

LEMMA IInvSaysAlone == IInv => UninstallInv
<1>. SUFFICES ASSUME IInv PROVE UninstallInv
  OBVIOUS
<1>1. RemovalIsAlone
  BY DEF IInv, Locked, Holding, RemovalIsAlone
<1>2. RefusedIsKept
  BY DEF IInv, Progressed, Progress, RefusedIsKept
<1>. QED
  BY <1>1, <1>2 DEF IInv, UninstallInv

\* Whoever removes program, logs, data or runtime state (startHeldUninstall's
\* plan) has the installation lock, unless a launcher died before it took it, and
\* an uninstall that was refused removes nothing: however many launchers, helpers
\* and installers run, give up and die.
THEOREM RemovalHasTheLock == Spec => []UninstallInv
BY IInvHolds, IInvSaysAlone, PTL

LEMMA IInvSaysReported == IInv => LeftoversAreReported
<1>. SUFFICES ASSUME IInv, NEW a \in Attempts
              PROVE  /\ attempt[a].end = "failed" =>
                          \/ log # "none"
                          \/ \E b \in Attempts \ {a} :
                               attempt[b].helper \in Removing \cup {"gone"} /\ attempt[b].end # "failed"
                     /\ attempt[a].end = "removed" /\ sweeper = "none" /\ install \in {"none", "waiting"}
                          => files \cap {"program", "launcher"} = {} \/ log # "none"
  BY DEF LeftoversAreReported
<1>. QED
  BY DEF IInv, Noted, Past, Waited

\* What a removal that ended leaves of the program, and a removal that failed, is
\* in the failure log, unless a later removal took the log with it.
THEOREM LeftoversAreTold == Spec => []LeftoversAreReported
BY IInvHolds, IInvSaysReported, PTL

LEMMA IInvSaysSurvives == IInv => ReinstallSurvives
BY DEF IInv, Standing, ReinstallSurvives

\* A product installed while another is removed stays, program and launcher,
\* whenever every removal it met had the lock.
THEOREM ReinstallStays == Spec => []ReinstallSurvives
BY IInvHolds, IInvSaysSurvives, PTL
=============================================================================
