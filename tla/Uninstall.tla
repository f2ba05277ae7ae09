------------------------------ MODULE Uninstall ------------------------------
(***************************************************************************)
(* Taking Cinba off a computer (scripts/product-uninstall.ts,              *)
(* packages/installer/src/uninstall.ts, the terminal's and Desktop's       *)
(* halves of it).  A launcher stops the services, spawns a copy of itself  *)
(* outside the program, takes the installation lock in that helper's name  *)
(* and exits; the helper waits for the launcher and for the interface that *)
(* asked, stops what came back meanwhile and removes the files, the        *)
(* directory that holds the lock among the last.  Between two steps a      *)
(* process may die, an interface be opened again, Core take up work, or an *)
(* installer wait for the lock.                                            *)
(***************************************************************************)
EXTENDS Naturals

CONSTANTS
  Attempts,     \* uninstalls, by number
  Requests,     \* attempt -> who may ask for it, and whether for the data too
  MaxTroubles   \* bound: deaths, timeouts, steps that fail, interfaces opened

ASSUME UninstallAssumption ==
  /\ Attempts \subseteq Nat \ {0} /\ MaxTroubles \in Nat
  /\ DOMAIN Requests = Attempts
  /\ \A a \in Attempts :
       Requests[a] \subseteq [by : {"command", "tui", "desktop"}, purge : BOOLEAN]

VARIABLES
  windows,   \* the launcher is in the program directory, and files may be held open
  attempt,   \* attempt -> its launcher, its helper and how they fare
  lock,      \* the process the installation lock names
  surface,   \* the interfaces a person may have open
  core, service, sync,  \* Core, whether it is a service, and the Sync service
  files,     \* of the product: program, launcher, state, data
  log,       \* the failure log of the helper, in the log directory
  sweeper,   \* what the shell that finishes the removal (Windows) is to remove
  install,   \* an installation of the product
  staged,    \* it has a ready candidate among the releases, and its record
  unguarded, \* history: a removal without the lock met an installer at work
  troubles

vars == <<windows, attempt, lock, surface, core, service, sync, files, log, sweeper,
          install, staged, unguarded, troubles>>
productVars == <<surface, core, service, sync>>
fileVars    == <<files, log, sweeper, unguarded>>
installVars == <<install, staged>>
pastVars    == <<windows, troubles>>

Surfaces == {"tui", "desktop"}
Stopping == {"check", "sync", "core", "stop"}
Removing == {"program", "logs", "data", "state", "launcher"}

\* blocked: the interface that asked still runs; partly: a file stayed.
AttemptType == [by : Surfaces \cup {"command", "nobody"}, purge : BOOLEAN, blocked : BOOLEAN,
                launcher : Stopping \cup {"none", "spawn", "lock", "exit", "gone"},
                outcome : {"none", "refused", "accepted", "died", "uncertain"},
                helper : Stopping \cup Removing
                         \cup {"none", "parent", "surface", "held", "gone"},
                partly : BOOLEAN, end : {"none", "removed", "failed"}]
NoAttempt == [by |-> "nobody", purge |-> FALSE, blocked |-> FALSE, launcher |-> "none",
              outcome |-> "none", helper |-> "none", partly |-> FALSE, end |-> "none"]

Free      == <<"free", 0>>
Installer == <<"installer", 0>>
Helper(a) == <<"helper", a>>

TypeOK ==
  /\ {windows, staged, unguarded} \subseteq BOOLEAN
  /\ attempt \in [Attempts -> AttemptType]
  /\ lock \in {Free, Installer} \cup {Helper(a) : a \in Attempts}
  /\ surface \in [Surfaces -> {"closed", "open", "asking", "leaving"}]
  /\ core \in {"off", "idle", "busy", "draining"}
  /\ service \in {"on-demand", "background"} /\ sync \in {"absent", "off", "on"}
  /\ files \subseteq {"program", "launcher", "state", "data"}
  /\ log \in {"none", "written", "reported"} /\ sweeper \in {"none", "aside", "inplace"}
  /\ install \in {"none", "waiting", "staging", "prepared", "done", "failed", "old"}
  /\ troubles \in 0 .. MaxTroubles

Init ==
  /\ windows \in BOOLEAN
  /\ attempt = [a \in Attempts |-> NoAttempt] /\ lock = Free
  /\ surface \in {[s \in Surfaces |-> IF s \in ss THEN "open" ELSE "closed"] :
                    ss \in {{}, Surfaces}}
  /\ core = IF \E s \in Surfaces : surface[s] = "open" THEN "idle" ELSE "off"
  /\ service \in {"on-demand", "background"}
  /\ sync = IF service = "background" THEN "on" ELSE "absent"
  /\ files = {"program", "launcher", "state", "data"}
  /\ log = "none" /\ sweeper = "none" /\ install \in {"none", "waiting"}
  /\ staged = FALSE /\ unguarded = FALSE
  /\ troubles = 0

Trouble == troubles < MaxTroubles /\ troubles' = troubles + 1
NoTrouble == UNCHANGED troubles

\* MUTANT of Available: the owner is taken to be the launcher.
AvailableOfLauncher ==
  lock = Free \/ \E a \in Attempts : lock = Helper(a) /\ attempt[a].launcher = "gone"

\* acquireInstallationLock succeeds: nobody has it, or a process that is dead.
Available == lock = Free \/ \E a \in Attempts : lock = Helper(a) /\ attempt[a].helper = "gone"

-----------------------------------------------------------------------------
(* What either process does to Core and Sync (stopProductForUninstall);    *)
(* p is "launcher" or "helper".                                            *)

Advances(a, p, pc) == attempt' = [attempt EXCEPT ![a][p] = pc]

\* MUTANT of Fails: the helper that was spawned is left to itself.
FailsAlone(a, p) ==
  /\ attempt' = [attempt EXCEPT ![a] =
       IF p = "launcher" THEN [@ EXCEPT !.launcher = "gone", !.outcome = "refused"]
       ELSE [@ EXCEPT !.helper = "gone", !.end = "failed"]]
  /\ log' = IF p = "helper" THEN "written" ELSE log

\* The launcher says why and takes its helper with it; the helper writes it down.
Fails(a, p) ==
  /\ attempt' = [attempt EXCEPT ![a] =
       IF p = "launcher"
       THEN [@ EXCEPT !.launcher = "gone", !.outcome = "refused",
                      !.helper = IF attempt[a].helper = "none" THEN "none" ELSE "gone"]
       ELSE [@ EXCEPT !.helper = "gone", !.end = "failed"]]
  /\ log' = IF p = "helper" THEN "written" ELSE log

\* inspectLocalCore: a Core that runs as a service is nobody's to stop here.
Managed == core # "off" /\ service = "on-demand"
Working == Managed /\ core \in {"busy", "draining"}

\* A running Desktop holds its program files open, unless it is the one that asks.
ClosesDesktop(a, p) == windows /\ (p = "helper" \/ attempt[a].by # "desktop")

Closed(ss) ==
  /\ surface' = [s \in Surfaces |-> IF s \in ss THEN "closed" ELSE surface[s]]
  /\ attempt' = [a \in Attempts |->
       IF attempt[a].by \in ss THEN [attempt[a] EXCEPT !.blocked = FALSE] ELSE attempt[a]]

ChecksWork(a, p) ==
  /\ attempt[a][p] = "check"
  /\ \/ /\ ~Working /\ (p = "launcher" /\ attempt[a].by # "command" => attempt[a].blocked)
        /\ surface' = IF ClosesDesktop(a, p) THEN [surface EXCEPT !["desktop"] = "closed"]
                      ELSE surface
        /\ attempt' = [b \in Attempts |->
             [attempt[b] EXCEPT ![p] = IF a = b THEN "sync" ELSE @,
                                !.blocked = @ /\ ~(ClosesDesktop(a, p) /\ attempt[b].by = "desktop")]]
        /\ NoTrouble /\ UNCHANGED log
     \/ /\ Working \/ (p = "launcher" /\ attempt[a].by # "command" /\ ~attempt[a].blocked)
        /\ Fails(a, p) /\ NoTrouble /\ UNCHANGED surface
     \/ ClosesDesktop(a, p) /\ Trouble /\ Fails(a, p) /\ UNCHANGED surface
  /\ UNCHANGED <<windows, lock, core, service, sync, files, sweeper, unguarded>>
  /\ UNCHANGED installVars

\* The helper's lock serves for the modes it sets; the launcher takes it for each.
MaySetMode(p) == p = "helper" \/ Available

LowersSync(a, p) ==
  /\ attempt[a][p] = "sync"
  /\ \/ sync = "absent" /\ Advances(a, p, "core") /\ NoTrouble /\ UNCHANGED <<sync, log>>
     \/ /\ sync # "absent" /\ MaySetMode(p)
        /\ sync' = "off" /\ Advances(a, p, "core") /\ NoTrouble /\ UNCHANGED log
     \/ sync # "absent" /\ ~MaySetMode(p) /\ Fails(a, p) /\ NoTrouble /\ UNCHANGED sync
     \/ sync # "absent" /\ Trouble /\ Fails(a, p) /\ UNCHANGED sync
  /\ UNCHANGED <<windows, lock, surface, core, service, files, sweeper, unguarded>>
  /\ UNCHANGED installVars

\* Core becomes on-demand; one that serves in the background is told to stop,
\* and has not stopped in time while it works.
LowersCore(a, p) ==
  /\ attempt[a][p] = "core"
  /\ \/ ~MaySetMode(p) /\ Fails(a, p) /\ UNCHANGED <<core, service>>
     \/ /\ MaySetMode(p) /\ (service = "background" => core \in {"off", "idle"})
        /\ service' = "on-demand"
        /\ core' = IF service = "background" THEN "off" ELSE core
        /\ Advances(a, p, "stop") /\ UNCHANGED log
     \/ /\ MaySetMode(p) /\ service = "background" /\ core \in {"busy", "draining"}
        /\ core' = "draining" /\ Fails(a, p) /\ UNCHANGED service
  /\ UNCHANGED <<lock, surface, sync, files, sweeper, unguarded>>
  /\ UNCHANGED installVars /\ UNCHANGED pastVars

StopsCore(a, p) ==
  /\ attempt[a][p] = "stop"
  /\ \/ /\ ~Working /\ core' = IF Managed THEN "off" ELSE core
        /\ Advances(a, p, IF p = "launcher" THEN "spawn" ELSE "program") /\ UNCHANGED log
     \/ Working /\ core' = "draining" /\ Fails(a, p)
  /\ UNCHANGED <<lock, surface, service, sync, files, sweeper, unguarded>>
  /\ UNCHANGED installVars /\ UNCHANGED pastVars

StopsProduct(a, p) ==
  ChecksWork(a, p) \/ LowersSync(a, p) \/ LowersCore(a, p) \/ StopsCore(a, p)

-----------------------------------------------------------------------------
(* The launcher.                                                           *)

\* cinba uninstall in a terminal, or the dialog of an interface confirmed.
Asks(a, request) ==
  /\ attempt[a] = NoAttempt /\ \A b \in Attempts : b < a => attempt[b] # NoAttempt
  /\ "launcher" \in files
  /\ request.by \in Surfaces => surface[request.by] = "open"
  /\ attempt' = [attempt EXCEPT ![a] = [@ EXCEPT !.by = request.by, !.purge = request.purge,
       !.blocked = request.by \in Surfaces, !.launcher = "check"]]
  /\ surface' = [s \in Surfaces |-> IF s = request.by THEN "asking" ELSE surface[s]]
  /\ UNCHANGED <<lock, core, service, sync>> /\ UNCHANGED fileVars
  /\ UNCHANGED installVars /\ UNCHANGED pastVars

Spawns(a) ==
  /\ attempt[a].launcher = "spawn"
  /\ \/ /\ attempt' = [attempt EXCEPT ![a].launcher = "lock", ![a].helper = "parent"]
        /\ NoTrouble /\ UNCHANGED log
     \/ Trouble /\ Fails(a, "launcher")
  /\ UNCHANGED <<windows, lock, files, sweeper, unguarded>>
  /\ UNCHANGED productVars /\ UNCHANGED installVars

\* The lock is the helper's from the start, and is never released.  What was
\* installed before is what it removes.
Locks(a) ==
  /\ attempt[a].launcher = "lock"
  /\ \/ /\ Available /\ lock' = Helper(a) /\ Advances(a, "launcher", "exit")
        /\ install' = IF install = "done" THEN "old" ELSE install
        /\ UNCHANGED log
     \/ ~Available /\ Fails(a, "launcher") /\ UNCHANGED <<lock, install>>
  /\ UNCHANGED <<files, sweeper, unguarded, staged>>
  /\ UNCHANGED productVars /\ UNCHANGED pastVars

Exits(a) ==
  /\ attempt[a].launcher = "exit"
  /\ attempt' = [attempt EXCEPT ![a].launcher = "gone", ![a].outcome = "accepted"]
  /\ UNCHANGED lock /\ UNCHANGED productVars /\ UNCHANGED fileVars
  /\ UNCHANGED installVars /\ UNCHANGED pastVars

LauncherStep(a) == StopsProduct(a, "launcher") \/ Spawns(a) \/ Locks(a) \/ Exits(a)

\* It is killed, or the interface that waits for it loses its patience.
LauncherDies(a, outcome) ==
  /\ attempt[a].launcher \notin {"none", "gone"} /\ Trouble
  /\ outcome = "uncertain" => attempt[a].blocked
  /\ attempt' = [attempt EXCEPT ![a].launcher = "gone", ![a].outcome = outcome]
  /\ UNCHANGED <<windows, lock>> /\ UNCHANGED productVars /\ UNCHANGED fileVars
  /\ UNCHANGED installVars

-----------------------------------------------------------------------------
(* The helper.                                                             *)

\* MUTANT of GivesUp: it waits for as long as it takes.
Waits(a) == FALSE

\* waitForParentExit's 30 s are over.
GivesUp(a) ==
  \/ attempt[a].helper = "parent" /\ attempt[a].launcher # "gone"
  \/ attempt[a].helper = "surface" /\ attempt[a].blocked

\* A helper that a command line asked for goes straight to the removal.
HelperWaits(a) ==
  /\ \/ GivesUp(a) /\ Fails(a, "helper")
     \/ /\ attempt[a].helper = "parent" /\ attempt[a].launcher = "gone"
        /\ Advances(a, "helper", IF attempt[a].by = "command" THEN "program" ELSE "surface")
        /\ UNCHANGED log
     \/ /\ attempt[a].helper = "surface" /\ ~attempt[a].blocked
        /\ Advances(a, "helper", "held") /\ UNCHANGED log
     \/ attempt[a].helper = "held" /\ lock = Helper(a)
        /\ Advances(a, "helper", "check") /\ UNCHANGED log
     \/ attempt[a].helper = "held" /\ lock # Helper(a) /\ Fails(a, "helper")
  /\ UNCHANGED <<lock, files, sweeper, unguarded>>
  /\ UNCHANGED productVars /\ UNCHANGED installVars /\ UNCHANGED pastVars

\* The launcher goes with the program directory it is in.
ProgramFiles == IF windows THEN {"program", "launcher"} ELSE {"program"}

\* The order of the plan: runtime state, which holds the lock, and the launcher last.
After(a) ==
  [program |-> "logs", logs |-> IF attempt[a].purge THEN "data" ELSE "state",
   data |-> "state", state |-> IF windows THEN "gone" ELSE "launcher", launcher |-> "gone"]

InstallerAtWork == install \in {"staging", "prepared", "done"}

\* MUTANT of Result: what could not be removed is forgotten.
ResultAnyway(partly) == "removed"

Result(partly) == IF partly THEN "failed" ELSE "removed"

\* A launcher of the command line died before it took the lock for its helper,
\* which does not look whether it has it.
Lockless ==
  \E a \in Attempts : attempt[a].by = "command" /\ attempt[a].outcome = "died"

\* On to the next target; after the last one what failed is recorded.
Proceeds(a, failed) ==
  LET now == attempt[a].helper
      partly == attempt[a].partly \/ failed
      over == After(a)[now] = "gone" IN
  /\ attempt' = [attempt EXCEPT ![a].helper = After(a)[now], ![a].partly = partly,
       ![a].end = IF over THEN Result(partly) ELSE @]
  /\ unguarded' = (unguarded \/ (InstallerAtWork /\ (Lockless \/ now = "launcher")))
  /\ log' = IF over /\ Result(partly) = "failed" THEN "written"
            ELSE IF now = "logs" /\ ~failed THEN "none" ELSE log

\* What goes with a target of the plan; files Windows holds are moved aside or
\* left where they are, for a shell to remove.
Target(pc) == IF pc = "program" THEN ProgramFiles ELSE {pc}

Removes(a) ==
  /\ attempt[a].helper \in Removing
  /\ Proceeds(a, FALSE)
  /\ files' = files \ Target(attempt[a].helper)
  /\ lock' = IF attempt[a].helper = "state" THEN Free ELSE lock
  /\ staged' = (staged /\ attempt[a].helper \notin {"program", "state"})
  /\ UNCHANGED <<sweeper, install>> /\ UNCHANGED productVars /\ UNCHANGED pastVars

RemovesNot(a) ==
  /\ attempt[a].helper \in Removing
  /\ IF windows /\ attempt[a].helper = "program"
     THEN /\ Proceeds(a, FALSE) /\ NoTrouble
          /\ \/ sweeper' = "aside" /\ files' = files \ ProgramFiles /\ staged' = FALSE
             \/ sweeper' = "inplace" /\ UNCHANGED <<files, staged>>
     ELSE Proceeds(a, TRUE) /\ Trouble /\ UNCHANGED <<files, sweeper, staged>>
  /\ UNCHANGED <<windows, lock, install>> /\ UNCHANGED productVars

HelperStep(a) == StopsProduct(a, "helper") \/ HelperWaits(a) \/ Removes(a)

HelperDies(a) ==
  /\ attempt[a].helper \notin {"none", "gone"} /\ Trouble
  /\ Advances(a, "helper", "gone")
  /\ UNCHANGED <<windows, lock>> /\ UNCHANGED productVars /\ UNCHANGED fileVars
  /\ UNCHANGED installVars

\* The shell tries for two minutes, whoever has the lock by then; the helper is
\* done with the rest long before.
Sweeps ==
  /\ sweeper # "none" /\ sweeper' = "none"
  /\ \/ /\ files' = IF sweeper = "inplace" THEN files \ ProgramFiles ELSE files
        /\ unguarded' = (unguarded \/ (sweeper = "inplace" /\ InstallerAtWork))
        /\ NoTrouble /\ UNCHANGED log
     \/ /\ Trouble /\ \A a \in Attempts : attempt[a].helper \notin Removing
        /\ log' = "written" /\ UNCHANGED <<files, unguarded>>
  /\ UNCHANGED <<windows, attempt, lock>> /\ UNCHANGED productVars
  /\ UNCHANGED installVars

-----------------------------------------------------------------------------
(* The interfaces and Core.                                                *)

\* A terminal that lost its Core while it waited cannot go on after a refusal.
Learns(a) ==
  /\ attempt[a].blocked /\ surface[attempt[a].by] = "asking" /\ attempt[a].outcome # "none"
  /\ \A b \in Attempts : b > a => attempt[b].by # attempt[a].by
  /\ surface' = [surface EXCEPT ![attempt[a].by] =
       IF \/ attempt[a].outcome \in {"accepted", "uncertain"}
          \/ attempt[a].by = "tui" /\ core = "off"
       THEN "leaving" ELSE "open"]
  /\ UNCHANGED <<attempt, lock, core, service, sync>> /\ UNCHANGED fileVars
  /\ UNCHANGED installVars /\ UNCHANGED pastVars

\* Its process ends: it left, a person closed it while it waited, or its Core is
\* gone (a terminal, unless it waits for the launcher that stopped Core).
Closes(s) ==
  /\ surface[s] \in {"asking", "leaving"} \/ (surface[s] = "open" /\ s = "tui" /\ core = "off")
  /\ Closed({s})
  /\ UNCHANGED <<lock, core, service, sync>> /\ UNCHANGED fileVars
  /\ UNCHANGED installVars /\ UNCHANGED pastVars

\* A person opens one; it starts Core, and tells of the last failure.
Opens(s) ==
  /\ surface[s] = "closed" /\ {"program", "launcher"} \subseteq files /\ core # "draining"
  /\ Trouble /\ \E a \in Attempts : attempt[a].helper # "none"
  /\ surface' = [surface EXCEPT ![s] = "open"]
  /\ core' = IF core = "off" THEN "idle" ELSE core
  /\ files' = files \cup {"state"}
  /\ log' = IF log = "written" THEN "reported" ELSE log
  /\ UNCHANGED <<windows, attempt, lock, service, sync, sweeper, unguarded>>
  /\ UNCHANGED installVars

\* Core's own work, and the end of one that drains.
CoreWorks ==
  /\ \/ core = "idle" /\ core' = "busy" /\ \E s \in Surfaces : surface[s] = "open"
     \/ core = "busy" /\ core' = "idle"
     \/ core = "draining" /\ core' = "off"
  /\ UNCHANGED <<attempt, lock, surface, service, sync>> /\ UNCHANGED fileVars
  /\ UNCHANGED installVars /\ UNCHANGED pastVars

-----------------------------------------------------------------------------
(* An installation meanwhile (InstallTransaction tells its whole story).   *)

InstallOnly == UNCHANGED <<attempt, log, sweeper, unguarded>> /\ UNCHANGED productVars
               /\ UNCHANGED pastVars

\* waitForInstallationIdle, then the candidate is staged under the lock.
InstallStages ==
  /\ install = "waiting" /\ Available
  /\ install' = "staging" /\ lock' = Installer
  /\ files' = files \cup {"state"} /\ UNCHANGED staged /\ InstallOnly

\* The lock is released, and stable files are put in place without it.
InstallPrepares ==
  /\ install = "staging" /\ install' = "prepared" /\ lock' = Free /\ staged' = TRUE
  /\ files' = files \cup {"launcher"} /\ InstallOnly

\* The candidate becomes the program, if it is still there and the lock is to
\* be had; otherwise the stable files are put back as they were.
InstallActivates ==
  /\ install = "prepared"
  /\ IF staged /\ Available
     THEN install' = "done" /\ files' = files \cup {"program"} /\ lock' = Free
     ELSE /\ install' = "failed" /\ files' \in {files, files \ {"launcher"}}
          /\ UNCHANGED lock
  /\ staged' = FALSE /\ InstallOnly

Installs == InstallStages \/ InstallPrepares \/ InstallActivates

Next ==
  \/ \E a \in Attempts :
       \/ \E request \in Requests[a] : Asks(a, request)
       \/ LauncherStep(a) \/ HelperStep(a) \/ RemovesNot(a) \/ Learns(a)
       \/ \E outcome \in {"died", "uncertain"} : LauncherDies(a, outcome)
       \/ HelperDies(a)
  \/ \E s \in Surfaces : Closes(s) \/ Opens(s)
  \/ Sweeps \/ CoreWorks \/ Installs

\* Processes go on as long as they live; an interface hears of its launcher.
Fairness ==
  /\ \A a \in Attempts : WF_vars(LauncherStep(a)) /\ WF_vars(HelperStep(a)) /\ WF_vars(Learns(a))
  /\ WF_vars(Sweeps)

Spec == Init /\ [][Next]_vars /\ Fairness

-----------------------------------------------------------------------------
(* Properties.                                                             *)

\* "An installer waits instead of racing the removal": whoever removes program,
\* logs, data or runtime state has the lock, however launchers, helpers,
\* installers and second uninstalls interleave and die.
RemovalIsAlone ==
  \A a \in Attempts :
    attempt[a].helper \in Removing \ {"launcher"} => lock = Helper(a) \/ Lockless

\* A person who was told that the uninstall was refused has nothing removed by it.
RefusedIsKept ==
  \A a \in Attempts :
    attempt[a].outcome = "refused" =>
      attempt[a].helper \in {"none", "gone"} /\ attempt[a].end # "removed"

\* The two together with the types.
UninstallInv == TypeOK /\ RemovalIsAlone /\ RefusedIsKept

\* A removal that ends leaves no program behind without saying so in the log,
\* which the next launch reports: not even what another process wrote or could
\* not remove meanwhile.  (A second uninstall removes the log of the first.)
LeftoversAreReported ==
  \A a \in Attempts :
    /\ attempt[a].end = "failed" =>
         \/ log # "none"
         \/ \E b \in Attempts \ {a} :
              attempt[b].helper \in Removing \cup {"gone"} /\ attempt[b].end # "failed"
    /\ attempt[a].end = "removed" /\ sweeper = "none" /\ install \in {"none", "waiting"}
         => files \cap {"program", "launcher"} = {} \/ log # "none"

\* A product that was installed while it was being removed is there in the end,
\* program and launcher, unless it met a removal without the lock: the launcher
\* goes after the lock, a shell (Windows) or a Lockless helper never had it.
ReinstallSurvives ==
  install = "done" /\ ~unguarded => {"program", "launcher"} \subseteq files

\* Every uninstall comes to an end, for there are finitely many: launchers and
\* helpers exit, whatever they wait for, and no interface is left waiting.
UninstallEnds ==
  []<>(/\ \A a \in Attempts :
            attempt[a].launcher \in {"none", "gone"} /\ attempt[a].helper \in {"none", "gone"}
       /\ \A s \in Surfaces : surface[s] # "asking")
=============================================================================
