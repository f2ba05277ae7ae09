------------------------------- MODULE SyncHost -------------------------------
(* The Sync Host of a machine: the operations that create, configure, set the *)
(* mode of and delete it, the service manager under them, the processes that  *)
(* serve it, and the Core that is connected to it on the way.                 *)
(*                                                                            *)
(* One operation runs at a time, under the installation lock; it is a record, *)
(* "job", that says how far it has come.  A wait of the code ends when what   *)
(* it waits for happens, or at its deadline (TimesOut), at any moment.  A     *)
(* server is one child process with its wrapper (runProductService): the      *)
(* wrapper writes the control files beside it, the child opens the store and  *)
(* then the port.  The two control files are one variable, the process they   *)
(* name.  The authority in the data directory is a number, new each time.     *)
(* Modelled with the signals of Linux and macOS; commands of the platform and *)
(* writes may fail, and the operation may die, anywhere (troubles).           *)
EXTENDS Naturals
CONSTANTS Origins, MaxHosts, MaxServers, MaxTroubles, MaxJobs
ASSUME BoundsAreNumbers ==
  MaxHosts \in Nat \ {0} /\ MaxServers \in Nat \ {0} /\ MaxTroubles \in Nat /\ MaxJobs \in Nat

VARIABLES
  config,       \* sync.json: the public origin, or None
  data,         \* the authority in the data directory, 0 if there is none
  approved,     \* the authorities that were bootstrapped
  record,       \* services.json, the part of Sync
  platform,     \* the registration, and whether it will start the service again
  server,       \* the server processes; one more than MaxServers cannot be started
  busy,         \* those with a request under way
  control,      \* the process sync-control.json and sync-runtime.json name, or 0
  core,         \* Core's connection
  job,          \* the operation under way
  hosts, troubles, jobs  \* history, for the bounds
diskVars == <<config, data, approved, record>>
serverVars == <<server, busy, control>>
countVars == <<hosts, troubles, jobs>>
vars == <<diskVars, serverVars, countVars, platform, core, job>>

None == "none"
ASSUME OriginsAreNamed == Origins # {} /\ None \notin Origins
Servers == 1..MaxServers
Modes == {"disabled", "on-demand", "background"}
\* beside: when it was started, the wrapper of another was yet to write its files (history).
Child(by, phase, written, beside) ==
  [by |-> by, phase |-> phase, written |-> written, wrapped |-> TRUE, failed |-> FALSE, beside |-> beside]
NoServer == Child(None, "none", FALSE, FALSE)
NoLink == [kind |-> None, host |-> 0, uses |-> "local"]
\* child: the server a create spawned.  enrolled, started, cleaning: create's
\* flags.  before: the mode to restore; target: the mode being applied.
Idle == [op |-> None, at |-> None, want |-> None, old |-> None, child |-> 0, before |-> None, target |-> None,
         enrolled |-> FALSE, started |-> FALSE, cleaning |-> FALSE, restoring |-> FALSE]

DefaultRecord == [mode |-> "disabled", desired |-> "disabled", phase |-> "stable", failure |-> FALSE]

NoHost ==
  /\ config = None /\ data = 0 /\ approved = {} /\ hosts = 0 /\ record = DefaultRecord
  /\ platform = [registered |-> FALSE, restart |-> FALSE]
  /\ server = [p \in Servers |-> NoServer] /\ control = 0 /\ core = NoLink
\* A host that was created before, on demand or in the background, and its Core.
AHost(mode, uses) ==
  /\ config = CHOOSE origin \in Origins : TRUE
  /\ data = 1 /\ approved = {1} /\ hosts = 1
  /\ record = [mode |-> mode, desired |-> mode, phase |-> "stable", failure |-> FALSE]
  /\ platform = [registered |-> mode = "background", restart |-> FALSE]
  /\ server = [p \in Servers |-> IF p = 1 /\ mode = "background"
                 THEN Child("service", "up", TRUE, FALSE) ELSE NoServer]
  /\ control = IF mode = "background" THEN 1 ELSE 0
  /\ core = [kind |-> "online", host |-> 1, uses |-> uses]
Init ==
  /\ NoHost \/ \E mode \in {"on-demand", "background"}, uses \in {"local", "settings", "keys"} : AHost(mode, uses)
  /\ busy = {} /\ job = Idle /\ troubles = 0 /\ jobs = 0

Alive(p) == server[p].phase \notin {"none", "gone"}
Listening(p) == server[p].phase \in {"up", "draining"}
\* ownedControl: the health probe answers, and so does the process the files name.
Owned(p) == control = p /\ Listening(p)
Running == \E p \in Servers : Listening(p)
\* A server whose authority is gone fails every request.
Healthy == Running /\ data # 0
Managed == \E p \in Servers : Owned(p)
ServiceRuns == \E p \in Servers : server[p].by = "service" /\ Alive(p)
Fresh(p) == \A q \in Servers : (server[q].by = None) <=> (q >= p)
Unwritten(p) == Alive(p) /\ server[p].by # "user" /\ server[p].wrapped /\ ~server[p].written
Spawned(by, p) == [server EXCEPT ![p] = Child(by, "starting", FALSE, \E q \in Servers : Unwritten(q))]
Spare == \E p \in Servers : Fresh(p)
NewServer == CHOOSE p \in Servers : Fresh(p)

Trouble == troubles < MaxTroubles /\ troubles' = troubles + 1

-----------------------------------------------------------------------------
(* The servers *)

\* runSyncServer: the store is opened, and created, before the port is taken.
Opens(p) ==
  /\ server[p].phase = "starting"
  /\ data # 0 \/ hosts < MaxHosts
  /\ data' = IF data = 0 THEN hosts + 1 ELSE data
  /\ hosts' = IF data = 0 THEN hosts + 1 ELSE hosts
  /\ server' = IF Running THEN [server EXCEPT ![p].phase = "left", ![p].failed = TRUE]
                          ELSE [server EXCEPT ![p].phase = "up"]
  /\ UNCHANGED <<config, approved, record, platform, busy, control, core, job, troubles, jobs>>

\* runProductService writes the files as soon as it has spawned the child.
WritesControl(p) ==
  /\ Unwritten(p) /\ control' = p /\ server' = [server EXCEPT ![p].written = TRUE]
  /\ UNCHANGED <<diskVars, busy, platform, core, job, countVars>>

RequestArrives(p) ==
  /\ server[p].phase = "up" /\ p \notin busy /\ busy' = busy \cup {p}
  /\ UNCHANGED <<diskVars, server, control, platform, core, job, countVars>>
RequestEnds(p) ==
  /\ p \in busy /\ busy' = busy \ {p}
  /\ UNCHANGED <<diskVars, server, control, platform, core, job, countVars>>

\* requestStop: closeSyncServer lets the requests under way end.
Closes(p) ==
  /\ server[p].phase = "draining"
  /\ server' = [server EXCEPT ![p].phase = "closing"]
  /\ UNCHANGED <<diskVars, busy, control, platform, core, job, countVars>>
Exits(p) ==
  /\ server[p].phase = "closing" /\ p \notin busy
  /\ server' = [server EXCEPT ![p].phase = "left"]
  /\ UNCHANGED <<diskVars, busy, control, platform, core, job, countVars>>
Crashed(p) == server' = [server EXCEPT ![p].phase = "left", ![p].failed = TRUE] /\ busy' = busy \ {p}
Crashes(p) ==
  /\ Listening(p) /\ Trouble /\ Crashed(p)
  /\ UNCHANGED <<diskVars, control, platform, core, job, hosts, jobs>>
\* The health route of a server whose state.json is gone throws, and nothing catches it.
MissesData(p) ==
  /\ Listening(p) /\ data = 0 /\ Crashed(p)
  /\ UNCHANGED <<diskVars, control, platform, core, job, countVars>>

\* removeManagedSyncControl
Removes(p) == IF control = p THEN 0 ELSE control
Leaves(p) ==
  /\ server[p].phase = "left"
  /\ server[p].written \/ ~server[p].wrapped \/ server[p].by = "user"
  /\ server' = [server EXCEPT ![p] = [Child(server[p].by, "gone", FALSE, FALSE) EXCEPT !.failed = server[p].failed]]
  /\ control' = IF server[p].wrapped /\ server[p].by # "user" THEN Removes(p) ELSE control
  /\ platform' = IF server[p].by = "service" /\ server[p].failed /\ platform.registered
                 THEN [platform EXCEPT !.restart = TRUE] ELSE platform
  /\ UNCHANGED <<diskVars, busy, core, job, countVars>>

\* Restart=on-failure, KeepAlive.
Restarts ==
  /\ platform.restart /\ Spare /\ ~ServiceRuns
  /\ server' = Spawned("service", NewServer) /\ platform' = [platform EXCEPT !.restart = FALSE]
  /\ UNCHANGED <<diskVars, busy, control, core, job, countVars>>

\* "cinba sync": a server in the foreground, unknown to the manager; Ctrl-C ends it.
Serves ==
  /\ Spare /\ Trouble
  /\ server' = Spawned("user", NewServer)
  /\ UNCHANGED <<diskVars, busy, control, platform, core, job, hosts, jobs>>
Interrupted(p) ==
  /\ server[p].by = "user" /\ server[p].phase = "up"
  /\ server' = [server EXCEPT ![p].phase = "closing"]
  /\ UNCHANGED <<diskVars, busy, control, platform, core, job, countVars>>

-----------------------------------------------------------------------------
(* Core, as far as it is concerned *)

Collects ==
  /\ core.kind = "pending" /\ Healthy /\ data = core.host /\ data \in approved
  /\ core' = [core EXCEPT !.kind = "approved"]
  /\ UNCHANGED <<diskVars, serverVars, platform, job, countVars>>
Downloads ==
  /\ core.kind = "approved" /\ Healthy /\ data = core.host
  /\ core' = [core EXCEPT !.kind = "online"]
  /\ UNCHANGED <<diskVars, serverVars, platform, job, countVars>>

-----------------------------------------------------------------------------
(* The operations: how they begin, end and fail *)

Created == config # None /\ data # 0
Starts(next) ==
  /\ job.op = None /\ jobs < MaxJobs /\ jobs' = jobs + 1 /\ job' = next
  /\ UNCHANGED <<diskVars, serverVars, platform, core, hosts, troubles>>

\* An orphaned or missing authority refuses every operation.
Create(origin) == config = None /\ data = 0 /\ Starts([Idle EXCEPT !.op = "create", !.at = "core", !.want = origin])
Delete == Created /\ Starts([Idle EXCEPT !.op = "delete", !.at = "prepare"])
SetMode(mode) == Created /\ Starts([Idle EXCEPT !.op = "mode", !.at = "mode", !.target = mode])
\* Only a Background service can be restarted; inspection sees no other server.
Configure(origin) ==
  /\ Created /\ config # origin /\ (ServiceRuns => record.mode = "background")
  /\ Starts([Idle EXCEPT !.op = "configure", !.at = IF ServiceRuns THEN "stop" ELSE "write",
                         !.want = origin, !.old = config, !.started = ServiceRuns])

\* A failed create cleans up, whatever fails in the cleaning; the others just end.
Throw ==
  IF job.op # "create" THEN Idle
  ELSE IF job.cleaning THEN [job EXCEPT !.at = "rmconfig"]
  ELSE [job EXCEPT !.cleaning = TRUE, !.at = IF job.enrolled THEN "cancel" ELSE IF job.started THEN "stop" ELSE "rmconfig"]
Fails == job' = Throw
At(at) == job.at = at
Goes(at) == job' = [job EXCEPT !.at = at]
Here == UNCHANGED <<hosts, troubles, jobs>>

\* What an operation does when the step it has just taken succeeded.
End == job' = Idle
ToMode(target) == job' = [job EXCEPT !.at = "mode", !.target = target]

-----------------------------------------------------------------------------
(* Create *)

EnsuresCore ==
  /\ At("core")
  /\ \/ Goes("spawn") /\ Here
     \/ Fails /\ Trouble /\ UNCHANGED <<hosts, jobs>>
  /\ UNCHANGED <<diskVars, serverVars, platform, core>>
Spawns ==
  /\ At("spawn") /\ Spare
  /\ server' = Spawned("create", NewServer)
  /\ job' = [job EXCEPT !.at = "ready", !.child = NewServer, !.started = TRUE]
  /\ Here /\ UNCHANGED <<diskVars, busy, control, platform, core>>
IsReady ==
  /\ At("ready")
  /\ \/ Managed /\ data # 0 /\ Goes("enroll")
     \/ server[job.child].phase = "gone" /\ server[job.child].failed /\ Fails
  /\ Here /\ UNCHANGED <<diskVars, serverVars, platform, core>>
\* beginEnrollment; an answer that is lost leaves Core with the enrolment.
Enrolls ==
  /\ At("enroll")
  /\ \/ /\ core.kind = None /\ Healthy /\ core' = [NoLink EXCEPT !.kind = "pending", !.host = data]
        /\ \/ Here /\ job' = [job EXCEPT !.at = "bootstrap", !.enrolled = TRUE]
           \/ Trouble /\ Fails /\ UNCHANGED <<hosts, jobs>>
     \/ (core.kind # None \/ ~Healthy) /\ Fails /\ Here /\ UNCHANGED core
  /\ UNCHANGED <<diskVars, serverVars, platform>>
\* bootstrapLocalHost approves this enrolment, in an authority nobody has used.
Bootstraps ==
  /\ At("bootstrap")
  /\ \/ /\ Managed /\ data # 0 /\ core.host = data /\ data \notin approved /\ approved' = approved \cup {data}
        /\ \/ Here /\ Goes("online")
           \/ Trouble /\ Fails /\ UNCHANGED <<hosts, jobs>>
     \/ ~(Managed /\ data # 0 /\ core.host = data /\ data \notin approved) /\ Fails /\ Here /\ UNCHANGED approved
  /\ UNCHANGED <<config, data, record, serverVars, platform, core>>
IsOnline ==
  /\ At("online") /\ core.kind = "online"
  /\ job' = [job EXCEPT !.at = "code", !.enrolled = FALSE]
  /\ Here /\ UNCHANGED <<diskVars, serverVars, platform, core>>
ReadsSetupCode ==
  /\ At("code")
  /\ \/ Managed /\ data # 0 /\ Goes("stop") /\ Here
     \/ ~(Managed /\ data # 0) /\ Fails /\ Here
     \/ Trouble /\ Fails /\ UNCHANGED <<hosts, jobs>>
  /\ UNCHANGED <<diskVars, serverVars, platform, core>>
WritesConfig ==
  /\ At("config")
  /\ \/ config' = job.want /\ ToMode("on-demand") /\ Here
     \/ Trouble /\ Fails /\ UNCHANGED <<hosts, jobs, config>>
  /\ UNCHANGED <<data, approved, record, serverVars, platform, core>>
\* The cancellation drops the connection, whatever it has become.
Cancels ==
  /\ At("cancel") /\ Goes("stop")
  /\ \/ core' = NoLink /\ Here
     \/ Trouble /\ UNCHANGED <<hosts, jobs, core>>
  /\ UNCHANGED <<diskVars, serverVars, platform>>
RemovesConfig == At("rmconfig") /\ config' = None /\ UNCHANGED data /\ Goes("rmdata")
Erases ==
  /\ \/ RemovesConfig /\ Here
     \/ At("rmdata") /\ config' = None /\ data' = 0 /\ End /\ Here
     \/ job.at \in {"rmconfig", "rmdata"} /\ Trouble /\ End /\ UNCHANGED <<hosts, jobs, config, data>>
  /\ UNCHANGED <<approved, record, serverVars, platform, core>>

-----------------------------------------------------------------------------
(* Delete: Core first keeps the settings it shares, and is disconnected *)

Preserves == core.uses = "local" \/ (core.uses = "settings" /\ core.kind = "online")
\* Mutant: what cannot be preserved is not waited for.
GoesOn == Goes("stop")
Unprepared == Fails
Prepares ==
  /\ At("prepare")
  /\ \/ (core.kind = None \/ Preserves) /\ core' = NoLink /\ Goes("stop") /\ Here
     \/ core.kind # None /\ ~Preserves /\ Unprepared /\ Here /\ UNCHANGED core
     \/ Trouble /\ Fails /\ UNCHANGED <<hosts, jobs, core>>
  /\ UNCHANGED <<diskVars, serverVars, platform>>

-----------------------------------------------------------------------------
(* Stopping the server: stopManagedSyncControl, and what the callers make of it *)

Stopped ==
  CASE job.op = "create"    -> Goes("await")
    [] job.op = "delete"    -> ToMode("disabled")
    [] job.op = "configure" -> Goes("write")
Unowned ==
  CASE job.op = "create"    -> Goes("await")
    [] job.op = "delete"    -> IF Running THEN Fails ELSE Stopped
    [] job.op = "configure" -> Fails
\* beginStop
SafeToStop(p) == server[p].phase = "up" /\ p \notin busy
Stops ==
  /\ At("stop")
  /\ \/ /\ Managed /\ SafeToStop(control)
        /\ server' = [server EXCEPT ![control].phase = "draining"] /\ Goes("exit") /\ Here
     \/ Managed /\ ~SafeToStop(control) /\ Fails /\ Here /\ UNCHANGED server
     \/ ~Managed /\ Unowned /\ Here /\ UNCHANGED server
     \* a probe that is not answered in time
     \/ /\ Running /\ Trouble /\ (IF job.op = "configure" THEN Fails ELSE Stopped)
        /\ UNCHANGED <<hosts, jobs, server>>
  /\ UNCHANGED <<diskVars, busy, control, platform, core>>
HasExited ==
  /\ At("exit") /\ ~Running /\ control = 0 /\ Stopped
  /\ Here /\ UNCHANGED <<diskVars, serverVars, platform, core>>
\* "await syncRun": no deadline.
Awaits ==
  /\ At("await") /\ server[job.child].phase = "gone"
  /\ IF server[job.child].failed THEN Fails ELSE Goes(IF job.cleaning THEN "rmconfig" ELSE "config")
  /\ Here /\ UNCHANGED <<diskVars, serverVars, platform, core>>

-----------------------------------------------------------------------------
(* The service manager *)

Matches(mode) ==
  IF mode = "background" THEN platform.registered /\ ServiceRuns /\ Healthy ELSE ~platform.registered
ModeSet == IF job.op = "delete" THEN Goes("rmconfig") ELSE End
BeginsMode ==
  /\ At("mode")
  /\ \/ /\ record.phase = "stable" /\ record.mode = job.target /\ Matches(job.target)
        /\ ModeSet /\ Here /\ UNCHANGED record
     \/ /\ ~(record.phase = "stable" /\ record.mode = job.target /\ Matches(job.target))
        /\ record' = [record EXCEPT !.desired = job.target, !.phase = "applying", !.failure = FALSE]
        /\ job' = [job EXCEPT !.at = "apply", !.before = record.mode] /\ Here
     \* prepareBackground, or the write
     \/ Trouble /\ Fails /\ UNCHANGED <<hosts, jobs, record>>
  /\ UNCHANGED <<config, data, approved, serverVars, platform, core>>

\* SIGTERM, to whatever runs; the platform starts it no more.
Terminated == [p \in Servers |->
  IF server[p].by # "service" \/ ~Alive(p) THEN server[p]
  ELSE [server[p] EXCEPT !.phase = IF @ = "left" THEN @ ELSE "closing", !.failed = FALSE]]
\* Mutant: a failed change is recorded without being undone.
NotUndone ==
  /\ record' = [record EXCEPT !.phase = "failed", !.failure = TRUE] /\ Fails
Undoes ==
  IF job.restoring \/ job.before = None
  THEN record' = [record EXCEPT !.mode = None, !.phase = "failed", !.failure = TRUE] /\ Fails
  ELSE job' = [job EXCEPT !.at = "apply", !.target = job.before, !.restoring = TRUE] /\ UNCHANGED record
\* applyPlatformMode: one step of it, the next that the platform's state calls for.
Applies ==
  /\ At("apply") /\ Here
  /\ IF job.target = "background" THEN
       \/ /\ ~platform.registered /\ platform' = [platform EXCEPT !.registered = TRUE]
          /\ UNCHANGED <<server, job, record>>
       \/ /\ platform.registered /\ ~ServiceRuns /\ Spare
          /\ server' = Spawned("service", NewServer) /\ platform' = [platform EXCEPT !.restart = FALSE]
          /\ Goes("health") /\ UNCHANGED record
       \/ platform.registered /\ ServiceRuns /\ Goes("health") /\ UNCHANGED <<server, platform, record>>
       \/ platform.registered /\ ~ServiceRuns /\ ~Spare /\ Undoes /\ UNCHANGED <<server, platform>>
     ELSE
       \/ ServiceRuns /\ server' = Terminated /\ platform' = [platform EXCEPT !.restart = FALSE] /\ Goes("halting")
          /\ UNCHANGED record
       \/ ~ServiceRuns /\ platform' = [registered |-> FALSE, restart |-> FALSE] /\ Goes("applied")
          /\ UNCHANGED <<server, record>>
  /\ UNCHANGED <<config, data, approved, busy, control, core>>
HasHalted == At("halting") /\ ~ServiceRuns /\ Goes("apply") /\ Here /\ UNCHANGED <<diskVars, serverVars, platform, core>>
\* For Sync the health of whoever has the port will do.
IsHealthy == At("health") /\ Healthy /\ Goes("applied") /\ Here /\ UNCHANGED <<diskVars, serverVars, platform, core>>

Applied ==
  /\ At("applied")
  /\ \/ /\ ~job.restoring /\ ModeSet /\ Here
        /\ record' = [mode |-> job.target, desired |-> job.target, phase |-> "stable", failure |-> FALSE]
     \/ /\ job.restoring /\ Fails /\ Here
        /\ record' = [record EXCEPT !.mode = job.before, !.phase = "failed", !.failure = TRUE]
     \* the write fails
     \/ Trouble /\ (IF job.restoring THEN Fails /\ UNCHANGED record ELSE Undoes) /\ UNCHANGED <<hosts, jobs>>
  /\ UNCHANGED <<config, data, approved, serverVars, platform, core>>
\* A command of the platform fails, before or after it took effect.
CommandFails ==
  /\ At("apply") /\ Trouble /\ Undoes
  /\ \E registered \in {platform.registered, job.target = "background"} :
       platform' = [registered |-> registered, restart |-> platform.restart /\ registered]
  /\ UNCHANGED <<config, data, approved, serverVars, core, hosts, jobs>>

-----------------------------------------------------------------------------
(* Configure *)

Writes ==
  /\ At("write")
  /\ \/ config' = job.want /\ (IF job.started THEN Goes("restart") ELSE End) /\ Here
     \/ Trouble /\ End /\ UNCHANGED <<hosts, jobs, config>>
  /\ UNCHANGED <<data, approved, record, serverVars, platform, core>>
\* Restarts with the new configuration, then with the old.
RestartFailed ==
  IF job.restoring THEN End /\ UNCHANGED config
  ELSE config' = job.old /\ job' = [job EXCEPT !.at = "restart", !.restoring = TRUE]
Restart ==
  /\ At("restart") /\ Here
  /\ \/ ServiceRuns /\ server' = Terminated /\ UNCHANGED job
     \/ ~ServiceRuns /\ Spare /\ server' = Spawned("service", NewServer) /\ Goes("verify")
  /\ platform' = [platform EXCEPT !.restart = FALSE]
  /\ UNCHANGED <<diskVars, busy, control, core>>
Verified == At("verify") /\ Healthy /\ End /\ Here /\ UNCHANGED <<diskVars, serverVars, platform, core>>

-----------------------------------------------------------------------------
(* Deadlines, and the end of the process *)

\* Mutant: the wait for the server's exit has none.
NoExitDeadline == {"ready", "online", "halting", "health", "restart", "verify"}
Deadlines == {"ready", "online", "exit", "halting", "health", "restart", "verify"}
TimesOut ==
  /\ job.at \in Deadlines /\ Here
  /\ CASE job.at \in {"ready", "online", "exit"} -> Fails /\ UNCHANGED <<config, record>>
       [] job.at \in {"halting", "health"}       -> Undoes /\ UNCHANGED config
       [] job.at \in {"restart", "verify"}       -> RestartFailed /\ UNCHANGED record
  /\ UNCHANGED <<data, approved, serverVars, platform, core>>

\* The server it spawned goes on, without its wrapper.
Dies ==
  /\ job.op # None /\ Trouble /\ job' = Idle
  /\ server' = [p \in Servers |-> IF server[p].by = "create" THEN [server[p] EXCEPT !.wrapped = FALSE] ELSE server[p]]
  /\ UNCHANGED <<diskVars, busy, control, platform, core, hosts, jobs>>

Manage ==
  \/ EnsuresCore \/ Spawns \/ IsReady \/ Enrolls \/ Bootstraps \/ IsOnline \/ ReadsSetupCode \/ WritesConfig
  \/ Cancels \/ Erases \/ Prepares \/ Stops \/ HasExited \/ Awaits
  \/ BeginsMode \/ Applies \/ HasHalted \/ IsHealthy \/ Applied \/ Writes \/ Restart \/ Verified \/ TimesOut
ServerStep(p) ==
  Opens(p) \/ WritesControl(p) \/ RequestEnds(p) \/ Closes(p) \/ Exits(p) \/ MissesData(p) \/ Leaves(p)
CoreStep == Collects \/ Downloads
Next ==
  \/ Manage \/ CommandFails \/ Dies \/ CoreStep \/ Restarts \/ Serves
  \/ \E p \in Servers : ServerStep(p) \/ RequestArrives(p) \/ Crashes(p) \/ Interrupted(p)
  \/ \E origin \in Origins : Create(origin) \/ Configure(origin)
  \/ \E mode \in Modes : SetMode(mode)
  \/ Delete
Spec == Init /\ [][Next]_vars /\ WF_vars(Manage) /\ \A p \in Servers : WF_vars(ServerStep(p))

-----------------------------------------------------------------------------
TypeOK ==
  /\ config \in Origins \cup {None} /\ data \in 0..MaxHosts /\ approved \subseteq 1..MaxHosts
  /\ record \in [mode : Modes \cup {None}, desired : Modes, phase : {"stable", "applying", "failed"}, failure : BOOLEAN]
  /\ platform \in [registered : BOOLEAN, restart : BOOLEAN]
  /\ server \in [Servers -> [by : {None, "create", "service", "user"}, written : BOOLEAN, wrapped : BOOLEAN,
                   failed : BOOLEAN, beside : BOOLEAN,
                   phase : {"none", "starting", "up", "draining", "closing", "left", "gone"}]]
  /\ busy \subseteq Servers /\ control \in {0} \cup Servers
  /\ core \in [kind : {None, "pending", "approved", "online"}, host : 0..MaxHosts, uses : {"local", "settings", "keys"}]

\* What services.json says is what the platform has, unless a change is being
\* made or was cut short, or the record itself says it does not know.
RecordTells ==
  record.phase # "applying" /\ record.mode # None => platform.registered = (record.mode = "background")
\* The configuration is written last and removed first: whenever the operation
\* dies, a host that looks created has its data, and nothing is registered for
\* one that is not there.
CommittedIsWhole == (config # None => data # 0) /\ (platform.registered => config # None)
\* The manager can tell and stop the server it started: while a managed server
\* and its wrapper live, the control files name it, once written, unless
\* another managed server was started since, or one that was started before
\* had not written them by then.
ControlNamesServer ==
  \A p \in Servers : server[p].written /\ server[p].wrapped /\ Alive(p) =>
     control = p \/ server[p].beside \/ \E q \in Servers : q > p /\ server[q].by \in {"create", "service"}
\* The invariant of the host's storage, service record and control files.
HostInv == TypeOK /\ RecordTells /\ CommittedIsWhole /\ ControlNamesServer

\* A delete removes no authority that Core is still linked to, whose keys or
\* settings it may depend on, whatever fails on the way and is tried again.
RemovedIsUnlinked == [][data # 0 /\ data' = 0 /\ core.host = data => job.op = "create"]_vars

\* Every operation ends, so the installation lock is released, but for a
\* create that waits for a server it could not ask to stop.
Hanging == job.at = "await" /\ Alive(job.child) /\ server[job.child].phase \in {"starting", "up"}
OperationsEnd == job.op # None ~> (job.op = None \/ Hanging)

=============================================================================
