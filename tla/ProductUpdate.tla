--------------------------- MODULE ProductUpdate ---------------------------
(***************************************************************************)
(* How an installed Cinba updates itself: the automatic check of Desktop   *)
(* and of the terminal interface, "cinba update", the lease and the        *)
(* handoff through which a launcher passes the installation to a detached  *)
(* copy of itself, and the helper that stops the services of the machine,  *)
(* installs, puts the services back and reopens what the user had closed.  *)
(*                                                                         *)
(* Processes are surfaces (a Desktop, a terminal), launchers (the process  *)
(* a surface starts for the handoff, or "cinba update" itself) and         *)
(* helpers, one launcher and one helper per attempt.  A process is named   *)
(* by its kind and its number, and a lease token by who drew it.           *)
(***************************************************************************)
EXTENDS Integers, FiniteSets

CONSTANTS
    Surfaces,       \* the interfaces that run on the machine
    Situations,     \* what Core and Sync may be at when an update begins
    MaxVersion,     \* bound: releases published
    MaxTries,       \* bound: handoffs begun
    MaxChecks,      \* bound: automatic checks that find themselves due
    MaxTroubles     \* bound: deaths, timeouts, failures, new releases

ASSUME UpdateAssumption ==
    /\ {MaxVersion, MaxTries, MaxChecks, MaxTroubles} \subseteq Nat
    /\ MaxVersion > 0

VARIABLES
    latest,     \* the newest release on the release server
    installed,  \* the version the installation names as current
    artifacts,  \* the versions whose artifact lies verified in the cache
    record,     \* update.json
    lease,      \* update-operation/owner.json
    takers,     \* processes about to remove a lease whose owner is dead
    raced,      \* one of them removed a lease it had not looked at
    pending,    \* handoff.json: the attempt that wrote it, or 0
    claimed,    \* the claimed-<id>.json files
    aged,       \* the attempts whose handoff is older than its lifetime
    terminals,  \* the surfaces that are terminals, the others are Desktops
    surface,    \* the surfaces
    auto,       \* the automatic check of each surface
    try,        \* the attempts: launcher and helper
    services,   \* Core and Sync, while a helper coordinates them
    before,     \* the snapshot it took of them
    duty,       \* what it owes to them
    failures,   \* what failed: "main" steps, "restore" steps
    checks, troubles

lock == <<lease, takers, raced>>
files == <<pending, claimed, aged>>
coordination == <<services, before, duty, failures>>
store == <<latest, installed, artifacts, terminals>>
vars == <<latest, installed, artifacts, record, lease, takers, raced, pending,
          claimed, aged, terminals, surface, auto, try, services, before, duty,
          failures, checks, troubles>>

-----------------------------------------------------------------------------
Versions == 1..MaxVersion
Tries == 1..MaxTries

Surface(s) == <<"surface", s>>
Launcher(a) == <<"launcher", a>>
Helper(a) == <<"helper", a>>
Processes == {Surface(s) : s \in Surfaces}
             \cup {Launcher(a) : a \in Tries} \cup {Helper(a) : a \in Tries}

Free == [phase |-> "free"]
Unreadable == [phase |-> "unreadable"]   \* the directory without its owner file
Owned(p) == [phase |-> "owned", pid |-> p, token |-> p]
Leases == {Free, Unreadable}
    \cup [phase : {"owned", "transferred", "claimed"}, pid : Processes, token : Processes]
HasOwner == lease.phase \in {"owned", "transferred", "claimed"}

\* The phases of update.json; "candidate" is 0 where the file has none, and a
\* failed phase keeps its candidate only for what the check does not redo.
Records == [phase : {"none", "checking", "downloading", "ready", "current", "failed"},
            current : 0..MaxVersion, candidate : 0..MaxVersion]
Ready(v) == record.phase = "ready" /\ record.candidate = v
Transient == record.phase \in {"checking", "downloading"}

\* A try nobody made yet, and the one process p begins for version v
\* (a surface's launcher knows the version, "cinba update" finds it).
NoTry == [by |-> "nobody", version |-> 0, at |-> "unborn", helper |-> "unborn", took |-> 0]
Begun(who, v) == [NoTry EXCEPT !.by = who, !.version = v, !.at = "begin"]
Cli == "cli"
Unmade == {a \in Tries : try[a] = NoTry /\ \A b \in Tries : b < a => try[b] # NoTry}

LauncherRuns(a) == try[a].at \notin {"unborn", "done", "failed", "dead"}
HelperRuns(a) == try[a].helper \notin {"unborn", "ended", "dead"}
Alive(p) ==
    CASE p[1] = "surface" -> surface[p[2]].up
      [] p[1] = "launcher" -> LauncherRuns(p[2])
      [] p[1] = "helper" -> HelperRuns(p[2])

\* The process that must be gone before attempt a is installed.
BlockerGone(a) ==
    IF try[a].by = Cli THEN ~LauncherRuns(a) ELSE ~surface[try[a].by].up

\* Core and Sync as the update sees them.  A local Core is the on-demand one,
\* whose control file the inspection reads; the Background Core answers on the
\* same port but records its identity elsewhere; unit says whether the platform
\* reports the Background service as running.
CoreStates ==
    {[mode |-> "on-demand", run |-> r, unit |-> FALSE] : r \in {"no", "local", "foreign"}}
    \cup {[mode |-> "background", run |-> r, unit |-> u] :
             r \in {"no", "local"}, u \in BOOLEAN}
    \cup {[mode |-> "background", run |-> "service", unit |-> TRUE]}
SyncStates ==
    {[mode |-> "disabled", run |-> r, unit |-> FALSE] : r \in {"no", "foreign"}}
    \cup {[mode |-> "background", run |-> "managed", unit |-> TRUE],
          [mode |-> "background", run |-> "no", unit |-> FALSE],
          [mode |-> "background", run |-> "no", unit |-> TRUE]}
Work == {"none", "core", "sync"}
Snapshots == [core : CoreStates, sync : SyncStates, work : Work]
NoServices == [core |-> [mode |-> "on-demand", run |-> "no", unit |-> FALSE],
               sync |-> [mode |-> "disabled", run |-> "no", unit |-> FALSE],
               work |-> "none"]
ASSUME SituationsAssumption == Situations \subseteq Snapshots

-----------------------------------------------------------------------------
Fresh == [up |-> TRUE, runs |-> installed, view |-> 0, ui |-> "idle", try |-> 0]

Init ==
    /\ latest = 1
    /\ installed = 0
    /\ artifacts = {}
    /\ record = [phase |-> "none", current |-> 0, candidate |-> 0]
    /\ lease = Free
    /\ takers = {}
    /\ raced = FALSE
    /\ pending = 0
    /\ claimed = {}
    /\ aged = {}
    /\ terminals \in SUBSET Surfaces
    /\ surface = [s \in Surfaces |-> Fresh]
    /\ auto = [s \in Surfaces |-> "asking"]
    /\ try = [a \in Tries |-> NoTry]
    /\ services = NoServices
    /\ before = NoServices
    /\ duty = {}
    /\ failures = {}
    /\ checks = 0
    /\ troubles = 0

Trouble == troubles < MaxTroubles /\ troubles' = troubles + 1
Calm == troubles' = troubles

-----------------------------------------------------------------------------
(* The lease: a directory, and the file in it that names its owner.        *)

Acquires(p) == lease = Free /\ lease' = Owned(p) /\ UNCHANGED <<takers, raced>>
\* "another Cinba update operation is active".
Contended == lease # Free /\ (HasOwner => Alive(lease.pid))

Stale == HasOwner /\ ~Alive(lease.pid)
\* Seeing the owner dead and removing the directory are two steps, and the
\* second one does not look again: in between the dead owner's launcher or
\* another taker may have removed it, and a third process taken the lease.
SeesStale(p) ==
    /\ Stale
    /\ p \notin takers
    /\ takers' = takers \cup {p}
    /\ UNCHANGED <<lease, raced>>
    /\ Calm
RemovesSeen(p) ==
    /\ p \in takers
    /\ takers' = takers \ {p}
    /\ \/ Stale /\ lease' = Free /\ UNCHANGED raced
       \/ ~Stale /\ UNCHANGED <<lease, raced>>
       \/ ~Stale /\ lease # Free /\ lease' = Free /\ raced' = TRUE
    /\ Calm

\* Only the process whose identity the file still holds removes it.
Released(p, token) ==
    IF HasOwner /\ lease.pid = p /\ lease.token = token THEN Free ELSE lease

Acquiring(p) ==
    CASE p[1] = "surface" -> surface[p[2]].up /\ auto[p[2]] = "asking"
      [] p[1] = "launcher" -> try[p[2]].at = "begin"
      [] OTHER -> FALSE

TakesOver(p) ==
    /\ Acquiring(p)
    /\ SeesStale(p) \/ RemovesSeen(p)
    /\ UNCHANGED <<store, record, files, surface, auto, try, coordination, checks>>

-----------------------------------------------------------------------------
(* update.json, written by whoever holds the lease.                        *)

Checking(v) == [phase |-> "checking", current |-> v, candidate |-> 0]
Downloading(v, new) == [phase |-> "downloading", current |-> v, candidate |-> new]
ReadyTo(v, new) == [phase |-> "ready", current |-> v, candidate |-> new]
Current(v) == [phase |-> "current", current |-> v, candidate |-> 0]
Failed(v, new) == [phase |-> "failed", current |-> v, candidate |-> new]

\* The record a check of a process that runs version v leaves when the step
\* it is at goes well: what it discovers, then what it downloads.
Progress(v) ==
    IF record.phase = "checking"
    THEN IF latest > v THEN Downloading(v, latest) ELSE Current(v)
    ELSE ReadyTo(v, record.candidate)
\* And when the network, the system or the user stops it.
Stopped(v) == Failed(v, record.candidate)

Downloads == artifacts' = IF record.phase = "downloading"
                          THEN artifacts \cup {record.candidate} ELSE artifacts

\* What a surface shows of a record: the version it could install.
ViewOf(r) == IF r.phase = "ready" THEN r.candidate ELSE 0
Shows(s, r) == surface' = [surface EXCEPT ![s].view = ViewOf(r)]
\* The check of a Desktop reports to its window; that of a terminal runs in the
\* parent process and reports to nobody, the terminal reads the file.
Reports(s, r) == IF s \in terminals THEN UNCHANGED surface ELSE Shows(s, r)

-----------------------------------------------------------------------------
(* The automatic check of a surface.                                       *)

\* A check is due for a file of another version or left half done, else after
\* a day, which may have passed; otherwise the surface shows what there is.
Due(s) == record.phase = "none" \/ record.current # surface[s].runs \/ Transient

CheckBegins(s) ==
    /\ surface[s].up
    /\ auto[s] = "asking"
    /\ Acquires(Surface(s))
    /\ checks < MaxChecks
    /\ checks' = checks + 1
    /\ record' = Checking(surface[s].runs)
    /\ auto' = [auto EXCEPT ![s] = "checking"]
    /\ Reports(s, record')
    /\ Calm
    /\ UNCHANGED <<store, files, try, coordination>>

CheckNotDue(s) ==
    /\ surface[s].up
    /\ auto[s] = "asking"
    /\ lease = Free
    /\ ~Due(s)
    /\ auto' = [auto EXCEPT ![s] = "off"]
    /\ Reports(s, record)
    /\ Calm
    /\ UNCHANGED <<store, record, lock, files, try, coordination, checks>>

\* Somebody else is at it: the surface shows the shared file, and asks again
\* in a second while that file says that a check is under way.
CheckFindsAnother(s) ==
    /\ surface[s].up
    /\ auto[s] = "asking"
    /\ Contended
    /\ auto' = IF Transient THEN auto ELSE [auto EXCEPT ![s] = "off"]
    /\ Reports(s, record)
    /\ Calm
    /\ UNCHANGED <<store, record, lock, files, try, coordination, checks>>

CheckAdvances(s) ==
    /\ surface[s].up
    /\ auto[s] = "checking"
    /\ record' = Progress(surface[s].runs)
    /\ Downloads
    /\ IF record'.phase \in {"current", "ready"}
       THEN /\ auto' = [auto EXCEPT ![s] = "off"]
            /\ lease' = Released(Surface(s), Surface(s))
       ELSE UNCHANGED <<auto, lease>>
    /\ Reports(s, record')
    /\ Calm
    /\ UNCHANGED <<latest, installed, terminals, takers, raced, files, try, coordination, checks>>

\* Offline, out of its rate, or not for this system.
CheckFails(s) ==
    /\ surface[s].up
    /\ auto[s] = "checking"
    /\ Trouble
    /\ record' = Stopped(surface[s].runs)
    /\ lease' = Released(Surface(s), Surface(s))
    /\ auto' = [auto EXCEPT ![s] = "off"]
    /\ Reports(s, record')
    /\ UNCHANGED <<store, takers, raced, files, try, coordination, checks>>

\* A terminal reads the shared file every second.
Polls(s) ==
    /\ s \in terminals
    /\ surface[s].up
    /\ surface[s].view # ViewOf(record)
    /\ surface[s].ui # "launching"
    /\ Shows(s, record)
    /\ Calm
    /\ UNCHANGED <<store, record, lock, files, auto, try, coordination, checks>>

\* A release that appears while all this goes on (rare: it counts as trouble).
Publishes ==
    /\ latest < MaxVersion
    /\ latest' = latest + 1
    /\ Trouble
    /\ UNCHANGED <<installed, artifacts, terminals, record, lock, files, surface, auto,
                   try, coordination, checks>>

-----------------------------------------------------------------------------
(* The user installs what a surface shows as ready.                        *)

\* The readiness child reads the installed version and update.json; the rest of
\* its answer depends on services, which are busy or not as the world pleases.
\* "Installed" is what the current pointer names.
ReadyToInstall(v) == Ready(v) /\ record.current = installed

Confirms(s) ==
    /\ surface[s].up
    /\ surface[s].ui = "idle"
    /\ surface[s].view # 0
    /\ ReadyToInstall(surface[s].view)
    /\ Unmade # {}
    /\ surface' = [surface EXCEPT ![s].ui = "checked", ![s].try = surface[s].view]
    /\ Calm
    /\ UNCHANGED <<store, record, lock, files, auto, try, coordination, checks>>

\* The answer came back: if the surface still shows the version that was
\* confirmed, a Desktop tells its check to stop (one under way shows no version,
\* so that it is only waiting) and the launcher is started.
Launches(s) ==
    /\ surface[s].up
    /\ surface[s].ui = "checked"
    /\ IF surface[s].view = surface[s].try /\ Unmade # {}
       THEN \E a \in Unmade :
               /\ try' = [try EXCEPT ![a] = Begun(s, surface[s].view)]
               /\ surface' = [surface EXCEPT ![s].ui = "launching", ![s].try = a]
               /\ auto' = IF s \in terminals THEN auto ELSE [auto EXCEPT ![s] = "off"]
       ELSE /\ surface' = [surface EXCEPT ![s].ui = "idle", ![s].try = 0]
            /\ UNCHANGED <<auto, try>>
    /\ Calm
    /\ UNCHANGED <<store, record, lock, files, coordination, checks>>

\* The launcher exits: the surface quits if it succeeded, and goes on with its
\* automatic check if it failed.
SeesResult(s) ==
    /\ surface[s].up
    /\ surface[s].ui = "launching"
    /\ ~LauncherRuns(surface[s].try)
    /\ IF try[surface[s].try].at = "done"
       THEN surface' = [surface EXCEPT ![s].ui = "leaving"] /\ UNCHANGED auto
       ELSE /\ surface' = [surface EXCEPT ![s].ui = "idle", ![s].try = 0]
            /\ auto' = IF s \in terminals THEN auto ELSE [auto EXCEPT ![s] = "asking"]
    /\ Calm
    /\ UNCHANGED <<store, record, lock, files, try, coordination, checks>>

\* The launcher takes too long: it is killed, and as its helper may own the
\* handoff the surface quits rather than go on.
LaunchTimesOut(s) ==
    /\ surface[s].up
    /\ surface[s].ui = "launching"
    /\ LauncherRuns(surface[s].try)
    /\ Trouble
    /\ try' = [try EXCEPT ![surface[s].try].at = "dead"]
    /\ surface' = [surface EXCEPT ![s].ui = "leaving"]
    /\ UNCHANGED <<store, record, lock, files, auto, coordination, checks>>

Leaves(s) ==
    /\ surface[s].up
    /\ surface[s].ui = "leaving"
    /\ surface' = [surface EXCEPT ![s] = [Fresh EXCEPT !.up = FALSE]]
    /\ auto' = [auto EXCEPT ![s] = "off"]
    /\ Calm
    /\ UNCHANGED <<store, record, lock, files, try, coordination, checks>>

-----------------------------------------------------------------------------
(* The launcher: __begin-update-handoff for a surface, or "cinba update".  *)

At(a, steps) == try[a].at \in steps
Goes(a, step) == try' = [try EXCEPT ![a].at = step]

RunsCommand ==
    /\ \E a \in Unmade : try' = [try EXCEPT ![a] = Begun(Cli, 0)]
    /\ Calm
    /\ UNCHANGED <<store, record, lock, files, surface, auto, coordination, checks>>

\* A surface that is gone by now cannot be waited for.
LauncherAcquires(a) ==
    /\ At(a, {"begin"})
    /\ IF try[a].by # Cli /\ BlockerGone(a)
       THEN Goes(a, "failed") /\ UNCHANGED lock
       ELSE \/ Acquires(Launcher(a)) /\ Goes(a, "owner")
            \/ Contended /\ Goes(a, "failed") /\ UNCHANGED lock
    /\ Calm
    /\ UNCHANGED <<store, record, files, surface, auto, coordination, checks>>

Expired(h) == h \in aged
\* With the lease in hand, claims left by dead helpers are removed once they
\* have expired.
Reaps == claimed' = {h \in claimed : ~Expired(h)}

LauncherReads(a) ==
    /\ At(a, {"owner"})
    /\ try[a].by # Cli
    /\ Reaps
    /\ IF Ready(try[a].version)
       THEN Goes(a, "write") /\ UNCHANGED lease
       ELSE Goes(a, "failed") /\ lease' = Released(Launcher(a), Launcher(a))
    /\ Calm
    /\ UNCHANGED <<store, record, takers, raced, pending, aged, surface, auto,
                   coordination, checks>>

\* "cinba update" makes the check itself, under its own lease, and keeps the
\* lease while the user makes up his mind.
CommandChecks(a) ==
    /\ At(a, {"owner"})
    /\ try[a].by = Cli
    /\ Reaps
    /\ record' = Checking(installed)
    /\ Goes(a, "checking")
    /\ Calm
    /\ UNCHANGED <<store, lock, pending, aged, surface, auto, coordination, checks>>
CommandAdvances(a) ==
    /\ At(a, {"checking"})
    /\ record' = Progress(record.current)
    /\ Downloads
    /\ IF record'.phase = "current"
       THEN Goes(a, "failed") /\ lease' = Released(Launcher(a), Launcher(a))
       ELSE /\ try' = [try EXCEPT ![a].version = record'.candidate,
                                  ![a].at = IF record'.phase = "ready" THEN "prompt" ELSE @]
            /\ UNCHANGED lease
    /\ Calm
    /\ UNCHANGED <<latest, installed, terminals, takers, raced, files, surface, auto,
                   coordination, checks>>
CommandFails(a) ==
    /\ At(a, {"checking"})
    /\ Trouble
    /\ record' = Stopped(record.current)
    /\ Goes(a, "failed")
    /\ lease' = Released(Launcher(a), Launcher(a))
    /\ UNCHANGED <<store, takers, raced, files, surface, auto, coordination, checks>>
CommandAnswered(a) ==
    /\ At(a, {"prompt"})
    /\ \/ Goes(a, "write") /\ UNCHANGED lease
       \/ Goes(a, "failed") /\ lease' = Released(Launcher(a), Launcher(a))
    /\ Calm
    /\ UNCHANGED <<store, record, takers, raced, files, surface, auto, coordination, checks>>

\* handoff.json: a file that is there and has not expired belongs to somebody;
\* an expired one is removed, with its claim, and replaced.
LauncherWrites(a) ==
    /\ At(a, {"write"})
    /\ IF pending = 0 \/ Expired(pending)
       THEN /\ pending' = a
            /\ claimed' = claimed \ {pending}
            /\ Goes(a, "spawn")
       ELSE Goes(a, "undo") /\ UNCHANGED <<pending, claimed>>
    /\ Calm
    /\ UNCHANGED <<store, record, lock, aged, surface, auto, coordination, checks>>

LauncherSpawns(a) ==
    /\ At(a, {"spawn"})
    /\ \/ /\ try' = [try EXCEPT ![a].at = "transfer", ![a].helper = "claim"]
          /\ Calm
       \/ Goes(a, "undo") /\ Trouble
    /\ UNCHANGED <<store, record, lock, files, surface, auto, coordination, checks>>

LauncherTransfers(a) ==
    /\ At(a, {"transfer"})
    /\ IF lease = Owned(Launcher(a))
       THEN /\ lease' = [lease EXCEPT !.phase = "transferred", !.pid = Helper(a)]
            /\ Goes(a, "await")
       ELSE Goes(a, "undo") /\ UNCHANGED lease
    /\ Calm
    /\ UNCHANGED <<store, record, takers, raced, files, surface, auto, coordination, checks>>

HandedOver(a) == HasOwner /\ lease.token = Launcher(a) /\ lease.pid = Helper(a)
LauncherSeesClaim(a) ==
    /\ At(a, {"await"})
    /\ HandedOver(a)
    /\ lease.phase = "claimed"
    /\ Goes(a, "done")
    /\ Calm
    /\ UNCHANGED <<store, record, lock, files, surface, auto, coordination, checks>>
\* Five seconds without a claim: sure if the helper is gone, else bad luck.
LauncherGivesUp(a) ==
    /\ At(a, {"await"})
    /\ IF HelperRuns(a) THEN Trouble ELSE Calm
    /\ Goes(a, "undo")
    /\ UNCHANGED <<store, record, lock, files, surface, auto, coordination, checks>>

\* The failed handoff is undone in this order: the helper is terminated, what
\* was transferred to it is removed, then its handoff, then the own lease.
LeftRunning(a) == try[a].helper   \* mutant: its helper is left to itself
Terminated(a) == IF HelperRuns(a) THEN "dead" ELSE try[a].helper
CancelsTransfer(a) ==
    lease' = IF try[a].helper # "unborn" /\ HandedOver(a) THEN Free ELSE lease
LauncherUndoes(a) ==
    /\ At(a, {"undo"})
    /\ CancelsTransfer(a)
    /\ try' = [try EXCEPT ![a].helper = Terminated(a), ![a].at = "unwrite"]
    /\ Calm
    /\ UNCHANGED <<store, record, takers, raced, files, surface, auto, coordination, checks>>
Removed(a) == /\ pending' = IF pending = a THEN 0 ELSE pending
              /\ claimed' = claimed \ {a}
LauncherUnwrites(a) ==
    /\ At(a, {"unwrite"})
    /\ Removed(a)
    /\ lease' = Released(Launcher(a), Launcher(a))
    /\ Goes(a, "failed")
    /\ Calm
    /\ UNCHANGED <<store, record, takers, raced, aged, surface, auto, coordination, checks>>

-----------------------------------------------------------------------------
(* The helper.                                                             *)

HelperAt(a, steps) == try[a].helper \in steps
HelperHolds(a) == HelperRuns(a) /\ try[a].helper # "claim"
HelperGoes(a, step) == try' = [try EXCEPT ![a].helper = step]

\* It claims whatever handoff it finds: a link under the name of the handoff
\* first, then handoff.json is removed.  A claimed handoff cannot be claimed
\* again, nor an expired one.
HelperClaims(a) ==
    /\ HelperAt(a, {"claim"})
    /\ IF pending # 0 /\ ~Expired(pending) /\ pending \notin claimed
       THEN /\ claimed' = claimed \cup {pending}
            /\ pending' = 0
            /\ try' = [try EXCEPT ![a].helper = "validate", ![a].took = pending]
       ELSE HelperGoes(a, "ended") /\ UNCHANGED <<pending, claimed>>
    /\ Calm
    /\ UNCHANGED <<store, record, lock, aged, surface, auto, coordination, checks>>

Took(a) == try[try[a].took]

HelperValidates(a) ==
    /\ HelperAt(a, {"validate"})
    /\ HelperGoes(a, IF Ready(Took(a).version) THEN "lease" ELSE "unwind")
    /\ Calm
    /\ UNCHANGED <<store, record, lock, files, surface, auto, coordination, checks>>

\* The lease must be under the token its handoff names and transferred to
\* this very process.
HelperClaimsLease(a) ==
    /\ HelperAt(a, {"lease"})
    /\ HasOwner
    /\ lease.token = Launcher(try[a].took)
    /\ lease.pid = Helper(a)
    /\ lease.phase = "transferred"
    /\ lease' = [lease EXCEPT !.phase = "claimed"]
    /\ HelperGoes(a, "parent")
    /\ Calm
    /\ UNCHANGED <<store, record, takers, raced, files, surface, auto, coordination, checks>>
\* Another token ends the wait at once; five seconds end it otherwise, which is
\* bad luck while the launcher is still about to transfer.
HelperGivesUpLease(a) ==
    /\ HelperAt(a, {"lease"})
    /\ IF LauncherRuns(a) /\ (HasOwner => lease.token = Launcher(a)) THEN Trouble ELSE Calm
    /\ HelperGoes(a, "unwind")
    /\ UNCHANGED <<store, record, lock, files, surface, auto, coordination, checks>>

HelperSeesParentGone(a) ==
    /\ HelperAt(a, {"parent"})
    /\ ~LauncherRuns(a)
    /\ HelperGoes(a, "blocker")
    /\ Calm
    /\ UNCHANGED <<store, record, lock, files, surface, auto, coordination, checks>>
\* Thirty seconds for each: the update is given up before it was attempted.  For
\* a surface that does not mean to quit that is sure to happen.
Leaving(a) == try[a].by # Cli /\ surface[try[a].by].ui \in {"launching", "leaving"}
HelperGivesUpWaiting(a) ==
    /\ \/ HelperAt(a, {"parent"}) /\ LauncherRuns(a)
       \/ HelperAt(a, {"blocker"}) /\ ~BlockerGone(try[a].took)
    /\ HelperGoes(a, "unwind")
    /\ IF HelperAt(a, {"parent"}) \/ Leaving(try[a].took) THEN Trouble ELSE Calm
    /\ UNCHANGED <<store, record, lock, files, surface, auto, coordination, checks>>

\* The surface is gone: the record is read once more, and Core and Sync are
\* inspected, in whatever state they are.
AttemptsAtOnce(a) == HelperAt(a, {"blocker"})   \* mutant: nobody is waited for
Attempts(a) == HelperAt(a, {"blocker"}) /\ BlockerGone(try[a].took)
HelperInspects(a) ==
    /\ Attempts(a)
    /\ IF Ready(Took(a).version)
       THEN /\ \E snapshot \in Situations : services' = snapshot /\ before' = snapshot
            /\ HelperGoes(a, "inspect")
       ELSE HelperGoes(a, "restart") /\ UNCHANGED <<services, before>>
    /\ Calm
    /\ UNCHANGED <<store, record, lock, files, surface, auto, duty, failures, checks>>

-----------------------------------------------------------------------------
(* The helper coordinates Core and Sync around the installation.           *)

Coordinating == {"inspect", "stop core", "core mode", "stop sync", "sync mode",
                 "install", "restore sync", "restore mode", "restore core", "record"}
Forgotten == /\ services' = NoServices /\ before' = NoServices
             /\ duty' = {} /\ failures' = {}

Serves(core) == core.run \in {"local", "service"} \/ core.unit
Local == before.core.run = "local"
UnderService == before.core.mode = "background" /\ before.core.unit
SyncUnderService == before.sync.mode = "background" /\ before.sync.unit

\* Why the update has to wait, in the order the code asks: only a Core of the
\* on-demand control file counts as managed.
Waits ==
    \/ before.core.run # "no" /\ before.work = "core"
    \/ before.core.run \in {"service", "foreign"}
    \/ before.core.run = "no" /\ before.core.unit
    \/ before.sync.run = "foreign"
    \/ before.sync.unit /\ before.sync.run # "managed"
    \/ before.sync.run = "managed" /\ before.work = "sync"

\* A step that goes well or fails; a failure of the main part leads to the
\* restore, which itself goes on after a failure.
Steps(a, from, to) == HelperAt(a, {from}) /\ HelperGoes(a, to)
Well == Calm /\ UNCHANGED failures
Wrong(part) == Trouble /\ failures' = failures \cup {part}
Elsewhere == UNCHANGED <<latest, terminals, record, lock, files, surface, auto, before, checks>>
Inert == Elsewhere /\ UNCHANGED <<installed, artifacts>>

HelperDecides(a) ==
    /\ IF Waits THEN Steps(a, "inspect", "record") /\ failures' = {"refused"}
       ELSE Steps(a, "inspect", "stop core") /\ UNCHANGED failures
    /\ Calm
    /\ UNCHANGED <<services, duty>>
    /\ Inert

\* A Core that is asked to stop exits in time, or not, or refuses; one that
\* was asked and did not exit in time ("leaving") exits later.
StopsCore(a) ==
    /\ \/ /\ Steps(a, "stop core", "core mode")
          /\ services' = IF Local THEN [services EXCEPT !.core.run = "no"] ELSE services
          /\ Well
       \/ /\ Local
          /\ Steps(a, "stop core", "restore sync")
          /\ \/ UNCHANGED services
             \/ services' = [services EXCEPT !.core.run = "leaving"]
          /\ Wrong("main")
    /\ UNCHANGED duty
    /\ Inert

\* A Background service is taken down for the installation.
OnDemand == [services EXCEPT !.core = [@ EXCEPT !.mode = "on-demand", !.unit = FALSE]]
LowersCore(a) ==
    /\ duty' = IF UnderService THEN duty \cup {"core mode"} ELSE duty
    /\ \/ /\ Steps(a, "core mode", "stop sync")
          /\ services' = IF UnderService THEN OnDemand ELSE services
          /\ Well
       \/ /\ UnderService
          /\ Steps(a, "core mode", "restore sync")
          /\ UNCHANGED services
          /\ Wrong("main")
    /\ Inert

\* What is owed to Sync is noted before the request leaves: the request can be
\* refused, or accepted although its answer never arrives.
SyncDown == [services EXCEPT !.sync.run = "no", !.sync.unit = FALSE]
StopsSync(a) ==
    /\ duty' = IF SyncUnderService THEN duty \cup {"sync stop"} ELSE duty
    /\ \/ /\ Steps(a, "stop sync", IF SyncUnderService THEN "sync mode" ELSE "install")
          /\ services' = IF SyncUnderService THEN SyncDown ELSE services
          /\ Well
       \/ /\ SyncUnderService
          /\ Steps(a, "stop sync", "restore sync")
          /\ \/ UNCHANGED services
             \/ services' = [services EXCEPT !.sync.run = "draining"]
          /\ Wrong("main")
    /\ Inert

LowersSync(a) ==
    /\ duty' = duty \cup {"sync mode"}
    /\ \/ /\ Steps(a, "sync mode", "install")
          /\ services' = [services EXCEPT !.sync.mode = "disabled"]
          /\ Well
       \/ /\ Steps(a, "sync mode", "restore sync")
          /\ UNCHANGED services
          /\ Wrong("main")
    /\ Inert

\* The artifact is verified again and its installer run: it may fail before or
\* after the point where the new release has become the current one.
Installs(a) ==
    /\ Steps(a, "install", "restore sync")
    /\ \/ installed' = Took(a).version /\ (Well \/ Wrong("main"))
       \/ UNCHANGED installed /\ Wrong("main")
    /\ UNCHANGED <<artifacts, services, duty>>
    /\ Elsewhere

\* Sync: its mode is set again, which starts it; or, if only the stop may have
\* been accepted, it is left alone unless it is going, and then its service is
\* built again once it has gone.
Rebuilt == [services EXCEPT !.sync = before.sync]
UnharmedByMode == "sync mode" \notin duty   \* mutant: the accepted stop is forgotten
Unharmed == "sync mode" \notin duty /\ ("sync stop" \in duty => services.sync.run = "managed")
RestoresSync(a) ==
    /\ Steps(a, "restore sync", "restore mode")
    /\ IF Unharmed THEN UNCHANGED services /\ Well
       ELSE \/ /\ services.sync.run # "draining"
               /\ services' = Rebuilt
               /\ Well
            \/ /\ UNCHANGED services
               /\ failures' = failures \cup {"restore"}
               /\ IF services.sync.run = "draining" THEN Calm ELSE Trouble
    /\ UNCHANGED duty
    /\ Inert
SyncExits ==
    /\ services.sync.run = "draining"
    /\ services' = SyncDown
    /\ Calm
    /\ UNCHANGED <<try, duty, failures>>
    /\ Inert

Raised == [services EXCEPT !.core = [mode |-> "background", run |-> "service", unit |-> TRUE]]
RestoresMode(a) ==
    /\ Steps(a, "restore mode", "restore core")
    /\ IF "core mode" \notin duty THEN UNCHANGED services /\ Well
       ELSE \/ services' = Raised /\ Well
            \/ UNCHANGED services /\ Wrong("restore")
    /\ UNCHANGED duty
    /\ Inert

\* A Core that ran is started again, unless the mode was Background.
RestoresCore(a) ==
    /\ Steps(a, "restore core", "record")
    /\ IF ~(Local /\ before.core.mode # "background") THEN UNCHANGED services /\ Well
       ELSE \/ services' = [services EXCEPT !.core.run = "local"] /\ Well
            \/ UNCHANGED services /\ Wrong("restore")
    /\ UNCHANGED duty
    /\ Inert
CoreExits ==
    /\ services.core.run = "leaving"
    /\ services' = [services EXCEPT !.core.run = "no"]
    /\ Calm
    /\ UNCHANGED <<try, duty, failures>>
    /\ Inert

\* What the pointer names decides what is recorded, whatever was thrown; an
\* artifact that was installed without a failure is removed.
Outcome(a) == IF installed = Took(a).version THEN Current(Took(a).version)
              ELSE Failed(record.current, Took(a).version)
HelperRecords(a) ==
    /\ Steps(a, "record", "restart")
    /\ record' = Outcome(a)
    /\ artifacts' = IF failures = {} THEN artifacts \ {Took(a).version} ELSE artifacts
    /\ Forgotten
    /\ Calm
    /\ UNCHANGED <<latest, installed, terminals, lock, files, surface, auto, checks>>

\* The surface is opened again, with the version installed now.
Reopened(s) == surface' = [surface EXCEPT ![s] = Fresh]
\* Mutant: only a new version is worth it.
RestartsNewVersion(a) ==
    /\ Steps(a, "restart", "unwind")
    /\ IF Took(a).by = Cli \/ installed # Took(a).version
       THEN UNCHANGED <<surface, auto>>
       ELSE /\ Reopened(Took(a).by)
            /\ auto' = [auto EXCEPT ![Took(a).by] = "asking"]
    /\ Calm
    /\ UNCHANGED <<store, record, lock, files, coordination, checks>>
HelperRestarts(a) ==
    /\ Steps(a, "restart", "unwind")
    /\ IF Took(a).by = Cli THEN UNCHANGED <<surface, auto>> /\ Calm
       ELSE \/ /\ Reopened(Took(a).by)
               /\ auto' = [auto EXCEPT ![Took(a).by] = "asking"]
               /\ Calm
            \/ UNCHANGED <<surface, auto>> /\ Trouble
    /\ UNCHANGED <<store, record, lock, files, coordination, checks>>

HelperRemoves(a) ==
    /\ Steps(a, "unwind", "release")
    /\ Removed(try[a].took)
    /\ Calm
    /\ UNCHANGED <<store, record, lock, aged, surface, auto, coordination, checks>>
\* Only a lease that it had claimed.
HelperReleases(a) ==
    /\ Steps(a, "release", "ended")
    /\ lease' = IF lease.phase = "claimed" THEN Released(Helper(a), Launcher(try[a].took))
                ELSE lease
    /\ Calm
    /\ UNCHANGED <<store, record, takers, raced, files, surface, auto, coordination, checks>>

-----------------------------------------------------------------------------
(* Deaths and time.                                                        *)

\* A process dies where it is.  One that dies between making the lease's
\* directory and writing its owner leaves a lease nobody can read.
Dead(p) ==
    CASE p[1] = "surface" ->
            /\ surface[p[2]].up
            /\ surface' = [surface EXCEPT ![p[2]] = [Fresh EXCEPT !.up = FALSE]]
            /\ auto' = [auto EXCEPT ![p[2]] = "off"]
            /\ UNCHANGED try
      [] p[1] = "launcher" ->
            LauncherRuns(p[2]) /\ Goes(p[2], "dead") /\ UNCHANGED <<surface, auto>>
      [] p[1] = "helper" ->
            HelperRuns(p[2]) /\ HelperGoes(p[2], "dead") /\ UNCHANGED <<surface, auto>>
Coordinates(p) == p[1] = "helper" /\ HelperAt(p[2], Coordinating)
Dies(p) ==
    /\ Dead(p)
    /\ Trouble
    /\ takers' = takers \ {p}
    /\ \/ UNCHANGED lease
       \/ lease = Free /\ Acquiring(p) /\ lease' = Unreadable
    /\ IF Coordinates(p) THEN Forgotten ELSE UNCHANGED coordination
    /\ UNCHANGED <<store, raced, record, files, checks>>

\* A handoff is good for five minutes, more than a launcher ever takes; a
\* machine may sleep before its helper has claimed it.
Ages ==
    /\ \E a \in (claimed \cup {pending}) \ ({0} \cup aged) :
          ~LauncherRuns(a) /\ ~HelperHolds(a) /\ aged' = aged \cup {a}
    /\ Calm
    /\ UNCHANGED <<store, record, lock, pending, claimed, surface, auto, try,
                   coordination, checks>>

-----------------------------------------------------------------------------
CheckStep(s) ==
    \/ CheckBegins(s) \/ CheckNotDue(s) \/ CheckFindsAnother(s)
    \/ CheckAdvances(s) \/ CheckFails(s)
SurfaceStep(s) ==
    \/ Confirms(s) \/ Launches(s) \/ SeesResult(s) \/ Leaves(s)
LauncherStep(a) ==
    \/ LauncherAcquires(a) \/ LauncherReads(a) \/ CommandChecks(a)
    \/ CommandAdvances(a) \/ CommandFails(a) \/ LauncherWrites(a)
    \/ LauncherSpawns(a) \/ LauncherTransfers(a) \/ LauncherSeesClaim(a)
    \/ LauncherGivesUp(a) \/ LauncherUndoes(a) \/ LauncherUnwrites(a)
HelperStep(a) ==
    \/ HelperClaims(a) \/ HelperValidates(a) \/ HelperClaimsLease(a)
    \/ HelperGivesUpLease(a) \/ HelperSeesParentGone(a) \/ HelperGivesUpWaiting(a)
    \/ HelperInspects(a) \/ HelperDecides(a) \/ StopsCore(a) \/ LowersCore(a)
    \/ StopsSync(a) \/ LowersSync(a) \/ Installs(a) \/ RestoresSync(a)
    \/ RestoresMode(a) \/ RestoresCore(a) \/ HelperRecords(a)
    \/ HelperRestarts(a) \/ HelperRemoves(a) \/ HelperReleases(a)

\* What follows a lost race is not explored.
Next ==
    /\ ~raced
    /\ \/ \E s \in Surfaces : CheckStep(s) \/ Polls(s) \/ SurfaceStep(s) \/ LaunchTimesOut(s)
       \/ \E a \in Tries : LauncherStep(a) \/ CommandAnswered(a) \/ HelperStep(a)
       \/ \E p \in Processes : TakesOver(p) \/ Dies(p)
       \/ Publishes \/ RunsCommand \/ SyncExits \/ CoreExits \/ Ages

Spec == Init /\ [][Next]_vars

\* Processes run: a launcher and a helper take their next step, a surface sees
\* its launcher exit and quits when it means to.  No user ever has to answer, no
\* check has to be made, and no service that drains has to finish.
Fairness ==
    /\ WF_vars(\E a \in Tries : LauncherStep(a) \/ HelperStep(a))
    /\ WF_vars(\E s \in Surfaces : SeesResult(s) \/ Leaves(s))
    /\ WF_vars(\E p \in Processes : TakesOver(p))
FairSpec == Spec /\ Fairness

-----------------------------------------------------------------------------
TypeOK ==
    /\ latest \in Versions
    /\ installed \in 0..MaxVersion
    /\ artifacts \subseteq Versions
    /\ record \in Records
    /\ lease \in Leases
    /\ takers \subseteq Processes
    /\ raced \in BOOLEAN
    /\ pending \in 0..MaxTries
    /\ claimed \subseteq Tries
    /\ aged \subseteq Tries
    /\ terminals \subseteq Surfaces
    /\ surface \in [Surfaces -> [up : BOOLEAN, runs : 0..MaxVersion, view : 0..MaxVersion,
                                 ui : {"idle", "checked", "launching", "leaving"},
                                 try : 0..(MaxTries + MaxVersion)]]
    /\ auto \in [Surfaces -> {"asking", "checking", "off"}]
    /\ \A a \in Tries :
          /\ try[a].by \in Surfaces \cup {Cli, "nobody"}
          /\ try[a].version \in 0..MaxVersion
          /\ try[a].took \in 0..MaxTries
    /\ before \in Snapshots
    /\ duty \subseteq {"core mode", "sync stop", "sync mode"}
    /\ failures \subseteq {"refused", "main", "restore"}

\* Who acts as the one that updates this machine: it checks or downloads, it
\* prepares a handoff, or it has claimed one and not yet let go.
Acts(p) ==
    CASE p[1] = "surface" -> surface[p[2]].up /\ auto[p[2]] = "checking"
      [] p[1] = "launcher" ->
            At(p[2], {"owner", "checking", "prompt", "write", "spawn", "transfer"})
      [] p[1] = "helper" ->
            HelperAt(p[2], Coordinating \cup {"parent", "blocker", "restart"})

\* Whoever acts is named by the lease, and so only one process at a time checks,
\* downloads, hands over or installs, through transfers, kills, timeouts and
\* deaths, unless a process that took over a dead lease removed a living one.
OneInCharge == \A p \in Processes : Acts(p) => HasOwner /\ lease.pid = p

\* What is said to be ready lies in the cache.
ReadyIsCached == record.phase = "ready" => record.candidate \in artifacts

\* A helper that has the lease has the handoff its own launcher wrote, and the
\* file is ready for that very version.
OwnHandoff ==
    \A a \in Tries : HelperAt(a, {"parent", "blocker", "inspect"}) =>
        try[a].took = a /\ Ready(try[a].version)

UpdateInv == TypeOK /\ ReadyIsCached /\ (raced \/ (OneInCharge /\ OwnHandoff))

\* The installed version changes only to the version a user confirmed, when the
\* interface where he did so has quit, by the one helper that holds the lease
\* (assertUpdateHandoffMatchesReadyState, waitForProcess, claimLease).
InstallsWhatWasConfirmed ==
    [][installed' # installed /\ ~raced =>
         \E a \in Tries : /\ HasOwner /\ lease.pid = Helper(a)
                          /\ BlockerGone(a)
                          /\ Ready(try[a].version)
                          /\ installed' = try[a].version]_vars

\* When the coordination is over and nothing of the restore was reported as
\* failed, Core and Sync have the modes they had and serve if they served,
\* whichever step of the update failed, a stop request that was accepted
\* although it seemed to fail included (coordinateProductUpdate).  A local Core
\* beside a stopped Background service is the exception: it is not started.
LocalBesideStopped == Local /\ before.core.mode = "background" /\ ~before.core.unit
ServicesRestored ==
    (\E a \in Tries : HelperAt(a, {"record"})) /\ "restore" \notin failures =>
        /\ services.core.mode = before.core.mode
        /\ Serves(before.core) /\ ~LocalBesideStopped => Serves(services.core)
        /\ services.sync = before.sync

\* Every launcher and every helper comes to its end, a command that waits for
\* the user's word aside, and an interface that quit for an update is opened
\* again, installed or not, unless something died or was too slow.
UpdateEnds ==
    /\ []<>(raced \/ \A a \in Tries : LauncherRuns(a) \/ HelperRuns(a) => At(a, {"prompt"}))
    /\ \A s \in Surfaces :
          surface[s].ui = "leaving" ~>
              (surface[s].up /\ surface[s].ui = "idle") \/ troubles > 0

=============================================================================
