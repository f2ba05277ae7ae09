------------------------- MODULE ProductUpdateProofs -------------------------
(***************************************************************************)
(* What holds of ProductUpdate for any number of interfaces, releases,     *)
(* handoffs, checks and troubles, as long as no process that takes over a  *)
(* dead lease removes a living one.  The lease names the one that acts;    *)
(* with it goes the right to write the record, so that what was ready when *)
(* the handoff was prepared is ready when it is installed.                 *)
(***************************************************************************)
EXTENDS ProductUpdate, TLAPS

LauncherAts == {"unborn", "begin", "owner", "checking", "prompt", "write", "spawn", "transfer",
                "await", "undo", "unwrite", "done", "failed", "dead"}
HelperAts == Coordinating \cup {"unborn", "claim", "validate", "lease", "parent", "blocker",
                                "restart", "unwind", "release", "ended", "dead"}
TryType == [by : Surfaces \cup {Cli, "nobody"}, version : 0..MaxVersion, at : LauncherAts,
            helper : HelperAts, took : 0..MaxTries]
SurfaceType == [up : BOOLEAN, runs : 0..MaxVersion, view : 0..MaxVersion,
                ui : {"idle", "checked", "launching", "leaving"}, try : 0..(MaxTries + MaxVersion)]

\* The types, by what steps change together.
ReleasesOK == latest \in Versions /\ installed \in 0..MaxVersion /\ artifacts \subseteq Versions
RecordOK ==
    /\ record \in Records
    /\ record.phase \in {"downloading", "ready"} => record.candidate \in Versions
LeaseOK == lease \in Leases /\ takers \subseteq Processes /\ raced \in BOOLEAN
FilesOK == pending \in 0..MaxTries /\ claimed \subseteq Tries /\ aged \subseteq Tries
SurfacesOK ==
    /\ terminals \subseteq Surfaces
    /\ surface \in [Surfaces -> SurfaceType] /\ auto \in [Surfaces -> {"asking", "checking", "off"}]
\* A try that was made was made by somebody, and its helper by its launcher.
TriesOK ==
    /\ try \in [Tries -> TryType]
    /\ \A a \in Tries : IF try[a].at = "unborn" THEN try[a].helper = "unborn"
                        ELSE try[a].by \in Surfaces \cup {Cli}
ServiceType == [mode : {"on-demand", "background", "disabled"},
                run : {"no", "local", "foreign", "service", "managed", "leaving", "draining"},
                unit : BOOLEAN]
ServicesType == [core : ServiceType, sync : ServiceType, work : Work]
CoordinationOK ==
    /\ services \in ServicesType
    /\ before \in Snapshots
    /\ duty \subseteq {"core mode", "sync stop", "sync mode"}
    /\ failures \subseteq {"refused", "main", "restore"}
Types == ReleasesOK /\ RecordOK /\ LeaseOK /\ FilesOK /\ SurfacesOK /\ TriesOK /\ CoordinationOK

\* The lease of attempt a, on its way from the launcher to the helper.
Own(a) == Owned(Launcher(a))
TransferredTo(a) == [phase |-> "transferred", pid |-> Helper(a), token |-> Launcher(a)]
ClaimedBy(a) == [phase |-> "claimed", pid |-> Helper(a), token |-> Launcher(a)]
Mine(a) == lease \in {Own(a), TransferredTo(a), ClaimedBy(a)}
Nobodys == lease \in {Free, Unreadable}
LeaseForm ==
    \/ Nobodys
    \/ \E s \in Surfaces : lease = Owned(Surface(s))
    \/ \E a \in Tries : Mine(a)

SurfaceActs(s) == surface[s].up /\ auto[s] = "checking"
LauncherActs(a) == At(a, {"owner", "checking", "prompt", "write", "spawn", "transfer"})
HelperActs(a) == HelperAt(a, Coordinating \cup {"parent", "blocker", "restart"})
Engaged(a) == HelperAt(a, Coordinating \cup {"parent", "blocker"})

\* What the lease and the record say of a surface, and of an attempt.
SurfaceOrder(s) == SurfaceActs(s) => lease = Owned(Surface(s)) /\ Transient
TryOrder(a) ==
    /\ LauncherActs(a) => lease = Own(a)
    /\ HelperActs(a) => lease = ClaimedBy(a)
    /\ At(a, {"checking"}) => Transient
    /\ At(a, {"prompt", "write", "spawn", "transfer"}) \/ lease = TransferredTo(a) \/ Engaged(a)
         => Ready(try[a].version)
    /\ lease = TransferredTo(a) => ~At(a, {"unborn"})
    /\ Engaged(a) => try[a].took = a
    /\ HelperAt(a, Coordinating \cup {"blocker"}) => ~LauncherRuns(a)
    /\ HelperAt(a, Coordinating) => BlockerGone(a)
Order == LeaseForm /\ (\A s \in Surfaces : SurfaceOrder(s)) /\ (\A a \in Tries : TryOrder(a))

\* How far the coordination is: what it owes and what became of Core and Sync.
Restored ==
    /\ services.core.mode = before.core.mode
    /\ Serves(before.core) /\ ~LocalBesideStopped => Serves(services.core)
    /\ services.sync = before.sync
Coordinated(a) ==
    /\ HelperAt(a, {"inspect"}) => services = before /\ duty = {} /\ failures = {}
    /\ ~HelperAt(a, {"inspect", "record"}) => ~Waits
    /\ HelperAt(a, {"stop core", "core mode"}) => duty = {}
    /\ HelperAt(a, {"stop sync"}) => "sync stop" \notin duty
    /\ ~HelperAt(a, {"restore core", "record"}) =>
         IF "core mode" \in duty THEN UnderService
         ELSE services.core.mode = before.core.mode /\ services.core.unit = before.core.unit
    /\ ~HelperAt(a, {"restore mode", "restore core", "record"}) =>
         /\ "sync stop" \notin duty => "sync mode" \notin duty /\ services.sync = before.sync
         /\ services.sync.run = "managed" => services.sync = before.sync
    /\ HelperAt(a, {"sync mode"}) => services.sync.run # "managed" /\ "sync stop" \in duty
    /\ HelperAt(a, {"restore mode", "restore core", "record"}) /\ "restore" \notin failures =>
         services.sync = before.sync
    /\ HelperAt(a, {"restore core"}) /\ "restore" \notin failures =>
         /\ services.core.mode = before.core.mode
         /\ UnderService => services.core.unit
    /\ HelperAt(a, {"record"}) /\ "restore" \notin failures => Restored
Rests == services = NoServices /\ before = NoServices /\ duty = {} /\ failures = {}
Coordination ==
    /\ \A a \in Tries : HelperAt(a, Coordinating) => Coordinated(a)
    /\ (\A a \in Tries : ~HelperAt(a, Coordinating)) => Rests

IInv == Types /\ ReadyIsCached /\ Coordination /\ (raced \/ Order)


USE UpdateAssumption, SituationsAssumption

-----------------------------------------------------------------------------
(* Processes and leases.                                                   *)

\* Processes of two kinds, or of two numbers, are told apart.
LEMMA Names ==
    /\ \A s, t \in Surfaces : Surface(s) = Surface(t) => s = t
    /\ \A a, b \in Tries : Launcher(a) = Launcher(b) => a = b
    /\ \A a, b \in Tries : Helper(a) = Helper(b) => a = b
    /\ \A s \in Surfaces, a \in Tries : Surface(s) # Launcher(a) /\ Surface(s) # Helper(a)
    /\ \A a, b \in Tries : Launcher(a) # Helper(b)
BY DEF Surface, Launcher, Helper

\* And so are the leases that name them.
LEMMA LeaseNames ==
    /\ Free # Unreadable
    /\ \A s \in Surfaces : Owned(Surface(s)) # Free /\ Owned(Surface(s)) # Unreadable
    /\ \A a \in Tries : /\ Own(a) # Free /\ Own(a) # Unreadable
                        /\ TransferredTo(a) # Free /\ TransferredTo(a) # Unreadable
                        /\ ClaimedBy(a) # Free /\ ClaimedBy(a) # Unreadable
    /\ \A s, t \in Surfaces : Owned(Surface(s)) = Owned(Surface(t)) => s = t
    /\ \A s \in Surfaces, a \in Tries : /\ Owned(Surface(s)) # Own(a)
                                        /\ Owned(Surface(s)) # TransferredTo(a)
                                        /\ Owned(Surface(s)) # ClaimedBy(a)
    /\ \A a, b \in Tries : /\ Own(a) # TransferredTo(b) /\ Own(a) # ClaimedBy(b)
                           /\ TransferredTo(a) # ClaimedBy(b)
                           /\ Own(a) = Own(b) => a = b
                           /\ TransferredTo(a) = TransferredTo(b) => a = b
                           /\ ClaimedBy(a) = ClaimedBy(b) => a = b
<1>. DEFINE P(l) == l.pid
<1>1. /\ Free.phase = "free" /\ Unreadable.phase = "unreadable"
    BY DEF Free, Unreadable
<1>2. \A s \in Surfaces : Owned(Surface(s)).phase = "owned" /\ Owned(Surface(s)).pid = Surface(s)
    BY DEF Owned
<1>3. \A a \in Tries : /\ Own(a).phase = "owned" /\ Own(a).pid = Launcher(a)
                       /\ TransferredTo(a).phase = "transferred" /\ TransferredTo(a).pid = Helper(a)
                       /\ ClaimedBy(a).phase = "claimed" /\ ClaimedBy(a).pid = Helper(a)
    BY DEF Own, Owned, TransferredTo, ClaimedBy
<1>. QED
    BY <1>1, <1>2, <1>3, Names

\* What a lease says of its owner.
LEMMA LeaseFields ==
    /\ Nobodys => ~HasOwner
    /\ \A s \in Surfaces : lease = Owned(Surface(s)) =>
         HasOwner /\ lease.phase = "owned" /\ lease.pid = Surface(s) /\ lease.token = Surface(s)
    /\ \A a \in Tries : lease = Own(a) =>
         HasOwner /\ lease.phase = "owned" /\ lease.pid = Launcher(a) /\ lease.token = Launcher(a)
    /\ \A a \in Tries : lease = TransferredTo(a) =>
         /\ HasOwner /\ lease.phase = "transferred"
         /\ lease.pid = Helper(a) /\ lease.token = Launcher(a)
    /\ \A a \in Tries : lease = ClaimedBy(a) =>
         HasOwner /\ lease.phase = "claimed" /\ lease.pid = Helper(a) /\ lease.token = Launcher(a)
BY DEF Nobodys, HasOwner, Free, Unreadable, Owned, Own, TransferredTo, ClaimedBy

LEMMA Living ==
    /\ \A s \in Surfaces : Alive(Surface(s)) <=> surface[s].up
    /\ \A a \in Tries : Alive(Launcher(a)) <=> LauncherRuns(a)
    /\ \A a \in Tries : Alive(Helper(a)) <=> HelperRuns(a)
BY DEF Alive, Surface, Launcher, Helper

\* Who acts is alive.
LEMMA ActorsLive ==
    /\ \A s \in Surfaces : SurfaceActs(s) => surface[s].up
    /\ \A a \in Tries : LauncherActs(a) => LauncherRuns(a)
    /\ \A a \in Tries : HelperActs(a) => HelperRuns(a)
BY DEF SurfaceActs, LauncherActs, HelperActs, LauncherRuns, HelperRuns, At, HelperAt, Coordinating

LEMMA SetsOfSteps ==
    ASSUME NEW a \in Tries
    PROVE  /\ HelperAt(a, Coordinating) => Engaged(a) /\ HelperAt(a, Coordinating \cup {"blocker"})
           /\ Engaged(a) => HelperActs(a)
           /\ HelperAt(a, Coordinating \cup {"blocker"}) => Engaged(a)
           /\ At(a, {"checking"}) \/ At(a, {"prompt", "write", "spawn", "transfer"}) => LauncherActs(a)
BY DEF HelperAt, At, Engaged, HelperActs, LauncherActs

-----------------------------------------------------------------------------
(* The order: what others do does not concern an attempt.                  *)

\* Whoever the lease does not name, before and after, does not act.
LEMMA StrangerKeeps ==
    ASSUME NEW b \in Tries, TryOrder(b), try'[b] = try[b], ~Mine(b), ~Mine(b)'
    PROVE  TryOrder(b)'
<1>1. ~LauncherActs(b) /\ ~HelperActs(b)
    BY DEF TryOrder, Mine
<1>2. ~LauncherActs(b)' /\ ~HelperActs(b)'
    BY <1>1 DEF LauncherActs, HelperActs, At, HelperAt, Coordinating
<1>3. lease' # TransferredTo(b)
    BY DEF Mine, TransferredTo, Helper, Launcher
<1>. QED
    BY <1>2, <1>3 DEF TryOrder, LauncherActs, HelperActs, At, HelperAt, Engaged, TransferredTo,
                      Helper, Launcher, Coordinating

\* Nor is anyone concerned while lease and record stay, and nobody gets up.
LEMMA TryKept ==
    ASSUME NEW b \in Tries, TriesOK, TryOrder(b), try'[b] = try[b],
           lease' = lease, record' = record,
           HelperAt(b, Coordinating) => \A s \in Surfaces : surface'[s].up => surface[s].up
    PROVE  TryOrder(b)'
<1>1. /\ LauncherActs(b)' = LauncherActs(b) /\ HelperActs(b)' = HelperActs(b)
      /\ Engaged(b)' = Engaged(b) /\ LauncherRuns(b)' = LauncherRuns(b)
      /\ \A S : At(b, S)' = At(b, S) /\ HelperAt(b, S)' = HelperAt(b, S)
    BY DEF LauncherActs, HelperActs, Engaged, LauncherRuns, At, HelperAt, Coordinating
<1>2. (Transient' <=> Transient) /\ (Ready(try[b].version)' <=> Ready(try[b].version))
    BY DEF Transient, Ready
<1>3. HelperAt(b, Coordinating) => BlockerGone(b)'
  <2>. SUFFICES ASSUME HelperAt(b, Coordinating) PROVE BlockerGone(b)'
    OBVIOUS
  <2>1. try[b].by \in Surfaces \cup {Cli}
    BY DEF TriesOK, HelperAt, Coordinating
  <2>2. BlockerGone(b)
    BY DEF TryOrder
  <2>. QED
    BY <1>1, <2>1, <2>2 DEF BlockerGone
<1>4. TransferredTo(b)' = TransferredTo(b) /\ ClaimedBy(b)' = ClaimedBy(b) /\ Own(b)' = Own(b)
    BY DEF TransferredTo, ClaimedBy, Own, Owned, Launcher, Helper
<1>5. (LauncherActs(b)' => lease' = Own(b)') /\ (HelperActs(b)' => lease' = ClaimedBy(b)')
    BY <1>1, <1>4 DEF TryOrder
<1>6. At(b, {"checking"})' => Transient'
    BY <1>1, <1>2 DEF TryOrder
<1>7. At(b, {"prompt", "write", "spawn", "transfer"})' \/ lease' = TransferredTo(b)' \/ Engaged(b)'
        => Ready(try[b].version)'
    BY <1>1, <1>2, <1>4 DEF TryOrder
<1>8. /\ lease' = TransferredTo(b)' => ~At(b, {"unborn"})'
      /\ Engaged(b)' => try'[b].took = b
      /\ HelperAt(b, Coordinating \cup {"blocker"})' => ~LauncherRuns(b)'
    BY <1>1, <1>4 DEF TryOrder
<1>9. HelperAt(b, Coordinating)' => BlockerGone(b)'
    BY <1>1, <1>3
<1>. QED
    BY <1>5, <1>6, <1>7, <1>8, <1>9 DEF TryOrder


\* A step of one attempt, or of its launcher or helper.
LEMMA TryStep ==
    ASSUME TriesOK, Order, NEW a \in Tries, \A b \in Tries \ {a} : try'[b] = try[b],
           \/ lease' = lease /\ record' = record
           \/ (Mine(a) \/ Nobodys) /\ (Mine(a)' \/ Nobodys'),
           Mine(a) \/ \A s \in Surfaces : surface'[s].up => surface[s].up,
           \A s \in Surfaces : SurfaceActs(s)' => SurfaceActs(s),
           TryOrder(a)'
    PROVE  Order'
<1>1. LeaseForm'
  <2>1. CASE lease' = lease
    BY <2>1 DEF Order, LeaseForm, Nobodys, Mine, Own, Owned, TransferredTo, ClaimedBy, Free,
                Unreadable, Surface, Launcher, Helper
  <2>2. CASE Mine(a)' \/ Nobodys'
    BY <2>2 DEF LeaseForm
  <2>. QED
    BY <2>1, <2>2
<1>2. ASSUME NEW s \in Surfaces, SurfaceActs(s)'
      PROVE  lease' = Owned(Surface(s))' /\ Transient'
  <2>1. lease = Owned(Surface(s)) /\ Transient
    BY <1>2 DEF Order, SurfaceOrder
  <2>2. ~Mine(a) /\ ~Nobodys
    BY <2>1, LeaseNames DEF Mine, Nobodys
  <2>. QED
    BY <2>1, <2>2 DEF Transient, Owned, Surface
<1>3. ASSUME NEW b \in Tries \ {a} PROVE TryOrder(b)'
  <2>1. TryOrder(b)
    BY DEF Order
  <2>2. CASE lease' = lease /\ record' = record
    <3>1. HelperAt(b, Coordinating) => \A s \in Surfaces : surface'[s].up => surface[s].up
      <4>. SUFFICES ASSUME HelperAt(b, Coordinating) PROVE ~Mine(a)
        OBVIOUS
      <4>1. lease = ClaimedBy(b)
        BY <2>1, SetsOfSteps DEF TryOrder
      <4>. QED
        BY <4>1, LeaseNames DEF Mine
    <3>. QED
      BY <2>1, <2>2, <3>1, TryKept
  <2>3. CASE (Mine(a) \/ Nobodys) /\ (Mine(a)' \/ Nobodys')
    <3>1. ~Mine(b)
      BY <2>3, LeaseNames DEF Mine, Nobodys
    <3>2. ~Mine(b)'
      BY <2>3, LeaseNames DEF Mine, Nobodys, Own, Owned, TransferredTo, ClaimedBy, Free,
                              Unreadable, Launcher, Helper
    <3>. QED
      BY <2>1, <3>1, <3>2, StrangerKeeps
  <2>. QED
    BY <2>2, <2>3
<1>. QED
    BY <1>1, <1>2, <1>3 DEF Order, SurfaceOrder

\* A step of an interface.
LEMMA SurfaceStepKeeps ==
    ASSUME TriesOK, Order, NEW s \in Surfaces, try' = try,
           \/ lease' = lease /\ record' = record
           \/ (lease = Owned(Surface(s)) \/ Nobodys) /\ (lease' = Owned(Surface(s)) \/ Nobodys'),
           \A t \in Surfaces : surface'[t].up => surface[t].up,
           \A t \in Surfaces \ {s} : SurfaceActs(t)' => SurfaceActs(t),
           SurfaceOrder(s)'
    PROVE  Order'
<1>1. LeaseForm'
  <2>1. CASE lease' = lease
    BY <2>1 DEF Order, LeaseForm, Nobodys, Mine, Own, Owned, TransferredTo, ClaimedBy, Free,
                Unreadable, Surface, Launcher, Helper
  <2>2. CASE lease' = Owned(Surface(s)) \/ Nobodys'
    BY <2>2 DEF LeaseForm, Owned, Surface
  <2>. QED
    BY <2>1, <2>2
<1>2. ASSUME NEW t \in Surfaces \ {s}, SurfaceActs(t)'
      PROVE  lease' = Owned(Surface(t))' /\ Transient'
  <2>1. lease = Owned(Surface(t)) /\ Transient
    BY <1>2 DEF Order, SurfaceOrder
  <2>2. lease # Owned(Surface(s)) /\ ~Nobodys
    BY <2>1, LeaseNames DEF Nobodys
  <2>. QED
    BY <2>1, <2>2 DEF Transient, Owned, Surface
<1>3. ASSUME NEW b \in Tries PROVE TryOrder(b)'
  <2>1. TryOrder(b)
    BY DEF Order
  <2>2. CASE lease' = lease /\ record' = record
    BY <2>1, <2>2, TryKept
  <2>3. CASE (lease = Owned(Surface(s)) \/ Nobodys) /\ (lease' = Owned(Surface(s)) \/ Nobodys')
    <3>1. ~Mine(b)
      BY <2>3, LeaseNames DEF Mine, Nobodys
    <3>2. ~Mine(b)'
      BY <2>3, LeaseNames DEF Mine, Nobodys, Own, Owned, TransferredTo, ClaimedBy, Free,
                              Unreadable, Launcher, Helper, Surface
    <3>. QED
      BY <2>1, <3>1, <3>2, StrangerKeeps
  <2>. QED
    BY <2>2, <2>3
<1>. QED
    BY <1>1, <1>2, <1>3 DEF Order, SurfaceOrder

\* Steps of nobody that has the lease, and the removal of a dead owner's.
LEMMA OrderKept ==
    ASSUME TriesOK, Order, UNCHANGED <<lease, record, surface, auto, try>>
    PROVE  Order'
<1>1. LeaseForm'
    BY DEF Order, LeaseForm, Nobodys, Mine, Own, Owned, TransferredTo, ClaimedBy, Free,
           Unreadable, Surface, Launcher, Helper
<1>2. \A s \in Surfaces : SurfaceOrder(s)'
    BY DEF Order, SurfaceOrder, SurfaceActs, Transient, Owned, Surface
<1>3. ASSUME NEW b \in Tries PROVE TryOrder(b)'
  <2>1. TryOrder(b)
    BY DEF Order
  <2>. QED
    BY <2>1, TryKept
<1>. QED
    BY <1>1, <1>2, <1>3 DEF Order

LEMMA DeadLeave ==
    ASSUME Order, Stale, lease' = Free, UNCHANGED <<surface, auto, try>>
    PROVE  Order'
<1>1. ASSUME NEW s \in Surfaces PROVE ~SurfaceActs(s)
  <2>. SUFFICES ASSUME SurfaceActs(s) PROVE FALSE
    OBVIOUS
  <2>1. lease.pid = Surface(s)
    BY LeaseFields DEF Order, SurfaceOrder
  <2>. QED
    BY <2>1, Living, ActorsLive DEF Stale
<1>2. ASSUME NEW a \in Tries PROVE ~LauncherActs(a) /\ ~HelperActs(a)
  <2>. SUFFICES ASSUME LauncherActs(a) \/ HelperActs(a) PROVE FALSE
    OBVIOUS
  <2>1. CASE LauncherActs(a)
    <3>1. lease.pid = Launcher(a)
      BY <2>1, LeaseFields DEF Order, TryOrder
    <3>. QED
      BY <2>1, <3>1, Living, ActorsLive DEF Stale
  <2>2. CASE HelperActs(a)
    <3>1. lease.pid = Helper(a)
      BY <2>2, LeaseFields DEF Order, TryOrder
    <3>. QED
      BY <2>2, <3>1, Living, ActorsLive DEF Stale
  <2>. QED
    BY <2>1, <2>2
<1>3. Nobodys'
    BY DEF Nobodys, Free
<1>4. \A s \in Surfaces : SurfaceOrder(s)'
    BY <1>1 DEF SurfaceOrder, SurfaceActs
<1>5. ASSUME NEW b \in Tries PROVE TryOrder(b)'
  <2>1. ~LauncherActs(b)' /\ ~HelperActs(b)'
    BY <1>2 DEF LauncherActs, HelperActs, At, HelperAt, Coordinating
  <2>2. lease' # TransferredTo(b)'
    BY LeaseNames DEF TransferredTo, Launcher, Helper, Free
  <2>. QED
    BY <2>1, <2>2 DEF TryOrder, LauncherActs, HelperActs, At, HelperAt, Engaged, Coordinating
<1>. QED
    BY <1>3, <1>4, <1>5 DEF Order, LeaseForm

-----------------------------------------------------------------------------
(* The coordination.                                                       *)

\* Whoever does not coordinate changes nothing of it.
LEMMA CoordinationKept ==
    ASSUME Coordination, UNCHANGED coordination,
           \A a \in Tries : HelperAt(a, Coordinating) \/ HelperAt(a, Coordinating)' =>
               try'[a].helper = try[a].helper
    PROVE  Coordination'
<1>0. UNCHANGED <<services, before, duty, failures>>
    BY DEF coordination
<1>1. \A a \in Tries : HelperAt(a, Coordinating)' <=> HelperAt(a, Coordinating)
    BY DEF HelperAt, Coordinating
<1>2. (\A a \in Tries : ~HelperAt(a, Coordinating)') => Rests'
    BY <1>0, <1>1 DEF Coordination, Rests, NoServices
<1>3. ASSUME NEW a \in Tries, HelperAt(a, Coordinating)'
      PROVE  Coordinated(a)'
  <2>1. Coordinated(a) /\ try'[a].helper = try[a].helper
    BY <1>1, <1>3 DEF Coordination
  <2>. QED
    BY <1>0, <2>1 DEF Coordinated, HelperAt, Waits, UnderService, Restored, Serves,
                      LocalBesideStopped, Local
<1>. QED
    BY <1>2, <1>3 DEF Coordination

\* There is one who coordinates, and what it does to Core and Sync stands or ends.
LEMMA OneCoordinates ==
    ASSUME Order, NEW a \in Tries, HelperActs(a)
    PROVE  \A b \in Tries \ {a} : ~HelperAt(b, Coordinating) /\ ~HelperActs(b)
<1>. SUFFICES ASSUME NEW b \in Tries \ {a}, HelperAt(b, Coordinating) \/ HelperActs(b)
              PROVE  FALSE
    OBVIOUS
<1>1. lease = ClaimedBy(a) /\ lease = ClaimedBy(b)
    BY SetsOfSteps DEF Order, TryOrder
<1>. QED
    BY <1>1, LeaseNames

LEMMA CoordinationGoesOn ==
    ASSUME NEW a \in Tries, \A b \in Tries \ {a} : ~HelperAt(b, Coordinating)',
           IF HelperAt(a, Coordinating)' THEN Coordinated(a)' ELSE Rests'
    PROVE  Coordination'
BY DEF Coordination


-----------------------------------------------------------------------------
(* What a step leaves alone keeps its type; what it moves is one surface,  *)
(* or one attempt.                                                         *)

LEMMA TypesKept ==
    ASSUME Types,
           UNCHANGED <<latest, installed, artifacts>> \/ ReleasesOK',
           UNCHANGED record \/ RecordOK',
           UNCHANGED lock \/ LeaseOK',
           UNCHANGED files \/ FilesOK',
           UNCHANGED <<terminals, surface, auto>> \/ SurfacesOK',
           UNCHANGED try \/ TriesOK',
           UNCHANGED coordination \/ CoordinationOK'
    PROVE  Types'
<1>1. ReleasesOK'
    BY DEF Types, ReleasesOK
<1>2. RecordOK'
    BY DEF Types, RecordOK
<1>3. LeaseOK'
  <2>1. CASE UNCHANGED lock
    <3>1. UNCHANGED <<lease, takers, raced>>
      BY <2>1 DEF lock
    <3>2. Leases' = Leases /\ Processes' = Processes
      BY DEF Leases, Processes, Free, Unreadable, Surface, Launcher, Helper, Tries
    <3>. QED
      BY <3>1, <3>2 DEF Types, LeaseOK
  <2>. QED
    BY <2>1
<1>4. FilesOK'
    BY DEF Types, FilesOK, files
<1>5. SurfacesOK'
    BY DEF Types, SurfacesOK
<1>6. TriesOK'
    BY DEF Types, TriesOK
<1>7. CoordinationOK'
    BY DEF Types, CoordinationOK, coordination
<1>. QED
    BY <1>1, <1>2, <1>3, <1>4, <1>5, <1>6, <1>7 DEF Types

\* What is shown changes nothing but the view.
LEMMA ShowsView ==
    ASSUME SurfacesOK, NEW s \in Surfaces, NEW r \in Records, Shows(s, r) \/ Reports(s, r)
    PROVE  /\ surface' \in [Surfaces -> SurfaceType]
           /\ \A t \in Surfaces : surface'[t].up = surface[t].up
<1>1. ViewOf(r) \in 0..MaxVersion
    BY DEF ViewOf, Records
<1>2. CASE Shows(s, r)
  <2>. DEFINE new == [surface[s] EXCEPT !.view = ViewOf(r)]
  <2>1. new \in SurfaceType /\ new.up = surface[s].up
    BY <1>1 DEF SurfacesOK, SurfaceType
  <2>2. surface' = [surface EXCEPT ![s] = new]
    BY <1>2 DEF Shows
  <2>. HIDE DEF new
  <2>. QED
    BY <2>1, <2>2 DEF SurfacesOK
<1>3. CASE UNCHANGED surface
    BY <1>3 DEF SurfacesOK
<1>. QED
    BY <1>2, <1>3 DEF Reports

\* One attempt goes on, as the one it was.
Moves(a, at, helper) ==
    /\ try' \in [Tries -> TryType] /\ \A b \in Tries \ {a} : try'[b] = try[b]
    /\ try'[a].at = at /\ try'[a].helper = helper
    /\ try'[a].by = try[a].by /\ try'[a].version = try[a].version /\ try'[a].took = try[a].took

LEMMA Replaced ==
    ASSUME try \in [Tries -> TryType], NEW a \in Tries, NEW new \in TryType,
           try' = [try EXCEPT ![a] = new]
    PROVE  /\ try' \in [Tries -> TryType] /\ try'[a] = new
           /\ \A b \in Tries \ {a} : try'[b] = try[b]
OBVIOUS

LEMMA BothMove ==
    ASSUME try \in [Tries -> TryType], NEW a \in Tries, NEW at \in LauncherAts,
           NEW helper \in HelperAts,
           try' = [try EXCEPT ![a] = [@ EXCEPT !.at = at, !.helper = helper]]
    PROVE  Moves(a, at, helper)
<1>. DEFINE new == [try[a] EXCEPT !.at = at, !.helper = helper]
<1>1. /\ new \in TryType /\ new.at = at /\ new.helper = helper /\ new.by = try[a].by
      /\ new.version = try[a].version /\ new.took = try[a].took
    BY DEF TryType
<1>2. try' = [try EXCEPT ![a] = new]
    OBVIOUS
<1>. HIDE DEF new
<1>. QED
    BY <1>1, <1>2, Replaced DEF Moves

LEMMA GoesMoves ==
    ASSUME try \in [Tries -> TryType], NEW a \in Tries, NEW at \in LauncherAts, Goes(a, at)
    PROVE  Moves(a, at, try[a].helper)
<1>. DEFINE new == [try[a] EXCEPT !.at = at]
<1>1. /\ new \in TryType /\ new.at = at /\ new.helper = try[a].helper /\ new.by = try[a].by
      /\ new.version = try[a].version /\ new.took = try[a].took
    BY DEF TryType
<1>2. try' = [try EXCEPT ![a] = new]
    BY DEF Goes
<1>. HIDE DEF new
<1>. QED
    BY <1>1, <1>2, Replaced DEF Moves

LEMMA HelperGoesMoves ==
    ASSUME try \in [Tries -> TryType], NEW a \in Tries, NEW helper \in HelperAts,
           HelperGoes(a, helper)
    PROVE  Moves(a, try[a].at, helper)
<1>. DEFINE new == [try[a] EXCEPT !.helper = helper]
<1>1. /\ new \in TryType /\ new.at = try[a].at /\ new.helper = helper /\ new.by = try[a].by
      /\ new.version = try[a].version /\ new.took = try[a].took
    BY DEF TryType
<1>2. try' = [try EXCEPT ![a] = new]
    BY DEF HelperGoes
<1>. HIDE DEF new
<1>. QED
    BY <1>1, <1>2, Replaced DEF Moves

LEMMA MovesTries ==
    ASSUME TriesOK, NEW a \in Tries, NEW at, NEW helper, Moves(a, at, helper),
           try[a].at # "unborn", at # "unborn"
    PROVE  TriesOK'
BY DEF TriesOK, Moves

-----------------------------------------------------------------------------
(* The interfaces.                                                         *)

\* A step of an interface that touches neither lease nor record nor attempt.
LEMMA SurfaceOnly ==
    ASSUME IInv, ~raced, NEW s \in Surfaces, SurfacesOK',
           UNCHANGED <<store, record, lock, files, try, coordination>>,
           \A t \in Surfaces : /\ surface'[t].up => surface[t].up
                               /\ SurfaceActs(t)' => SurfaceActs(t)
    PROVE  IInv'
<1>1. UNCHANGED <<latest, installed, artifacts, terminals, lease>>
    BY DEF store, lock
<1>2. Types'
    BY <1>1, TypesKept DEF IInv
<1>3. ReadyIsCached'
    BY <1>1 DEF IInv, ReadyIsCached
<1>4. Coordination'
    BY CoordinationKept DEF IInv
<1>5. Order'
  <2>1. SurfaceOrder(s)'
    BY <1>1 DEF IInv, Order, SurfaceOrder, Transient, Owned, Surface
  <2>. QED
    BY <1>1, <2>1, SurfaceStepKeeps DEF IInv, Types
<1>. QED
    BY <1>2, <1>3, <1>4, <1>5 DEF IInv

LEMMA LooksKeep ==
    ASSUME IInv, ~raced, NEW s \in Surfaces,
           CheckNotDue(s) \/ CheckFindsAnother(s) \/ Polls(s)
    PROVE  IInv'
<1>1. /\ UNCHANGED <<store, record, lock, files, try, coordination>>
      /\ Shows(s, record) \/ Reports(s, record)
      /\ auto' \in {auto, [auto EXCEPT ![s] = "off"]}
    BY DEF CheckNotDue, CheckFindsAnother, Polls
<1>2. record \in Records /\ SurfacesOK
    BY DEF IInv, Types, RecordOK
<1>3. /\ surface' \in [Surfaces -> SurfaceType]
      /\ \A t \in Surfaces : surface'[t].up = surface[t].up
    BY <1>1, <1>2, ShowsView
<1>4. /\ auto' \in [Surfaces -> {"asking", "checking", "off"}] /\ terminals' \subseteq Surfaces
      /\ \A t \in Surfaces : auto'[t] = "checking" => auto[t] = "checking"
    BY <1>1, <1>2 DEF SurfacesOK, store
<1>5. \A t \in Surfaces : SurfaceActs(t)' => SurfaceActs(t)
    BY <1>3, <1>4 DEF SurfaceActs
<1>. QED
    BY <1>1, <1>3, <1>4, <1>5, SurfaceOnly DEF SurfacesOK

LEMMA FreshTyped ==
    ASSUME SurfacesOK, installed \in 0..MaxVersion
    PROVE  /\ 0 \in 0..(MaxTries + MaxVersion)
           /\ \A s \in Surfaces : surface[s].view \in 0..(MaxTries + MaxVersion)
           /\ Fresh \in SurfaceType /\ [Fresh EXCEPT !.up = FALSE] \in SurfaceType
<1>1. MaxTries \in Nat /\ MaxVersion \in Nat
    OBVIOUS
<1>2. 0 \in 0..(MaxTries + MaxVersion) /\ 0 \in 0..MaxVersion
    BY <1>1
<1>3. \A v \in 0..MaxVersion : v \in 0..(MaxTries + MaxVersion)
    BY <1>1
<1>4. \A s \in Surfaces : surface[s].view \in 0..MaxVersion
    BY DEF SurfacesOK, SurfaceType
<1>. QED
    BY <1>2, <1>3, <1>4 DEF Fresh, SurfaceType

LEMMA AnswersKeep ==
    ASSUME IInv, ~raced, NEW s \in Surfaces, Confirms(s) \/ SeesResult(s) \/ Leaves(s)
    PROVE  IInv'
<1>1. UNCHANGED <<store, record, lock, files, try, coordination>> /\ surface[s].up
    BY DEF Confirms, SeesResult, Leaves
<1>2. SurfacesOK /\ installed \in 0..MaxVersion
    BY DEF IInv, Types, ReleasesOK
<1>3. PICK new \in SurfaceType : surface' = [surface EXCEPT ![s] = new]
  <2>0. surface[s] \in SurfaceType
    BY <1>2 DEF SurfacesOK
  <2>1. CASE Confirms(s)
    <3>1. [surface[s] EXCEPT !.ui = "checked", !.try = surface[s].view] \in SurfaceType
      BY <1>2, <2>0, FreshTyped DEF SurfaceType
    <3>2. surface' = [surface EXCEPT ![s] = [surface[s] EXCEPT !.ui = "checked", !.try = surface[s].view]]
      BY <2>1 DEF Confirms
    <3>. QED
      BY <3>1, <3>2
  <2>2. CASE surface' = [surface EXCEPT ![s].ui = "leaving"]
    <3>1. [surface[s] EXCEPT !.ui = "leaving"] \in SurfaceType
      BY <2>0 DEF SurfaceType
    <3>2. surface' = [surface EXCEPT ![s] = [surface[s] EXCEPT !.ui = "leaving"]]
      BY <2>2
    <3>. QED
      BY <3>1, <3>2
  <2>3. CASE surface' = [surface EXCEPT ![s].ui = "idle", ![s].try = 0]
    <3>1. [surface[s] EXCEPT !.ui = "idle", !.try = 0] \in SurfaceType
      BY <1>2, <2>0, FreshTyped DEF SurfaceType
    <3>2. surface' = [surface EXCEPT ![s] = [surface[s] EXCEPT !.ui = "idle", !.try = 0]]
      BY <2>3
    <3>. QED
      BY <3>1, <3>2
  <2>4. CASE Leaves(s)
    <3>1. [Fresh EXCEPT !.up = FALSE] \in SurfaceType
      BY <1>2, FreshTyped
    <3>. QED
      BY <2>4, <3>1 DEF Leaves
  <2>. QED
    BY <2>1, <2>2, <2>3, <2>4 DEF SeesResult
<1>4. auto' \in {auto, [auto EXCEPT ![s] = "off"], [auto EXCEPT ![s] = "asking"]}
    BY DEF Confirms, SeesResult, Leaves
<1>5. SurfacesOK'
    BY <1>1, <1>2, <1>3, <1>4 DEF SurfacesOK, store
<1>6. \A t \in Surfaces : surface'[t].up => surface[t].up
    BY <1>1, <1>2, <1>3 DEF SurfacesOK
<1>7. \A t \in Surfaces : SurfaceActs(t)' => SurfaceActs(t)
    BY <1>2, <1>4, <1>6 DEF SurfaceActs, SurfacesOK
<1>. QED
    BY <1>1, <1>5, <1>6, <1>7, SurfaceOnly

-----------------------------------------------------------------------------
(* The record and the lease as a check leaves them.                        *)

LEMMA LeasesAre ==
    /\ Free \in Leases /\ Unreadable \in Leases
    /\ \A s \in Surfaces : Owned(Surface(s)) \in Leases
    /\ \A a \in Tries : Own(a) \in Leases /\ TransferredTo(a) \in Leases /\ ClaimedBy(a) \in Leases
<1>1. /\ \A s \in Surfaces : Surface(s) \in Processes
      /\ \A a \in Tries : Launcher(a) \in Processes /\ Helper(a) \in Processes
    BY DEF Processes
<1>. QED
    BY <1>1 DEF Leases, Owned, Own, TransferredTo, ClaimedBy

LEMMA LeaseTyped ==
    ASSUME lease' \in Leases, takers' \subseteq Processes, raced' \in BOOLEAN
    PROVE  LeaseOK'
<1>1. Leases' = Leases /\ Processes' = Processes
    BY DEF Leases, Processes, Free, Unreadable, Surface, Launcher, Helper, Tries
<1>. QED
    BY <1>1 DEF LeaseOK

\* Lease names name the same before and after.
LEMMA NamesStay ==
    /\ Free' = Free /\ Unreadable' = Unreadable
    /\ \A s \in Surfaces : Owned(Surface(s))' = Owned(Surface(s))
    /\ \A a \in Tries : /\ Own(a)' = Own(a) /\ TransferredTo(a)' = TransferredTo(a)
                        /\ ClaimedBy(a)' = ClaimedBy(a)
BY DEF Free, Unreadable, Owned, Own, TransferredTo, ClaimedBy, Surface, Launcher, Helper

\* A check goes on to download, or comes to an end.
LEMMA ProgressIs ==
    ASSUME RecordOK, ReleasesOK, ReadyIsCached, Transient, NEW v \in 0..MaxVersion,
           record' = Progress(v), Downloads, UNCHANGED <<latest, installed>>
    PROVE  /\ RecordOK' /\ ReleasesOK' /\ ReadyIsCached'
           /\ record'.phase \in {"downloading", "current", "ready"}
           /\ record'.phase = "downloading" => Transient'
           /\ record'.phase # "current" => record'.candidate \in Versions
<1>0. 0 \in 0..MaxVersion /\ Versions \subseteq 0..MaxVersion
    BY DEF Versions
<1>1. CASE record.phase = "checking" /\ latest > v
  <2>1. record' = Downloading(v, latest) /\ UNCHANGED artifacts /\ latest \in Versions
    BY <1>1 DEF Progress, Downloads, ReleasesOK
  <2>2. /\ record' \in Records /\ record'.phase = "downloading" /\ record'.candidate = latest
    BY <1>0, <2>1 DEF Records, Downloading
  <2>. QED
    BY <2>1, <2>2 DEF RecordOK, Records, ReleasesOK, ReadyIsCached, Transient, Versions
<1>2. CASE record.phase = "checking" /\ ~(latest > v)
  <2>1. record' = Current(v) /\ UNCHANGED artifacts
    BY <1>2 DEF Progress, Downloads
  <2>2. record' \in Records /\ record'.phase = "current"
    BY <1>0, <2>1 DEF Records, Current
  <2>. QED
    BY <2>1, <2>2 DEF RecordOK, Records, ReleasesOK, ReadyIsCached, Transient, Versions
<1>3. CASE record.phase = "downloading"
  <2>1. /\ record' = ReadyTo(v, record.candidate) /\ artifacts' = artifacts \cup {record.candidate}
        /\ record.candidate \in Versions /\ record.candidate \in 0..MaxVersion
    BY <1>0, <1>3 DEF Progress, Downloads, RecordOK
  <2>2. record' \in Records /\ record'.phase = "ready" /\ record'.candidate = record.candidate
    BY <1>0, <2>1 DEF Records, ReadyTo
  <2>. QED
    BY <2>1, <2>2 DEF RecordOK, Records, ReleasesOK, ReadyIsCached, Transient, Versions
<1>. QED
    BY <1>1, <1>2, <1>3 DEF Transient

LEMMA BeginningIs ==
    ASSUME NEW v \in 0..MaxVersion, record' = Checking(v)
    PROVE  RecordOK' /\ ReadyIsCached' /\ Transient' /\ record' \in Records
<1>1. 0 \in 0..MaxVersion
    OBVIOUS
<1>2. record' \in Records /\ record'.phase = "checking"
    BY <1>1 DEF Records, Checking
<1>. QED
    BY <1>2 DEF RecordOK, Records, ReadyIsCached, Transient

LEMMA StoppedIs ==
    ASSUME RecordOK, NEW v \in 0..MaxVersion, record' = Stopped(v)
    PROVE  RecordOK' /\ ReadyIsCached' /\ record' \in Records
<1>1. record' \in Records /\ record'.phase = "failed"
    BY DEF RecordOK, Records, Stopped, Failed
<1>. QED
    BY <1>1 DEF RecordOK, Records, ReadyIsCached

\* A step of the check of a surface that has the lease, or takes it.
LEMMA ChecksKeep ==
    ASSUME IInv, ~raced, NEW s \in Surfaces, CheckBegins(s) \/ CheckAdvances(s) \/ CheckFails(s)
    PROVE  IInv'
<1>1. /\ UNCHANGED <<latest, installed, terminals, takers, raced, files, try, coordination>>
      /\ surface[s].up /\ Reports(s, record')
    BY DEF CheckBegins, CheckAdvances, CheckFails, store, Acquires
<1>2. /\ RecordOK /\ ReleasesOK /\ SurfacesOK /\ LeaseOK /\ TriesOK /\ ReadyIsCached /\ Order
      /\ surface[s].runs \in 0..MaxVersion
    BY DEF IInv, Types, SurfacesOK, SurfaceType
<1>3. CASE CheckBegins(s)
  <2>1. /\ record' = Checking(surface[s].runs) /\ lease = Free /\ lease' = Owned(Surface(s))
        /\ auto' = [auto EXCEPT ![s] = "checking"] /\ UNCHANGED artifacts
    BY <1>3 DEF CheckBegins, Acquires, store
  <2>2. RecordOK' /\ ReadyIsCached' /\ Transient' /\ record' \in Records
    BY <1>2, <2>1, BeginningIs
  <2>3. /\ surface' \in [Surfaces -> SurfaceType]
        /\ \A t \in Surfaces : surface'[t].up = surface[t].up
    BY <1>1, <1>2, <2>2, ShowsView
  <2>4. SurfacesOK'
    BY <1>1, <1>2, <2>1, <2>3 DEF SurfacesOK
  <2>5. LeaseOK'
    BY <1>1, <1>2, <2>1, LeasesAre, LeaseTyped DEF LeaseOK
  <2>6. Types'
    BY <1>1, <2>1, <2>2, <2>4, <2>5, TypesKept DEF IInv
  <2>7. Coordination'
    BY <1>1, CoordinationKept DEF IInv
  <2>8. SurfaceOrder(s)'
    BY <2>1, <2>2, NamesStay DEF SurfaceOrder
  <2>9. \A t \in Surfaces \ {s} : SurfaceActs(t)' => SurfaceActs(t)
    BY <1>2, <2>1, <2>3 DEF SurfaceActs, SurfacesOK
  <2>10. Order'
    BY <1>1, <1>2, <2>1, <2>3, <2>8, <2>9, SurfaceStepKeeps DEF Nobodys
  <2>. QED
    BY <2>2, <2>6, <2>7, <2>10 DEF IInv
<1>4. CASE CheckAdvances(s) \/ CheckFails(s)
  <2>0. SurfaceActs(s)
    BY <1>4 DEF CheckAdvances, CheckFails, SurfaceActs
  <2>1. lease = Owned(Surface(s)) /\ Transient
    BY <1>2, <2>0 DEF Order, SurfaceOrder
  <2>2. Released(Surface(s), Surface(s)) = Free
    BY <2>1, LeaseFields DEF Released
  <2>3. /\ RecordOK' /\ ReadyIsCached' /\ ReleasesOK'
        /\ \/ lease' = Free /\ auto' = [auto EXCEPT ![s] = "off"]
           \/ UNCHANGED <<lease, auto>> /\ Transient'
    <3>1. CASE CheckAdvances(s)
      <4>1. record' = Progress(surface[s].runs) /\ Downloads
        BY <3>1 DEF CheckAdvances
      <4>2. /\ RecordOK' /\ ReleasesOK' /\ ReadyIsCached'
            /\ record'.phase \in {"downloading", "current", "ready"}
            /\ record'.phase = "downloading" => Transient'
        BY <1>1, <1>2, <2>1, <4>1, ProgressIs
      <4>. QED
        BY <2>2, <3>1, <4>2 DEF CheckAdvances
    <3>2. CASE CheckFails(s)
      <4>1. /\ record' = Stopped(surface[s].runs) /\ UNCHANGED artifacts
            /\ lease' = Free /\ auto' = [auto EXCEPT ![s] = "off"]
        BY <2>2, <3>2 DEF CheckFails, store
      <4>2. RecordOK' /\ ReadyIsCached'
        BY <1>2, <4>1, StoppedIs
      <4>. QED
        BY <1>1, <1>2, <4>1, <4>2 DEF ReleasesOK
    <3>. QED
      BY <1>4, <3>1, <3>2
  <2>4. record' \in Records
    BY <2>3 DEF RecordOK, Records
  <2>5. /\ surface' \in [Surfaces -> SurfaceType]
        /\ \A t \in Surfaces : surface'[t].up = surface[t].up
    BY <1>1, <1>2, <2>4, ShowsView
  <2>6. SurfacesOK'
    BY <1>1, <1>2, <2>3, <2>5 DEF SurfacesOK
  <2>7. LeaseOK'
    BY <1>1, <1>2, <2>3, LeasesAre, LeaseTyped DEF LeaseOK
  <2>8. Types'
    BY <1>1, <2>3, <2>6, <2>7, TypesKept DEF IInv
  <2>9. Coordination'
    BY <1>1, CoordinationKept DEF IInv
  <2>10. SurfaceOrder(s)'
    <3>1. CASE lease' = Free /\ auto' = [auto EXCEPT ![s] = "off"]
      BY <1>2, <3>1 DEF SurfaceOrder, SurfaceActs, SurfacesOK
    <3>2. CASE UNCHANGED <<lease, auto>> /\ Transient'
      BY <2>1, <3>2, NamesStay DEF SurfaceOrder
    <3>. QED
      BY <2>3, <3>1, <3>2
  <2>11. \A t \in Surfaces \ {s} : SurfaceActs(t)' => SurfaceActs(t)
    BY <1>2, <2>3, <2>5 DEF SurfaceActs, SurfacesOK
  <2>12. lease' = Owned(Surface(s)) \/ Nobodys'
    BY <2>1, <2>3, NamesStay DEF Nobodys
  <2>13. Order'
    BY <1>1, <1>2, <2>1, <2>5, <2>10, <2>11, <2>12, SurfaceStepKeeps
  <2>. QED
    BY <2>3, <2>8, <2>9, <2>13 DEF IInv
<1>. QED
    BY <1>3, <1>4

-----------------------------------------------------------------------------
(* The launcher.                                                           *)

\* A step of one attempt that touches neither the record nor a surface, and
\* neither begins, nor continues, nor ends a coordination.
LEMMA QuietStep ==
    ASSUME IInv, ~raced, NEW a \in Tries, TriesOK', \A b \in Tries \ {a} : try'[b] = try[b],
           UNCHANGED <<store, record, raced, surface, auto, coordination>>, takers' \subseteq takers,
           lease' = lease \/ ((Mine(a) \/ Nobodys) /\ (Mine(a)' \/ Nobodys')),
           FilesOK',
           HelperAt(a, Coordinating) \/ HelperAt(a, Coordinating)' => try'[a].helper = try[a].helper,
           TryOrder(a)'
    PROVE  IInv'
<1>1. UNCHANGED <<latest, installed, artifacts, terminals>>
    BY DEF store
<1>2. lease' \in Leases
  <2>1. lease \in Leases
    BY DEF IInv, Types, LeaseOK
  <2>2. CASE Mine(a)' \/ Nobodys'
    BY <2>2, LeasesAre, NamesStay DEF Mine, Nobodys
  <2>. QED
    BY <2>1, <2>2
<1>3. LeaseOK'
    BY <1>2, LeaseTyped DEF IInv, Types, LeaseOK
<1>4. Types'
    BY <1>1, <1>3, TypesKept DEF IInv
<1>5. ReadyIsCached'
    BY <1>1 DEF IInv, ReadyIsCached
<1>6. Coordination'
    BY CoordinationKept DEF IInv, HelperAt
<1>7. Order'
    BY TryStep DEF IInv, Types, SurfaceActs
<1>. QED
    BY <1>4, <1>5, <1>6, <1>7 DEF IInv

\* Version v is ready after the step.
ReadyThen(v) == record'.phase = "ready" /\ record'.candidate = v

\* The order of an attempt, from where its launcher and helper are.
LEMMA OrderOf ==
    ASSUME NEW a \in Tries, NEW at, NEW helper, Moves(a, at, helper),
           at \in {"owner", "checking", "prompt", "write", "spawn", "transfer"} => lease' = Own(a),
           helper \in Coordinating \cup {"parent", "blocker", "restart"} => lease' = ClaimedBy(a),
           at = "checking" => Transient',
           (\/ at \in {"prompt", "write", "spawn", "transfer"}
            \/ lease' = TransferredTo(a)
            \/ helper \in Coordinating \cup {"parent", "blocker"}) => ReadyThen(try[a].version),
           lease' = TransferredTo(a) => at # "unborn",
           helper \in Coordinating \cup {"parent", "blocker"} => try[a].took = a,
           helper \in Coordinating \cup {"blocker"} => at \in {"unborn", "done", "failed", "dead"},
           helper \in Coordinating => IF try[a].by = Cli THEN at \in {"unborn", "done", "failed", "dead"}
                                      ELSE ~surface'[try[a].by].up
    PROVE  TryOrder(a)'
<1>1. /\ \A S : At(a, S)' <=> at \in S
      /\ \A S : HelperAt(a, S)' <=> helper \in S
      /\ LauncherRuns(a)' <=> at \notin {"unborn", "done", "failed", "dead"}
    BY DEF Moves, At, HelperAt, LauncherRuns
<1>2. /\ LauncherActs(a)' <=> at \in {"owner", "checking", "prompt", "write", "spawn", "transfer"}
      /\ HelperActs(a)' <=> helper \in Coordinating \cup {"parent", "blocker", "restart"}
      /\ Engaged(a)' <=> helper \in Coordinating \cup {"parent", "blocker"}
      /\ At(a, {"prompt", "write", "spawn", "transfer"})'
           <=> at \in {"prompt", "write", "spawn", "transfer"}
      /\ HelperAt(a, Coordinating)' <=> helper \in Coordinating
      /\ HelperAt(a, Coordinating \cup {"blocker"})' <=> helper \in Coordinating \cup {"blocker"}
    BY DEF Moves, LauncherActs, HelperActs, Engaged, At, HelperAt, Coordinating
<1>3. Ready(try[a].version)' <=> ReadyThen(try[a].version)
    BY DEF Moves, Ready, ReadyThen
<1>4. /\ try'[a].took = try[a].took /\ try'[a].by = try[a].by /\ try'[a].version = try[a].version
    BY DEF Moves
<1>5. (LauncherActs(a)' => lease' = Own(a)') /\ (HelperActs(a)' => lease' = ClaimedBy(a)')
    BY <1>2, NamesStay
<1>6. At(a, {"checking"})' => Transient'
    BY <1>1
<1>7. At(a, {"prompt", "write", "spawn", "transfer"})' \/ lease' = TransferredTo(a)' \/ Engaged(a)'
        => Ready(try[a].version)'
    BY <1>2, <1>3, NamesStay
<1>8. /\ lease' = TransferredTo(a)' => ~At(a, {"unborn"})'
      /\ Engaged(a)' => try'[a].took = a
      /\ HelperAt(a, Coordinating \cup {"blocker"})' => ~LauncherRuns(a)'
    BY <1>1, <1>2, <1>4, NamesStay
<1>9. HelperAt(a, Coordinating)' => BlockerGone(a)'
    BY <1>1, <1>2, <1>4 DEF BlockerGone
<1>. QED
    BY <1>5, <1>6, <1>7, <1>8, <1>9 DEF TryOrder

\* Where its launcher is before a step of it, and what that says.
LEMMA LauncherAt ==
    ASSUME IInv, ~raced, NEW a \in Tries
    PROVE  /\ TriesOK /\ try \in [Tries -> TryType] /\ try[a] \in TryType /\ FilesOK
           /\ try[a].at \in LauncherAts /\ try[a].helper \in HelperAts
           /\ LauncherActs(a) => lease = Own(a)
           /\ HelperActs(a) => lease = ClaimedBy(a)
           /\ LauncherActs(a) => ~HelperActs(a)
           /\ try[a].at = "checking" => Transient
           /\ lease = TransferredTo(a) => Ready(try[a].version) /\ try[a].at # "unborn"
           /\ try[a].at \in {"prompt", "write", "spawn", "transfer"} => Ready(try[a].version)
           /\ try[a].helper \in Coordinating \cup {"parent", "blocker"} =>
                try[a].took = a /\ Ready(try[a].version)
           /\ try[a].helper \in Coordinating \cup {"blocker"} =>
                try[a].at \in {"unborn", "done", "failed", "dead"}
           /\ try[a].helper \in Coordinating => BlockerGone(a)
<1>1. TriesOK /\ FilesOK /\ TryOrder(a)
    BY DEF IInv, Types, Order
<1>2. try[a] \in TryType /\ try \in [Tries -> TryType]
    BY <1>1 DEF TriesOK
<1>3. try[a].at \in LauncherAts /\ try[a].helper \in HelperAts
    BY <1>2 DEF TryType
<1>4. LauncherActs(a) => ~HelperActs(a)
    BY <1>1, LeaseNames DEF TryOrder
<1>5. (LauncherActs(a) => lease = Own(a)) /\ (HelperActs(a) => lease = ClaimedBy(a))
    BY <1>1 DEF TryOrder
<1>6. /\ try[a].at = "checking" => Transient
      /\ lease = TransferredTo(a) => Ready(try[a].version) /\ try[a].at # "unborn"
      /\ try[a].at \in {"prompt", "write", "spawn", "transfer"} => Ready(try[a].version)
    BY <1>1 DEF TryOrder, At
<1>7. try[a].helper \in Coordinating \cup {"parent", "blocker"} =>
        try[a].took = a /\ Ready(try[a].version)
    BY <1>1 DEF TryOrder, Engaged, HelperAt
<1>8. try[a].helper \in Coordinating \cup {"blocker"} =>
        try[a].at \in {"unborn", "done", "failed", "dead"}
    BY <1>1 DEF TryOrder, HelperAt, LauncherRuns
<1>9. try[a].helper \in Coordinating => BlockerGone(a)
    BY <1>1 DEF TryOrder, HelperAt
<1>. QED
    BY <1>1, <1>2, <1>3, <1>4, <1>5, <1>6, <1>7, <1>8, <1>9

\* The lease stays with the launcher, or with nobody.
LEMMA LeaseOnceReleased ==
    ASSUME NEW a \in Tries, lease = Own(a)
    PROVE  Released(Launcher(a), Launcher(a)) = Free /\ Mine(a)
BY LeaseFields DEF Released, Mine

\* The steps of a launcher that only move it on.
LEMMA LauncherGoes ==
    ASSUME IInv, ~raced, NEW a \in Tries,
           NEW at \in LauncherAts \ {"unborn", "checking"}, Goes(a, at), LauncherRuns(a),
           UNCHANGED <<store, record, takers, raced, surface, auto, coordination>>, FilesOK',
           lease' = lease \/ (lease \in {Own(a), Free} /\ lease' \in {Own(a), Free}),
           at \in {"owner", "prompt", "write", "spawn", "transfer"} => lease' = Own(a),
           at \in {"prompt", "write", "spawn", "transfer"} => Ready(try[a].version)
    PROVE  IInv'
<1>1. TriesOK /\ try \in [Tries -> TryType] /\ try[a].at # "unborn"
    BY LauncherAt DEF LauncherRuns
<1>2. Moves(a, at, try[a].helper)
    BY <1>1, GoesMoves
<1>3. TriesOK'
    BY <1>1, <1>2, MovesTries
<1>4. \A v : Ready(v) => ReadyThen(v)
    BY DEF Ready, ReadyThen
<1>5. try[a].helper \notin Coordinating \cup {"blocker"}
    BY LauncherAt DEF LauncherRuns
<1>6. HelperActs(a) => lease' = ClaimedBy(a) /\ lease' = lease
    BY LauncherAt, LeaseNames
<1>7. TryOrder(a)'
  <2>1. try[a].helper \in Coordinating \cup {"parent", "blocker", "restart"} => lease' = ClaimedBy(a)
    BY <1>6 DEF HelperActs, HelperAt
  <2>2. lease' = TransferredTo(a) => lease = TransferredTo(a)
    BY LeaseNames
  <2>3. (\/ at \in {"prompt", "write", "spawn", "transfer"}
         \/ lease' = TransferredTo(a)
         \/ try[a].helper \in Coordinating \cup {"parent", "blocker"}) => ReadyThen(try[a].version)
    BY <1>4, <2>2, LauncherAt
  <2>4. try[a].helper \in Coordinating \cup {"parent", "blocker"} => try[a].took = a
    BY LauncherAt
  <2>5. at # "unborn" /\ at # "checking"
    OBVIOUS
  <2>6. at \in {"owner", "checking", "prompt", "write", "spawn", "transfer"} => lease' = Own(a)
    BY <2>5
  <2>. QED
    BY <1>2, <1>5, <2>1, <2>3, <2>4, <2>5, <2>6, OrderOf
<1>8. lease' = lease \/ ((Mine(a) \/ Nobodys) /\ (Mine(a)' \/ Nobodys'))
    BY NamesStay DEF Mine, Nobodys
<1>9. /\ \A b \in Tries \ {a} : try'[b] = try[b]
      /\ HelperAt(a, Coordinating) \/ HelperAt(a, Coordinating)' => try'[a].helper = try[a].helper
    BY <1>2 DEF Moves
<1>. QED
    BY <1>3, <1>7, <1>8, <1>9, QuietStep

\* Whoever may remove the lease does, or leaves it.
LEMMA ReleasedIs ==
    ASSUME LeaseForm, NEW a \in Tries
    PROVE  /\ IF lease = Own(a) THEN Released(Launcher(a), Launcher(a)) = Free
              ELSE Released(Launcher(a), Launcher(a)) = lease
           /\ \A b : \/ Released(Helper(a), Launcher(b)) = lease
                     \/ /\ lease \in {TransferredTo(a), ClaimedBy(a)}
                        /\ Released(Helper(a), Launcher(b)) = Free
<1>1. CASE Nobodys
  <2>1. ~HasOwner /\ lease # Own(a)
    BY <1>1, LeaseFields, LeaseNames DEF Nobodys
  <2>. QED
    BY <2>1 DEF Released
<1>2. ASSUME NEW s \in Surfaces, lease = Owned(Surface(s))
      PROVE  lease # Own(a) /\ lease.pid # Launcher(a) /\ lease.pid # Helper(a)
    BY <1>2, LeaseFields, LeaseNames, Names
<1>3. ASSUME NEW b \in Tries, Mine(b), b # a
      PROVE  lease # Own(a) /\ lease.pid # Launcher(a) /\ lease.pid # Helper(a)
    BY <1>3, LeaseFields, LeaseNames, Names DEF Mine
<1>4. CASE lease = Own(a)
  <2>1. HasOwner /\ lease.pid = Launcher(a) /\ lease.token = Launcher(a) /\ lease.pid # Helper(a)
    BY <1>4, LeaseFields, Names
  <2>. QED
    BY <1>4, <2>1 DEF Released
<1>5. CASE lease \in {TransferredTo(a), ClaimedBy(a)}
  <2>1. lease # Own(a) /\ lease.pid = Helper(a) /\ lease.pid # Launcher(a)
    BY <1>5, LeaseFields, LeaseNames, Names
  <2>. QED
    BY <1>5, <2>1 DEF Released
<1>. QED
    BY <1>1, <1>2, <1>3, <1>4, <1>5 DEF LeaseForm, Mine, Released

LEMMA LauncherMovesOn ==
    ASSUME IInv, ~raced, NEW a \in Tries,
           \/ LauncherAcquires(a) \/ LauncherReads(a) \/ CommandAnswered(a)
           \/ LauncherWrites(a) \/ LauncherSeesClaim(a) \/ LauncherGivesUp(a)
           \/ LauncherUnwrites(a)
    PROVE  IInv'
<1>1. /\ UNCHANGED <<store, record, takers, raced, surface, auto, coordination, aged>>
      /\ LauncherRuns(a)
    BY DEF LauncherAcquires, LauncherReads, CommandAnswered, LauncherWrites, LauncherSeesClaim,
           LauncherGivesUp, LauncherUnwrites, LauncherRuns, At, lock, files, Acquires
<1>2. FilesOK /\ LeaseForm
    BY DEF IInv, Types, Order
<1>3. FilesOK'
  <2>1. a \in 0..MaxTries /\ 0 \in 0..MaxTries
    BY DEF Tries
  <2>. QED
    BY <1>1, <1>2, <2>1
    DEF LauncherAcquires, LauncherReads, CommandAnswered, LauncherWrites, LauncherSeesClaim,
        LauncherGivesUp, LauncherUnwrites, FilesOK, files, Reaps, Removed
<1>4. CASE LauncherAcquires(a)
  <2>1. CASE Acquires(Launcher(a)) /\ Goes(a, "owner")
    <3>1. lease = Free /\ lease' = Own(a)
      BY <2>1 DEF Acquires, Own
    <3>. QED
      BY <1>1, <1>3, <2>1, <3>1, LauncherGoes DEF LauncherAts
  <2>2. CASE Goes(a, "failed") /\ UNCHANGED lease
    BY <1>1, <1>3, <2>2, LauncherGoes DEF LauncherAts
  <2>. QED
    BY <1>4, <2>1, <2>2 DEF LauncherAcquires, lock
<1>5. CASE LauncherReads(a)
  <2>1. lease = Own(a)
    BY <1>5, LauncherAt DEF LauncherReads, LauncherActs, At
  <2>2. CASE Goes(a, "write") /\ Ready(try[a].version) /\ UNCHANGED lease
    BY <1>1, <1>3, <2>1, <2>2, LauncherGoes DEF LauncherAts
  <2>3. CASE Goes(a, "failed") /\ lease' = Released(Launcher(a), Launcher(a))
    BY <1>1, <1>3, <2>1, <2>3, LeaseOnceReleased, LauncherGoes DEF LauncherAts
  <2>. QED
    BY <1>5, <2>2, <2>3 DEF LauncherReads
<1>6. CASE CommandAnswered(a)
  <2>1. lease = Own(a) /\ Ready(try[a].version)
    BY <1>6, LauncherAt DEF CommandAnswered, LauncherActs, At
  <2>2. CASE Goes(a, "write") /\ UNCHANGED lease
    BY <1>1, <1>3, <2>1, <2>2, LauncherGoes DEF LauncherAts
  <2>3. CASE Goes(a, "failed") /\ lease' = Released(Launcher(a), Launcher(a))
    BY <1>1, <1>3, <2>1, <2>3, LeaseOnceReleased, LauncherGoes DEF LauncherAts
  <2>. QED
    BY <1>6, <2>2, <2>3 DEF CommandAnswered
<1>7. CASE LauncherWrites(a)
  <2>1. lease = Own(a) /\ Ready(try[a].version) /\ UNCHANGED lease
    BY <1>7, LauncherAt DEF LauncherWrites, LauncherActs, At, lock
  <2>2. Goes(a, "spawn") \/ Goes(a, "undo")
    BY <1>7 DEF LauncherWrites
  <2>. QED
    BY <1>1, <1>3, <2>1, <2>2, LauncherGoes DEF LauncherAts
<1>8. CASE LauncherSeesClaim(a) \/ LauncherGivesUp(a)
  <2>1. (Goes(a, "done") \/ Goes(a, "undo")) /\ UNCHANGED lease
    BY <1>8 DEF LauncherSeesClaim, LauncherGivesUp, lock
  <2>. QED
    BY <1>1, <1>3, <2>1, LauncherGoes DEF LauncherAts
<1>9. CASE LauncherUnwrites(a)
  <2>1. Goes(a, "failed") /\ lease' = Released(Launcher(a), Launcher(a))
    BY <1>9 DEF LauncherUnwrites
  <2>2. lease' = lease \/ (lease = Own(a) /\ lease' = Free)
    BY <1>2, <2>1, ReleasedIs
  <2>. QED
    BY <1>1, <1>3, <2>1, <2>2, LauncherGoes DEF LauncherAts
<1>. QED
    BY <1>4, <1>5, <1>6, <1>7, <1>8, <1>9

\* The steps of a launcher that concern its helper.
LEMMA LauncherSendsHelper ==
    ASSUME IInv, ~raced, NEW a \in Tries,
           LauncherSpawns(a) \/ LauncherTransfers(a) \/ LauncherUndoes(a)
    PROVE  IInv'
<1>1. /\ UNCHANGED <<store, record, takers, raced, surface, auto, coordination, files>>
      /\ LauncherRuns(a)
    BY DEF LauncherSpawns, LauncherTransfers, LauncherUndoes, LauncherRuns, At, lock
<1>2. /\ TriesOK /\ try \in [Tries -> TryType] /\ try[a].at # "unborn" /\ LeaseForm
      /\ try[a].helper \in HelperAts /\ try[a].helper \notin Coordinating \cup {"blocker"}
    BY <1>1, LauncherAt DEF LauncherRuns, IInv, Order
<1>3. FilesOK'
    BY <1>1, LauncherAt DEF FilesOK, files
<1>4. ASSUME NEW at \in LauncherAts \ {"unborn"}, NEW helper \in HelperAts, Moves(a, at, helper),
             helper \notin Coordinating, TryOrder(a)',
             lease' = lease \/ ((Mine(a) \/ Nobodys) /\ (Mine(a)' \/ Nobodys'))
      PROVE  IInv'
  <2>1. TriesOK'
    BY <1>2, <1>4, MovesTries
  <2>2. /\ \A b \in Tries \ {a} : try'[b] = try[b]
        /\ HelperAt(a, Coordinating) \/ HelperAt(a, Coordinating)' => try'[a].helper = try[a].helper
    BY <1>2, <1>4 DEF Moves, HelperAt, Coordinating
  <2>. QED
    BY <1>1, <1>3, <1>4, <2>1, <2>2, QuietStep
<1>5. \A v : Ready(v) => ReadyThen(v)
    BY <1>1 DEF Ready, ReadyThen
<1>6. CASE LauncherSpawns(a)
  <2>1. lease = Own(a) /\ Ready(try[a].version) /\ UNCHANGED lease
    BY <1>6, LauncherAt DEF LauncherSpawns, LauncherActs, At, lock
  <2>2. CASE Goes(a, "undo")
    BY <1>1, <1>3, <2>1, <2>2, LauncherGoes DEF LauncherAts
  <2>3. CASE try' = [try EXCEPT ![a].at = "transfer", ![a].helper = "claim"]
    <3>1. Moves(a, "transfer", "claim")
      BY <1>2, <2>3, BothMove DEF LauncherAts, HelperAts
    <3>2. TryOrder(a)'
      BY <1>5, <2>1, <3>1, OrderOf DEF Coordinating
    <3>. QED
      BY <1>4, <2>1, <3>1, <3>2 DEF LauncherAts, HelperAts, Coordinating
  <2>. QED
    BY <1>6, <2>2, <2>3 DEF LauncherSpawns
<1>7. CASE LauncherTransfers(a)
  <2>1. lease = Own(a) /\ Ready(try[a].version) /\ ~HelperActs(a)
    BY <1>7, LauncherAt DEF LauncherTransfers, LauncherActs, At
  <2>2. lease' = TransferredTo(a) /\ Goes(a, "await")
    BY <1>7, <2>1 DEF LauncherTransfers, Own, Owned, TransferredTo
  <2>3. Moves(a, "await", try[a].helper)
    BY <1>2, <2>2, GoesMoves DEF LauncherAts
  <2>4. TryOrder(a)'
    BY <1>5, <2>1, <2>2, <2>3, OrderOf DEF HelperActs, HelperAt
  <2>5. Mine(a) /\ Mine(a)'
    BY <2>1, <2>2, NamesStay DEF Mine
  <2>. QED
    BY <1>2, <1>4, <2>3, <2>4, <2>5 DEF LauncherAts
<1>8. CASE LauncherUndoes(a)
  <2>1. Moves(a, "unwrite", Terminated(a))
    <3>1. Terminated(a) \in HelperAts /\ "unwrite" \in LauncherAts
      BY <1>2 DEF LauncherAts, HelperAts, Terminated
    <3>2. try' = [try EXCEPT ![a] = [@ EXCEPT !.at = "unwrite", !.helper = Terminated(a)]]
      BY <1>2, <1>8 DEF LauncherUndoes, TryType
    <3>. QED
      BY <1>2, <3>1, <3>2, BothMove
  <2>2. Terminated(a) \in {"unborn", "ended", "dead"}
    BY DEF Terminated, HelperRuns
  <2>3. /\ lease' = lease \/ (lease \in {TransferredTo(a), ClaimedBy(a)} /\ lease' = Free)
    <3>1. HandedOver(a) => lease \in {TransferredTo(a), ClaimedBy(a)}
      <4>. SUFFICES ASSUME HandedOver(a) PROVE lease \in {TransferredTo(a), ClaimedBy(a)}
        OBVIOUS
      <4>1. ~Nobodys
        BY LeaseFields DEF HandedOver
      <4>2. \A s \in Surfaces : lease # Owned(Surface(s))
        BY LeaseFields, Names DEF HandedOver
      <4>3. \A b \in Tries : Mine(b) => b = a /\ lease # Own(a)
        BY LeaseFields, Names DEF HandedOver, Mine
      <4>. QED
        BY <1>2, <4>1, <4>2, <4>3 DEF LeaseForm, Mine
    <3>. QED
      BY <1>8, <3>1 DEF LauncherUndoes, CancelsTransfer
  <2>4. TryOrder(a)'
    <3>1. lease' = TransferredTo(a) => lease = TransferredTo(a)
      BY <2>3, LeaseNames
    <3>. QED
      BY <1>5, <2>1, <2>2, <3>1, LauncherAt, OrderOf DEF Coordinating
  <2>5. lease' = lease \/ ((Mine(a) \/ Nobodys) /\ (Mine(a)' \/ Nobodys'))
    BY <2>3, NamesStay DEF Mine, Nobodys
  <2>. QED
    BY <1>4, <2>1, <2>2, <2>4, <2>5 DEF LauncherAts, HelperAts, Coordinating
<1>. QED
    BY <1>6, <1>7, <1>8

-----------------------------------------------------------------------------
(* The attempts begin, and a command makes its own check.                  *)

\* Nobody has begun an attempt that is not made.
LEMMA Begins ==
    ASSUME IInv, ~raced, NEW a \in Unmade, NEW who \in Surfaces \cup {Cli}, NEW v \in 0..MaxVersion,
           try' = [try EXCEPT ![a] = Begun(who, v)],
           UNCHANGED <<store, record, lock, files, coordination>>, SurfacesOK',
           \A s \in Surfaces : /\ surface'[s].up => surface[s].up
                               /\ SurfaceActs(s)' => SurfaceActs(s)
    PROVE  IInv'
<1>. DEFINE new == Begun(who, v)
<1>1. /\ a \in Tries /\ try[a].at = "unborn" /\ try[a].helper = "unborn"
      /\ TriesOK /\ try \in [Tries -> TryType] /\ Order
    BY DEF Unmade, NoTry, IInv, Types, TriesOK
<1>2. /\ new \in TryType /\ new.at = "begin" /\ new.helper = "unborn" /\ new.by = who
  <2>1. 0 \in 0..MaxTries /\ "begin" \in LauncherAts /\ "unborn" \in HelperAts
    BY DEF LauncherAts, HelperAts
  <2>2. NoTry \in [by : {"nobody"}, version : {0}, at : {"unborn"}, helper : {"unborn"}, took : {0}]
    BY DEF NoTry
  <2>. QED
    BY <2>1, <2>2 DEF Begun, TryType
<1>3. /\ UNCHANGED <<latest, installed, artifacts, terminals, lease, takers, raced, record>>
      /\ try' = [try EXCEPT ![a] = new]
    BY DEF store, lock
<1>. HIDE DEF new
<1>4. /\ try' \in [Tries -> TryType] /\ try'[a] = new
      /\ \A b \in Tries \ {a} : try'[b] = try[b]
    BY <1>1, <1>2, <1>3, Replaced
<1>5. TriesOK'
    BY <1>1, <1>2, <1>4 DEF TriesOK
<1>6. Types'
    BY <1>3, <1>5, TypesKept DEF IInv
<1>7. ReadyIsCached'
    BY <1>3 DEF IInv, ReadyIsCached
<1>8. Coordination'
    BY <1>1, <1>2, <1>4, CoordinationKept DEF IInv, HelperAt, Coordinating
<1>9. TryOrder(a)'
  <2>1. lease' # TransferredTo(a)
    BY <1>1, <1>3 DEF Order, TryOrder, At
  <2>. QED
    BY <1>2, <1>4, <2>1, NamesStay
    DEF TryOrder, LauncherActs, HelperActs, Engaged, At, HelperAt, Coordinating
<1>10. Order'
    BY <1>1, <1>3, <1>4, <1>9, TryStep
<1>. QED
    BY <1>6, <1>7, <1>8, <1>10 DEF IInv

LEMMA BeginningsKeep ==
    ASSUME IInv, ~raced, RunsCommand \/ \E s \in Surfaces : Launches(s)
    PROVE  IInv'
<1>0. SurfacesOK /\ 0 \in 0..MaxVersion /\ installed \in 0..MaxVersion
    BY DEF IInv, Types, ReleasesOK
<1>1. CASE RunsCommand
  <2>1. PICK a \in Unmade : try' = [try EXCEPT ![a] = Begun(Cli, 0)]
    BY <1>1 DEF RunsCommand
  <2>2. UNCHANGED <<store, record, lock, files, coordination, surface, auto>>
    BY <1>1 DEF RunsCommand
  <2>3. SurfacesOK'
    BY <1>0, <2>2 DEF SurfacesOK, store
  <2>4. \A s \in Surfaces : (SurfaceActs(s)' => SurfaceActs(s)) /\ surface'[s].up = surface[s].up
    BY <2>2 DEF SurfaceActs
  <2>. QED
    BY <1>0, <2>1, <2>2, <2>3, <2>4, Begins
<1>2. ASSUME NEW s \in Surfaces, Launches(s) PROVE IInv'
  <2>0. /\ UNCHANGED <<store, record, lock, files, coordination>>
        /\ surface[s] \in SurfaceType /\ surface[s].view \in 0..MaxVersion
    BY <1>0, <1>2 DEF Launches, SurfacesOK, SurfaceType
  <2>1. auto' \in {auto, [auto EXCEPT ![s] = "off"]}
    BY <1>2 DEF Launches
  <2>2. ASSUME NEW ui \in {"idle", "launching"}, NEW n \in 0..(MaxTries + MaxVersion),
               surface' = [surface EXCEPT ![s].ui = ui, ![s].try = n]
        PROVE  /\ SurfacesOK'
               /\ \A t \in Surfaces : /\ surface'[t].up = surface[t].up
                                      /\ SurfaceActs(t)' => SurfaceActs(t)
    <3>. DEFINE new == [surface[s] EXCEPT !.ui = ui, !.try = n]
    <3>1. new \in SurfaceType /\ new.up = surface[s].up
      BY <2>0, <2>2 DEF SurfaceType
    <3>2. surface' = [surface EXCEPT ![s] = new]
      BY <2>2
    <3>. HIDE DEF new
    <3>3. /\ surface' \in [Surfaces -> SurfaceType]
          /\ \A t \in Surfaces : surface'[t].up = surface[t].up
      BY <1>0, <3>1, <3>2 DEF SurfacesOK
    <3>4. SurfacesOK'
      BY <1>0, <2>0, <2>1, <3>3 DEF SurfacesOK, store
    <3>. QED
      BY <1>0, <2>1, <3>3, <3>4 DEF SurfaceActs, SurfacesOK
  <2>3. CASE surface[s].view = surface[s].try /\ Unmade # {}
    <3>1. PICK a \in Unmade : /\ try' = [try EXCEPT ![a] = Begun(s, surface[s].view)]
                              /\ surface' = [surface EXCEPT ![s].ui = "launching", ![s].try = a]
      BY <1>2, <2>3 DEF Launches
    <3>2. a \in 0..(MaxTries + MaxVersion)
      <4>1. a \in 1..MaxTries /\ MaxTries \in Nat /\ MaxVersion \in Nat
        BY DEF Unmade, Tries
      <4>. QED
        BY <4>1
    <3>. QED
      BY <2>0, <2>2, <3>1, <3>2, Begins
  <2>4. CASE ~(surface[s].view = surface[s].try /\ Unmade # {})
    <3>1. /\ surface' = [surface EXCEPT ![s].ui = "idle", ![s].try = 0] /\ UNCHANGED try
      BY <1>2, <2>4 DEF Launches
    <3>. QED
      BY <1>0, <2>0, <2>2, <3>1, FreshTyped, SurfaceOnly
  <2>. QED
    BY <2>3, <2>4
<1>. QED
    BY <1>1, <1>2

\* A step of the check that a command makes, under its own lease.
LEMMA CommandStep ==
    ASSUME IInv, ~raced, NEW a \in Tries, lease = Own(a), TriesOK',
           \A b \in Tries \ {a} : try'[b] = try[b], try'[a].helper = try[a].helper,
           UNCHANGED <<latest, installed, terminals, takers, raced, surface, auto, coordination>>,
           RecordOK', ReleasesOK', ReadyIsCached', FilesOK',
           lease' \in {Own(a), Free}, TryOrder(a)'
    PROVE  IInv'
<1>1. LeaseOK'
    BY LeasesAre, LeaseTyped DEF IInv, Types, LeaseOK
<1>2. Types'
    BY <1>1, TypesKept DEF IInv
<1>3. Coordination'
    BY CoordinationKept DEF IInv, HelperAt
<1>4. Mine(a) /\ (Mine(a)' \/ Nobodys')
    BY NamesStay DEF Mine, Nobodys
<1>5. Order'
    BY <1>4, TryStep DEF IInv, Types, SurfaceActs
<1>. QED
    BY <1>2, <1>3, <1>5 DEF IInv

LEMMA CommandsKeep ==
    ASSUME IInv, ~raced, NEW a \in Tries,
           CommandChecks(a) \/ CommandAdvances(a) \/ CommandFails(a)
    PROVE  IInv'
<1>1. /\ UNCHANGED <<latest, installed, terminals, takers, raced, surface, auto, coordination>>
      /\ LauncherActs(a)
    BY DEF CommandChecks, CommandAdvances, CommandFails, store, lock, LauncherActs, At
<1>2. /\ lease = Own(a) /\ ~HelperActs(a) /\ TriesOK /\ try \in [Tries -> TryType]
      /\ try[a] \in TryType /\ try[a].at # "unborn" /\ FilesOK
    BY <1>1, LauncherAt DEF LauncherActs, At
<1>3. /\ RecordOK /\ ReleasesOK /\ ReadyIsCached /\ record.current \in 0..MaxVersion
      /\ installed \in 0..MaxVersion
    BY DEF IInv, Types, RecordOK, Records, ReleasesOK
<1>4. try[a].helper \notin Coordinating \cup {"parent", "blocker", "restart"}
    BY <1>2 DEF HelperActs, HelperAt
<1>5. Released(Launcher(a), Launcher(a)) = Free
    BY <1>2, LeaseOnceReleased
<1>6. FilesOK'
    BY <1>2 DEF CommandChecks, CommandAdvances, CommandFails, FilesOK, files, Reaps
<1>7. ASSUME NEW at \in LauncherAts \ {"unborn"}, Goes(a, at), RecordOK', ReleasesOK', ReadyIsCached',
             (lease' = Free /\ at = "failed") \/ (lease' = Own(a) /\ at = "checking" /\ Transient')
      PROVE  IInv'
  <2>1. Moves(a, at, try[a].helper)
    BY <1>2, <1>7, GoesMoves
  <2>2. TriesOK'
    BY <1>2, <1>7, <2>1, MovesTries
  <2>3. lease' # TransferredTo(a)
    BY <1>2, <1>7, LeaseNames
  <2>4. TryOrder(a)'
    BY <1>4, <1>7, <2>1, <2>3, OrderOf
  <2>. QED
    BY <1>1, <1>2, <1>6, <1>7, <2>1, <2>2, <2>4, CommandStep DEF Moves
<1>8. CASE CommandChecks(a)
  <2>1. /\ record' = Checking(installed) /\ UNCHANGED <<lease, artifacts>> /\ Goes(a, "checking")
    BY <1>8 DEF CommandChecks, lock, store
  <2>2. RecordOK' /\ ReadyIsCached' /\ Transient'
    BY <1>3, <2>1, BeginningIs
  <2>3. ReleasesOK'
    BY <1>1, <1>3, <2>1 DEF ReleasesOK, Versions
  <2>. QED
    BY <1>2, <1>7, <2>1, <2>2, <2>3 DEF LauncherAts
<1>9. CASE CommandFails(a)
  <2>1. /\ record' = Stopped(record.current) /\ UNCHANGED artifacts /\ Goes(a, "failed")
        /\ lease' = Free
    BY <1>5, <1>9 DEF CommandFails, store
  <2>2. RecordOK' /\ ReadyIsCached'
    BY <1>3, <2>1, StoppedIs
  <2>3. ReleasesOK'
    BY <1>1, <1>3, <2>1 DEF ReleasesOK, Versions
  <2>. QED
    BY <1>7, <2>1, <2>2, <2>3 DEF LauncherAts
<1>10. CASE CommandAdvances(a)
  <2>0. Transient /\ try[a].at = "checking"
    BY <1>10, LauncherAt DEF CommandAdvances, At
  <2>1. record' = Progress(record.current) /\ Downloads
    BY <1>10 DEF CommandAdvances
  <2>2. /\ RecordOK' /\ ReleasesOK' /\ ReadyIsCached'
        /\ record'.phase \in {"downloading", "current", "ready"}
        /\ record'.phase = "downloading" => Transient'
        /\ record'.phase # "current" => record'.candidate \in Versions
    BY <1>1, <1>3, <2>0, <2>1, ProgressIs
  <2>3. CASE record'.phase = "current"
    <3>1. Goes(a, "failed") /\ lease' = Free
      BY <1>5, <1>10, <2>3 DEF CommandAdvances
    <3>. QED
      BY <1>7, <2>2, <3>1 DEF LauncherAts
  <2>4. CASE record'.phase # "current"
    <3>. DEFINE at == IF record'.phase = "ready" THEN "prompt" ELSE "checking"
                v == record'.candidate
                new == [try[a] EXCEPT !.version = v, !.at = at]
    <3>1. v \in 0..MaxVersion /\ at \in LauncherAts /\ at # "unborn"
      BY <2>2, <2>4 DEF Versions, LauncherAts
    <3>2. try' = [try EXCEPT ![a] = new] /\ lease' = Own(a)
      BY <1>2, <1>10, <2>0, <2>4 DEF CommandAdvances, TryType
    <3>3. (at = "prompt" /\ record'.phase = "ready") \/ (at = "checking" /\ Transient')
      BY <2>2, <2>4
    <3>4. v = record'.candidate
      OBVIOUS
    <3>. HIDE DEF at, v
    <3>5. /\ new \in TryType /\ new.at = at /\ new.version = v /\ new.helper = try[a].helper
          /\ new.by = try[a].by /\ new.took = try[a].took
      BY <1>2, <3>1 DEF TryType
    <3>. HIDE DEF new
    <3>6. /\ try' \in [Tries -> TryType] /\ try'[a] = new
          /\ \A b \in Tries \ {a} : try'[b] = try[b]
      BY <1>2, <3>2, <3>5, Replaced
    <3>7. TriesOK'
      BY <1>2, <3>1, <3>5, <3>6 DEF TriesOK
    <3>8. TryOrder(a)'
      <4>1. /\ \A S : At(a, S)' <=> at \in S
            /\ ~HelperActs(a)' /\ ~Engaged(a)'
            /\ ~HelperAt(a, Coordinating \cup {"blocker"})' /\ ~HelperAt(a, Coordinating)'
        BY <1>4, <3>5, <3>6 DEF At, HelperActs, Engaged, HelperAt, Coordinating
      <4>2. LauncherActs(a)' => lease' = Own(a)'
        BY <3>2, NamesStay
      <4>3. lease' # TransferredTo(a)'
        BY <3>2, NamesStay, LeaseNames
      <4>4. at = "checking" \/ (at = "prompt" /\ Ready(try[a].version)')
        BY <3>3, <3>4, <3>5, <3>6 DEF Ready
      <4>5. (At(a, {"checking"})' => at = "checking") /\ ~At(a, {"unborn"})'
        BY <3>1, <4>1
      <4>6. At(a, {"prompt", "write", "spawn", "transfer"})' => at # "checking"
        BY <4>1
      <4>. QED
        BY <3>3, <4>1, <4>2, <4>3, <4>4, <4>5, <4>6 DEF TryOrder
    <3>. QED
      BY <1>1, <1>2, <1>6, <2>2, <3>2, <3>5, <3>6, <3>7, <3>8, CommandStep
  <2>. QED
    BY <2>3, <2>4
<1>. QED
    BY <1>8, <1>9, <1>10

\* The launcher is killed when it takes too long, at whatever it is.
LEMMA TimeoutKeeps ==
    ASSUME IInv, ~raced, NEW s \in Surfaces, LaunchTimesOut(s)
    PROVE  IInv'
<1>. DEFINE new == [surface[s] EXCEPT !.ui = "leaving"]
<1>1. /\ UNCHANGED <<latest, installed, artifacts, terminals, record, lock, files, auto, coordination>>
      /\ UNCHANGED <<lease, takers, raced>> /\ surface' = [surface EXCEPT ![s] = new]
      /\ try' = [try EXCEPT ![surface[s].try].at = "dead"] /\ LauncherRuns(surface[s].try)
    BY DEF LaunchTimesOut, store, lock
<1>2. /\ SurfacesOK /\ TriesOK /\ try \in [Tries -> TryType] /\ Order
    BY DEF IInv, Types, TriesOK
<1>3. new \in SurfaceType /\ new.up = surface[s].up
    BY <1>2 DEF SurfacesOK, SurfaceType
<1>. HIDE DEF new
<1>4. /\ SurfacesOK'
      /\ \A t \in Surfaces : /\ surface'[t].up = surface[t].up
                             /\ SurfaceActs(t)' => SurfaceActs(t)
    BY <1>1, <1>2, <1>3 DEF SurfacesOK, SurfaceActs
<1>5. ReadyIsCached'
    BY <1>1 DEF IInv, ReadyIsCached
<1>6. ASSUME NEW a \in Tries, surface[s].try = a PROVE IInv'
  <2>1. Goes(a, "dead") /\ try[a].at # "unborn" /\ LauncherRuns(a)
    BY <1>1, <1>6 DEF Goes, LauncherRuns
  <2>2. Moves(a, "dead", try[a].helper)
    BY <1>2, <2>1, GoesMoves DEF LauncherAts
  <2>3. TriesOK'
    BY <1>2, <2>1, <2>2, MovesTries
  <2>4. Types'
    BY <1>1, <1>4, <2>3, TypesKept DEF IInv
  <2>5. Coordination'
    BY <1>1, <2>1, <2>2, CoordinationKept DEF IInv, HelperAt, Moves
  <2>6. TryOrder(a)'
    <3>1. /\ try[a].helper \in Coordinating \cup {"parent", "blocker", "restart"} => lease' = ClaimedBy(a)
          /\ try[a].helper \notin Coordinating
      BY <1>1, <2>1, LauncherAt DEF HelperActs, HelperAt, LauncherRuns
    <3>2. \A v : Ready(v) => ReadyThen(v)
      BY <1>1 DEF Ready, ReadyThen
    <3>. QED
      BY <1>1, <2>1, <2>2, <3>1, <3>2, LauncherAt, OrderOf
  <2>7. Order'
    BY <1>1, <1>2, <1>4, <2>1, <2>2, <2>6, TryStep DEF Moves
  <2>. QED
    BY <1>5, <2>4, <2>5, <2>7 DEF IInv
<1>7. CASE surface[s].try \notin Tries
  <2>1. try' = try
    BY <1>1, <1>2, <1>7
  <2>2. Types'
    BY <1>1, <1>4, <2>1, TypesKept DEF IInv
  <2>3. Coordination'
    BY <1>1, <2>1, CoordinationKept DEF IInv
  <2>4. SurfaceOrder(s)'
    BY <1>1, <1>2, <1>4, NamesStay DEF Order, SurfaceOrder, Transient
  <2>5. Order'
    BY <1>1, <1>2, <1>4, <2>1, <2>4, SurfaceStepKeeps
  <2>. QED
    BY <1>5, <2>2, <2>3, <2>5 DEF IInv
<1>. QED
    BY <1>6, <1>7

-----------------------------------------------------------------------------
(* The helper, outside the coordination.                                   *)

LEMMA HelperLives ==
    ASSUME IInv, NEW a \in Tries, HelperRuns(a)
    PROVE  try[a].at # "unborn"
BY DEF IInv, Types, TriesOK, HelperRuns

LEMMA HelperMovesOn ==
    ASSUME IInv, ~raced, NEW a \in Tries, NEW to \in HelperAts \ Coordinating, HelperGoes(a, to),
           HelperRuns(a), try[a].helper \notin Coordinating,
           UNCHANGED <<store, record, raced, surface, auto, coordination>>, takers' \subseteq takers, FilesOK',
           \/ lease' = lease
           \/ lease = TransferredTo(a) /\ lease' = ClaimedBy(a)
           \/ lease \in {TransferredTo(a), ClaimedBy(a)} /\ lease' = Free,
           to \in {"parent", "blocker", "restart"} => lease' = ClaimedBy(a),
           to \in {"parent", "blocker"} => try[a].took = a /\ Ready(try[a].version),
           to = "blocker" => ~LauncherRuns(a)
    PROVE  IInv'
<1>1. TriesOK /\ try \in [Tries -> TryType] /\ try[a].at # "unborn" /\ try[a].at \in LauncherAts
    BY LauncherAt, HelperLives
<1>2. Moves(a, try[a].at, to)
    BY <1>1, HelperGoesMoves
<1>3. TriesOK'
    BY <1>1, <1>2, MovesTries
<1>4. \A v : Ready(v) => ReadyThen(v)
    BY DEF Ready, ReadyThen
<1>5. TryOrder(a)'
  <2>1. try[a].at \in {"owner", "checking", "prompt", "write", "spawn", "transfer"} => lease' = Own(a)
    BY LauncherAt, LeaseNames DEF LauncherActs, At
  <2>2. to \in Coordinating \cup {"parent", "blocker", "restart"} => lease' = ClaimedBy(a)
    OBVIOUS
  <2>3. try[a].at = "checking" => Transient'
    BY LauncherAt DEF Transient
  <2>4. lease' = TransferredTo(a) => lease = TransferredTo(a)
    BY LeaseNames
  <2>5. (\/ try[a].at \in {"prompt", "write", "spawn", "transfer"}
         \/ lease' = TransferredTo(a)
         \/ to \in Coordinating \cup {"parent", "blocker"}) => ReadyThen(try[a].version)
    BY <1>4, <2>4, LauncherAt
  <2>6. to \in Coordinating \cup {"blocker"} => try[a].at \in {"unborn", "done", "failed", "dead"}
    BY DEF LauncherRuns
  <2>. QED
    BY <1>1, <1>2, <2>1, <2>2, <2>3, <2>5, <2>6, OrderOf
<1>6. lease' = lease \/ ((Mine(a) \/ Nobodys) /\ (Mine(a)' \/ Nobodys'))
    BY NamesStay DEF Mine, Nobodys
<1>7. /\ \A b \in Tries \ {a} : try'[b] = try[b]
      /\ HelperAt(a, Coordinating) \/ HelperAt(a, Coordinating)' => try'[a].helper = try[a].helper
    BY <1>2 DEF Moves, HelperAt, Coordinating
<1>. QED
    BY <1>3, <1>5, <1>6, <1>7, QuietStep

LEMMA HelpersMove ==
    ASSUME IInv, ~raced, NEW a \in Tries,
           \/ HelperValidates(a) \/ HelperClaimsLease(a) \/ HelperGivesUpLease(a)
           \/ HelperSeesParentGone(a) \/ HelperGivesUpWaiting(a)
           \/ HelperRemoves(a) \/ HelperReleases(a)
    PROVE  IInv'
<1>1. /\ UNCHANGED <<store, record, takers, raced, surface, auto, coordination, aged>>
      /\ HelperRuns(a) /\ try[a].helper \notin Coordinating
    BY DEF HelperValidates, HelperClaimsLease, HelperGivesUpLease, HelperSeesParentGone,
           HelperGivesUpWaiting, HelperRemoves, HelperReleases, Steps, HelperAt, HelperRuns,
           Coordinating, lock, files
<1>2. FilesOK /\ LeaseForm
    BY DEF IInv, Types, Order
<1>3. FilesOK'
  <2>1. 0 \in 0..MaxTries
    OBVIOUS
  <2>. QED
    BY <1>1, <1>2, <2>1
    DEF HelperValidates, HelperClaimsLease, HelperGivesUpLease, HelperSeesParentGone,
        HelperGivesUpWaiting, HelperRemoves, HelperReleases, FilesOK, files, Removed
<1>4. {"lease", "parent", "blocker", "unwind", "release", "ended"} \subseteq HelperAts \ Coordinating
    BY DEF HelperAts, Coordinating
<1>5. CASE HelperValidates(a) \/ HelperGivesUpLease(a) \/ HelperGivesUpWaiting(a) \/ HelperRemoves(a)
  <2>1. PICK to \in {"lease", "unwind", "release"} : HelperGoes(a, to)
    BY <1>5 DEF HelperValidates, HelperGivesUpLease, HelperGivesUpWaiting, HelperRemoves, Steps
  <2>2. UNCHANGED lease
    BY <1>5 DEF HelperValidates, HelperGivesUpLease, HelperGivesUpWaiting, HelperRemoves, lock
  <2>. QED
    BY <1>1, <1>3, <1>4, <2>1, <2>2, HelperMovesOn
<1>6. CASE HelperClaimsLease(a)
  <2>1. /\ HasOwner /\ lease.pid = Helper(a) /\ lease.phase = "transferred"
        /\ lease.token = Launcher(try[a].took) /\ lease' = [lease EXCEPT !.phase = "claimed"]
        /\ HelperGoes(a, "parent")
    BY <1>6 DEF HelperClaimsLease
  <2>2. lease = TransferredTo(a)
    <3>1. ~Nobodys /\ \A s \in Surfaces : lease # Owned(Surface(s))
      BY <2>1, LeaseFields, Names
    <3>2. \A b \in Tries : Mine(b) => lease = TransferredTo(b)
      BY <2>1, LeaseFields DEF Mine
    <3>. QED
      BY <1>2, <2>1, <3>1, <3>2, LeaseFields, Names DEF LeaseForm
  <2>3. lease' = ClaimedBy(a)
    BY <2>1, <2>2 DEF TransferredTo, ClaimedBy
  <2>4. try[a].took = a
    BY <2>1, <2>2 DEF TransferredTo, Launcher
  <2>5. Ready(try[a].version)
    BY <2>2, LauncherAt
  <2>. QED
    BY <1>1, <1>3, <1>4, <2>1, <2>2, <2>3, <2>4, <2>5, HelperMovesOn
<1>7. CASE HelperSeesParentGone(a)
  <2>1. /\ HelperGoes(a, "blocker") /\ UNCHANGED lease /\ ~LauncherRuns(a)
        /\ try[a].helper = "parent"
    BY <1>7 DEF HelperSeesParentGone, lock, HelperAt
  <2>2. lease' = ClaimedBy(a) /\ try[a].took = a /\ Ready(try[a].version)
    BY <2>1, LauncherAt DEF HelperActs, HelperAt
  <2>. QED
    BY <1>1, <1>3, <1>4, <2>1, <2>2, HelperMovesOn
<1>8. CASE HelperReleases(a)
  <2>1. HelperGoes(a, "ended")
    BY <1>8 DEF HelperReleases, Steps
  <2>2. lease' = lease \/ (lease \in {TransferredTo(a), ClaimedBy(a)} /\ lease' = Free)
    BY <1>2, <1>8, ReleasedIs DEF HelperReleases
  <2>. QED
    BY <1>1, <1>3, <1>4, <2>1, <2>2, HelperMovesOn
<1>. QED
    BY <1>5, <1>6, <1>7, <1>8

\* The helper claims whatever handoff it finds.
LEMMA ClaimKeeps ==
    ASSUME IInv, ~raced, NEW a \in Tries, HelperClaims(a)
    PROVE  IInv'
<1>1. /\ UNCHANGED <<store, record, lock, aged, surface, auto, coordination>>
      /\ HelperRuns(a) /\ try[a].helper = "claim"
    BY DEF HelperClaims, HelperRuns, HelperAt
<1>2. /\ FilesOK /\ TriesOK /\ try \in [Tries -> TryType] /\ try[a] \in TryType
      /\ try[a].at # "unborn" /\ Order /\ TryOrder(a)
    BY <1>1, LauncherAt, HelperLives DEF IInv, Types, Order
<1>3. FilesOK'
  <2>1. pending \in 0..MaxTries /\ 0 \in 0..MaxTries /\ (pending # 0 => pending \in Tries)
    BY <1>2 DEF FilesOK, Tries
  <2>. QED
    BY <1>1, <1>2, <2>1 DEF HelperClaims, FilesOK
<1>4. UNCHANGED <<lease, takers, raced>>
    BY <1>1 DEF lock
<1>5. CASE HelperGoes(a, "ended")
    BY <1>1, <1>3, <1>4, <1>5, HelperMovesOn DEF HelperAts, Coordinating
<1>6. CASE try' = [try EXCEPT ![a].helper = "validate", ![a].took = pending]
  <2>. DEFINE new == [try[a] EXCEPT !.helper = "validate", !.took = pending]
  <2>1. /\ new \in TryType /\ new.helper = "validate" /\ new.at = try[a].at
        /\ new.by = try[a].by /\ new.version = try[a].version
    BY <1>2 DEF TryType, HelperAts, FilesOK
  <2>2. try' = [try EXCEPT ![a] = new]
    BY <1>6
  <2>. HIDE DEF new
  <2>3. /\ try' \in [Tries -> TryType] /\ try'[a] = new
        /\ \A b \in Tries \ {a} : try'[b] = try[b]
    BY <1>2, <2>1, <2>2, Replaced
  <2>4. TriesOK'
    BY <1>2, <2>1, <2>3 DEF TriesOK
  <2>5. TryOrder(a)'
    <3>1. ~HelperActs(a)' /\ ~Engaged(a)' /\ ~HelperAt(a, Coordinating \cup {"blocker"})'
          /\ ~HelperAt(a, Coordinating)'
      BY <2>1, <2>3 DEF HelperActs, Engaged, HelperAt, Coordinating
    <3>2. /\ \A S : At(a, S)' <=> At(a, S)
          /\ LauncherActs(a)' <=> LauncherActs(a)
      BY <2>1, <2>3 DEF At, LauncherActs
    <3>3. (Transient' <=> Transient) /\ (Ready(try[a].version)' <=> Ready(try[a].version))
      BY <1>1, <2>1, <2>3 DEF Transient, Ready
    <3>4. /\ LauncherActs(a)' => lease' = Own(a)'
          /\ At(a, {"checking"})' => Transient'
          /\ lease' = TransferredTo(a)' => ~At(a, {"unborn"})'
          /\ At(a, {"prompt", "write", "spawn", "transfer"})' \/ lease' = TransferredTo(a)'
               => Ready(try[a].version)'
      BY <1>2, <1>4, <3>2, <3>3, NamesStay DEF TryOrder
    <3>. QED
      BY <3>1, <3>4 DEF TryOrder
  <2>6. HelperAt(a, Coordinating) \/ HelperAt(a, Coordinating)' => try'[a].helper = try[a].helper
    BY <1>1, <2>1, <2>3 DEF HelperAt, Coordinating
  <2>. QED
    BY <1>1, <1>3, <1>4, <2>3, <2>4, <2>5, <2>6, QuietStep
<1>. QED
    BY <1>5, <1>6 DEF HelperClaims

\* The helper opens the interface again.
LEMMA RestartKeeps ==
    ASSUME IInv, ~raced, NEW a \in Tries, HelperRestarts(a)
    PROVE  IInv'
<1>. DEFINE s == Took(a).by
<1>1. /\ UNCHANGED <<latest, installed, artifacts, terminals, record, lock, files, coordination>>
      /\ UNCHANGED <<lease, takers, raced>> /\ HelperGoes(a, "unwind") /\ try[a].helper = "restart"
    BY DEF HelperRestarts, Steps, HelperAt, store, lock
<1>2. /\ SurfacesOK /\ installed \in 0..MaxVersion /\ TriesOK /\ try \in [Tries -> TryType] /\ Order
      /\ try[a].at \in LauncherAts /\ try[a].at # "unborn" /\ lease = ClaimedBy(a)
    BY <1>1, LauncherAt, HelperLives DEF IInv, Types, ReleasesOK, HelperActs, HelperAt, HelperRuns
<1>3. Fresh \in SurfaceType
    BY <1>2, FreshTyped
<1>4. \/ UNCHANGED <<surface, auto>>
      \/ surface' = [surface EXCEPT ![s] = Fresh] /\ auto' = [auto EXCEPT ![s] = "asking"]
    BY DEF HelperRestarts, Reopened
<1>5. SurfacesOK' /\ \A t \in Surfaces : SurfaceActs(t)' => SurfaceActs(t)
  <2>1. CASE UNCHANGED <<surface, auto>>
    BY <1>1, <1>2, <2>1 DEF SurfacesOK, SurfaceActs
  <2>2. CASE surface' = [surface EXCEPT ![s] = Fresh] /\ auto' = [auto EXCEPT ![s] = "asking"]
    <3>. HIDE DEF s
    <3>1. surface' \in [Surfaces -> SurfaceType] /\ auto' \in [Surfaces -> {"asking", "checking", "off"}]
      BY <1>2, <1>3, <2>2 DEF SurfacesOK
    <3>2. \A t \in Surfaces : auto'[t] = "checking" => t # s /\ auto'[t] = auto[t] /\ surface'[t] = surface[t]
      BY <1>2, <2>2 DEF SurfacesOK
    <3>. QED
      BY <1>1, <1>2, <3>1, <3>2 DEF SurfacesOK, SurfaceActs
  <2>. QED
    BY <1>4, <2>1, <2>2
<1>6. Moves(a, try[a].at, "unwind")
    BY <1>1, <1>2, HelperGoesMoves DEF HelperAts
<1>7. TriesOK'
    BY <1>2, <1>6, MovesTries
<1>8. Types'
    BY <1>1, <1>5, <1>7, TypesKept DEF IInv
<1>9. ReadyIsCached'
    BY <1>1 DEF IInv, ReadyIsCached
<1>10. Coordination'
    BY <1>1, <1>6, CoordinationKept DEF IInv, Moves, HelperAt, Coordinating
<1>11. TryOrder(a)'
  <2>1. \A v : Ready(v) => ReadyThen(v)
    BY <1>1 DEF Ready, ReadyThen
  <2>2. "unwind" \notin Coordinating \cup {"parent", "blocker", "restart"}
    BY DEF Coordinating
  <2>3. ~LauncherActs(a) /\ lease' # TransferredTo(a)
    BY <1>1, <1>2, LeaseNames DEF Order, TryOrder
  <2>. QED
    BY <1>2, <1>6, <2>2, <2>3, OrderOf DEF LauncherActs, At
<1>12. Mine(a)
    BY <1>2 DEF Mine
<1>13. Order'
    BY <1>1, <1>2, <1>5, <1>6, <1>11, <1>12, TryStep DEF Moves
<1>. QED
    BY <1>8, <1>9, <1>10, <1>13 DEF IInv

-----------------------------------------------------------------------------
(* The coordination, step by step.                                         *)

\* What an inspection can find.
LEMMA SnapshotsAre ==
    ASSUME NEW b \in Snapshots
    PROVE  /\ b \in ServicesType
           /\ b.core.run \in {"no", "local", "foreign", "service"}
           /\ b.sync.run \in {"no", "foreign", "managed"}
<1>1. b.core \in CoreStates /\ b.sync \in SyncStates /\ b.work \in Work
      /\ b = [core |-> b.core, sync |-> b.sync, work |-> b.work]
    BY DEF Snapshots
<1>2. b.core \in ServiceType /\ b.core.run \in {"no", "local", "foreign", "service"}
  <2>1. \E m \in {"on-demand", "background"}, r \in {"no", "local", "foreign", "service"}, u \in BOOLEAN :
            b.core = [mode |-> m, run |-> r, unit |-> u]
    <3>1. CASE b.core \in {[mode |-> "on-demand", run |-> r, unit |-> FALSE] : r \in {"no", "local", "foreign"}}
      BY <3>1
    <3>2. CASE b.core \in {[mode |-> "background", run |-> r, unit |-> u] :
                               r \in {"no", "local"}, u \in BOOLEAN}
      BY <3>2
    <3>3. CASE b.core = [mode |-> "background", run |-> "service", unit |-> TRUE]
      BY <3>3
    <3>. QED
      BY <1>1, <3>1, <3>2, <3>3 DEF CoreStates
  <2>. QED
    BY <2>1 DEF ServiceType
<1>3. b.sync \in ServiceType /\ b.sync.run \in {"no", "foreign", "managed"}
  <2>1. \E m \in {"disabled", "background"}, r \in {"no", "foreign", "managed"}, u \in BOOLEAN :
            b.sync = [mode |-> m, run |-> r, unit |-> u]
    BY <1>1 DEF SyncStates
  <2>. QED
    BY <2>1 DEF ServiceType
<1>. QED
    BY <1>1, <1>2, <1>3 DEF ServicesType

LEMMA NothingFound == NoServices \in Snapshots /\ NoServices \in ServicesType
<1>1. NoServices \in Snapshots
    BY DEF NoServices, Snapshots, CoreStates, SyncStates, Work
<1>. QED
    BY <1>1, SnapshotsAre

\* What becomes of Core and Sync.
LEMMA CoreRuns ==
    ASSUME services \in ServicesType, NEW r \in {"no", "local", "leaving"}
    PROVE  /\ [services EXCEPT !.core.run = r] \in ServicesType
           /\ [services EXCEPT !.core.run = r].core.run = r
           /\ [services EXCEPT !.core.run = r].core.mode = services.core.mode
           /\ [services EXCEPT !.core.run = r].core.unit = services.core.unit
           /\ [services EXCEPT !.core.run = r].sync = services.sync
BY DEF ServicesType, ServiceType

LEMMA CoreLowered ==
    ASSUME services \in ServicesType
    PROVE  OnDemand \in ServicesType /\ OnDemand.sync = services.sync
BY DEF OnDemand, ServicesType, ServiceType

LEMMA CoreRaised ==
    ASSUME services \in ServicesType
    PROVE  /\ Raised \in ServicesType /\ Raised.sync = services.sync
           /\ Raised.core.mode = "background" /\ Raised.core.unit
BY DEF Raised, ServicesType, ServiceType

LEMMA SyncLowered ==
    ASSUME services \in ServicesType
    PROVE  /\ SyncDown \in ServicesType /\ SyncDown.core = services.core /\ SyncDown.sync.run = "no"
           /\ [services EXCEPT !.sync.run = "draining"] \in ServicesType
           /\ [services EXCEPT !.sync.run = "draining"].core = services.core
           /\ [services EXCEPT !.sync.run = "draining"].sync.run = "draining"
           /\ [services EXCEPT !.sync.mode = "disabled"] \in ServicesType
           /\ [services EXCEPT !.sync.mode = "disabled"].core = services.core
           /\ [services EXCEPT !.sync.mode = "disabled"].sync.run = services.sync.run
BY DEF SyncDown, ServicesType, ServiceType

LEMMA SyncRebuilt ==
    ASSUME services \in ServicesType, before \in Snapshots
    PROVE  Rebuilt \in ServicesType /\ Rebuilt.core = services.core /\ Rebuilt.sync = before.sync
<1>1. before.sync \in ServiceType
    BY SnapshotsAre DEF ServicesType
<1>. QED
    BY <1>1 DEF Rebuilt, ServicesType

\* A step of the one that coordinates, which has the lease.
LEMMA CoordinatorStep ==
    ASSUME IInv, ~raced, NEW a \in Tries, NEW to \in Coordinating, HelperGoes(a, to),
           HelperAt(a, Coordinating \cup {"blocker"}), BlockerGone(a),
           UNCHANGED <<latest, artifacts, terminals, record, lock, files, surface, auto>>,
           installed' \in 0..MaxVersion, CoordinationOK', Coordinated(a)'
    PROVE  IInv'
<1>1. /\ TriesOK /\ try \in [Tries -> TryType] /\ Order /\ try[a].at # "unborn"
      /\ UNCHANGED <<lease, takers, raced>> /\ lease = ClaimedBy(a) /\ ~LauncherRuns(a)
      /\ try[a].took = a /\ Ready(try[a].version) /\ try[a].at \in LauncherAts
    BY LauncherAt, HelperLives DEF HelperAt, HelperActs, HelperRuns, Coordinating, IInv, lock, Order,
                                   LauncherRuns
<1>2. Moves(a, try[a].at, to)
    BY <1>1, HelperGoesMoves DEF HelperAts
<1>3. TriesOK'
    BY <1>1, <1>2, MovesTries
<1>4. ReleasesOK'
    BY DEF IInv, Types, ReleasesOK, Versions
<1>5. Types'
    BY <1>3, <1>4, TypesKept DEF IInv
<1>6. ReadyIsCached'
    BY DEF IInv, ReadyIsCached
<1>7. Coordination'
  <2>1. HelperActs(a)
    BY DEF HelperActs, HelperAt
  <2>2. \A b \in Tries \ {a} : ~HelperAt(b, Coordinating)
    BY <1>1, <2>1, OneCoordinates
  <2>3. \A b \in Tries \ {a} : ~HelperAt(b, Coordinating)'
    BY <1>2, <2>2 DEF Moves, HelperAt, Coordinating
  <2>4. HelperAt(a, Coordinating)'
    BY <1>2 DEF Moves, HelperAt, Coordinating
  <2>. QED
    BY <2>3, <2>4, CoordinationGoesOn
<1>8. TryOrder(a)'
  <2>1. ReadyThen(try[a].version)
    BY <1>1 DEF Ready, ReadyThen
  <2>2. try[a].at \in {"unborn", "done", "failed", "dead"}
    BY <1>1 DEF LauncherRuns
  <2>3. try[a].by # Cli => ~surface'[try[a].by].up
    BY DEF BlockerGone
  <2>4. /\ try[a].at \notin {"owner", "checking", "prompt", "write", "spawn", "transfer"}
        /\ try[a].at # "checking" /\ lease' # TransferredTo(a) /\ lease' = ClaimedBy(a)
    BY <1>1, <2>2, LeaseNames
  <2>. QED
    BY <1>1, <1>2, <2>1, <2>2, <2>3, <2>4, OrderOf
<1>9. Order'
    BY <1>1, <1>2, <1>8, TryStep DEF Moves, SurfaceActs
<1>. QED
    BY <1>5, <1>6, <1>7, <1>9 DEF IInv

\* Where the coordination is before a step of it.
LEMMA CoordinatesAt ==
    ASSUME IInv, ~raced, NEW a \in Tries, HelperAt(a, Coordinating)
    PROVE  /\ Coordinated(a) /\ BlockerGone(a) /\ try[a] \in TryType
           /\ try \in [Tries -> TryType] /\ try[a].at \in LauncherAts
           /\ try[a].took = a /\ services \in ServicesType /\ before \in Snapshots
           /\ duty \subseteq {"core mode", "sync stop", "sync mode"}
           /\ failures \subseteq {"refused", "main", "restore"} /\ installed \in 0..MaxVersion
           /\ HelperAt(a, Coordinating \cup {"blocker"})
BY LauncherAt DEF IInv, Types, Coordination, CoordinationOK, ReleasesOK, HelperAt

\* How far a coordination is after a step, which does not change what was found.
LEMMA CoordinatedOf ==
    ASSUME NEW a \in Tries, NEW at, NEW to, Moves(a, at, to), UNCHANGED before,
           to = "inspect" => services' = before /\ duty' = {} /\ failures' = {},
           to \notin {"inspect", "record"} => ~Waits,
           to \in {"stop core", "core mode"} => duty' = {},
           to = "stop sync" => "sync stop" \notin duty',
           to \notin {"restore core", "record"} =>
               IF "core mode" \in duty' THEN UnderService
               ELSE services'.core.mode = before.core.mode /\ services'.core.unit = before.core.unit,
           to \notin {"restore mode", "restore core", "record"} =>
               /\ "sync stop" \notin duty' => "sync mode" \notin duty' /\ services'.sync = before.sync
               /\ services'.sync.run = "managed" => services'.sync = before.sync,
           to = "sync mode" => services'.sync.run # "managed" /\ "sync stop" \in duty',
           to \in {"restore mode", "restore core", "record"} /\ "restore" \notin failures' =>
               services'.sync = before.sync,
           to = "restore core" /\ "restore" \notin failures' =>
               /\ services'.core.mode = before.core.mode
               /\ UnderService => services'.core.unit,
           to = "record" /\ "restore" \notin failures' =>
               /\ services'.core.mode = before.core.mode
               /\ Serves(before.core) /\ ~LocalBesideStopped => Serves(services'.core)
               /\ services'.sync = before.sync
    PROVE  Coordinated(a)'
<1>1. \A S : HelperAt(a, S)' <=> to \in S
    BY DEF Moves, HelperAt
<1>2. /\ Waits' <=> Waits
      /\ UnderService' <=> UnderService
      /\ LocalBesideStopped' <=> LocalBesideStopped
      /\ Serves(before.core)' <=> Serves(before.core)
      /\ Serves(services.core)' <=> Serves(services'.core)
    BY DEF Waits, UnderService, LocalBesideStopped, Local, Serves
<1>3. /\ HelperAt(a, {"inspect"})' => services' = before' /\ duty' = {} /\ failures' = {}
      /\ ~HelperAt(a, {"inspect", "record"})' => ~Waits'
      /\ HelperAt(a, {"stop core", "core mode"})' => duty' = {}
      /\ HelperAt(a, {"stop sync"})' => "sync stop" \notin duty'
    BY <1>1, <1>2
<1>4. ~HelperAt(a, {"restore core", "record"})' =>
         IF "core mode" \in duty' THEN UnderService'
         ELSE services'.core.mode = before'.core.mode /\ services'.core.unit = before'.core.unit
    BY <1>1, <1>2
<1>5. /\ ~HelperAt(a, {"restore mode", "restore core", "record"})' =>
           /\ "sync stop" \notin duty' => "sync mode" \notin duty' /\ services'.sync = before'.sync
           /\ services'.sync.run = "managed" => services'.sync = before'.sync
      /\ HelperAt(a, {"sync mode"})' => services'.sync.run # "managed" /\ "sync stop" \in duty'
      /\ HelperAt(a, {"restore mode", "restore core", "record"})' /\ "restore" \notin failures' =>
           services'.sync = before'.sync
    BY <1>1
<1>6. HelperAt(a, {"restore core"})' /\ "restore" \notin failures' =>
         /\ services'.core.mode = before'.core.mode
         /\ UnderService' => services'.core.unit
    BY <1>1, <1>2
<1>7. HelperAt(a, {"record"})' /\ "restore" \notin failures' => Restored'
    BY <1>1, <1>2 DEF Restored
<1>. QED
    BY <1>3, <1>4, <1>5, <1>6, <1>7 DEF Coordinated

LEMMA DecidesKeeps ==
    ASSUME IInv, ~raced, NEW a \in Tries, HelperInspects(a) \/ HelperDecides(a)
    PROVE  IInv'
<1>1. /\ UNCHANGED <<latest, installed, artifacts, terminals, record, lock, files, surface, auto>>
    BY DEF HelperInspects, HelperDecides, Inert, Elsewhere, store
<1>2. /\ try \in [Tries -> TryType] /\ try[a].at \in LauncherAts /\ installed \in 0..MaxVersion
      /\ CoordinationOK
    BY LauncherAt DEF IInv, Types, ReleasesOK
<1>3. CASE HelperInspects(a)
  <2>1. /\ try[a].helper = "blocker" /\ BlockerGone(try[a].took) /\ UNCHANGED <<duty, failures>>
    BY <1>3 DEF HelperInspects, Attempts, HelperAt
  <2>2. try[a].took = a /\ Ready(Took(a).version)
    BY <2>1, LauncherAt DEF Took
  <2>3. PICK snapshot \in Situations : services' = snapshot /\ before' = snapshot
    BY <1>3, <2>2 DEF HelperInspects
  <2>4. HelperGoes(a, "inspect") /\ HelperAt(a, Coordinating \cup {"blocker"})
    BY <1>3, <2>1, <2>2 DEF HelperInspects, HelperAt
  <2>5. snapshot \in Snapshots /\ snapshot \in ServicesType
    BY SnapshotsAre
  <2>6. duty = {} /\ failures = {}
    <3>1. HelperActs(a) /\ ~HelperAt(a, Coordinating)
      BY <2>1 DEF HelperActs, HelperAt, Coordinating
    <3>2. \A b \in Tries : ~HelperAt(b, Coordinating)
      BY <3>1, OneCoordinates DEF IInv
    <3>. QED
      BY <3>2 DEF IInv, Coordination, Rests
  <2>7. CoordinationOK'
    BY <1>2, <2>1, <2>3, <2>5 DEF CoordinationOK
  <2>8. Moves(a, try[a].at, "inspect")
    BY <1>2, <2>4, HelperGoesMoves DEF HelperAts, Coordinating
  <2>9. Coordinated(a)'
    <3>1. \A S : HelperAt(a, S)' <=> "inspect" \in S
      BY <2>8 DEF Moves, HelperAt
    <3>. QED
      BY <2>1, <2>3, <2>6, <3>1 DEF Coordinated
  <2>. QED
    BY <1>1, <1>2, <2>1, <2>2, <2>4, <2>7, <2>9, CoordinatorStep DEF Coordinating
<1>4. CASE HelperDecides(a)
  <2>1. HelperAt(a, {"inspect"}) /\ UNCHANGED <<services, before, duty>>
    BY <1>4 DEF HelperDecides, Steps, Inert, Elsewhere
  <2>2. HelperAt(a, Coordinating)
    BY <2>1 DEF HelperAt, Coordinating
  <2>3. services = before /\ duty = {} /\ failures = {}
    BY <2>1, <2>2, CoordinatesAt DEF Coordinated
  <2>4. CASE Waits
    <3>1. HelperGoes(a, "record") /\ failures' = {"refused"}
      BY <1>4, <2>4 DEF HelperDecides, Steps
    <3>2. Moves(a, try[a].at, "record")
      BY <1>2, <3>1, HelperGoesMoves DEF HelperAts, Coordinating
    <3>3. Coordinated(a)'
      BY <2>1, <2>3, <3>2, CoordinatedOf
    <3>4. CoordinationOK'
      BY <1>2, <2>1, <3>1 DEF CoordinationOK
    <3>. QED
      BY <1>1, <1>2, <2>2, <3>1, <3>3, <3>4, CoordinatesAt, CoordinatorStep DEF Coordinating
  <2>5. CASE ~Waits
    <3>1. HelperGoes(a, "stop core") /\ UNCHANGED failures
      BY <1>4, <2>5 DEF HelperDecides, Steps
    <3>2. Moves(a, try[a].at, "stop core")
      BY <1>2, <3>1, HelperGoesMoves DEF HelperAts, Coordinating
    <3>3. Coordinated(a)'
      BY <2>1, <2>3, <2>5, <3>2, CoordinatedOf
    <3>4. CoordinationOK'
      BY <1>2, <2>1, <3>1 DEF CoordinationOK
    <3>. QED
      BY <1>1, <1>2, <2>2, <3>1, <3>3, <3>4, CoordinatesAt, CoordinatorStep DEF Coordinating
  <2>. QED
    BY <2>4, <2>5
<1>. QED
    BY <1>3, <1>4

LEMMA GoesOn ==
    ASSUME IInv, ~raced, NEW a \in Tries, NEW from \in Coordinating, NEW to \in Coordinating,
           Steps(a, from, to), Elsewhere, UNCHANGED artifacts, installed' \in 0..MaxVersion,
           services' \in ServicesType, duty' \subseteq {"core mode", "sync stop", "sync mode"},
           failures' \subseteq {"refused", "main", "restore"},
           Moves(a, try[a].at, to) => Coordinated(a)'
    PROVE  IInv'
<1>1. HelperAt(a, Coordinating) /\ HelperGoes(a, to)
    BY DEF Steps, HelperAt
<1>2. Coordinated(a)'
    BY <1>1, CoordinatesAt, HelperGoesMoves DEF HelperAts
<1>3. CoordinationOK'
    BY <1>1, CoordinatesAt DEF CoordinationOK, Elsewhere
<1>. QED
    BY <1>1, <1>2, <1>3, CoordinatesAt, CoordinatorStep DEF Elsewhere

\* What the step begins with.
LEMMA BeginsAt ==
    ASSUME IInv, ~raced, NEW a \in Tries, NEW from \in Coordinating, NEW to, Steps(a, from, to)
    PROVE  /\ HelperAt(a, Coordinating) /\ try[a].helper = from
           /\ from \notin {"inspect", "record"} => ~Waits
           /\ from \in {"stop core", "core mode"} => duty = {}
           /\ from = "stop sync" => "sync stop" \notin duty
           /\ from \notin {"restore core", "record"} =>
                IF "core mode" \in duty THEN UnderService
                ELSE services.core.mode = before.core.mode /\ services.core.unit = before.core.unit
           /\ from \notin {"restore mode", "restore core", "record"} =>
                /\ "sync stop" \notin duty => "sync mode" \notin duty /\ services.sync = before.sync
                /\ services.sync.run = "managed" => services.sync = before.sync
           /\ from = "sync mode" => services.sync.run # "managed" /\ "sync stop" \in duty
           /\ from \in {"restore mode", "restore core", "record"} /\ "restore" \notin failures =>
                services.sync = before.sync
           /\ from = "restore core" /\ "restore" \notin failures =>
                /\ services.core.mode = before.core.mode
                /\ UnderService => services.core.unit
<1>1. try[a].helper = from /\ HelperAt(a, Coordinating)
    BY DEF Steps, HelperAt
<1>2. Coordinated(a)
    BY <1>1, CoordinatesAt
<1>3. \A S : HelperAt(a, S) <=> from \in S
    BY <1>1 DEF HelperAt
<1>. QED
    BY <1>1, <1>2, <1>3 DEF Coordinated

LEMMA StopsCoreKeeps ==
    ASSUME IInv, ~raced, NEW a \in Tries, StopsCore(a)
    PROVE  IInv'
<1>1. PICK to \in {"core mode", "restore sync"} : Steps(a, "stop core", to)
    BY DEF StopsCore
<1>2. /\ "stop core" \in Coordinating /\ to \in Coordinating /\ to \notin {"inspect", "record"}
    BY DEF Coordinating
<1>3. /\ Elsewhere /\ UNCHANGED <<artifacts, installed, duty, before>>
      /\ failures' \in {failures, failures \cup {"main"}}
    BY DEF StopsCore, Inert, Elsewhere, Well, Wrong
<1>4. /\ services \in ServicesType /\ before \in Snapshots /\ duty = {} /\ ~Waits
      /\ failures \subseteq {"refused", "main", "restore"} /\ installed \in 0..MaxVersion
      /\ services.core.mode = before.core.mode /\ services.core.unit = before.core.unit
      /\ services.sync = before.sync
  <2>1. HelperAt(a, Coordinating) /\ ~Waits /\ duty = {}
    BY <1>1, <1>2, BeginsAt
  <2>2. /\ services \in ServicesType /\ before \in Snapshots
        /\ failures \subseteq {"refused", "main", "restore"} /\ installed \in 0..MaxVersion
    BY <2>1, CoordinatesAt
  <2>3. "core mode" \notin duty =>
          services.core.mode = before.core.mode /\ services.core.unit = before.core.unit
    BY <1>1, <1>2, BeginsAt
  <2>4. "sync stop" \notin duty => services.sync = before.sync
    BY <1>1, <1>2, BeginsAt
  <2>. QED
    BY <2>1, <2>2, <2>3, <2>4
<1>5. /\ services' \in ServicesType /\ services'.sync = services.sync
      /\ services'.core.mode = services.core.mode /\ services'.core.unit = services.core.unit
    BY <1>4, CoreRuns DEF StopsCore
<1>6. Moves(a, try[a].at, to) => Coordinated(a)'
    BY <1>2, <1>3, <1>4, <1>5, CoordinatedOf
<1>. QED
    BY <1>1, <1>2, <1>3, <1>4, <1>5, <1>6, GoesOn

LEMMA LowersCoreKeeps ==
    ASSUME IInv, ~raced, NEW a \in Tries, LowersCore(a)
    PROVE  IInv'
<1>1. PICK to \in {"stop sync", "restore sync"} : Steps(a, "core mode", to)
    BY DEF LowersCore
<1>2. /\ "core mode" \in Coordinating /\ to \in Coordinating
      /\ to \notin {"inspect", "record", "stop core", "core mode"}
    BY DEF Coordinating
<1>3. /\ Elsewhere /\ UNCHANGED <<artifacts, installed, before>>
      /\ duty' = IF UnderService THEN duty \cup {"core mode"} ELSE duty
      /\ failures' \in {failures, failures \cup {"main"}}
    BY DEF LowersCore, Inert, Elsewhere, Well, Wrong
<1>4. /\ services \in ServicesType /\ before \in Snapshots /\ duty = {} /\ ~Waits
      /\ failures \subseteq {"refused", "main", "restore"} /\ installed \in 0..MaxVersion
      /\ services.core.mode = before.core.mode /\ services.core.unit = before.core.unit
      /\ services.sync = before.sync
    BY <1>1, <1>2, BeginsAt, CoordinatesAt
<1>5. /\ services' \in ServicesType /\ services'.sync = services.sync
      /\ ~UnderService => services' = services
    BY <1>4, CoreLowered DEF LowersCore
<1>6. duty' \in {{}, {"core mode"}} /\ ("core mode" \in duty' <=> UnderService)
    BY <1>3, <1>4
<1>7. Moves(a, try[a].at, to) => Coordinated(a)'
    BY <1>2, <1>3, <1>4, <1>5, <1>6, CoordinatedOf
<1>. QED
    BY <1>1, <1>2, <1>3, <1>4, <1>5, <1>6, <1>7, GoesOn

LEMMA StopsSyncKeeps ==
    ASSUME IInv, ~raced, NEW a \in Tries, StopsSync(a)
    PROVE  IInv'
<1>1. PICK to \in {"sync mode", "install", "restore sync"} :
          /\ Steps(a, "stop sync", to)
          /\ to = "sync mode" => SyncUnderService /\ services' = SyncDown
          /\ to = "install" => ~SyncUnderService /\ UNCHANGED services
          /\ to = "restore sync" => /\ SyncUnderService
                                    /\ \/ UNCHANGED services
                                       \/ services' = [services EXCEPT !.sync.run = "draining"]
    BY DEF StopsSync
<1>2. /\ "stop sync" \in Coordinating /\ to \in Coordinating
      /\ to \notin {"inspect", "record", "stop core", "core mode", "stop sync", "restore mode",
                    "restore core"}
    BY DEF Coordinating
<1>3. /\ Elsewhere /\ UNCHANGED <<artifacts, installed, before>>
      /\ duty' = IF SyncUnderService THEN duty \cup {"sync stop"} ELSE duty
      /\ failures' \in {failures, failures \cup {"main"}}
    BY DEF StopsSync, Inert, Elsewhere, Well, Wrong
<1>4. /\ services \in ServicesType /\ before \in Snapshots /\ ~Waits
      /\ duty \subseteq {"core mode", "sync stop", "sync mode"}
      /\ failures \subseteq {"refused", "main", "restore"} /\ installed \in 0..MaxVersion
      /\ IF "core mode" \in duty THEN UnderService
         ELSE services.core.mode = before.core.mode /\ services.core.unit = before.core.unit
      /\ "sync mode" \notin duty /\ services.sync = before.sync
  <2>1. HelperAt(a, Coordinating)
    BY <1>1, <1>2, BeginsAt
  <2>2. /\ services \in ServicesType /\ before \in Snapshots
        /\ duty \subseteq {"core mode", "sync stop", "sync mode"}
        /\ failures \subseteq {"refused", "main", "restore"} /\ installed \in 0..MaxVersion
        /\ try[a].took = a /\ try[a] \in TryType
    BY <2>1, CoordinatesAt
  <2>3. /\ ~Waits /\ "sync stop" \notin duty
        /\ IF "core mode" \in duty THEN UnderService
           ELSE services.core.mode = before.core.mode /\ services.core.unit = before.core.unit
    BY <1>1, <1>2, BeginsAt
  <2>4. "sync stop" \notin duty => "sync mode" \notin duty /\ services.sync = before.sync
    BY <1>1, <1>2, BeginsAt
  <2>. QED
    BY <2>2, <2>3, <2>4
<1>5. /\ services' \in ServicesType /\ services'.core = services.core
      /\ to = "sync mode" => services'.sync.run = "no"
      /\ to = "install" => services' = services
      /\ services' = services \/ services'.sync.run \in {"no", "draining"}
    BY <1>1, <1>4, SyncLowered
<1>6. /\ duty' \subseteq {"core mode", "sync stop", "sync mode"} /\ "sync mode" \notin duty'
      /\ ("core mode" \in duty' <=> "core mode" \in duty)
      /\ (to # "install" => "sync stop" \in duty')
    BY <1>1, <1>3, <1>4
<1>7. Moves(a, try[a].at, to) => Coordinated(a)'
    BY <1>2, <1>3, <1>4, <1>5, <1>6, CoordinatedOf
<1>. QED
    BY <1>1, <1>2, <1>3, <1>4, <1>5, <1>6, <1>7, GoesOn

LEMMA LowersSyncKeeps ==
    ASSUME IInv, ~raced, NEW a \in Tries, LowersSync(a)
    PROVE  IInv'
<1>1. PICK to \in {"install", "restore sync"} : Steps(a, "sync mode", to)
    BY DEF LowersSync
<1>2. /\ "sync mode" \in Coordinating /\ to \in Coordinating
      /\ to \notin {"inspect", "record", "stop core", "core mode", "stop sync", "sync mode",
                    "restore mode", "restore core"}
    BY DEF Coordinating
<1>3. /\ Elsewhere /\ UNCHANGED <<artifacts, installed, before>> /\ duty' = duty \cup {"sync mode"}
      /\ failures' \in {failures, failures \cup {"main"}}
    BY DEF LowersSync, Inert, Elsewhere, Well, Wrong
<1>4. /\ services \in ServicesType /\ before \in Snapshots /\ ~Waits
      /\ duty \subseteq {"core mode", "sync stop", "sync mode"}
      /\ failures \subseteq {"refused", "main", "restore"} /\ installed \in 0..MaxVersion
      /\ IF "core mode" \in duty THEN UnderService
         ELSE services.core.mode = before.core.mode /\ services.core.unit = before.core.unit
      /\ services.sync.run # "managed" /\ "sync stop" \in duty
  <2>1. HelperAt(a, Coordinating)
    BY <1>1, <1>2, BeginsAt
  <2>2. /\ services \in ServicesType /\ before \in Snapshots
        /\ duty \subseteq {"core mode", "sync stop", "sync mode"}
        /\ failures \subseteq {"refused", "main", "restore"} /\ installed \in 0..MaxVersion
        /\ try[a].took = a /\ try[a] \in TryType
    BY <2>1, CoordinatesAt
  <2>. QED
    BY <1>1, <1>2, <2>2, BeginsAt
<1>5. /\ services' \in ServicesType /\ services'.core = services.core
      /\ services'.sync.run = services.sync.run
    BY <1>4, SyncLowered DEF LowersSync
<1>6. /\ duty' \subseteq {"core mode", "sync stop", "sync mode"}
      /\ "sync stop" \in duty' /\ ("core mode" \in duty' <=> "core mode" \in duty)
    BY <1>3, <1>4
<1>7. Moves(a, try[a].at, to) => Coordinated(a)'
    BY <1>2, <1>3, <1>4, <1>5, <1>6, CoordinatedOf
<1>. QED
    BY <1>1, <1>2, <1>3, <1>4, <1>5, <1>6, <1>7, GoesOn

LEMMA InstallsKeep ==
    ASSUME IInv, ~raced, NEW a \in Tries, Installs(a)
    PROVE  IInv'
<1>1. Steps(a, "install", "restore sync")
    BY DEF Installs
<1>2. "install" \in Coordinating /\ "restore sync" \in Coordinating
    BY DEF Coordinating
<1>3. /\ Elsewhere /\ UNCHANGED <<artifacts, services, duty, before>>
      /\ installed' \in {installed, Took(a).version}
      /\ failures' \in {failures, failures \cup {"main"}}
    BY DEF Installs, Elsewhere, Well, Wrong
<1>4. /\ services \in ServicesType /\ before \in Snapshots /\ ~Waits
      /\ duty \subseteq {"core mode", "sync stop", "sync mode"}
      /\ failures \subseteq {"refused", "main", "restore"} /\ installed \in 0..MaxVersion
      /\ IF "core mode" \in duty THEN UnderService
         ELSE services.core.mode = before.core.mode /\ services.core.unit = before.core.unit
      /\ "sync stop" \notin duty => "sync mode" \notin duty /\ services.sync = before.sync
      /\ services.sync.run = "managed" => services.sync = before.sync
      /\ try[a].took = a /\ try[a].version \in 0..MaxVersion
  <2>1. HelperAt(a, Coordinating)
    BY <1>1, <1>2, BeginsAt
  <2>2. /\ services \in ServicesType /\ before \in Snapshots
        /\ duty \subseteq {"core mode", "sync stop", "sync mode"}
        /\ failures \subseteq {"refused", "main", "restore"} /\ installed \in 0..MaxVersion
        /\ try[a].took = a /\ try[a] \in TryType
    BY <2>1, CoordinatesAt
  <2>. QED
    BY <1>1, <1>2, <2>2, BeginsAt DEF TryType
<1>5. installed' \in 0..MaxVersion
    BY <1>3, <1>4 DEF Took
<1>6. Moves(a, try[a].at, "restore sync") => Coordinated(a)'
    BY <1>2, <1>3, <1>4, CoordinatedOf
<1>. QED
    BY <1>1, <1>2, <1>3, <1>4, <1>5, <1>6, GoesOn

LEMMA RestoresSyncKeeps ==
    ASSUME IInv, ~raced, NEW a \in Tries, RestoresSync(a)
    PROVE  IInv'
<1>1. Steps(a, "restore sync", "restore mode")
    BY DEF RestoresSync
<1>2. "restore sync" \in Coordinating /\ "restore mode" \in Coordinating
    BY DEF Coordinating
<1>3. /\ Elsewhere /\ UNCHANGED <<artifacts, installed, duty, before>>
      /\ \/ Unharmed /\ UNCHANGED <<services, failures>>
         \/ services' = Rebuilt /\ UNCHANGED failures
         \/ UNCHANGED services /\ failures' = failures \cup {"restore"}
    BY DEF RestoresSync, Inert, Elsewhere, Well
<1>4. /\ services \in ServicesType /\ before \in Snapshots /\ ~Waits
      /\ duty \subseteq {"core mode", "sync stop", "sync mode"}
      /\ failures \subseteq {"refused", "main", "restore"} /\ installed \in 0..MaxVersion
      /\ IF "core mode" \in duty THEN UnderService
         ELSE services.core.mode = before.core.mode /\ services.core.unit = before.core.unit
      /\ "sync stop" \notin duty => "sync mode" \notin duty /\ services.sync = before.sync
      /\ services.sync.run = "managed" => services.sync = before.sync
    BY <1>1, <1>2, BeginsAt, CoordinatesAt
<1>5. /\ services' \in ServicesType /\ services'.core = services.core
      /\ "restore" \notin failures' => services'.sync = before.sync
      /\ failures' \subseteq {"refused", "main", "restore"}
    BY <1>3, <1>4, SyncRebuilt DEF Unharmed
<1>6. Moves(a, try[a].at, "restore mode") => Coordinated(a)'
    BY <1>2, <1>3, <1>4, <1>5, CoordinatedOf
<1>. QED
    BY <1>1, <1>2, <1>3, <1>4, <1>5, <1>6, GoesOn

LEMMA RestoresModeKeeps ==
    ASSUME IInv, ~raced, NEW a \in Tries, RestoresMode(a)
    PROVE  IInv'
<1>1. Steps(a, "restore mode", "restore core")
    BY DEF RestoresMode
<1>2. "restore mode" \in Coordinating /\ "restore core" \in Coordinating
    BY DEF Coordinating
<1>3. /\ Elsewhere /\ UNCHANGED <<artifacts, installed, duty, before>>
      /\ \/ "core mode" \notin duty /\ UNCHANGED <<services, failures>>
         \/ "core mode" \in duty /\ services' = Raised /\ UNCHANGED failures
         \/ UNCHANGED services /\ failures' = failures \cup {"restore"}
    BY DEF RestoresMode, Inert, Elsewhere, Well, Wrong
<1>4. /\ services \in ServicesType /\ before \in Snapshots /\ ~Waits
      /\ duty \subseteq {"core mode", "sync stop", "sync mode"}
      /\ failures \subseteq {"refused", "main", "restore"} /\ installed \in 0..MaxVersion
      /\ IF "core mode" \in duty THEN UnderService
         ELSE services.core.mode = before.core.mode /\ services.core.unit = before.core.unit
      /\ "restore" \notin failures => services.sync = before.sync
    BY <1>1, <1>2, BeginsAt, CoordinatesAt
<1>5. /\ services' \in ServicesType /\ services'.sync = services.sync
      /\ "restore" \notin failures' => /\ services'.core.mode = before.core.mode
                                       /\ UnderService => services'.core.unit
      /\ failures' \subseteq {"refused", "main", "restore"}
    BY <1>3, <1>4, CoreRaised DEF UnderService
<1>6. "restore" \notin failures' => services'.sync = before.sync
    BY <1>3, <1>4, <1>5
<1>7. Moves(a, try[a].at, "restore core") => Coordinated(a)'
    BY <1>2, <1>3, <1>4, <1>5, <1>6, CoordinatedOf
<1>. QED
    BY <1>1, <1>2, <1>3, <1>4, <1>5, <1>7, GoesOn

LEMMA RestoresCoreKeeps ==
    ASSUME IInv, ~raced, NEW a \in Tries, RestoresCore(a)
    PROVE  IInv'
<1>1. Steps(a, "restore core", "record")
    BY DEF RestoresCore
<1>2. "restore core" \in Coordinating /\ "record" \in Coordinating
    BY DEF Coordinating
<1>3. /\ Elsewhere /\ UNCHANGED <<artifacts, installed, duty, before>>
      /\ \/ ~(Local /\ before.core.mode # "background") /\ UNCHANGED <<services, failures>>
         \/ services' = [services EXCEPT !.core.run = "local"] /\ UNCHANGED failures
         \/ UNCHANGED services /\ failures' = failures \cup {"restore"}
    BY DEF RestoresCore, Inert, Elsewhere, Well, Wrong
<1>4. /\ services \in ServicesType /\ before \in Snapshots /\ ~Waits
      /\ duty \subseteq {"core mode", "sync stop", "sync mode"}
      /\ failures \subseteq {"refused", "main", "restore"} /\ installed \in 0..MaxVersion
      /\ "restore" \notin failures => /\ services.sync = before.sync
                                      /\ services.core.mode = before.core.mode
                                      /\ UnderService => services.core.unit
    BY <1>1, <1>2, BeginsAt, CoordinatesAt
<1>5. /\ services' \in ServicesType /\ services'.sync = services.sync
      /\ services'.core.mode = services.core.mode /\ services'.core.unit = services.core.unit
      /\ failures' \subseteq {"refused", "main", "restore"}
      /\ "restore" \notin failures' => "restore" \notin failures
    BY <1>3, <1>4, CoreRuns
<1>6. ASSUME "restore" \notin failures', Serves(before.core), ~LocalBesideStopped
      PROVE  Serves(services'.core)
  <2>1. before.core.run \in {"no", "local", "foreign", "service"}
    BY <1>4, SnapshotsAre
  <2>2. before.core.run = "local"
    BY <1>4, <1>6, <2>1 DEF Serves, Waits
  <2>3. CASE before.core.mode = "background"
    <3>1. UnderService
      BY <1>6, <2>2, <2>3 DEF LocalBesideStopped, Local, UnderService
    <3>. QED
      BY <1>4, <1>5, <1>6, <3>1 DEF Serves
  <2>4. CASE before.core.mode # "background"
    <3>1. services' = [services EXCEPT !.core.run = "local"]
      BY <1>3, <1>6, <2>2, <2>4 DEF Local
    <3>2. services'.core.run = "local"
      BY <1>4, <3>1, CoreRuns
    <3>. QED
      BY <3>2 DEF Serves
  <2>. QED
    BY <2>3, <2>4
<1>7. Moves(a, try[a].at, "record") => Coordinated(a)'
    BY <1>2, <1>3, <1>4, <1>5, <1>6, CoordinatedOf
<1>. QED
    BY <1>1, <1>2, <1>3, <1>4, <1>5, <1>7, GoesOn

LEMMA RestAfter ==
    ASSUME Forgotten
    PROVE  Rests' /\ CoordinationOK'
<1>1. Rests'
    BY DEF Forgotten, Rests, NoServices
<1>. QED
    BY <1>1, NothingFound DEF Forgotten, CoordinationOK

LEMMA RecordsKeep ==
    ASSUME IInv, ~raced, NEW a \in Tries, HelperRecords(a)
    PROVE  IInv'
<1>1. /\ UNCHANGED <<latest, installed, terminals, lock, files, surface, auto>> /\ Forgotten
      /\ UNCHANGED <<lease, takers, raced>> /\ HelperGoes(a, "restart") /\ try[a].helper = "record"
      /\ artifacts' \subseteq artifacts /\ record' = Outcome(a)
    BY DEF HelperRecords, Steps, HelperAt, lock
<1>2. HelperAt(a, Coordinating) /\ HelperRuns(a)
    BY <1>1 DEF HelperAt, Coordinating, HelperRuns
<1>3. /\ TriesOK /\ try \in [Tries -> TryType] /\ try[a] \in TryType /\ try[a].at # "unborn"
      /\ try[a].at \in {"done", "failed", "dead"} /\ lease = ClaimedBy(a) /\ HelperActs(a)
      /\ try[a].took = a
    BY <1>1, <1>2, LauncherAt, HelperLives DEF HelperActs, HelperAt, Coordinating
<1>4. RecordOK' /\ ReadyIsCached'
  <2>1. try[a].version \in 0..MaxVersion /\ record.current \in 0..MaxVersion /\ 0 \in 0..MaxVersion
    BY <1>3 DEF TryType, IInv, Types, RecordOK, Records
  <2>2. record' \in Records /\ record'.phase \in {"current", "failed"}
    BY <1>1, <1>3, <2>1 DEF Outcome, Took, Current, Failed, Records
  <2>. QED
    BY <2>2 DEF RecordOK, Records, ReadyIsCached
<1>5. Moves(a, try[a].at, "restart")
    BY <1>1, <1>3, HelperGoesMoves DEF TryType, HelperAts
<1>6. TriesOK'
    BY <1>3, <1>5, MovesTries
<1>7. ReleasesOK'
    BY <1>1 DEF IInv, Types, ReleasesOK, Versions
<1>8. Types'
    BY <1>1, <1>4, <1>6, <1>7, RestAfter, TypesKept DEF IInv
<1>9. Coordination'
  <2>1. \A b \in Tries \ {a} : ~HelperAt(b, Coordinating)
    BY <1>3, OneCoordinates DEF IInv
  <2>2. \A b \in Tries \ {a} : ~HelperAt(b, Coordinating)'
    BY <1>5, <2>1 DEF Moves, HelperAt, Coordinating
  <2>3. ~HelperAt(a, Coordinating)'
    BY <1>5 DEF Moves, HelperAt, Coordinating
  <2>. QED
    BY <1>1, <2>2, <2>3, RestAfter, CoordinationGoesOn
<1>10. TryOrder(a)'
  <2>1. lease' = ClaimedBy(a) /\ lease' # TransferredTo(a)
    BY <1>1, <1>3, LeaseNames
  <2>2. "restart" \notin Coordinating \cup {"parent", "blocker"}
    BY DEF Coordinating
  <2>. QED
    BY <1>3, <1>5, <2>1, <2>2, OrderOf
<1>11. Mine(a) /\ Mine(a)'
    BY <1>1, <1>3, NamesStay DEF Mine
<1>12. Order'
    BY <1>1, <1>3, <1>5, <1>10, <1>11, TryStep DEF Moves, SurfaceActs, IInv
<1>. QED
    BY <1>4, <1>8, <1>9, <1>12 DEF IInv

-----------------------------------------------------------------------------
(* What happens of itself.                                                 *)

\* A step that touches neither record nor surfaces nor attempts, and leaves the
\* lease or takes a dead owner's away.
LEMMA ElsewhereKeeps ==
    ASSUME IInv, ~raced, UNCHANGED <<record, surface, auto, try, terminals>>,
           ReleasesOK', UNCHANGED artifacts, LeaseOK', FilesOK', CoordinationOK', Coordination',
           \/ UNCHANGED lease
           \/ Stale /\ lease' = Free
           \/ raced'
    PROVE  IInv'
<1>1. Types'
    BY TypesKept DEF IInv
<1>2. ReadyIsCached'
    BY DEF IInv, ReadyIsCached
<1>3. raced' \/ Order'
    BY OrderKept, DeadLeave DEF IInv, Types
<1>. QED
    BY <1>1, <1>2, <1>3 DEF IInv

LEMMA TakeoverKeeps ==
    ASSUME IInv, ~raced, NEW p \in Processes, TakesOver(p)
    PROVE  IInv'
<1>1. /\ UNCHANGED <<store, record, files, surface, auto, try, coordination>>
      /\ SeesStale(p) \/ RemovesSeen(p)
    BY DEF TakesOver
<1>2. /\ UNCHANGED <<latest, installed, artifacts, terminals>>
      /\ UNCHANGED <<pending, claimed, aged, services, before, duty, failures>>
    BY <1>1 DEF store, files, coordination
<1>3. ReleasesOK' /\ FilesOK' /\ CoordinationOK'
    BY <1>2 DEF IInv, Types, ReleasesOK, FilesOK, CoordinationOK
<1>4. Coordination'
    BY <1>1, CoordinationKept DEF IInv
<1>5. /\ takers' \subseteq takers \cup {p} /\ raced' \in BOOLEAN /\ lease' \in {lease, Free}
      /\ \/ UNCHANGED lease
         \/ Stale /\ lease' = Free
         \/ raced'
    BY <1>1 DEF SeesStale, RemovesSeen, IInv, Types, LeaseOK
<1>6. LeaseOK'
    BY <1>5, LeasesAre, LeaseTyped DEF IInv, Types, LeaseOK
<1>. QED
    BY <1>1, <1>2, <1>3, <1>4, <1>5, <1>6, ElsewhereKeeps

LEMMA TimeKeeps ==
    ASSUME IInv, ~raced, Publishes \/ Ages
    PROVE  IInv'
<1>1. /\ UNCHANGED <<record, lock, surface, auto, try, coordination, installed, artifacts, terminals>>
      /\ UNCHANGED <<lease, takers, raced, services, before, duty, failures>>
    BY DEF Publishes, Ages, store, lock, coordination
<1>2. LeaseOK'
    BY <1>1, LeaseTyped DEF IInv, Types, LeaseOK
<1>3. CoordinationOK'
    BY <1>1 DEF IInv, Types, CoordinationOK
<1>4. Coordination'
    BY <1>1, CoordinationKept DEF IInv
<1>5. CASE Publishes
  <2>1. ReleasesOK'
    <3>1. latest \in 1..MaxVersion /\ MaxVersion \in Nat /\ latest < MaxVersion /\ latest' = latest + 1
      BY <1>5 DEF Publishes, IInv, Types, ReleasesOK, Versions
    <3>2. latest' \in 1..MaxVersion
      BY <3>1
    <3>. QED
      BY <1>1, <3>2 DEF IInv, Types, ReleasesOK, Versions
  <2>2. FilesOK'
    BY <1>5 DEF Publishes, files, IInv, Types, FilesOK
  <2>. QED
    BY <1>1, <1>2, <1>3, <1>4, <2>1, <2>2, ElsewhereKeeps
<1>6. CASE Ages
  <2>1. ReleasesOK'
    BY <1>6 DEF Ages, store, IInv, Types, ReleasesOK
  <2>2. FilesOK'
    <3>1. FilesOK /\ UNCHANGED <<pending, claimed>>
      BY <1>6 DEF Ages, IInv, Types
    <3>2. claimed \cup {pending} \subseteq Tries \cup {0}
      BY <3>1 DEF FilesOK, Tries
    <3>3. aged' \subseteq Tries
      BY <1>6, <3>1, <3>2 DEF Ages, FilesOK
    <3>. QED
      BY <3>1, <3>3 DEF FilesOK
  <2>. QED
    BY <1>1, <1>2, <1>3, <1>4, <2>1, <2>2, ElsewhereKeeps
<1>. QED
    BY <1>5, <1>6

\* A Core or a Sync that goes late.
LEMMA ExitsKeep ==
    ASSUME IInv, ~raced, SyncExits \/ CoreExits
    PROVE  IInv'
<1>1. /\ UNCHANGED <<latest, installed, artifacts, terminals, record, lock, files, surface, auto, try>>
      /\ UNCHANGED <<lease, takers, raced, pending, claimed, aged, before, duty, failures>>
    BY DEF SyncExits, CoreExits, Inert, Elsewhere, lock, files
<1>2. CoordinationOK /\ services \in ServicesType /\ before \in Snapshots
    BY DEF IInv, Types, CoordinationOK
<1>3. ReleasesOK' /\ FilesOK' /\ LeaseOK'
    BY <1>1, LeaseTyped DEF IInv, Types, ReleasesOK, FilesOK, LeaseOK
<1>4. \/ /\ services.sync.run = "draining" /\ services'.sync.run = "no"
         /\ services'.core = services.core
      \/ /\ services.core.run = "leaving" /\ services'.core.run = "no"
         /\ services'.core.mode = services.core.mode /\ services'.core.unit = services.core.unit
         /\ services'.sync = services.sync
    BY <1>2, SyncLowered, CoreRuns DEF SyncExits, CoreExits
<1>5. services' \in ServicesType
    BY <1>2, SyncLowered, CoreRuns DEF SyncExits, CoreExits
<1>6. CoordinationOK'
    BY <1>1, <1>2, <1>5 DEF CoordinationOK
<1>7. before.sync.run # "draining" /\ before.core.run # "leaving"
    BY <1>2, SnapshotsAre
<1>8. ~Rests
    BY <1>4 DEF Rests, NoServices
<1>9. PICK a \in Tries : HelperAt(a, Coordinating)
    BY <1>8 DEF IInv, Coordination
<1>10. HelperActs(a) /\ Coordinated(a)
    BY <1>9, SetsOfSteps DEF IInv, Coordination
<1>11. \A b \in Tries \ {a} : ~HelperAt(b, Coordinating)'
    BY <1>1, <1>10, OneCoordinates DEF IInv, HelperAt, Coordinating
<1>12. \A S : HelperAt(a, S)' <=> HelperAt(a, S)
    BY <1>1 DEF HelperAt
<1>13. Coordinated(a)'
  <2>1. ~HelperAt(a, {"inspect"})
    BY <1>4, <1>7, <1>10 DEF Coordinated
  <2>2. /\ Waits' <=> Waits
        /\ UnderService' <=> UnderService
        /\ LocalBesideStopped' <=> LocalBesideStopped
        /\ Serves(before.core)' <=> Serves(before.core)
    BY <1>1 DEF Waits, UnderService, LocalBesideStopped, Local, Serves
  <2>3. /\ services'.core.mode = services.core.mode /\ services'.core.unit = services.core.unit
        /\ Serves(services.core) => Serves(services.core)'
    BY <1>4 DEF Serves
  <2>4. services.sync = before.sync => services'.sync = services.sync
    BY <1>4, <1>7
  <2>5. services'.sync.run = "managed" => services'.sync = services.sync
    BY <1>4
  <2>6. /\ ~HelperAt(a, {"inspect"})'
        /\ ~HelperAt(a, {"inspect", "record"})' => ~Waits'
        /\ HelperAt(a, {"stop core", "core mode"})' => duty' = {}
        /\ HelperAt(a, {"stop sync"})' => "sync stop" \notin duty'
    BY <1>1, <1>10, <1>12, <2>1, <2>2 DEF Coordinated
  <2>7. ~HelperAt(a, {"restore core", "record"})' =>
           IF "core mode" \in duty' THEN UnderService'
           ELSE services'.core.mode = before'.core.mode /\ services'.core.unit = before'.core.unit
    BY <1>1, <1>10, <1>12, <2>2, <2>3 DEF Coordinated
  <2>8. ~HelperAt(a, {"restore mode", "restore core", "record"})' =>
           /\ "sync stop" \notin duty' => "sync mode" \notin duty' /\ services'.sync = before'.sync
           /\ services'.sync.run = "managed" => services'.sync = before'.sync
    BY <1>1, <1>10, <1>12, <2>4, <2>5 DEF Coordinated
  <2>9. HelperAt(a, {"sync mode"})' => services'.sync.run # "managed" /\ "sync stop" \in duty'
    BY <1>1, <1>10, <1>12, <2>5 DEF Coordinated
  <2>10. HelperAt(a, {"restore mode", "restore core", "record"})' /\ "restore" \notin failures' =>
           services'.sync = before'.sync
    BY <1>1, <1>10, <1>12, <2>4 DEF Coordinated
  <2>11. HelperAt(a, {"restore core"})' /\ "restore" \notin failures' =>
           /\ services'.core.mode = before'.core.mode
           /\ UnderService' => services'.core.unit
    BY <1>1, <1>10, <1>12, <2>2, <2>3 DEF Coordinated
  <2>12. HelperAt(a, {"record"})' /\ "restore" \notin failures' => Restored'
    BY <1>1, <1>10, <1>12, <2>2, <2>3, <2>4 DEF Coordinated, Restored
  <2>. QED
    BY <2>6, <2>7, <2>8, <2>9, <2>10, <2>11, <2>12 DEF Coordinated
<1>14. HelperAt(a, Coordinating)'
    BY <1>1, <1>9 DEF HelperAt, Coordinating
<1>15. Coordination'
    BY <1>11, <1>13, <1>14, CoordinationGoesOn
<1>. QED
    BY <1>1, <1>3, <1>6, <1>15, ElsewhereKeeps

\* A process dies where it is.
LEMMA SurfaceDies ==
    ASSUME IInv, ~raced, NEW s \in Surfaces, Dies(Surface(s))
    PROVE  IInv'
<1>1. /\ surface[s].up /\ surface' = [surface EXCEPT ![s] = [Fresh EXCEPT !.up = FALSE]]
      /\ auto' = [auto EXCEPT ![s] = "off"] /\ UNCHANGED try
    BY DEF Dies, Dead, Surface
<1>2. /\ UNCHANGED <<latest, installed, artifacts, terminals, raced, record, files, coordination>>
      /\ takers' \subseteq takers
      /\ UNCHANGED lease \/ (lease = Free /\ lease' = Unreadable)
    BY DEF Dies, Coordinates, Surface, store
<1>3. SurfacesOK /\ installed \in 0..MaxVersion /\ Order /\ TriesOK
    BY DEF IInv, Types, ReleasesOK
<1>4. SurfacesOK'
    BY <1>1, <1>2, <1>3, FreshTyped DEF SurfacesOK
<1>5. /\ \A t \in Surfaces : surface'[t].up => surface[t].up
      /\ \A t \in Surfaces \ {s} : SurfaceActs(t)' => SurfaceActs(t)
      /\ ~SurfaceActs(s)'
    BY <1>1, <1>3 DEF SurfacesOK, SurfaceActs
<1>6. LeaseOK'
    BY <1>2, LeasesAre, LeaseTyped DEF IInv, Types, LeaseOK
<1>7. Types'
    BY <1>1, <1>2, <1>4, <1>6, TypesKept DEF IInv
<1>8. ReadyIsCached'
    BY <1>2 DEF IInv, ReadyIsCached
<1>9. Coordination'
    BY <1>1, <1>2, CoordinationKept DEF IInv
<1>10. Order'
    BY <1>1, <1>2, <1>3, <1>5, NamesStay, SurfaceStepKeeps DEF Nobodys, SurfaceOrder
<1>. QED
    BY <1>7, <1>8, <1>9, <1>10 DEF IInv

LEMMA LauncherDies ==
    ASSUME IInv, ~raced, NEW a \in Tries, Dies(Launcher(a))
    PROVE  IInv'
<1>1. LauncherRuns(a) /\ Goes(a, "dead") /\ UNCHANGED <<surface, auto>>
    BY DEF Dies, Dead, Launcher
<1>2. /\ UNCHANGED <<store, raced, record, files, coordination>> /\ takers' \subseteq takers
      /\ UNCHANGED lease \/ (lease = Free /\ lease' = Unreadable)
    BY DEF Dies, Coordinates, Launcher
<1>3. /\ TriesOK /\ try \in [Tries -> TryType] /\ try[a].at # "unborn" /\ FilesOK
      /\ try[a].helper \notin Coordinating
    BY <1>1, LauncherAt DEF LauncherRuns
<1>4. Moves(a, "dead", try[a].helper)
    BY <1>1, <1>3, GoesMoves DEF LauncherAts
<1>5. TriesOK'
    BY <1>3, <1>4, MovesTries
<1>6. FilesOK'
    BY <1>2, <1>3 DEF FilesOK, files
<1>7. TryOrder(a)'
  <2>1. \A v : Ready(v) => ReadyThen(v)
    BY <1>2 DEF Ready, ReadyThen
  <2>2. try[a].helper \in Coordinating \cup {"parent", "blocker", "restart"} =>
          lease = ClaimedBy(a) /\ lease' = ClaimedBy(a)
    BY <1>2, LauncherAt, LeaseNames DEF HelperActs, HelperAt
  <2>3. lease' = TransferredTo(a) => lease = TransferredTo(a)
    BY <1>2, LeaseNames
  <2>. QED
    BY <1>3, <1>4, <2>1, <2>2, <2>3, LauncherAt, OrderOf
<1>8. lease' = lease \/ ((Mine(a) \/ Nobodys) /\ (Mine(a)' \/ Nobodys'))
    BY <1>2, NamesStay DEF Nobodys
<1>9. /\ \A b \in Tries \ {a} : try'[b] = try[b]
      /\ HelperAt(a, Coordinating) \/ HelperAt(a, Coordinating)' => try'[a].helper = try[a].helper
    BY <1>4 DEF Moves
<1>. QED
    BY <1>1, <1>2, <1>5, <1>6, <1>7, <1>8, <1>9, QuietStep

\* Whatever coordination it had under way ends with it.
LEMMA HelperDies ==
    ASSUME IInv, ~raced, NEW a \in Tries, Dies(Helper(a))
    PROVE  IInv'
<1>1. HelperRuns(a) /\ HelperGoes(a, "dead") /\ UNCHANGED <<surface, auto>>
    BY DEF Dies, Dead, Helper
<1>2. /\ UNCHANGED <<store, raced, record, files, lease>> /\ takers' \subseteq takers
      /\ IF HelperAt(a, Coordinating) THEN Forgotten ELSE UNCHANGED coordination
    BY DEF Dies, Coordinates, Helper, Acquiring
<1>3. /\ TriesOK /\ try \in [Tries -> TryType] /\ try[a].at # "unborn" /\ FilesOK
      /\ try[a].at \in LauncherAts
    BY <1>1, LauncherAt, HelperLives
<1>4. FilesOK'
    BY <1>2, <1>3 DEF FilesOK, files
<1>5. "dead" \in HelperAts \ Coordinating
    BY DEF HelperAts, Coordinating
<1>6. CASE ~HelperAt(a, Coordinating)
    BY <1>1, <1>2, <1>4, <1>5, <1>6, HelperMovesOn DEF HelperAt
<1>7. CASE HelperAt(a, Coordinating)
  <2>1. Moves(a, try[a].at, "dead")
    BY <1>1, <1>3, <1>5, HelperGoesMoves
  <2>2. TriesOK'
    BY <1>3, <2>1, MovesTries
  <2>3. LeaseOK'
    BY <1>2, LeaseTyped DEF IInv, Types, LeaseOK
  <2>4. /\ UNCHANGED <<latest, installed, artifacts, terminals>> /\ Forgotten
    BY <1>2, <1>7 DEF store
  <2>5. Types'
    BY <1>1, <1>2, <2>2, <2>3, <2>4, RestAfter, TypesKept DEF IInv
  <2>6. ReadyIsCached'
    BY <1>2, <2>4 DEF IInv, ReadyIsCached
  <2>7. HelperActs(a) /\ Order
    BY <1>7, SetsOfSteps DEF IInv
  <2>8. \A b \in Tries \ {a} : ~HelperAt(b, Coordinating)
    BY <2>7, OneCoordinates
  <2>9. \A b \in Tries : ~HelperAt(b, Coordinating)'
    BY <1>5, <2>1, <2>8 DEF Moves, HelperAt, Coordinating
  <2>10. Coordination'
    BY <2>4, <2>9, RestAfter, CoordinationGoesOn
  <2>11. TryOrder(a)'
    <3>1. lease' = ClaimedBy(a) /\ lease' # TransferredTo(a)
      BY <1>2, <2>7, LauncherAt, LeaseNames
    <3>2. try[a].at \in {"unborn", "done", "failed", "dead"}
      BY <1>7, LauncherAt DEF HelperAt
    <3>3. "dead" \notin Coordinating \cup {"parent", "blocker", "restart"}
      BY DEF Coordinating
    <3>. QED
      BY <1>3, <2>1, <3>1, <3>2, <3>3, OrderOf
  <2>12. Order'
    BY <1>1, <1>2, <1>3, <2>1, <2>7, <2>11, TryStep DEF Moves, SurfaceActs
  <2>. QED
    BY <2>5, <2>6, <2>10, <2>12 DEF IInv
<1>. QED
    BY <1>6, <1>7

-----------------------------------------------------------------------------
(* The invariant.                                                          *)

LEMMA InitIInv == Init => IInv
<1>. SUFFICES ASSUME Init PROVE IInv
    OBVIOUS
<1>0. /\ MaxVersion \in Nat /\ MaxVersion > 0 /\ MaxTries \in Nat
    OBVIOUS
<1>1. 1 \in 1..MaxVersion /\ 0 \in 0..MaxVersion /\ 0 \in 0..MaxTries /\ 0 \in 0..(MaxTries + MaxVersion)
    BY <1>0
<1>2. ReleasesOK
    BY <1>1 DEF Init, ReleasesOK, Versions
<1>3. RecordOK
    BY <1>1 DEF Init, RecordOK, Records
<1>4. LeaseOK
    BY LeasesAre DEF Init, LeaseOK
<1>5. FilesOK
    BY <1>1 DEF Init, FilesOK
<1>6. SurfacesOK
  <2>1. Fresh \in SurfaceType
    BY <1>1 DEF Init, Fresh, SurfaceType
  <2>. QED
    BY <2>1 DEF Init, SurfacesOK
<1>7. NoTry \in TryType /\ NoTry.at = "unborn" /\ NoTry.helper = "unborn"
    BY <1>1 DEF NoTry, TryType, LauncherAts, HelperAts
<1>8. \A a \in Tries : try[a] = NoTry
    BY DEF Init
<1>9. TriesOK
    BY <1>7, <1>8 DEF Init, TriesOK
<1>10. CoordinationOK
    BY NothingFound DEF Init, CoordinationOK
<1>11. ReadyIsCached
    BY DEF Init, ReadyIsCached
<1>12. Coordination
    BY <1>7, <1>8 DEF Init, Coordination, HelperAt, Coordinating, Rests
<1>13. Order
  <2>1. LeaseForm
    BY DEF Init, LeaseForm, Nobodys
  <2>2. ASSUME NEW s \in Surfaces PROVE ~SurfaceActs(s)
    BY DEF Init, SurfaceActs
  <2>3. ASSUME NEW a \in Tries PROVE TryOrder(a)
    <3>1. /\ ~LauncherActs(a) /\ ~HelperActs(a) /\ ~Engaged(a) /\ At(a, {"unborn"})
          /\ ~At(a, {"prompt", "write", "spawn", "transfer"}) /\ ~At(a, {"checking"})
          /\ ~HelperAt(a, Coordinating \cup {"blocker"}) /\ ~HelperAt(a, Coordinating)
      BY <1>7, <1>8 DEF LauncherActs, HelperActs, Engaged, At, HelperAt, Coordinating
    <3>2. lease # TransferredTo(a)
      BY LeaseNames DEF Init
    <3>. QED
      BY <3>1, <3>2 DEF TryOrder
  <2>. QED
    BY <2>1, <2>2, <2>3 DEF Order, SurfaceOrder
<1>. QED
    BY <1>2, <1>3, <1>4, <1>5, <1>6, <1>9, <1>10, <1>11, <1>12, <1>13 DEF IInv, Types

LEMMA NextIInv == IInv /\ [Next]_vars => IInv'
<1>. SUFFICES ASSUME IInv, [Next]_vars PROVE IInv'
    OBVIOUS
<1>1. CASE UNCHANGED vars
  <2>1. /\ UNCHANGED <<latest, installed, artifacts, terminals, record, lock, files, surface, auto, try,
                       coordination>>
        /\ UNCHANGED <<lease, raced>>
    BY <1>1 DEF vars, lock, files, coordination
  <2>2. Types'
    BY <2>1, TypesKept DEF IInv
  <2>3. ReadyIsCached'
    BY <2>1 DEF IInv, ReadyIsCached
  <2>4. Coordination'
    BY <2>1, CoordinationKept DEF IInv
  <2>5. raced' \/ Order'
    BY <2>1, OrderKept DEF IInv, Types
  <2>. QED
    BY <2>2, <2>3, <2>4, <2>5 DEF IInv
<1>2. CASE Next
  <2>0. ~raced
    BY <1>2 DEF Next
  <2>1. ASSUME NEW s \in Surfaces, CheckStep(s) \/ Polls(s) \/ SurfaceStep(s) \/ LaunchTimesOut(s)
        PROVE  IInv'
    <3>1. CASE CheckStep(s) \/ Polls(s)
      BY <2>0, <3>1, ChecksKeep, LooksKeep DEF CheckStep
    <3>2. CASE SurfaceStep(s)
      BY <2>0, <3>2, AnswersKeep, BeginningsKeep DEF SurfaceStep
    <3>. QED
      BY <2>0, <2>1, <3>1, <3>2, TimeoutKeeps
  <2>2. ASSUME NEW a \in Tries, LauncherStep(a) \/ CommandAnswered(a)
        PROVE  IInv'
    BY <2>0, <2>2, LauncherMovesOn, LauncherSendsHelper, CommandsKeep DEF LauncherStep
  <2>3. ASSUME NEW a \in Tries, HelperStep(a)
        PROVE  IInv'
    <3>1. CASE \/ HelperClaims(a) \/ HelperValidates(a) \/ HelperClaimsLease(a)
               \/ HelperGivesUpLease(a) \/ HelperSeesParentGone(a) \/ HelperGivesUpWaiting(a)
               \/ HelperRestarts(a) \/ HelperRemoves(a) \/ HelperReleases(a)
      BY <2>0, <3>1, ClaimKeeps, HelpersMove, RestartKeeps
    <3>2. CASE HelperInspects(a) \/ HelperDecides(a) \/ StopsCore(a) \/ LowersCore(a)
               \/ StopsSync(a) \/ LowersSync(a)
      BY <2>0, <3>2, DecidesKeeps, StopsCoreKeeps, LowersCoreKeeps, StopsSyncKeeps, LowersSyncKeeps
    <3>3. CASE Installs(a) \/ RestoresSync(a) \/ RestoresMode(a) \/ RestoresCore(a) \/ HelperRecords(a)
      BY <2>0, <3>3, InstallsKeep, RestoresSyncKeeps, RestoresModeKeeps, RestoresCoreKeeps, RecordsKeep
    <3>. QED
      BY <2>3, <3>1, <3>2, <3>3 DEF HelperStep
  <2>4. ASSUME NEW p \in Processes, TakesOver(p) \/ Dies(p)
        PROVE  IInv'
    <3>1. CASE TakesOver(p)
      BY <2>0, <3>1, TakeoverKeeps
    <3>2. CASE Dies(p)
      BY <2>0, <2>4, <3>2, SurfaceDies, LauncherDies, HelperDies DEF Processes
    <3>. QED
      BY <2>4, <3>1, <3>2
  <2>5. CASE Publishes \/ RunsCommand \/ SyncExits \/ CoreExits \/ Ages
    BY <2>0, <2>5, TimeKeeps, BeginningsKeep, ExitsKeep
  <2>. QED
    BY <1>2, <2>1, <2>2, <2>3, <2>4, <2>5 DEF Next
<1>. QED
    BY <1>1, <1>2

\* The lease names the one that acts, what was ready when a handoff was prepared
\* stays so until it is installed, and what the coordination has done to Core and
\* Sync is known at every step of it.
THEOREM IInvHolds == Spec => []IInv
<1>1. Init => IInv
    BY InitIInv
<1>2. IInv /\ [Next]_vars => IInv'
    BY NextIInv
<1>. QED
    BY <1>1, <1>2, PTL DEF Spec

-----------------------------------------------------------------------------
(* What it gives.                                                          *)

LEMMA IInvImpliesUpdateInv == IInv => UpdateInv
<1>. SUFFICES ASSUME IInv PROVE UpdateInv
    OBVIOUS
<1>1. TypeOK
  <2>1. /\ latest \in Versions /\ installed \in 0..MaxVersion /\ artifacts \subseteq Versions
        /\ record \in Records /\ lease \in Leases /\ takers \subseteq Processes /\ raced \in BOOLEAN
        /\ pending \in 0..MaxTries /\ claimed \subseteq Tries /\ aged \subseteq Tries
    BY DEF IInv, Types, ReleasesOK, RecordOK, LeaseOK, FilesOK
  <2>2. /\ terminals \subseteq Surfaces /\ surface \in [Surfaces -> SurfaceType]
        /\ auto \in [Surfaces -> {"asking", "checking", "off"}]
    BY DEF IInv, Types, SurfacesOK
  <2>3. \A a \in Tries : /\ try[a].by \in Surfaces \cup {Cli, "nobody"}
                         /\ try[a].version \in 0..MaxVersion
                         /\ try[a].took \in 0..MaxTries
    BY DEF IInv, Types, TriesOK, TryType
  <2>4. /\ before \in Snapshots /\ duty \subseteq {"core mode", "sync stop", "sync mode"}
        /\ failures \subseteq {"refused", "main", "restore"}
    BY DEF IInv, Types, CoordinationOK
  <2>. QED
    BY <2>1, <2>2, <2>3, <2>4 DEF TypeOK, SurfaceType
<1>2. ASSUME Order PROVE OneInCharge
  <2>. SUFFICES ASSUME NEW p \in Processes, Acts(p) PROVE HasOwner /\ lease.pid = p
    BY DEF OneInCharge
  <2>1. CASE \E s \in Surfaces : p = Surface(s)
    <3>1. PICK s \in Surfaces : p = Surface(s)
      BY <2>1
    <3>2. SurfaceActs(s)
      BY <3>1 DEF Acts, Surface, SurfaceActs
    <3>. QED
      BY <1>2, <3>1, <3>2, LeaseFields DEF Order, SurfaceOrder
  <2>2. CASE \E a \in Tries : p = Launcher(a)
    <3>1. PICK a \in Tries : p = Launcher(a)
      BY <2>2
    <3>2. LauncherActs(a)
      BY <3>1 DEF Acts, Launcher, LauncherActs
    <3>. QED
      BY <1>2, <3>1, <3>2, LeaseFields DEF Order, TryOrder
  <2>3. CASE \E a \in Tries : p = Helper(a)
    <3>1. PICK a \in Tries : p = Helper(a)
      BY <2>3
    <3>2. HelperActs(a)
      BY <3>1 DEF Acts, Helper, HelperActs
    <3>. QED
      BY <1>2, <3>1, <3>2, LeaseFields DEF Order, TryOrder
  <2>. QED
    BY <2>1, <2>2, <2>3 DEF Processes
<1>3. ASSUME Order PROVE OwnHandoff
  <2>. SUFFICES ASSUME NEW a \in Tries, HelperAt(a, {"parent", "blocker", "inspect"})
                PROVE  try[a].took = a /\ Ready(try[a].version)
    BY DEF OwnHandoff
  <2>1. Engaged(a)
    BY DEF HelperAt, Engaged, Coordinating
  <2>. QED
    BY <1>3, <2>1 DEF Order, TryOrder
<1>. QED
    BY <1>1, <1>2, <1>3 DEF IInv, UpdateInv

\* One process at a time checks, downloads, hands over or installs, the one the
\* lease names; what is said to be ready lies in the cache; and a helper that has
\* the lease has the handoff of its own launcher, ready for that very version
\* (operation-lease.ts, update-handoff.ts).
THEOREM OneUpdates == Spec => []UpdateInv
<1>1. IInv => UpdateInv
    BY IInvImpliesUpdateInv
<1>. QED
    BY <1>1, IInvHolds, PTL

\* Core and Sync have again the modes they had and serve if they served when the
\* coordination is over, whichever step of it failed (coordinateProductUpdate).
THEOREM ServicesComeBack == Spec => []ServicesRestored
<1>1. IInv => ServicesRestored
  <2>. SUFFICES ASSUME IInv, NEW a \in Tries, HelperAt(a, {"record"}), "restore" \notin failures
                PROVE  Restored
    BY DEF ServicesRestored, Restored
  <2>1. Coordinated(a)
    BY DEF IInv, Coordination, HelperAt, Coordinating
  <2>. QED
    BY <2>1 DEF Coordinated
<1>. QED
    BY <1>1, IInvHolds, PTL

\* Nobody but the helper that installs changes what is installed.
LEMMA OnlyInstalls ==
    ASSUME [Next]_vars, installed' # installed
    PROVE  \E a \in Tries : Installs(a)
<1>1. Next
    BY DEF vars
<1>2. ASSUME NEW s \in Surfaces, CheckStep(s) \/ Polls(s) \/ SurfaceStep(s) \/ LaunchTimesOut(s)
      PROVE  FALSE
    BY <1>2 DEF CheckStep, Polls, SurfaceStep, LaunchTimesOut, CheckBegins, CheckNotDue,
                CheckFindsAnother, CheckAdvances, CheckFails, Confirms, Launches, SeesResult,
                Leaves, store
<1>3. ASSUME NEW a \in Tries, LauncherStep(a) \/ CommandAnswered(a)
      PROVE  FALSE
    BY <1>3 DEF LauncherStep, CommandAnswered, LauncherAcquires, LauncherReads, CommandChecks,
                CommandAdvances, CommandFails, LauncherWrites, LauncherSpawns, LauncherTransfers,
                LauncherSeesClaim, LauncherGivesUp, LauncherUndoes, LauncherUnwrites, store
<1>4. ASSUME NEW a \in Tries, HelperStep(a)
      PROVE  Installs(a)
    BY <1>4 DEF HelperStep, HelperClaims, HelperValidates, HelperClaimsLease, HelperGivesUpLease,
                HelperSeesParentGone, HelperGivesUpWaiting, HelperInspects, HelperDecides,
                StopsCore, LowersCore, StopsSync, LowersSync, RestoresSync, RestoresMode,
                RestoresCore, HelperRecords, HelperRestarts, HelperRemoves, HelperReleases,
                Inert, store
<1>5. ASSUME NEW p \in Processes, TakesOver(p) \/ Dies(p)
      PROVE  FALSE
    BY <1>5 DEF TakesOver, Dies, store
<1>6. ~(Publishes \/ RunsCommand \/ SyncExits \/ CoreExits \/ Ages)
    BY DEF Publishes, RunsCommand, SyncExits, CoreExits, Ages, Inert, store
<1>. QED
    BY <1>1, <1>2, <1>3, <1>4, <1>5, <1>6 DEF Next

\* The installed version changes only to the version a user confirmed, when the
\* interface where he did so has quit, by the one helper that holds the lease
\* (assertUpdateHandoffMatchesReadyState, waitForProcess, claimLease).
THEOREM ConfirmedIsInstalled == Spec => InstallsWhatWasConfirmed
<1>. DEFINE Confirmed == installed' # installed /\ ~raced =>
                 \E a \in Tries : /\ HasOwner /\ lease.pid = Helper(a)
                                  /\ BlockerGone(a)
                                  /\ Ready(try[a].version)
                                  /\ installed' = try[a].version
<1>1. IInv /\ [Next]_vars => Confirmed
  <2>. SUFFICES ASSUME IInv, [Next]_vars, installed' # installed, ~raced
                PROVE  \E a \in Tries : /\ HasOwner /\ lease.pid = Helper(a)
                                        /\ BlockerGone(a)
                                        /\ Ready(try[a].version)
                                        /\ installed' = try[a].version
    OBVIOUS
  <2>1. PICK a \in Tries : Installs(a)
    BY OnlyInstalls
  <2>2. HelperAt(a, {"install"}) /\ installed' = Took(a).version
    BY <2>1 DEF Installs, Steps
  <2>3. HelperAt(a, Coordinating) /\ Engaged(a) /\ HelperActs(a)
    BY <2>2 DEF HelperAt, Engaged, HelperActs, Coordinating
  <2>4. TryOrder(a)
    BY DEF IInv, Order
  <2>5. /\ lease = ClaimedBy(a) /\ try[a].took = a /\ Ready(try[a].version) /\ BlockerGone(a)
    BY <2>3, <2>4 DEF TryOrder
  <2>. QED
    BY <2>2, <2>5, LeaseFields DEF Took
<1>2. IInv /\ [Next]_vars => [Confirmed]_vars
    BY <1>1
<1>. QED
    BY <1>2, IInvHolds, PTL DEF Spec, InstallsWhatWasConfirmed
=============================================================================
