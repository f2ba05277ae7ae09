---------------------------- MODULE SyncHostProofs ----------------------------
(***************************************************************************)
(* What holds of SyncHost for any number of origins, hosts, servers,       *)
(* troubles and operations.  The servers and the control files are one     *)
(* argument, about the order in which servers are started and write the    *)
(* files.  The storage, the service record and the platform are another,   *)
(* about how far the operation under way has come.                         *)
(***************************************************************************)
EXTENDS SyncHost, TLAPS

-----------------------------------------------------------------------------
(* The invariants.                                                         *)

ServerType == [by : {None, "create", "service", "user"}, written : BOOLEAN, wrapped : BOOLEAN,
               failed : BOOLEAN, beside : BOOLEAN,
               phase : {"none", "starting", "up", "draining", "closing", "left", "gone"}]
ServersOK == server \in [Servers -> ServerType] /\ busy \subseteq Servers /\ control \in {0} \cup Servers
ByManager(p) == server[p].by \in {"create", "service"}
\* Only a server that was started beside one that had not written its files
\* has an earlier one that is still to write them.
InOrder ==
  \A p, q \in Servers : q < p /\ ByManager(p) /\ Alive(p) /\ ~server[p].beside => ~Unwritten(q)
\* A server that was not started has left no trace, and a user's has no files.
NotStarted ==
  \A p \in Servers : (server[p].by = None => server[p] = NoServer) /\ (server[p].written => ByManager(p))
ServersInv == ServersOK /\ NotStarted /\ InOrder /\ ControlNamesServer

CreateAts == {"core", "spawn", "ready", "enroll", "bootstrap", "online", "code", "config", "cancel"}
StopAts == {"stop", "exit"}
ChangeAts == {"apply", "halting", "health", "applied"}
EraseAts == {"rmconfig", "rmdata"}
ConfigureAts == {"write", "restart", "verify"}
Ats == {None, "prepare", "await", "mode"} \cup CreateAts \cup StopAts \cup ChangeAts \cup EraseAts \cup ConfigureAts
JobType ==
  [op : {None, "create", "delete", "configure", "mode"}, at : Ats,
   want : Origins \cup {None}, old : Origins \cup {None}, child : {0} \cup Servers,
   before : Modes \cup {None}, target : Modes \cup {None},
   enrolled : BOOLEAN, started : BOOLEAN, cleaning : BOOLEAN, restoring : BOOLEAN]
JobOK == job \in JobType
RecordType ==
  [mode : Modes \cup {None}, desired : Modes, phase : {"stable", "applying", "failed"}, failure : BOOLEAN]
HostOK ==
  /\ config \in Origins \cup {None} /\ data \in 0..MaxHosts /\ approved \subseteq 1..MaxHosts
  /\ record \in RecordType
  /\ platform \in [registered : BOOLEAN, restart : BOOLEAN]
  /\ core \in [kind : {None, "pending", "approved", "online"}, host : 0..MaxHosts, uses : {"local", "settings", "keys"}]
  /\ hosts \in 0..MaxHosts

\* Which steps belong to which operation.
StepOfOp ==
  CASE job.op = None        -> job.at = None
    [] job.op = "create"    -> job.at \in CreateAts \cup StopAts \cup {"await", "mode"} \cup ChangeAts \cup EraseAts
    [] job.op = "delete"    -> job.at \in {"prepare", "mode"} \cup StopAts \cup ChangeAts \cup EraseAts
    [] job.op = "configure" -> job.at \in ConfigureAts \cup StopAts
    [] job.op = "mode"      -> job.at \in {"mode"} \cup ChangeAts
\* What is cleaned up, and what is undone.
Cleaned ==
  /\ job.cleaning => job.op = "create" /\ job.at \in StopAts \cup EraseAts \cup {"cancel", "await"}
  /\ job.at = "cancel" => job.cleaning
  /\ job.restoring => job.at \in ChangeAts \/ job.cleaning \/ job.op = "configure"
\* What the change of mode has come to.
Changed ==
  /\ job.at \in {"mode"} \cup ChangeAts => job.target # None
  /\ job.op = "delete" /\ job.at \in {"mode"} \cup ChangeAts /\ ~job.restoring => job.target = "disabled"
  /\ job.at \in ChangeAts => record.phase = "applying" /\ (job.restoring => job.target = job.before)
  /\ job.at = "health" => job.target = "background" /\ platform.registered
  /\ job.at = "applied" => platform.registered = (job.target = "background")
\* Without a configuration, and until a create is over, nothing is registered
\* nor was; a delete unregisters before it erases.
Unregistered ==
  /\ config = None \/ job.op = "create" \/ (job.op = "delete" /\ job.at \in EraseAts) =>
       ~platform.registered /\ record.mode # "background"
  /\ job.op = "create" => job.target # "background" /\ job.before # "background"
\* What the operation found, or made, is there.
Present ==
  /\ job.op \in {"configure", "mode"} \/ (job.op = "delete" /\ job.at \notin EraseAts) => config # None
  /\ job.op = "create" => job.want # None
  /\ job.op = "configure" => job.want # None /\ job.old # None
  /\ \/ job.at \in {"enroll", "bootstrap", "online", "code", "config"}
     \/ job.op = "create" /\ job.at \in StopAts \cup {"await"} /\ ~job.cleaning
     => data # 0
\* A delete has disconnected Core before it stops anything.
Unlinked == job.op = "delete" /\ job.at # "prepare" => core.host = 0
JobInv == HostOK /\ JobOK /\ StepOfOp /\ Cleaned /\ Changed /\ Unregistered /\ Present /\ Unlinked
          /\ RecordTells /\ CommittedIsWhole

-----------------------------------------------------------------------------
(* The servers.                                                            *)

\* Some server can be started when one is spare.
LEMMA NewServerIsFresh ==
  Spare => NewServer \in Servers /\ Fresh(NewServer)
BY DEF Spare, NewServer

\* The host starts with no server, or with one that has written its files.
LEMMA InitServers == Init => ServersInv
<1> SUFFICES ASSUME Init PROVE ServersInv
  OBVIOUS
<1> USE BoundsAreNumbers DEF ServersInv, ServersOK, ServerType, NotStarted, InOrder, ControlNamesServer,
        Alive, Unwritten, ByManager, NoServer, Servers
<1>1. CASE NoHost
  BY <1>1 DEF Child, Init, NoHost
<1>2. ASSUME NEW mode \in {"on-demand", "background"}, NEW uses \in {"local", "settings", "keys"}, AHost(mode, uses)
      PROVE  ServersInv
  <2>. DEFINE one == Child("service", "up", TRUE, FALSE)
  <2>1. /\ server = [p \in Servers |-> IF p = 1 /\ mode = "background" THEN one ELSE NoServer]
        /\ control = (IF mode = "background" THEN 1 ELSE 0) /\ busy = {}
    BY <1>2, Zenon DEF Init, AHost
  <2>2. /\ one \in ServerType /\ one.by = "service" /\ one.written /\ one.beside = FALSE
        /\ NoServer \in ServerType /\ NoServer.written = FALSE /\ NoServer.phase = "none" /\ NoServer.by = None
    BY DEF Child
  <2>. HIDE DEF one, NoServer, ServerType
  <2>3. CASE mode = "background"
    <3>1. 1 \in Servers /\ server[1] = one /\ \A p \in Servers : p # 1 => server[p] = NoServer
      BY <2>1, <2>3
    <3>2. ServersOK
      BY <2>1, <2>2, <2>3
    <3>3. NotStarted /\ InOrder
      BY <2>2, <3>1 DEF None
    <3>4. ControlNamesServer
      BY <2>1, <2>2, <2>3, <3>1
    <3>. QED
      BY <3>2, <3>3, <3>4
  <2>4. CASE mode # "background"
    BY <2>1, <2>2, <2>4
  <2>. QED
    BY <2>3, <2>4
<1>. QED
  BY <1>1, <1>2 DEF Init

\* Servers that only come nearer to their end, and the files, stay in order.
LEMMA AgeingKeepsServers ==
  ASSUME ServersInv, server' \in [Servers -> ServerType], busy' \subseteq Servers, control' = control,
         \A p \in Servers :
           /\ server'[p].by = server[p].by /\ server'[p].written = server[p].written
           /\ server'[p].beside = server[p].beside /\ (server'[p].wrapped => server[p].wrapped)
           /\ server'[p].phase \notin {"none", "gone"} => Alive(p)
           /\ server[p].by = None => server'[p] = server[p]
  PROVE  ServersInv'
BY DEF ServersInv, ServersOK, NotStarted, InOrder, ControlNamesServer, Alive, Unwritten, ByManager

\* A server that is started comes after all others.
LEMMA StartingKeepsServers ==
  ASSUME ServersInv, NEW by \in {"create", "service", "user"}, NEW p \in Servers, Fresh(p),
         server' = Spawned(by, p), UNCHANGED <<busy, control>>
  PROVE  ServersInv'
<1>1. PICK beside \in BOOLEAN : beside = (\E q \in Servers : Unwritten(q))
  OBVIOUS
<1>. DEFINE new == Child(by, "starting", FALSE, beside)
<1>2. server' = [server EXCEPT ![p] = new]
  BY <1>1, Zenon DEF Spawned
<1>3. new \in ServerType
  BY DEF ServerType, Child
<1>4. new.by = by /\ new.phase = "starting" /\ new.written = FALSE /\ new.wrapped = TRUE /\ new.beside = beside
  BY DEF Child
<1>. HIDE DEF new
<1>5. /\ server' \in [Servers -> ServerType] /\ server'[p] = new
      /\ \A q \in Servers \ {p} : server'[q] = server[q]
  BY <1>2, <1>3 DEF ServersInv, ServersOK
<1>6. ServersOK' /\ NotStarted'
  <2>1. ServersOK'
    BY <1>5 DEF ServersInv, ServersOK
  <2>2. NotStarted'
    BY <1>4, <1>5 DEF ServersInv, NotStarted, ByManager, None
  <2>. QED
    BY <2>1, <2>2
<1>7. \A q \in Servers : q > p => server[q].by = None /\ ~Alive(q)
  BY DEF Fresh, Servers, ServersInv, NotStarted, NoServer, Child, Alive
<1>8. InOrder'
  <2> SUFFICES ASSUME NEW r \in Servers, NEW q \in Servers, q < r, ByManager(r)', Alive(r)', ~server'[r].beside
               PROVE  ~Unwritten(q)'
    BY DEF InOrder
  <2>1. CASE r = p
    <3>1. ~Unwritten(q)
      BY <1>1, <1>4, <1>5, <2>1
    <3>. QED
      BY <1>5, <2>1, <3>1 DEF Unwritten, Alive, Servers
  <2>2. CASE r # p
    <3>1. ~(r > p)
      BY <1>5, <1>7, <2>2 DEF Alive
    <3>2. q # p
      BY <3>1 DEF Servers
    <3>. QED
      BY <1>5, <2>2, <3>2 DEF ServersInv, InOrder, ByManager, Alive, Unwritten
  <2>. QED
    BY <2>1, <2>2
<1>9. ControlNamesServer'
  <2>1. \A q \in Servers : q < p <=> server[q].by # None
    BY DEF Fresh, Servers
  <2> SUFFICES ASSUME NEW r \in Servers, server'[r].written, server'[r].wrapped, Alive(r)'
               PROVE  control = r \/ server'[r].beside \/ \E q \in Servers : q > r /\ server'[q].by \in {"create", "service"}
    BY DEF ControlNamesServer
  <2>2. r # p
    BY <1>4, <1>5
  <2>3. server[r].written /\ server[r].wrapped /\ Alive(r) /\ server[p].by = None
    BY <1>5, <2>1, <2>2 DEF Alive, Servers
  <2>. QED
    BY <1>5, <2>2, <2>3 DEF ServersInv, ControlNamesServer, None
<1>. QED
  BY <1>6, <1>8, <1>9 DEF ServersInv

\* The files are taken over only from earlier servers, or from those that were
\* started beside.
LEMMA WritingKeepsServers ==
  ASSUME ServersInv, NEW p \in Servers, WritesControl(p)
  PROVE  ServersInv'
<1>1. /\ Unwritten(p) /\ control' = p /\ busy' = busy
      /\ server' = [server EXCEPT ![p].written = TRUE]
  BY DEF WritesControl, serverVars
<1>. DEFINE new == [server[p] EXCEPT !.written = TRUE]
<1>2. new \in ServerType
  BY DEF ServersInv, ServersOK, ServerType
<1>3. /\ new.by = server[p].by /\ new.phase = server[p].phase /\ new.written /\ new.wrapped = server[p].wrapped
      /\ new.beside = server[p].beside
  BY DEF ServersInv, ServersOK, ServerType
<1>4. server' = [server EXCEPT ![p] = new]
  BY <1>1
<1>. HIDE DEF new
<1>5. server' \in [Servers -> ServerType] /\ server'[p] = new /\ \A q \in Servers \ {p} : server'[q] = server[q]
  BY <1>2, <1>4 DEF ServersInv, ServersOK
<1>6. ByManager(p)
  BY <1>1 DEF Unwritten, Alive, ByManager, ServersInv, ServersOK, ServerType, NotStarted, NoServer, Child
<1>7. ServersOK' /\ NotStarted'
  BY <1>1, <1>3, <1>5, <1>6 DEF ServersInv, ServersOK, NotStarted, ByManager, None
<1>8. InOrder'
  BY <1>3, <1>5 DEF ServersInv, InOrder, Unwritten, Alive, ByManager
<1>9. ControlNamesServer'
  <2> SUFFICES ASSUME NEW r \in Servers, server'[r].written, server'[r].wrapped, Alive(r)', r # p,
                      ~server'[r].beside
               PROVE  \E q \in Servers : q > r /\ server'[q].by \in {"create", "service"}
    BY <1>1 DEF ControlNamesServer
  <2>1. CASE r < p
    BY <1>3, <1>5, <1>6, <2>1 DEF ByManager, Servers
  <2>2. CASE r > p
    BY <1>1, <1>5, <2>2 DEF ServersInv, ControlNamesServer, InOrder, Alive, ByManager, Servers, ServersOK, ServerType, NotStarted, NoServer, Child
  <2>. QED
    BY <2>1, <2>2 DEF Servers
<1>. QED
  BY <1>7, <1>8, <1>9 DEF ServersInv

\* What leaves is forgotten, and its files with it.
LEMMA LeavingKeepsServers ==
  ASSUME ServersInv, NEW p \in Servers, Leaves(p)
  PROVE  ServersInv'
<1>. DEFINE new == [Child(server[p].by, "gone", FALSE, FALSE) EXCEPT !.failed = server[p].failed]
<1>1. /\ server[p].phase = "left" /\ busy' = busy
      /\ control' \in {0, control} /\ (control' # control => control = p)
      /\ server' = [server EXCEPT ![p] = new]
  BY DEF Leaves, Removes
<1>2. new \in ServerType
  BY DEF ServersInv, ServersOK, ServerType, Child
<1>3. new.by = server[p].by /\ new.phase = "gone" /\ new.written = FALSE
  BY DEF Child
<1>. HIDE DEF new
<1>4. server' \in [Servers -> ServerType] /\ server'[p] = new /\ \A q \in Servers \ {p} : server'[q] = server[q]
  BY <1>1, <1>2 DEF ServersInv, ServersOK
<1>5. server[p].by # None
  BY <1>1 DEF ServersInv, NotStarted, NoServer, Child
<1>6. ServersOK'
  BY <1>1, <1>4 DEF ServersInv, ServersOK
<1>7. NotStarted'
  BY <1>3, <1>4, <1>5 DEF ServersInv, NotStarted, ByManager
<1>8. InOrder'
  BY <1>3, <1>4 DEF ServersInv, InOrder, Unwritten, Alive, ByManager
<1>9. ControlNamesServer'
  BY <1>1, <1>3, <1>4 DEF ServersInv, ControlNamesServer, Alive
<1>. QED
  BY <1>6, <1>7, <1>8, <1>9 DEF ServersInv

\* A server whose phase alone changes, to one it may have while it lives.
LEMMA PhaseKeepsServers ==
  ASSUME ServersInv, NEW p \in Servers, Alive(p), NEW phase \in {"up", "draining", "closing", "left"},
         \/ server' = [server EXCEPT ![p].phase = phase]
         \/ server' = [server EXCEPT ![p].phase = phase, ![p].failed = TRUE],
         busy' \subseteq Servers, control' = control
  PROVE  ServersInv'
<1>1. server \in [Servers -> ServerType] /\ server[p].by # None
  BY DEF ServersInv, ServersOK, NotStarted, NoServer, Child, Alive
<1>2. PICK failed \in BOOLEAN : server' = [server EXCEPT ![p] = [server[p] EXCEPT !.phase = phase, !.failed = failed]]
  <2>1. CASE server' = [server EXCEPT ![p].phase = phase]
    <3>1. [server[p] EXCEPT !.phase = phase, !.failed = server[p].failed] = [server[p] EXCEPT !.phase = phase]
      BY <1>1 DEF ServerType
    <3>2. server[p].failed \in BOOLEAN
      BY <1>1 DEF ServerType
    <3>. QED
      BY <2>1, <3>1, <3>2
  <2>2. CASE server' = [server EXCEPT ![p].phase = phase, ![p].failed = TRUE]
    BY <2>2, <1>1
  <2>. QED
    BY <2>1, <2>2
<1>. DEFINE new == [server[p] EXCEPT !.phase = phase, !.failed = failed]
<1>3. /\ new \in ServerType /\ new.by = server[p].by /\ new.written = server[p].written
      /\ new.beside = server[p].beside /\ new.wrapped = server[p].wrapped
  <2>1. server[p] \in ServerType
    BY <1>1
  <2>. QED
    BY <2>1 DEF ServerType
<1>. HIDE DEF new
<1>4. /\ server' \in [Servers -> ServerType] /\ server'[p] = new
      /\ \A q \in Servers \ {p} : server'[q] = server[q]
  BY <1>1, <1>2, <1>3 DEF new
<1>5. \A q \in Servers :
        /\ server'[q].by = server[q].by /\ server'[q].written = server[q].written
        /\ server'[q].beside = server[q].beside /\ (server'[q].wrapped => server[q].wrapped)
        /\ server'[q].phase \notin {"none", "gone"} => Alive(q)
        /\ server[q].by = None => server'[q] = server[q]
  BY <1>1, <1>3, <1>4 DEF Alive
<1>. QED
  BY <1>4, <1>5, AgeingKeepsServers

\* SIGTERM to the service, and the death of the operation that wraps a child.
LEMMA SignalsKeepServers ==
  ASSUME ServersInv, UNCHANGED <<busy, control>>,
         \/ server' = Terminated
         \/ server' = [p \in Servers |-> IF server[p].by = "create" THEN [server[p] EXCEPT !.wrapped = FALSE] ELSE server[p]]
  PROVE  ServersInv'
<1>. DEFINE Aged(p) ==
       /\ server'[p] \in ServerType
       /\ server'[p].by = server[p].by /\ server'[p].written = server[p].written
       /\ server'[p].beside = server[p].beside /\ (server'[p].wrapped => server[p].wrapped)
       /\ server'[p].phase \notin {"none", "gone"} => Alive(p)
       /\ server[p].by = None => server'[p] = server[p]
<1>1. server \in [Servers -> ServerType]
  BY DEF ServersInv, ServersOK
<1>2. CASE server' = Terminated
  <2>1. \E rest : server' = [p \in Servers |-> rest[p]]
    BY <1>2 DEF Terminated
  <2>2. ASSUME NEW p \in Servers PROVE Aged(p)
    <3>1. PICK phase \in {"starting", "up", "draining", "closing", "left"} :
            server'[p] = server[p] \/ (server[p].by = "service" /\ Alive(p) /\ server'[p] = [server[p] EXCEPT !.phase = phase, !.failed = FALSE])
      BY <1>2 DEF Terminated
    <3>2. server[p] \in ServerType
      BY <1>1
    <3>. QED
      BY <3>1, <3>2 DEF ServerType, Alive, None
  <2>3. server' \in [Servers -> ServerType]
    BY <2>1, <2>2
  <2>. QED
    BY <2>2, <2>3, AgeingKeepsServers DEF ServersInv, ServersOK
<1>3. CASE server' = [p \in Servers |-> IF server[p].by = "create" THEN [server[p] EXCEPT !.wrapped = FALSE] ELSE server[p]]
  <2>2. ASSUME NEW p \in Servers PROVE Aged(p)
    <3>2. server[p] \in ServerType
      BY <1>1
    <3>. QED
      BY <1>3, <3>2 DEF ServerType, Alive, None
  <2>3. server' \in [Servers -> ServerType]
    BY <1>3, <2>2
  <2>. QED
    BY <2>2, <2>3, AgeingKeepsServers DEF ServersInv, ServersOK
<1>. QED
  BY <1>2, <1>3

\* Every step keeps the servers and their files in order.
LEMMA NextServers == ServersInv /\ [Next]_vars => ServersInv'
<1> SUFFICES ASSUME ServersInv, [Next]_vars PROVE ServersInv'
  OBVIOUS
<1>0. ASSUME UNCHANGED <<server, control>>, busy' \subseteq Servers PROVE ServersInv'
  BY <1>0 DEF ServersInv, ServersOK, NotStarted, InOrder, ControlNamesServer, Alive, Unwritten, ByManager
<1>1. ASSUME NEW p \in Servers, ServerStep(p) \/ RequestArrives(p) \/ Crashes(p) \/ Interrupted(p)
      PROVE  ServersInv'
  <2>0. busy \subseteq Servers
    BY DEF ServersInv, ServersOK
  <2>1. CASE Opens(p)
    BY <2>0, <2>1, PhaseKeepsServers DEF Opens, Alive
  <2>2. CASE RequestArrives(p) \/ RequestEnds(p)
    BY <1>0, <2>0, <2>2 DEF RequestArrives, RequestEnds
  <2>3. CASE Closes(p) \/ Exits(p) \/ Interrupted(p)
    BY <2>0, <2>3, PhaseKeepsServers DEF Closes, Exits, Interrupted, Alive
  <2>4. CASE Crashes(p) \/ MissesData(p)
    BY <2>0, <2>4, PhaseKeepsServers DEF Crashes, MissesData, Crashed, Listening, Alive
  <2>. QED
    BY <1>1, <2>1, <2>2, <2>3, <2>4, WritingKeepsServers, LeavingKeepsServers DEF ServerStep
<1>2. CASE Restarts \/ Serves \/ Spawns
  <2>1. PICK by \in {"create", "service", "user"} :
          Spare /\ server' = Spawned(by, NewServer) /\ UNCHANGED <<busy, control>>
    BY <1>2 DEF Restarts, Serves, Spawns
  <2>. QED
    BY <2>1, NewServerIsFresh, StartingKeepsServers
<1>3. CASE Stops
  <2>1. \/ UNCHANGED server
        \/ SafeToStop(control) /\ Managed /\ server' = [server EXCEPT ![control].phase = "draining"]
    BY <1>3 DEF Stops
  <2>2. UNCHANGED <<busy, control>> /\ busy \subseteq Servers
    BY <1>3 DEF Stops, ServersInv, ServersOK
  <2>3. ASSUME SafeToStop(control), Managed, server' = [server EXCEPT ![control].phase = "draining"]
        PROVE  ServersInv'
    <3>1. PICK p \in Servers : control = p
      BY <2>3 DEF Managed, Owned
    <3>2. Alive(p)
      BY <2>3, <3>1 DEF SafeToStop, Alive
    <3>. QED
      BY <2>2, <2>3, <3>1, <3>2, PhaseKeepsServers
  <2>. QED
    BY <1>0, <2>1, <2>2, <2>3
<1>4. CASE Applies \/ Restart \/ Dies
  <2>1. UNCHANGED <<busy, control>> /\ busy \subseteq Servers
    BY <1>4 DEF Applies, Restart, Dies, ServersInv, ServersOK
  <2>2. \/ UNCHANGED server
        \/ server' = Terminated
        \/ Spare /\ server' = Spawned("service", NewServer)
        \/ server' = [p \in Servers |-> IF server[p].by = "create" THEN [server[p] EXCEPT !.wrapped = FALSE] ELSE server[p]]
    <3>1. CASE Applies
      BY <3>1, Zenon DEF Applies
    <3>2. CASE Restart \/ Dies
      BY <3>2, Zenon DEF Restart, Dies
    <3>. QED
      BY <1>4, <3>1, <3>2
  <2>3. ASSUME Spare, server' = Spawned("service", NewServer) PROVE ServersInv'
    BY <2>1, <2>3, NewServerIsFresh, StartingKeepsServers
  <2>. QED
    BY <1>0, <2>1, <2>2, <2>3, SignalsKeepServers
<1>5. CASE \/ EnsuresCore \/ IsReady \/ Enrolls \/ Bootstraps \/ IsOnline \/ ReadsSetupCode \/ WritesConfig
           \/ Cancels \/ Erases \/ Prepares \/ HasExited \/ Awaits
  BY <1>0, <1>5 DEF EnsuresCore, IsReady, Enrolls, Bootstraps, IsOnline, ReadsSetupCode, WritesConfig,
     Cancels, Erases, Prepares, HasExited, Awaits, serverVars, ServersInv, ServersOK
<1>6. CASE \/ BeginsMode \/ HasHalted \/ IsHealthy \/ Applied \/ Writes \/ Verified \/ TimesOut \/ CommandFails
           \/ CoreStep
  BY <1>0, <1>6 DEF BeginsMode, HasHalted, IsHealthy, Applied, Writes, Verified, TimesOut, CommandFails,
     CoreStep, Collects, Downloads, serverVars, ServersInv, ServersOK
<1>7. CASE \/ \E origin \in Origins : Create(origin) \/ Configure(origin)
           \/ \E mode \in Modes : SetMode(mode)
           \/ Delete
  BY <1>0, <1>7 DEF Create, Configure, SetMode, Delete, Starts, serverVars, ServersInv, ServersOK
<1>8. CASE UNCHANGED vars
  BY <1>0, <1>8 DEF vars, serverVars, ServersInv, ServersOK
<1>. QED
  BY <1>1, <1>2, <1>3, <1>4, <1>5, <1>6, <1>7, <1>8 DEF Next, Manage

-----------------------------------------------------------------------------
(* The operations.                                                         *)

\* The fields of the job that is done, and of the one that goes on.
LEMMA IdleIs ==
  /\ Idle \in JobType /\ Idle.op = None /\ Idle.at = None /\ Idle.want = None /\ Idle.old = None
  /\ Idle.target = None /\ Idle.before = None /\ Idle.cleaning = FALSE /\ Idle.restoring = FALSE
BY DEF Idle, JobType, Ats

Same == job'.op = job.op /\ job'.want = job.want /\ job'.old = job.old
\* The job goes on, at another step.
GoesOnAt(at) ==
  /\ JobOK' /\ Same /\ job'.at = at
  /\ job'.before = job.before /\ job'.target = job.target
  /\ job'.cleaning = job.cleaning /\ job'.restoring = job.restoring

LEMMA GoesIs ==
  \A at \in Ats : JobOK /\ Goes(at) => GoesOnAt(at)
BY DEF JobOK, JobType, Goes, Same, GoesOnAt

LEMMA ToModeIs ==
  ASSUME JobOK, NEW target \in Modes, ToMode(target)
  PROVE  /\ JobOK' /\ Same /\ job'.at = "mode" /\ job'.target = target
         /\ job'.before = job.before
         /\ job'.cleaning = job.cleaning /\ job'.restoring = job.restoring
BY DEF JobOK, JobType, ToMode, Same, Ats

LEMMA FailsIs ==
  ASSUME JobOK, Fails
  PROVE  \/ job.op # "create" /\ job' = Idle
         \/ /\ job.op = "create" /\ JobOK' /\ Same
            /\ job'.before = job.before /\ job'.target = job.target /\ job'.restoring = job.restoring
            /\ job'.cleaning /\ job'.at \in {"cancel", "stop", "rmconfig"}
<1>1. CASE job.op # "create"
  BY <1>1 DEF Fails, Throw
<1>2. CASE job.op = "create"
  <2>1. PICK at \in {"cancel", "stop", "rmconfig"} : job' = [job EXCEPT !.cleaning = TRUE, !.at = at]
    <3>1. CASE job.cleaning
      <4>1. [job EXCEPT !.at = "rmconfig"] = [job EXCEPT !.cleaning = TRUE, !.at = "rmconfig"]
        BY <3>1 DEF JobOK, JobType
      <4>. QED
        BY <1>2, <3>1, <4>1 DEF Fails, Throw
    <3>2. CASE ~job.cleaning
      BY <1>2, <3>2 DEF Fails, Throw
    <3>. QED
      BY <3>1, <3>2
  <2>2. at \in Ats
    BY DEF Ats, CreateAts, StopAts, EraseAts
  <2>3. JobOK'
    BY <2>1, <2>2 DEF JobOK, JobType
  <2>4. /\ Same /\ job'.before = job.before /\ job'.target = job.target /\ job'.restoring = job.restoring
        /\ job'.cleaning /\ job'.at = at
    BY <2>1 DEF JobOK, JobType, Same
  <2>. QED
    BY <1>2, <2>3, <2>4
<1>. QED
  BY <1>1, <1>2

\* When the operation is over, what it leaves must be whole, and well told.
LEMMA EndKeeps ==
  ASSUME HostOK', job' = Idle, RecordTells', CommittedIsWhole',
         config' = None => ~platform'.registered /\ record'.mode # "background"
  PROVE  JobInv'
BY IdleIs DEF JobInv, JobOK, StepOfOp, Cleaned, Changed, Unregistered, Present, Unlinked, ChangeAts, None, StopAts, CreateAts

\* A failure keeps what was there; what was registered on the way is told.
LEMMA FailKeeps ==
  ASSUME JobInv, HostOK', Fails, RecordTells', UNCHANGED <<config, data>>,
         platform'.registered => platform.registered \/ (job.op # "create" /\ config # None),
         record'.mode = "background" => record.mode = "background" \/ (job.op # "create" /\ config # None)
  PROVE  JobInv'
<1>1. CommittedIsWhole'
  BY DEF JobInv, CommittedIsWhole
<1>2. config' = None => ~platform'.registered /\ record'.mode # "background"
  BY DEF JobInv, Unregistered
<1>3. CASE job' = Idle
  BY <1>1, <1>2, <1>3, EndKeeps
<1>4. CASE job.op = "create" /\ job' # Idle
  <2>1. /\ JobOK' /\ Same
        /\ job'.before = job.before /\ job'.target = job.target /\ job'.restoring = job.restoring
        /\ job'.cleaning /\ job'.at \in {"cancel", "stop", "rmconfig"}
    BY <1>4, FailsIs DEF JobInv
  <2>2. StepOfOp' /\ Cleaned' /\ Changed'
    BY <1>4, <2>1 DEF Same, StepOfOp, Cleaned, Changed, CreateAts, StopAts, ChangeAts, EraseAts
  <2>3. Unregistered'
    BY <1>2, <1>4, <2>1 DEF Same, JobInv, Unregistered
  <2>4. Present'
    BY <1>4, <2>1 DEF Same, JobInv, Present
  <2>. QED
    BY <1>1, <1>4, <2>1, <2>2, <2>3, <2>4 DEF JobInv, Unlinked, Same
<1>. QED
  BY <1>3, <1>4, FailsIs DEF JobInv

\* Servers, requests and Core do not disturb the operation.
LEMMA OthersKeepJob ==
  ASSUME JobInv, HostOK', UNCHANGED <<config, record, job>>,
         platform'.registered = platform.registered, core'.host = core.host,
         data # 0 => data' = data
  PROVE  JobInv'
BY DEF JobInv, JobOK, StepOfOp, Cleaned, Changed, Unregistered, Present, Unlinked, RecordTells, CommittedIsWhole

\* An operation that goes on without touching what is stored or registered.
LEMMA GoKeeps ==
  ASSUME JobInv, NEW at \in Ats, GoesOnAt(at), HostOK', UNCHANGED <<config, data, record>>,
         platform'.registered = platform.registered, job.op # None,
         core'.host = core.host \/ job.op # "delete" \/ core'.host = 0,
         job.op = "delete" /\ job.at = "prepare" => core'.host = 0,
         job.op = "create" => at \in CreateAts \cup StopAts \cup {"await"} \cup EraseAts,
         job.op = "delete" => at \in StopAts \cup EraseAts, job.op = "delete" /\ job.at \in EraseAts => at \in EraseAts,
         job.op = "configure" => at \in ConfigureAts \cup StopAts,
         job.op # "mode", at # "cancel",
         job.cleaning => at \in StopAts \cup EraseAts \cup {"cancel", "await"},
         job.restoring => job.cleaning \/ job.op = "configure",
         job.op = "delete" /\ at \in EraseAts => ~platform.registered /\ record.mode # "background",
         at \in {"enroll", "bootstrap", "online", "code", "config"} => data # 0,
         job.op = "create" /\ at \in StopAts \cup {"await"} /\ ~job.cleaning => data # 0
  PROVE  JobInv'
<1>1. /\ JobOK' /\ Same /\ job'.at = at /\ job'.before = job.before /\ job'.target = job.target
      /\ job'.cleaning = job.cleaning /\ job'.restoring = job.restoring
  BY DEF GoesOnAt
<1>2. job.op \in {"create", "delete", "configure"}
  BY DEF JobInv, JobOK, JobType
<1>3. StepOfOp' /\ Cleaned'
  BY <1>1, <1>2 DEF JobInv, Same, StepOfOp, Cleaned, CreateAts, StopAts, EraseAts, ConfigureAts, ChangeAts
<1>4. Changed'
  BY <1>1, <1>2 DEF Changed, CreateAts, StopAts, EraseAts, ConfigureAts, ChangeAts
<1>5. Unregistered'
  BY <1>1, <1>2 DEF JobInv, Same, Unregistered
<1>6. Present'
  <2>1. \/ job.op = "configure" \/ (job.op = "delete" /\ at \notin EraseAts) => config # None
    BY <1>2 DEF JobInv, Present, StepOfOp, Unregistered, EraseAts, StopAts
  <2>. QED
    BY <1>1, <1>2, <2>1 DEF JobInv, Same, Present
<1>7. Unlinked'
  BY <1>1, <1>2 DEF JobInv, Same, Unlinked
<1>8. RecordTells' /\ CommittedIsWhole'
  BY DEF JobInv, RecordTells, CommittedIsWhole
<1>. QED
  BY <1>1, <1>3, <1>4, <1>5, <1>6, <1>7, <1>8 DEF JobInv

\* The host starts with nothing under way.
LEMMA InitJob == Init => JobInv
<1> SUFFICES ASSUME Init PROVE JobInv
  OBVIOUS
<1>1. HostOK /\ RecordTells /\ CommittedIsWhole /\ (config = None => ~platform.registered /\ record.mode # "background")
  <2>1. CASE NoHost
    <3>1. record \in RecordType /\ record.mode = "disabled"
      BY <2>1 DEF NoHost, DefaultRecord, RecordType, Modes
    <3>2. platform \in [registered : BOOLEAN, restart : BOOLEAN] /\ platform.registered = FALSE
      BY <2>1 DEF NoHost
    <3>3. core \in [kind : {None, "pending", "approved", "online"}, host : 0..MaxHosts, uses : {"local", "settings", "keys"}]
      BY <2>1, BoundsAreNumbers DEF NoHost, NoLink
    <3>4. config = None /\ data = 0 /\ approved = {} /\ hosts = 0
      BY <2>1 DEF NoHost
    <3>5. HostOK
      BY <3>1, <3>2, <3>3, <3>4, BoundsAreNumbers DEF HostOK
    <3>. QED
      BY <3>1, <3>2, <3>4, <3>5 DEF RecordTells, CommittedIsWhole
  <2>2. ASSUME NEW mode \in {"on-demand", "background"}, NEW uses \in {"local", "settings", "keys"}, AHost(mode, uses)
        PROVE  HostOK /\ RecordTells /\ CommittedIsWhole /\ config # None
    <3>1. PICK registered \in BOOLEAN : registered = (mode = "background")
      OBVIOUS
    <3>2. /\ platform = [registered |-> registered, restart |-> FALSE]
          /\ record = [mode |-> mode, desired |-> mode, phase |-> "stable", failure |-> FALSE]
      BY <2>2, <3>1, Zenon DEF AHost
    <3>3. platform \in [registered : BOOLEAN, restart : BOOLEAN] /\ record \in RecordType
      BY <3>2 DEF RecordType, Modes
    <3>4. /\ config = CHOOSE origin \in Origins : TRUE
          /\ data = 1 /\ approved = {1} /\ hosts = 1 /\ core = [kind |-> "online", host |-> 1, uses |-> uses]
      BY <2>2, Zenon DEF AHost
    <3>5. config \in Origins /\ config # None
      BY <3>4, OriginsAreNamed
    <3>6. HostOK
      BY <3>3, <3>4, <3>5, BoundsAreNumbers DEF HostOK
    <3>7. RecordTells /\ CommittedIsWhole
      BY <3>1, <3>2, <3>4, <3>5 DEF RecordTells, CommittedIsWhole
    <3>. QED
      BY <3>5, <3>6, <3>7
  <2>. QED
    BY <2>1, <2>2 DEF Init, NoHost, DefaultRecord
<1>2. job = Idle
  BY DEF Init
<1>. QED
  BY <1>1, <1>2, IdleIs
  DEF JobInv, JobOK, StepOfOp, Cleaned, Changed, Unregistered, Present, Unlinked, ChangeAts, None, StopAts, CreateAts

\* What the servers and Core do meanwhile.
LEMMA OthersKeepJobInv ==
  ASSUME JobInv, \/ \E p \in Servers : ServerStep(p) \/ RequestArrives(p) \/ Crashes(p) \/ Interrupted(p)
                 \/ Restarts \/ Serves \/ CoreStep \/ UNCHANGED vars
  PROVE  JobInv'
<1> USE DEF diskVars, serverVars, countVars
<1>0. ASSUME UNCHANGED <<diskVars, platform, job, hosts>>, \/ UNCHANGED core
                                                          \/ core' = [core EXCEPT !.kind = "approved"]
                                                          \/ core' = [core EXCEPT !.kind = "online"]
      PROVE  JobInv'
  BY <1>0, OthersKeepJob DEF JobInv, HostOK
<1>1. ASSUME UNCHANGED <<diskVars, core, job, hosts>>, \/ platform' = [platform EXCEPT !.restart = TRUE]
                                                       \/ platform' = [platform EXCEPT !.restart = FALSE]
      PROVE  JobInv'
  BY <1>1, OthersKeepJob DEF JobInv, HostOK
<1>2. ASSUME NEW p \in Servers, Opens(p) PROVE JobInv'
  <2>1. HostOK'
    BY <1>2, BoundsAreNumbers DEF JobInv, HostOK, Opens
  <2>. QED
    BY <1>2, <2>1, OthersKeepJob DEF Opens
<1>3. ASSUME NEW p \in Servers, ServerStep(p) \/ RequestArrives(p) \/ Crashes(p) \/ Interrupted(p)
      PROVE  JobInv'
  <2>1. CASE Leaves(p)
    BY <1>0, <1>1, <2>1 DEF Leaves
  <2>2. CASE WritesControl(p) \/ RequestEnds(p) \/ Closes(p) \/ Exits(p) \/ MissesData(p) \/ RequestArrives(p) \/ Crashes(p)
             \/ Interrupted(p)
    BY <1>0, <2>2 DEF WritesControl, RequestEnds, Closes, Exits, MissesData, RequestArrives, Crashes, Interrupted
  <2>. QED
    BY <1>2, <1>3, <2>1, <2>2 DEF ServerStep
<1>4. CASE Restarts \/ Serves \/ CoreStep \/ UNCHANGED vars
  BY <1>0, <1>1, <1>4 DEF Restarts, Serves, CoreStep, Collects, Downloads, vars
<1>. QED
  BY <1>3, <1>4

\* How the operations begin.
LEMMA BeginningsKeepJobInv ==
  ASSUME JobInv, \/ \E origin \in Origins : Create(origin) \/ Configure(origin)
                 \/ \E mode \in Modes : SetMode(mode)
                 \/ Delete
  PROVE  JobInv'
<1>1. /\ job.op = None /\ UNCHANGED <<config, data, approved, record, platform, core, hosts>>
      /\ UNCHANGED <<server, control>>
  BY DEF Create, Configure, SetMode, Delete, Starts, diskVars, serverVars
<1>2. HostOK' /\ RecordTells' /\ CommittedIsWhole'
  BY <1>1 DEF JobInv, HostOK, RecordTells, CommittedIsWhole
<1>. DEFINE Begins(op, ats) ==
       /\ job' \in JobType /\ job'.op = op /\ job'.at \in ats /\ job'.before = None
       /\ job'.cleaning = FALSE /\ job'.restoring = FALSE
<1> USE DEF Ats, CreateAts, StopAts, ChangeAts, EraseAts, ConfigureAts, Modes
<1>3. ASSUME NEW origin \in Origins, Create(origin) PROVE JobInv'
  <2>1. job' = [Idle EXCEPT !.op = "create", !.at = "core", !.want = origin] /\ config = None
    BY <1>3 DEF Create, Starts
  <2>2. Begins("create", {"core"}) /\ job'.want = origin /\ job'.target = None
    BY <2>1 DEF Idle, JobType
  <2>. QED
    BY <1>1, <1>2, <2>1, <2>2, OriginsAreNamed DEF JobInv, JobOK, StepOfOp, Cleaned, Changed, Unregistered, Present, Unlinked, None
<1>4. ASSUME Delete PROVE JobInv'
  <2>1. job' = [Idle EXCEPT !.op = "delete", !.at = "prepare"] /\ Created
    BY <1>4 DEF Delete, Starts
  <2>2. Begins("delete", {"prepare"})
    BY <2>1 DEF Idle, JobType
  <2>. QED
    BY <1>1, <1>2, <2>1, <2>2 DEF JobInv, JobOK, StepOfOp, Cleaned, Changed, Unregistered, Present, Unlinked, None, Created
<1>5. ASSUME NEW mode \in Modes, SetMode(mode) PROVE JobInv'
  <2>1. job' = [Idle EXCEPT !.op = "mode", !.at = "mode", !.target = mode] /\ Created
    BY <1>5 DEF SetMode, Starts
  <2>2. Begins("mode", {"mode"}) /\ job'.target = mode
    BY <2>1 DEF Idle, JobType
  <2>. QED
    BY <1>1, <1>2, <2>1, <2>2 DEF JobInv, JobOK, StepOfOp, Cleaned, Changed, Unregistered, Present, Unlinked, None, Created
<1>6. ASSUME NEW origin \in Origins, Configure(origin) PROVE JobInv'
  <2>1. PICK started \in BOOLEAN : started = ServiceRuns
    BY DEF ServiceRuns
  <2>2. PICK at \in {"stop", "write"} : at = IF started THEN "stop" ELSE "write"
    OBVIOUS
  <2>3. job' = [Idle EXCEPT !.op = "configure", !.at = IF ServiceRuns THEN "stop" ELSE "write",
                         !.want = origin, !.old = config, !.started = ServiceRuns] /\ Created
    BY <1>6, Zenon DEF Configure, Starts
  <2>4. job' = [Idle EXCEPT !.op = "configure", !.at = at, !.want = origin, !.old = config, !.started = started]
    BY <2>1, <2>2, <2>3, Zenon
  <2>5. config \in Origins
    BY <2>3, <1>2 DEF Created, JobInv, HostOK
  <2>6. Begins("configure", {"stop", "write"}) /\ job'.want = origin /\ job'.old = config
    BY <2>4, <2>5 DEF Idle, JobType
  <2>. QED
    BY <1>1, <1>2, <2>3, <2>6, OriginsAreNamed DEF JobInv, JobOK, StepOfOp, Cleaned, Changed, Unregistered, Present, Unlinked, None, Created
<1>. QED
  BY <1>3, <1>4, <1>5, <1>6

-----------------------------------------------------------------------------
(* Step by step.                                                           *)

\* The steps of a create, but for the stop and the change of mode.
LEMMA CreateKeepsJobInv ==
  ASSUME JobInv, \/ EnsuresCore \/ Spawns \/ IsReady \/ Enrolls \/ Bootstraps \/ IsOnline \/ ReadsSetupCode
                 \/ WritesConfig \/ Cancels \/ Awaits
  PROVE  JobInv'
<1> USE DEF At, Here, diskVars, serverVars, countVars
<1>1. StepOfOp /\ Cleaned /\ Present /\ JobOK /\ HostOK
  BY DEF JobInv
<1>2. job.at \in {"core", "spawn", "ready", "enroll", "bootstrap", "online", "code", "config", "cancel", "await"}
  BY DEF EnsuresCore, Spawns, IsReady, Enrolls, Bootstraps, IsOnline, ReadsSetupCode, WritesConfig, Cancels, Awaits
<1>3. job.op = "create"
  BY <1>1, <1>2 DEF StepOfOp, ConfigureAts, StopAts, ChangeAts, EraseAts, JobOK, JobType, None
<1>4. job.cleaning => job.at \in {"cancel", "await"}
  BY <1>1, <1>2 DEF Cleaned, StopAts, EraseAts
<1>5. job.restoring => job.cleaning
  BY <1>1, <1>2, <1>3 DEF Cleaned, ChangeAts
<1>6. ASSUME HostOK', UNCHANGED <<config, data, record, platform>>, Fails PROVE JobInv'
  BY <1>6, FailKeeps DEF JobInv, RecordTells
<1>7. ASSUME HostOK', UNCHANGED <<config, data, record, platform>>,
             NEW at \in {"spawn", "ready", "enroll", "bootstrap", "online", "code", "stop", "config", "rmconfig"},
             GoesOnAt(at),
             job.cleaning => at \in {"stop", "rmconfig"},
             at \notin {"spawn", "ready", "rmconfig"} /\ ~job.cleaning => data # 0
      PROVE  JobInv'
  BY <1>3, <1>5, <1>7, GoKeeps DEF Ats, CreateAts, StopAts, EraseAts, None
<1>8. \A at \in {"spawn", "enroll", "online", "stop", "config", "rmconfig"} : Goes(at) => GoesOnAt(at)
  BY <1>1, GoesIs DEF Ats, CreateAts, StopAts, EraseAts
<1>9. CASE EnsuresCore
  <2>1. HostOK'
    BY <1>1, <1>9 DEF EnsuresCore, HostOK
  <2>. QED
    BY <1>4, <1>6, <1>7, <1>8, <1>9, <2>1 DEF EnsuresCore
<1>10. CASE Spawns
  <2>1. HostOK'
    BY <1>1, <1>10 DEF Spawns, HostOK
  <2>2. PICK child \in Servers : job' = [job EXCEPT !.at = "ready", !.child = child, !.started = TRUE]
    BY <1>10, NewServerIsFresh DEF Spawns
  <2>3. GoesOnAt("ready")
    BY <1>1, <2>2 DEF GoesOnAt, Same, JobOK, JobType, Ats, CreateAts
  <2>. QED
    BY <1>4, <1>7, <1>10, <2>1, <2>3 DEF Spawns
<1>11. CASE IsReady
  <2>1. HostOK'
    BY <1>1, <1>11 DEF IsReady, HostOK
  <2>. QED
    BY <1>4, <1>6, <1>7, <1>8, <1>11, <2>1 DEF IsReady
<1>12. CASE Enrolls
  <2>1. core' = core \/ core' = [NoLink EXCEPT !.kind = "pending", !.host = data]
    BY <1>12 DEF Enrolls
  <2>2. HostOK'
    BY <1>1, <1>12, <2>1 DEF Enrolls, HostOK, NoLink
  <2>3. ASSUME job' = [job EXCEPT !.at = "bootstrap", !.enrolled = TRUE] PROVE GoesOnAt("bootstrap")
    BY <1>1, <2>3 DEF GoesOnAt, Same, JobOK, JobType, Ats, CreateAts
  <2>4. Fails \/ (job' = [job EXCEPT !.at = "bootstrap", !.enrolled = TRUE] /\ data # 0)
    BY <1>12 DEF Enrolls, Healthy
  <2>5. Fails \/ (GoesOnAt("bootstrap") /\ data # 0)
    BY <2>3, <2>4
  <2>6. UNCHANGED <<config, data, record, platform>> /\ ~job.cleaning
    BY <1>4, <1>12 DEF Enrolls
  <2>. QED
    BY <1>6, <1>7, <2>2, <2>5, <2>6
<1>13. CASE Bootstraps
  <2>2. approved' = approved \/ (data # 0 /\ approved' = approved \cup {data})
    BY <1>13 DEF Bootstraps
  <2>3. data # 0 => data \in 1..MaxHosts
    BY <1>1, BoundsAreNumbers DEF HostOK
  <2>4. approved' \subseteq 1..MaxHosts
    BY <1>1, <2>2, <2>3 DEF HostOK
  <2>5. UNCHANGED <<config, data, record, platform, core, hosts>>
    BY <1>13 DEF Bootstraps
  <2>1. HostOK'
    BY <1>1, <2>4, <2>5 DEF HostOK
  <2>. QED
    BY <1>4, <1>6, <1>7, <1>8, <1>13, <2>1 DEF Bootstraps
<1>14. CASE IsOnline
  <2>1. HostOK'
    BY <1>1, <1>14 DEF IsOnline, HostOK
  <2>2. job' = [job EXCEPT !.at = "code", !.enrolled = FALSE]
    BY <1>14 DEF IsOnline
  <2>3. GoesOnAt("code")
    BY <1>1, <2>2 DEF GoesOnAt, Same, JobOK, JobType, Ats, CreateAts
  <2>4. data # 0
    BY <1>1, <1>14 DEF IsOnline, Present
  <2>. QED
    BY <1>4, <1>7, <1>14, <2>1, <2>3, <2>4 DEF IsOnline
<1>15. CASE ReadsSetupCode
  <2>1. HostOK'
    BY <1>1, <1>15 DEF ReadsSetupCode, HostOK
  <2>2. UNCHANGED <<config, data, record, platform>> /\ ~job.cleaning
    BY <1>4, <1>15 DEF ReadsSetupCode
  <2>3. Fails \/ (GoesOnAt("stop") /\ data # 0)
    BY <1>8, <1>15 DEF ReadsSetupCode
  <2>. QED
    BY <1>6, <1>7, <2>1, <2>2, <2>3
<1>16. CASE Cancels
  <2>1. HostOK'
    BY <1>1, <1>16, BoundsAreNumbers DEF Cancels, HostOK, NoLink
  <2>2. job.cleaning
    BY <1>1, <1>16 DEF Cleaned, Cancels
  <2>. QED
    BY <1>4, <1>7, <1>8, <1>16, <2>1, <2>2 DEF Cancels
<1>17. CASE Awaits
  <2>1. HostOK'
    BY <1>1, <1>17 DEF Awaits, HostOK
  <2>2. ~job.cleaning => data # 0
    BY <1>1, <1>3, <1>17 DEF Awaits, Present
  <2>. QED
    BY <1>6, <1>7, <1>8, <1>17, <2>1, <2>2 DEF Awaits
<1>18. CASE WritesConfig
  <2>1. ~job.cleaning /\ ~job.restoring /\ data # 0 /\ job.want \in Origins
    BY <1>1, <1>3, <1>4, <1>5, <1>18 DEF WritesConfig, Present, JobOK, JobType
  <2>2. ASSUME config' = job.want, ToMode("on-demand"), UNCHANGED <<data, approved, record, platform, core, hosts>>
        PROVE  JobInv'
    <3>1. /\ JobOK' /\ Same /\ job'.at = "mode" /\ job'.target = "on-demand"
          /\ job'.before = job.before /\ ~job'.cleaning /\ ~job'.restoring
      BY <1>1, <2>1, <2>2, ToModeIs DEF Modes
    <3>2. HostOK' /\ RecordTells' /\ CommittedIsWhole' /\ config' # None
      BY <1>1, <2>1, <2>2, OriginsAreNamed DEF JobInv, HostOK, RecordTells, CommittedIsWhole
    <3>3. StepOfOp' /\ Cleaned' /\ Changed'
      BY <1>3, <3>1 DEF Same, StepOfOp, Cleaned, Changed, ChangeAts, None
    <3>4. Unregistered' /\ Present' /\ Unlinked'
      BY <1>3, <2>2, <3>1, <3>2 DEF JobInv, Same, Unregistered, Present, Unlinked, StopAts
    <3>. QED
      BY <3>1, <3>2, <3>3, <3>4 DEF JobInv
  <2>3. HostOK' \/ ~Fails \/ config' # config
    BY <1>1, <1>18 DEF WritesConfig, HostOK
  <2>. QED
    BY <1>6, <1>18, <2>2, <2>3 DEF WritesConfig
<1>. QED
  BY <1>9, <1>10, <1>11, <1>12, <1>13, <1>14, <1>15, <1>16, <1>17, <1>18

\* The stop of the server, by whatever operation.
LEMMA StopKeepsJobInv ==
  ASSUME JobInv, Stops \/ HasExited
  PROVE  JobInv'
<1> USE DEF At, Here, diskVars, serverVars, countVars
<1>1. StepOfOp /\ Cleaned /\ Present /\ JobOK /\ HostOK
  BY DEF JobInv
<1>2. job.at \in StopAts /\ UNCHANGED <<config, data, approved, record, platform, core, hosts>>
  BY DEF Stops, HasExited, StopAts
<1>3. job.op \in {"create", "delete", "configure"}
  BY <1>1, <1>2 DEF StepOfOp, StopAts, ChangeAts, JobOK, JobType, None
<1>4. HostOK' /\ RecordTells' /\ CommittedIsWhole'
  BY <1>2 DEF JobInv, HostOK, RecordTells, CommittedIsWhole
<1>5. ASSUME Fails PROVE JobInv'
  BY <1>2, <1>4, <1>5, FailKeeps
<1>6. ASSUME Goes("exit") PROVE JobInv'
  <2>1. GoesOnAt("exit")
    BY <1>1, <1>6, GoesIs DEF Ats, StopAts
  <2>2. job.restoring => job.cleaning \/ job.op = "configure"
    BY <1>1, <1>2 DEF Cleaned, StopAts, ChangeAts
  <2>3. job.op = "create" /\ ~job.cleaning => data # 0
    BY <1>1, <1>2 DEF Present
  <2>. QED
    BY <1>2, <1>3, <1>4, <2>1, <2>2, <2>3, GoKeeps DEF Ats, StopAts, CreateAts, EraseAts, ConfigureAts, None
<1>7. ASSUME Stopped PROVE JobInv'
  <2>1. CASE job.op = "create"
    <3>1. GoesOnAt("await")
      BY <1>1, <1>7, <2>1, GoesIs DEF Ats, Stopped
    <3>2. job.restoring => job.cleaning
      BY <1>1, <1>2, <2>1 DEF Cleaned, StopAts, ChangeAts
    <3>3. ~job.cleaning => data # 0
      BY <1>1, <1>2, <2>1 DEF Present
    <3>. QED
      BY <1>2, <1>4, <2>1, <3>1, <3>2, <3>3, GoKeeps DEF Ats, StopAts, CreateAts, EraseAts, ConfigureAts, None
  <2>2. CASE job.op = "configure"
    <3>1. GoesOnAt("write")
      BY <1>1, <1>7, <2>2, GoesIs DEF Ats, Stopped, ConfigureAts
    <3>2. ~job.cleaning
      BY <1>1, <2>2 DEF Cleaned
    <3>. QED
      BY <1>2, <1>4, <2>2, <3>1, <3>2, GoKeeps DEF Ats, StopAts, CreateAts, EraseAts, ConfigureAts, None
  <2>3. CASE job.op = "delete"
    <3>1. ~job.cleaning /\ ~job.restoring
      BY <1>1, <1>2, <2>3 DEF Cleaned, StopAts, ChangeAts
    <3>2. ToMode("disabled")
      BY <1>7, <2>3 DEF Stopped
    <3>3. /\ JobOK' /\ Same /\ job'.at = "mode" /\ job'.target = "disabled"
          /\ job'.before = job.before /\ ~job'.cleaning /\ ~job'.restoring
      BY <1>1, <3>1, <3>2, ToModeIs DEF Modes
    <3>4. config' # None
      BY <1>1, <1>2, <2>3 DEF Present, StopAts, EraseAts
    <3>5. StepOfOp' /\ Cleaned' /\ Changed'
      BY <2>3, <3>3 DEF Same, StepOfOp, Cleaned, Changed, ChangeAts, None
    <3>6. Unregistered' /\ Present'
      BY <2>3, <3>3, <3>4 DEF Same, Unregistered, Present, StopAts, EraseAts
    <3>7. Unlinked'
      BY <1>2, <2>3 DEF JobInv, Unlinked, StopAts
    <3>. QED
      BY <1>4, <3>3, <3>5, <3>6, <3>7 DEF JobInv
  <2>. QED
    BY <1>3, <2>1, <2>2, <2>3
<1>8. CASE HasExited
  BY <1>7, <1>8 DEF HasExited
<1>9. CASE Stops
  <2>1. Fails \/ Goes("exit") \/ Stopped \/ Unowned
    BY <1>9 DEF Stops
  <2>2. Unowned => Fails \/ Stopped
    BY <1>3 DEF Unowned, Stopped
  <2>. QED
    BY <1>5, <1>6, <1>7, <2>1, <2>2
<1>. QED
  BY <1>8, <1>9

\* The rest of a delete: first Core, last the files.
LEMMA DeleteKeepsJobInv ==
  ASSUME JobInv, Prepares \/ Erases
  PROVE  JobInv'
<1> USE DEF At, Here, diskVars, serverVars, countVars
<1>1. StepOfOp /\ Cleaned /\ Present /\ JobOK /\ HostOK
  BY DEF JobInv
<1>2. CASE Prepares
  <2>1. job.op = "delete" /\ job.at = "prepare" /\ ~job.cleaning /\ ~job.restoring
    BY <1>1, <1>2 DEF Prepares, StepOfOp, Cleaned, CreateAts, StopAts, ChangeAts, EraseAts, ConfigureAts, JobOK, JobType, None
  <2>2. UNCHANGED <<config, data, approved, record, platform, hosts>> /\ core' \in {core, NoLink}
    BY <1>2 DEF Prepares, Unprepared
  <2>3. HostOK' /\ RecordTells'
    BY <1>1, <2>2, BoundsAreNumbers DEF JobInv, HostOK, RecordTells, NoLink
  <2>4. Fails \/ (Goes("stop") /\ core' = NoLink)
    BY <1>2 DEF Prepares, Unprepared
  <2>5. ASSUME Goes("stop"), core' = NoLink PROVE JobInv'
    <3>1. GoesOnAt("stop")
      BY <1>1, <2>5, GoesIs DEF Ats, StopAts
    <3>2. core'.host = 0
      BY <2>5 DEF NoLink
    <3>. QED
      BY <2>1, <2>2, <2>3, <3>1, <3>2, GoKeeps DEF Ats, StopAts, CreateAts, EraseAts, ConfigureAts, None
  <2>. QED
    BY <2>2, <2>3, <2>4, <2>5, FailKeeps
<1>3. CASE Erases
  <2>1. job.op \in {"create", "delete"} /\ job.at \in EraseAts
    BY <1>1, <1>3 DEF Erases, RemovesConfig, StepOfOp, CreateAts, StopAts, ChangeAts, EraseAts, ConfigureAts, JobOK, JobType, None
  <2>2. ~platform.registered /\ record.mode # "background"
    BY <2>1 DEF JobInv, Unregistered
  <2>3. UNCHANGED <<approved, record, platform, core, hosts>> /\ config' \in {config, None} /\ data' \in {data, 0}
    BY <1>3 DEF Erases, RemovesConfig
  <2>4. data' = 0 /\ data # 0 => config' = None
    BY <1>3, <2>3 DEF Erases, RemovesConfig
  <2>8. HostOK'
    BY <1>1, <2>3, BoundsAreNumbers DEF HostOK
  <2>9. CommittedIsWhole'
    BY <2>2, <2>3, <2>4 DEF JobInv, CommittedIsWhole
  <2>5. HostOK' /\ RecordTells' /\ CommittedIsWhole'
    BY <2>3, <2>8, <2>9 DEF JobInv, RecordTells
  <2>6. job' = Idle \/ (Goes("rmdata") /\ data' = data)
    BY <1>3 DEF Erases, RemovesConfig, End
  <2>7. ASSUME Goes("rmdata"), data' = data PROVE JobInv'
    <3>1. GoesOnAt("rmdata")
      BY <1>1, <2>7, GoesIs DEF Ats, EraseAts
    <3>. DEFINE at == "rmdata"
    <3>2. job'.op = job.op /\ job'.at = "rmdata" /\ job'.cleaning = job.cleaning /\ job'.restoring = job.restoring /\ JobOK'
          /\ job'.target = job.target /\ job'.before = job.before /\ job'.want = job.want
      BY <3>1 DEF GoesOnAt, Same
    <3>3. StepOfOp' /\ Changed' /\ Unregistered' /\ Present'
      BY <2>1, <2>2, <2>3, <3>2 DEF JobInv, StepOfOp, Changed, Unregistered, Present, EraseAts, ChangeAts, StopAts, CreateAts, None
    <3>4. Cleaned' /\ Unlinked'
      BY <1>1, <2>1, <2>3, <3>2 DEF JobInv, Cleaned, Unlinked, EraseAts, ChangeAts, StopAts
    <3>. QED
      BY <2>5, <3>2, <3>3, <3>4 DEF JobInv
  <2>. QED
    BY <2>2, <2>3, <2>5, <2>6, <2>7, EndKeeps
<1>. QED
  BY <1>2, <1>3

\* A change of mode that goes on.
LEMMA ChangeKeeps ==
  ASSUME JobInv, job.at \in ChangeAts, NEW at \in ChangeAts, GoesOnAt(at), HostOK', UNCHANGED <<config, data, record, core>>,
         platform'.registered => platform.registered \/ job.target = "background",
         at = "health" => job.target = "background" /\ platform'.registered,
         at = "applied" => platform'.registered = (job.target = "background")
  PROVE  JobInv'
<1>1. /\ JobOK' /\ Same /\ job'.at = at /\ job'.before = job.before /\ job'.target = job.target
      /\ job'.cleaning = job.cleaning /\ job'.restoring = job.restoring
  BY DEF GoesOnAt
<1>2. job.op \in {"create", "delete", "mode"}
  BY DEF JobInv, StepOfOp, ChangeAts, ConfigureAts, StopAts, None, JobOK, JobType
<1>3. job.op # "create" => config # None
  BY <1>2 DEF JobInv, Present, ChangeAts, EraseAts
<1>4. platform'.registered => job.op # "create" /\ config # None
  BY <1>3 DEF JobInv, Unregistered
<1>5. StepOfOp' /\ Cleaned'
  <2>1. ~job.cleaning
    BY DEF JobInv, Cleaned, ChangeAts, StopAts, EraseAts
  <2>2. at # "cancel"
    BY DEF ChangeAts
  <2>3. StepOfOp'
    BY <1>1, <1>2 DEF Same, StepOfOp, None
  <2>. QED
    BY <1>1, <2>1, <2>2, <2>3 DEF Cleaned
<1>6. Changed'
  <2>1. job'.target # None /\ record'.phase = "applying" /\ (job'.restoring => job'.target = job'.before)
    BY <1>1 DEF JobInv, Changed
  <2>2. job'.op = "delete" /\ ~job'.restoring => job'.target = "disabled"
    BY <1>1 DEF JobInv, Same, Changed
  <2>3. job'.at \in ChangeAts /\ (job'.at = "health" => job'.target = "background" /\ platform'.registered)
    BY <1>1
  <2>4. job'.at = "applied" => platform'.registered = (job'.target = "background")
    BY <1>1
  <2>. QED
    BY <2>1, <2>2, <2>3, <2>4, Zenon DEF Changed
<1>7. Unregistered' /\ Present' /\ Unlinked'
  BY <1>1, <1>2, <1>3, <1>4 DEF JobInv, Same, Unregistered, Present, Unlinked, ChangeAts, StopAts, EraseAts
<1>8. RecordTells' /\ CommittedIsWhole'
  BY <1>4 DEF JobInv, RecordTells, CommittedIsWhole, Changed
<1>. QED
  BY <1>1, <1>5, <1>6, <1>7, <1>8 DEF JobInv

\* A change of mode that is undone, or given up.
LEMMA UndoKeeps ==
  ASSUME JobInv, job.at \in ChangeAts, Undoes, UNCHANGED <<config, data, approved, core, hosts>>,
         platform' \in [registered : BOOLEAN, restart : BOOLEAN],
         platform'.registered => platform.registered \/ job.target = "background"
  PROVE  JobInv'
<1>2. job.op \in {"create", "delete", "mode"}
  BY DEF JobInv, StepOfOp, ChangeAts, ConfigureAts, StopAts, None, JobOK, JobType
<1>3. job.op # "create" => config # None
  BY <1>2 DEF JobInv, Present, ChangeAts, EraseAts
<1>4. platform'.registered => job.op # "create" /\ config # None
  BY <1>3 DEF JobInv, Unregistered
<1>5. CASE job.restoring \/ job.before = None
  <2>1. record' = [record EXCEPT !.mode = None, !.phase = "failed", !.failure = TRUE] /\ Fails
    BY <1>5 DEF Undoes
  <2>2. record' \in RecordType /\ record'.mode = None
    BY <2>1 DEF JobInv, HostOK, RecordType
  <2>3. HostOK' /\ RecordTells'
    BY <2>2 DEF JobInv, HostOK, RecordTells
  <2>. QED
    BY <1>4, <2>1, <2>2, <2>3, FailKeeps DEF None
<1>6. CASE ~(job.restoring \/ job.before = None)
  <2>1. job' = [job EXCEPT !.at = "apply", !.target = job.before, !.restoring = TRUE] /\ UNCHANGED record
    BY <1>6 DEF Undoes
  <2>2. /\ JobOK' /\ Same /\ job'.at = "apply" /\ job'.target = job.before /\ job'.before = job.before
        /\ job'.cleaning = job.cleaning /\ job'.restoring
    BY <2>1 DEF JobInv, JobOK, JobType, Same, Ats, ChangeAts
  <2>3. HostOK'
    BY <2>1 DEF JobInv, HostOK
  <2>4. StepOfOp' /\ Cleaned'
    <3>1. ~job.cleaning
      BY DEF JobInv, Cleaned, ChangeAts, StopAts, EraseAts
    <3>2. job'.at \in ChangeAts /\ job'.at # "cancel"
      BY <2>2 DEF ChangeAts
    <3>3. StepOfOp'
      BY <1>2, <2>2, <3>2 DEF Same, StepOfOp, None
    <3>. QED
      BY <2>2, <3>1, <3>2, <3>3 DEF Cleaned
  <2>5. Changed'
    <3>1. job'.target # None /\ record'.phase = "applying" /\ (job'.restoring => job'.target = job'.before)
      BY <1>6, <2>1, <2>2 DEF JobInv, Changed
    <3>2. job'.at # "health" /\ job'.at # "applied"
      BY <2>2
    <3>. QED
      BY <2>2, <3>1, <3>2, Zenon DEF Changed
  <2>6. Unregistered' /\ Present' /\ Unlinked'
    BY <1>2, <1>3, <1>4, <2>1, <2>2 DEF JobInv, Same, Unregistered, Present, Unlinked, ChangeAts, StopAts, EraseAts
  <2>7. RecordTells' /\ CommittedIsWhole'
    BY <1>4, <2>1 DEF JobInv, RecordTells, CommittedIsWhole, Changed
  <2>. QED
    BY <2>2, <2>3, <2>4, <2>5, <2>6, <2>7 DEF JobInv
<1>. QED
  BY <1>5, <1>6

\* The steps of the service manager.
LEMMA ManagerKeepsJobInv ==
  ASSUME JobInv, Applies \/ HasHalted \/ IsHealthy \/ CommandFails
  PROVE  JobInv'
<1> USE DEF At, Here, diskVars, serverVars, countVars
<1>1. JobOK /\ HostOK /\ Changed
  BY DEF JobInv
<1>2. \A at \in ChangeAts : Goes(at) => GoesOnAt(at)
  BY <1>1, GoesIs DEF Ats
<1>3. CASE Applies
  <2>1. /\ job.at = "apply" /\ UNCHANGED <<config, data, approved, core, hosts>>
        /\ \/ /\ job.target = "background" /\ ~platform.registered /\ platform' = [platform EXCEPT !.registered = TRUE]
              /\ UNCHANGED <<job, record>>
           \/ /\ job.target = "background" /\ platform.registered /\ Goes("health") /\ UNCHANGED record
              /\ platform' = platform \/ platform' = [platform EXCEPT !.restart = FALSE]
           \/ Undoes /\ UNCHANGED platform
           \/ platform' = [platform EXCEPT !.restart = FALSE] /\ Goes("halting") /\ UNCHANGED record
           \/ /\ job.target # "background" /\ platform' = [registered |-> FALSE, restart |-> FALSE]
              /\ Goes("applied") /\ UNCHANGED record
    BY <1>3 DEF Applies
  <2>2. job.at \in ChangeAts /\ platform \in [registered : BOOLEAN, restart : BOOLEAN]
    BY <1>1, <2>1 DEF ChangeAts, HostOK
  <2>3. ASSUME job.target = "background", platform' = [platform EXCEPT !.registered = TRUE], UNCHANGED <<job, record>>
        PROVE  JobInv'
    <3>1. GoesOnAt("apply")
      BY <1>1, <2>1, <2>3 DEF GoesOnAt, Same, JobOK
    <3>2. HostOK'
      BY <1>1, <2>1, <2>3 DEF HostOK
    <3>. QED
      BY <2>1, <2>2, <2>3, <3>1, <3>2, ChangeKeeps DEF ChangeAts
  <2>4. ASSUME job.target = "background", platform.registered, Goes("health"), UNCHANGED record,
               platform' = platform \/ platform' = [platform EXCEPT !.restart = FALSE]
        PROVE  JobInv'
    <3>1. GoesOnAt("health")
      BY <1>2, <2>4 DEF ChangeAts
    <3>2. HostOK' /\ platform'.registered
      BY <1>1, <2>1, <2>2, <2>4 DEF HostOK
    <3>. QED
      BY <2>1, <2>2, <2>4, <3>1, <3>2, ChangeKeeps DEF ChangeAts
  <2>5. ASSUME Undoes, UNCHANGED platform PROVE JobInv'
    BY <2>1, <2>2, <2>5, UndoKeeps
  <2>6. ASSUME platform' = [platform EXCEPT !.restart = FALSE], Goes("halting"), UNCHANGED record
        PROVE  JobInv'
    <3>1. GoesOnAt("halting")
      BY <1>2, <2>6 DEF ChangeAts
    <3>2. HostOK' /\ platform'.registered = platform.registered
      BY <1>1, <2>1, <2>2, <2>6 DEF HostOK
    <3>. QED
      BY <2>1, <2>2, <2>6, <3>1, <3>2, ChangeKeeps DEF ChangeAts
  <2>7. ASSUME job.target # "background", platform' = [registered |-> FALSE, restart |-> FALSE],
               Goes("applied"), UNCHANGED record
        PROVE  JobInv'
    <3>1. GoesOnAt("applied")
      BY <1>2, <2>7 DEF ChangeAts
    <3>2. HostOK' /\ platform'.registered = FALSE
      BY <1>1, <2>1, <2>2, <2>7 DEF HostOK
    <3>3. platform'.registered = (job.target = "background")
      BY <2>7, <3>2
    <3>. QED
      BY <2>1, <2>2, <2>7, <3>1, <3>2, <3>3, ChangeKeeps DEF ChangeAts
  <2>. QED
    BY <2>1, <2>3, <2>4, <2>5, <2>6, <2>7
<1>4. CASE HasHalted
  <2>1. job.at \in ChangeAts /\ Goes("apply") /\ UNCHANGED <<config, data, approved, record, core, hosts, platform>>
    BY <1>4 DEF HasHalted, ChangeAts
  <2>2. HostOK' /\ GoesOnAt("apply")
    BY <1>1, <1>2, <2>1 DEF HostOK, ChangeAts
  <2>. QED
    BY <2>1, <2>2, ChangeKeeps DEF ChangeAts
<1>5. CASE IsHealthy
  <2>1. job.at = "health" /\ Goes("applied") /\ UNCHANGED <<config, data, approved, record, core, hosts, platform>>
    BY <1>5 DEF IsHealthy
  <2>2. HostOK' /\ GoesOnAt("applied")
    BY <1>1, <1>2, <2>1 DEF HostOK, ChangeAts
  <2>3. job.target = "background" /\ platform.registered = TRUE
    BY <1>1, <2>1 DEF Changed, HostOK
  <2>4. platform'.registered = (job.target = "background")
    BY <2>1, <2>3
  <2>. QED
    BY <2>1, <2>2, <2>3, <2>4, ChangeKeeps DEF ChangeAts
<1>6. CASE CommandFails
  <2>1. job.at \in ChangeAts /\ Undoes /\ UNCHANGED <<config, data, approved, core, hosts>>
    BY <1>6 DEF CommandFails, ChangeAts
  <2>2. PICK registered, restart \in BOOLEAN :
          /\ platform' = [registered |-> registered, restart |-> restart]
          /\ registered => platform.registered \/ job.target = "background"
    <3>1. PICK registered \in {platform.registered, job.target = "background"} :
            platform' = [registered |-> registered, restart |-> platform.restart /\ registered]
      BY <1>6, Zenon DEF CommandFails
    <3>2. PICK restart \in BOOLEAN : restart = (platform.restart /\ registered)
      OBVIOUS
    <3>3. registered \in BOOLEAN
      BY <1>1, <3>1 DEF HostOK
    <3>4. platform' = [registered |-> registered, restart |-> restart]
      BY <3>1, <3>2, Zenon
    <3>. QED
      BY <3>1, <3>3, <3>4
  <2>. QED
    BY <2>1, <2>2, UndoKeeps
<1>. QED
  BY <1>3, <1>4, <1>5, <1>6

\* A change of mode that is over, for the operation it was made for.
LEMMA ModeSetKeeps ==
  ASSUME JobInv, job.at \in {"mode"} \cup ChangeAts, ~job.restoring, ModeSet, HostOK', RecordTells',
         UNCHANGED <<config, data, platform, core>>,
         job.op = "create" => record'.mode # "background",
         job.op = "delete" => record'.mode # "background" /\ ~platform.registered
  PROVE  JobInv'
<1>1. job.op \in {"create", "delete", "mode"}
  BY DEF JobInv, StepOfOp, ChangeAts, ConfigureAts, StopAts, None, JobOK, JobType
<1>2. job.op # "create" => config # None
  BY <1>1 DEF JobInv, Present, ChangeAts, EraseAts
<1>3. CommittedIsWhole'
  BY DEF JobInv, CommittedIsWhole
<1>4. CASE job.op # "delete"
  <2>1. job' = Idle
    BY <1>4 DEF ModeSet, End
  <2>2. config' = None => ~platform'.registered /\ record'.mode # "background"
    BY <1>2 DEF JobInv, Unregistered
  <2>. QED
    BY <1>3, <2>1, <2>2, EndKeeps
<1>5. CASE job.op = "delete"
  <2>1. GoesOnAt("rmconfig")
    BY <1>5, GoesIs DEF ModeSet, JobInv, Ats, EraseAts
  <2>2. /\ JobOK' /\ job'.op = "delete" /\ job'.at = "rmconfig" /\ job'.want = job.want
        /\ job'.target = job.target /\ job'.cleaning = job.cleaning /\ job'.restoring = job.restoring
    BY <1>5, <2>1 DEF GoesOnAt, Same
  <2>3. ~job.cleaning
    BY <1>5 DEF JobInv, Cleaned
  <2>4. StepOfOp' /\ Cleaned' /\ Changed'
    BY <2>2, <2>3 DEF StepOfOp, Cleaned, Changed, ChangeAts, EraseAts, None
  <2>5. Unregistered' /\ Present'
    BY <1>5, <2>2 DEF Unregistered, Present, ChangeAts, EraseAts, StopAts
  <2>6. job.at # "prepare" /\ core.host = 0
    BY <1>5 DEF JobInv, Unlinked, ChangeAts
  <2>. QED
    BY <1>3, <2>2, <2>4, <2>5, <2>6 DEF JobInv, Unlinked
<1>. QED
  BY <1>4, <1>5

\* How a change of mode begins, and how it is recorded.
LEMMA RecordKeepsJobInv ==
  ASSUME JobInv, BeginsMode \/ Applied
  PROVE  JobInv'
<1> USE DEF At, Here, diskVars, serverVars, countVars
<1>1. JobOK /\ HostOK /\ Changed
  BY DEF JobInv
<1>2. UNCHANGED <<config, data, approved, platform, core, hosts>>
  BY DEF BeginsMode, Applied
<1>3. job.at = "mode" \/ job.at = "applied"
  BY DEF BeginsMode, Applied
<1>4. job.op \in {"create", "delete", "mode"}
  BY <1>3 DEF JobInv, StepOfOp, ChangeAts, ConfigureAts, StopAts, None, JobOK, JobType
<1>5. job.op # "create" => config # None
  BY <1>3, <1>4 DEF JobInv, Present, EraseAts
<1>6. ASSUME UNCHANGED record PROVE HostOK' /\ RecordTells'
  BY <1>1, <1>2, <1>6 DEF JobInv, HostOK, RecordTells
<1>7. job.target \in Modes
  BY <1>1, <1>3 DEF Changed, JobOK, JobType, ChangeAts
<1>8. CASE BeginsMode
  <2>1. job.at = "mode" /\ ~job.restoring /\ ~job.cleaning
    BY <1>8 DEF BeginsMode, JobInv, Cleaned, StopAts, EraseAts, ChangeAts, StepOfOp, ConfigureAts
  <2>2. ASSUME record.mode = job.target, Matches(job.target), ModeSet, UNCHANGED record
        PROVE  JobInv'
    <3>1. job.op = "create" => record'.mode # "background"
      BY <2>2 DEF JobInv, Unregistered
    <3>2. job.op = "delete" => job.target = "disabled"
      BY <1>1, <2>1 DEF Changed
    <3>3. job.op = "delete" => record'.mode # "background" /\ ~platform.registered
      BY <2>2, <3>2 DEF Matches
    <3>. QED
      BY <1>2, <1>6, <2>1, <2>2, <3>1, <3>3, ModeSetKeeps
  <2>3. ASSUME record' = [record EXCEPT !.desired = job.target, !.phase = "applying", !.failure = FALSE],
               job' = [job EXCEPT !.at = "apply", !.before = record.mode]
        PROVE  JobInv'
    <3>1. record' \in RecordType /\ record'.phase = "applying" /\ record'.mode = record.mode
      BY <1>1, <1>7, <2>3 DEF HostOK, RecordType
    <3>2. record.mode \in Modes \cup {None}
      BY <1>1 DEF HostOK, RecordType
    <3>3. JobOK'
      BY <1>1, <2>3, <3>2 DEF JobOK, JobType, Ats, ChangeAts
    <3>4. /\ job'.op = job.op /\ job'.at = "apply" /\ job'.want = job.want /\ job'.before = record.mode
          /\ job'.target = job.target /\ job'.cleaning = job.cleaning /\ job'.restoring = job.restoring
      BY <1>1, <2>3 DEF JobOK, JobType
    <3>5. HostOK' /\ RecordTells' /\ CommittedIsWhole'
      BY <1>1, <1>2, <3>1 DEF JobInv, HostOK, RecordTells, CommittedIsWhole
    <3>6. StepOfOp' /\ Cleaned'
      BY <1>4, <2>1, <3>4 DEF StepOfOp, Cleaned, ChangeAts, None
    <3>7. Changed'
      BY <1>1, <2>1, <3>1, <3>4 DEF Changed, ChangeAts
    <3>8. Unregistered' /\ Present' /\ Unlinked'
      BY <1>2, <1>4, <1>5, <2>1, <3>1, <3>4 DEF JobInv, Unregistered, Present, Unlinked, EraseAts, StopAts
    <3>. QED
      BY <3>3, <3>5, <3>6, <3>7, <3>8 DEF JobInv
  <2>4. ASSUME Fails, UNCHANGED record PROVE JobInv'
    BY <1>2, <1>6, <2>4, FailKeeps
  <2>. QED
    BY <1>8, <2>2, <2>3, <2>4 DEF BeginsMode
<1>9. CASE Applied
  <2>1. job.at = "applied" /\ job.at \in ChangeAts
    BY <1>9 DEF Applied, ChangeAts
  <2>2. platform.registered = (job.target = "background")
    BY <1>1, <2>1 DEF Changed
  <2>3. ASSUME ~job.restoring, ModeSet,
               record' = [mode |-> job.target, desired |-> job.target, phase |-> "stable", failure |-> FALSE]
        PROVE  JobInv'
    <3>1. record' \in RecordType /\ record'.mode = job.target
      BY <1>7, <2>3 DEF RecordType
    <3>2. HostOK' /\ RecordTells'
      BY <1>1, <1>2, <2>2, <3>1 DEF HostOK, RecordTells
    <3>3. job.op = "create" => record'.mode # "background"
      BY <3>1 DEF JobInv, Unregistered
    <3>4. job.op = "delete" => record'.mode # "background" /\ ~platform.registered
      BY <1>1, <2>1, <2>2, <2>3, <3>1 DEF Changed
    <3>. QED
      BY <1>2, <2>1, <2>3, <3>2, <3>3, <3>4, ModeSetKeeps
  <2>4. ASSUME job.restoring, Fails, record' = [record EXCEPT !.mode = job.before, !.phase = "failed", !.failure = TRUE]
        PROVE  JobInv'
    <3>1. job.target = job.before
      BY <1>1, <2>1, <2>4 DEF Changed
    <3>2. record' \in RecordType /\ record'.mode = job.target
      BY <1>1, <1>7, <2>4, <3>1 DEF HostOK, RecordType
    <3>3. HostOK' /\ RecordTells'
      BY <1>1, <1>2, <2>2, <3>2 DEF HostOK, RecordTells
    <3>4. record'.mode = "background" => job.op # "create" /\ config # None
      BY <1>5, <3>2 DEF JobInv, Unregistered
    <3>. QED
      BY <1>2, <2>4, <3>3, <3>4, FailKeeps
  <2>5. ASSUME Fails, UNCHANGED record PROVE JobInv'
    BY <1>2, <1>6, <2>5, FailKeeps
  <2>6. ASSUME Undoes PROVE JobInv'
    <3>1. platform' \in [registered : BOOLEAN, restart : BOOLEAN]
      BY <1>1, <1>2 DEF HostOK
    <3>. QED
      BY <1>2, <2>1, <2>6, <3>1, UndoKeeps
  <2>. QED
    BY <1>9, <2>3, <2>4, <2>5, <2>6 DEF Applied
<1>. QED
  BY <1>8, <1>9 DEF BeginsMode, Applied

\* The rest of a reconfiguration.
LEMMA ConfigureKeepsJobInv ==
  ASSUME JobInv, Writes \/ Restart \/ Verified \/ (TimesOut /\ job.op = "configure")
  PROVE  JobInv'
<1> USE DEF At, Here, diskVars, serverVars, countVars
<1>1. StepOfOp /\ Cleaned /\ Present /\ JobOK /\ HostOK
  BY DEF JobInv
<1>2. job.op = "configure" /\ config # None /\ (job.at \in ConfigureAts \/ TimesOut)
  <2>1. job.at \in ConfigureAts \/ job.op = "configure"
    BY DEF Writes, Restart, Verified, ConfigureAts
  <2>2. job.op = "configure"
    BY <1>1, <2>1 DEF StepOfOp, JobOK, JobType, CreateAts, StopAts, ChangeAts, EraseAts, ConfigureAts, None
  <2>. QED
    BY <1>1, <2>2 DEF Present, Writes, Restart, Verified, ConfigureAts
<1>3. job.want \in Origins /\ job.old \in Origins /\ ~job.cleaning
  BY <1>1, <1>2 DEF Present, JobOK, JobType, Cleaned
<1>4. ASSUME UNCHANGED <<data, approved, record, core, hosts>>, config' \in {config, job.want, job.old},
             platform' = platform \/ platform' = [platform EXCEPT !.restart = FALSE]
      PROVE  /\ HostOK' /\ RecordTells' /\ CommittedIsWhole' /\ config' # None
             /\ platform'.registered = platform.registered
  <2>1. HostOK' /\ config' # None
    BY <1>1, <1>2, <1>3, <1>4, OriginsAreNamed DEF HostOK
  <2>2. platform'.registered = platform.registered
    BY <1>1, <1>4 DEF HostOK
  <2>. QED
    BY <1>2, <1>4, <2>1, <2>2 DEF JobInv, RecordTells, CommittedIsWhole
<1>5. ASSUME HostOK', RecordTells', CommittedIsWhole', config' # None, JobOK',
             job'.op = "configure", job'.at \in {"restart", "verify"}, job'.want = job.want, job'.old = job.old,
             job'.cleaning = job.cleaning
      PROVE  JobInv'
  <2>1. StepOfOp' /\ Cleaned' /\ Changed'
    BY <1>3, <1>5 DEF StepOfOp, Cleaned, Changed, ChangeAts, ConfigureAts, None
  <2>2. Unregistered' /\ Present' /\ Unlinked'
    BY <1>3, <1>5, OriginsAreNamed DEF Unregistered, Present, Unlinked, StopAts, EraseAts
  <2>. QED
    BY <1>5, <2>1, <2>2 DEF JobInv
<1>6. ASSUME HostOK', RecordTells', CommittedIsWhole', config' # None, job' = Idle PROVE JobInv'
  BY <1>6, EndKeeps
<1>7. \A at \in {"restart", "verify"} : Goes(at) => GoesOnAt(at)
  BY <1>1, GoesIs DEF Ats, ConfigureAts
<1>8. CASE Writes
  <2>1. /\ UNCHANGED <<data, approved, record, core, hosts, platform>> /\ config' \in {config, job.want}
        /\ Goes("restart") \/ job' = Idle
    BY <1>8 DEF Writes, End
  <2>2. Goes("restart") => JobOK' /\ Same /\ job'.at = "restart" /\ job'.cleaning = job.cleaning
    BY <1>7 DEF GoesOnAt
  <2>. QED
    BY <1>2, <1>4, <1>5, <1>6, <2>1, <2>2 DEF Same
<1>9. CASE Restart
  <2>1. /\ UNCHANGED <<config, data, approved, record, core, hosts>> /\ platform' = [platform EXCEPT !.restart = FALSE]
        /\ job.at = "restart" /\ (Goes("verify") \/ job' = job)
    BY <1>9 DEF Restart
  <2>2. /\ JobOK' /\ Same /\ job'.at \in {"restart", "verify"} /\ job'.cleaning = job.cleaning
    BY <1>1, <1>7, <2>1 DEF GoesOnAt, Same, JobOK
  <2>. QED
    BY <1>2, <1>4, <1>5, <2>1, <2>2 DEF Same
<1>10. CASE Verified
  <2>1. UNCHANGED <<config, data, approved, record, core, hosts, platform>> /\ job' = Idle
    BY <1>10 DEF Verified, End
  <2>. QED
    BY <1>4, <1>6, <2>1
<1>11. CASE TimesOut
  <2>1. /\ UNCHANGED <<data, approved, record, core, hosts, platform>> /\ config' \in {config, job.old}
        /\ \/ job' = Idle
           \/ job' = [job EXCEPT !.at = "restart", !.restoring = TRUE]
    <3>1. job.at \in {"stop", "exit", "write", "restart", "verify"}
      BY <1>1, <1>2 DEF StepOfOp, StopAts, ConfigureAts, None
    <3>. QED
      BY <1>2, <1>11, <3>1 DEF TimesOut, Deadlines, RestartFailed, End, Fails, Throw
  <2>2. ASSUME job' = [job EXCEPT !.at = "restart", !.restoring = TRUE] PROVE JobInv'
    <3>1. JobOK' /\ Same /\ job'.at = "restart" /\ job'.cleaning = job.cleaning
      BY <1>1, <2>2 DEF JobOK, JobType, Same, Ats, ConfigureAts
    <3>. QED
      BY <1>2, <1>4, <1>5, <2>1, <3>1 DEF Same
  <2>. QED
    BY <1>4, <1>6, <2>1, <2>2
<1>. QED
  BY <1>8, <1>9, <1>10, <1>11

\* Deadlines, and the death of the operation.
LEMMA EndsKeepJobInv ==
  ASSUME JobInv, TimesOut \/ Dies
  PROVE  JobInv'
<1> USE DEF At, Here, diskVars, serverVars, countVars
<1>1. StepOfOp /\ JobOK /\ HostOK
  BY DEF JobInv
<1>2. CASE Dies
  <2>1. UNCHANGED <<config, data, approved, record, core, hosts, platform>> /\ job' = Idle
    BY <1>2 DEF Dies
  <2>2. HostOK' /\ RecordTells' /\ CommittedIsWhole'
    BY <1>1, <2>1 DEF JobInv, HostOK, RecordTells, CommittedIsWhole
  <2>3. config' = None => ~platform'.registered /\ record'.mode # "background"
    BY <2>1 DEF JobInv, Unregistered
  <2>. QED
    BY <2>1, <2>2, <2>3, EndKeeps
<1>3. CASE TimesOut /\ job.op # "configure"
  <2>1. /\ UNCHANGED <<config, data, approved, core, hosts, platform>>
        /\ \/ Fails /\ UNCHANGED record
           \/ job.at \in {"halting", "health"} /\ Undoes
    <3>1. job.at \notin {"restart", "verify"}
      BY <1>1, <1>3 DEF StepOfOp, CreateAts, StopAts, ChangeAts, EraseAts, JobOK, JobType, None
    <3>. QED
      BY <1>3, <3>1 DEF TimesOut, Deadlines
  <2>2. ASSUME Fails, UNCHANGED record PROVE JobInv'
    <3>1. HostOK' /\ RecordTells'
      BY <1>1, <2>1, <2>2 DEF JobInv, HostOK, RecordTells
    <3>. QED
      BY <2>1, <2>2, <3>1, FailKeeps
  <2>3. ASSUME job.at \in {"halting", "health"}, Undoes PROVE JobInv'
    <3>1. platform' \in [registered : BOOLEAN, restart : BOOLEAN] /\ job.at \in ChangeAts
      BY <1>1, <2>1, <2>3 DEF HostOK, ChangeAts
    <3>. QED
      BY <2>1, <2>3, <3>1, UndoKeeps
  <2>. QED
    BY <2>1, <2>2, <2>3
<1>. QED
  BY <1>2, <1>3, ConfigureKeepsJobInv

\* Every step keeps the storage, the record and the platform told.
LEMMA NextJob == JobInv /\ [Next]_vars => JobInv'
BY OthersKeepJobInv, BeginningsKeepJobInv, CreateKeepsJobInv, StopKeepsJobInv, DeleteKeepsJobInv, ManagerKeepsJobInv,
   RecordKeepsJobInv, ConfigureKeepsJobInv, EndsKeepJobInv DEF Next, Manage

-----------------------------------------------------------------------------
(* The theorems.                                                           *)

\* At all times the types are kept, the service record tells what is
\* registered, a host that looks created is whole, and the control files name
\* the manager's server (sync-host-manager.ts, service-manager.ts,
\* sync-control.ts): for any number of servers, hosts, operations and troubles.
THEOREM HostInvHolds == Spec => []HostInv
<1>1. JobInv /\ ServersInv => HostInv
  BY DEF JobInv, ServersInv, HostInv, TypeOK, HostOK, ServersOK, ServerType, RecordType
<1>2. Init => JobInv /\ ServersInv
  BY InitJob, InitServers
<1>3. JobInv /\ ServersInv /\ [Next]_vars => JobInv' /\ ServersInv'
  BY NextJob, NextServers
<1>. QED
  BY <1>1, <1>2, <1>3, PTL DEF Spec

\* Only a create that failed removes an authority Core is linked to
\* (deleteProductSyncHost, prepareSyncHostDelete).
THEOREM NothingLinkedIsRemoved == Spec => RemovedIsUnlinked
<1>1. JobInv /\ [Next]_vars => [data # 0 /\ data' = 0 /\ core.host = data => job.op = "create"]_vars
  <2> SUFFICES ASSUME JobInv, Next, data # 0, data' = 0, core.host = data, job.op # "create" PROVE FALSE
    OBVIOUS
  <2> USE DEF diskVars
  <2>1. Erases
    BY DEF Next, Manage, EnsuresCore, Spawns, IsReady, Enrolls, Bootstraps, IsOnline, ReadsSetupCode, WritesConfig,
       Cancels, Prepares, Stops, HasExited, Awaits, BeginsMode, Applies, HasHalted, IsHealthy, Applied, Writes,
       Restart, Verified, TimesOut, CommandFails, Dies, CoreStep, Collects, Downloads, Restarts, Serves,
       ServerStep, Opens, WritesControl, RequestEnds, Closes, Exits, MissesData, Leaves, RequestArrives, Crashes,
       Interrupted, Create, Configure, SetMode, Delete, Starts, JobInv, HostOK
  <2>2. job.op = "delete" /\ job.at # "prepare"
    BY <2>1 DEF Erases, RemovesConfig, At, JobInv, StepOfOp, JobOK, JobType, ConfigureAts, StopAts, ChangeAts, None
  <2>. QED
    BY <2>2 DEF JobInv, Unlinked
<1>2. Spec => []JobInv
  BY InitJob, NextJob, PTL DEF Spec
<1>. QED
  BY <1>1, <1>2, PTL DEF Spec, RemovedIsUnlinked
=============================================================================
