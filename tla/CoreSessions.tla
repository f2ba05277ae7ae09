---------------------------- MODULE CoreSessions ----------------------------
(***************************************************************************)
(* The Core process of Cinba: which conversation each client looks at,     *)
(* which Pi process serves each conversation, and every asynchronous job   *)
(* that starts, restarts, replaces or stops one of those processes.        *)
(*                                                                         *)
(* Translated from packages/server/src/index.ts (viewing, resolving,       *)
(* recoveries, show, sweepIdle, recycleStale, handle, onConnection) and    *)
(* packages/server/src/session-registry.ts (live, open, stop, onClose,     *)
(* pendingConfirms).  Node runs one callback at a time, so an action here  *)
(* is the code between two awaits; a promise that settles and the          *)
(* continuations of those who await it are one action, as no other         *)
(* callback can run between them.                                          *)
(***************************************************************************)
EXTENDS Naturals, FiniteSets

CONSTANTS
  Conversations,  \* session ids Pi can hand out
  Sockets,        \* WebSocket connections, each used once
  Procs,          \* launches of Pi: one ManagedSession object each
  Requests,       \* ids of permission requests a turn can make
  Handlers,       \* messages that can be in handling at the same time
  Default,        \* the shared attempt `resolving`
  None

ASSUME SessionConstants ==
  /\ None \notin Conversations \cup Procs
  /\ Conversations \cap Handlers = {}
  /\ Default \notin Conversations \cup Handlers

VARIABLES
  conn,      \* socket -> has it connected, has it closed
  viewing,   \* socket -> the conversation it looks at (the map `viewing`)
  live,      \* conversation -> the Pi that serves it (the map `live`)
  pi,        \* launch -> what became of the process
  convOf,    \* launch -> the session id it reported
  turn,      \* launch -> its ledger says busy or compacting
  confirms,  \* launch -> permission requests nobody has answered yet
  stale,     \* launch -> credentials changed after it started
  stored,    \* conversations with a session file on disk
  named,     \* session ids handed out so far
  last,      \* lastSessionId in the local state file
  core,      \* the drain controller's state, or "crashed"
  job        \* the asynchronous work in flight

sessionVars == <<live, pi, convOf, turn, confirms, stale>>
clientVars  == <<conn, viewing, last>>
diskVars    == <<stored, named>>
vars == <<conn, viewing, live, pi, convOf, turn, confirms, stale,
          stored, named, last, core, job>>

\* A recovery is filed under the id of the conversation it is for.
Jobs == Handlers \cup Conversations \cup {Default}

Kinds  == {"none", "default", "open", "create", "delete", "recycle", "recover"}
Phases == {"idle", "find", "list", "refind", "join", "auth", "boot",
           "status", "loop", "fallback"}

\* conv: the session file to resume (None: a new conversation); proc: the Pi
\* being started; watchers: clients to move; todo: what a recycle has left.
JobType == [kind : Kinds, pc : Phases, conv : Conversations \cup {None},
            proc : Procs \cup {None}, watchers : SUBSET Sockets,
            todo : SUBSET Procs]

NoJob == [kind |-> "none", pc |-> "idle", conv |-> None, proc |-> None,
          watchers |-> {}, todo |-> {}]

NewJob(kind, pc, conv, watchers) ==
  [NoJob EXCEPT !.kind = kind, !.pc = pc, !.conv = conv, !.watchers = watchers]

TypeOK ==
  /\ conn \in [Sockets -> {"new", "open", "closed"}]
  /\ viewing \in [Sockets -> Conversations \cup {None}]
  /\ live \in [Conversations -> Procs \cup {None}]
  /\ pi \in [Procs -> {"unused", "starting", "up", "dead", "closed"}]
  /\ convOf \in [Procs -> Conversations \cup {None}]
  /\ turn \in [Procs -> BOOLEAN]
  /\ confirms \in [Procs -> SUBSET Requests]
  /\ stale \in [Procs -> BOOLEAN]
  /\ stored \in SUBSET Conversations
  /\ named \in SUBSET Conversations
  /\ last \in Conversations \cup {None}
  /\ core \in {"accepting", "draining", "stopping", "stopped", "crashed"}
  /\ job \in [Jobs -> JobType]

Init ==
  /\ conn = [s \in Sockets |-> "new"]
  /\ viewing = [s \in Sockets |-> None]
  /\ live = [c \in Conversations |-> None]
  /\ pi = [p \in Procs |-> "unused"]
  /\ convOf = [p \in Procs |-> None]
  /\ turn = [p \in Procs |-> FALSE]
  /\ confirms = [p \in Procs |-> {}]
  /\ stale = [p \in Procs |-> FALSE]
  /\ stored \in SUBSET Conversations
  /\ named = stored
  /\ last \in stored \cup {None}
  /\ core = "accepting"
  /\ job = [j \in Jobs |-> NoJob]

-----------------------------------------------------------------------------
(* What the code asks of the state.                                        *)

Running == core \in {"accepting", "draining", "stopping"}

Viewed(view, c) == \E s \in Sockets : view[s] = c

Viewers(c) == {s \in Sockets : viewing[s] = c}

LiveProcs == {p \in Procs : \E c \in Conversations : live[c] = p}

Recovering(c) == job[c].pc # "idle"

\* canStopNow: neither mid-answer nor waiting for an allow/deny.
CanStopNow(p) == ~turn[p] /\ confirms[p] = {}

SafeToRestart ==
  /\ \A c \in Conversations : ~Recovering(c)
  /\ \A p \in LiveProcs : CanStopNow(p)

\* The launch is still inside open(): its exit is not yet observed.
Opening(p) == \E j \in Jobs : job[j].pc \in {"boot", "status"} /\ job[j].proc = p

-----------------------------------------------------------------------------
(* What one callback does to the shared maps.                              *)

\* sessions.stop for every conversation of cs, given the map as it stands.
StopAll(cs) ==
  LET gone == {p \in Procs : \E c \in Conversations \cap cs : live[c] = p} IN
  /\ live' = [c \in Conversations |-> IF c \in cs THEN None ELSE live[c]]
  /\ pi' = [p \in Procs |-> IF p \in gone /\ pi[p] = "up" THEN "closed" ELSE pi[p]]
  /\ turn' = [p \in Procs |-> turn[p] /\ p \notin gone]
  /\ confirms' = [p \in Procs |-> IF p \in gone THEN {} ELSE confirms[p]]
  /\ UNCHANGED <<convOf, stale>>

\* The map `viewing` after the clients ss were pointed at c.
Pointed(ss, c) == [s \in Sockets |-> IF s \in ss THEN c ELSE viewing[s]]

\* MUTANT of DeniedBy: leaving denies nothing.
DeniedByNobody(view) == confirms

\* A conversation whose last viewer leaves has its pending requests denied.
DeniedBy(view) ==
  [p \in Procs |->
     IF \E c \in Conversations :
          live[c] = p /\ Viewed(viewing, c) /\ ~Viewed(view, c)
     THEN {} ELSE confirms[p]]

\* show() for each client of ss.
ShowAll(ss, c) ==
  /\ viewing' = Pointed(ss, c)
  /\ confirms' = DeniedBy(Pointed(ss, c))
  /\ last' = IF ss = {} THEN last ELSE c

-----------------------------------------------------------------------------
(* Who is waiting for the outcome of a job, and who ends with it.          *)

Joined(c) == {j \in Jobs : job[j].pc = "join" /\ job[j].conv = c}

\* delete_session handlers awaiting defaultSession().
Fallbacks == {h \in Handlers : job[h].pc = "fallback"}

DefaultAudience ==
  job[Default].watchers \cup (UNION {job[h].watchers : h \in Fallbacks})

\* Those who awaited the recovery of c, when it ends with conversation r.
JoinedAudience(c, r) ==
  (UNION {job[h].watchers \ Viewers(r) : h \in Joined(c) \cap Handlers})
  \cup (IF Default \in Joined(c) THEN DefaultAudience ELSE {})

\* Clients shown the conversation r that job j opened (or found open).
Audience(j, r) ==
  IF j = Default THEN DefaultAudience
  ELSE IF j \in Handlers THEN job[j].watchers
  ELSE Viewers(j) \cup JoinedAudience(j, r)

\* MUTANT of EndedWith: a recovery stays in `recoveries` (no finally).
EndedWithoutFinally(j) ==
  IF j \in Conversations THEN Joined(j)
  ELSE {j} \cup (IF j = Default THEN Fallbacks ELSE {})

EndedWith(j) ==
  LET joined == IF j \in Conversations THEN Joined(j) ELSE {}
      ended  == {j} \cup joined
  IN  ended \cup (IF Default \in ended THEN Fallbacks ELSE {})

\* A recycle goes on with its next conversation; everything else is over.
After(j, k) ==
  IF k = j /\ job[j].kind = "recycle"
  THEN [job[j] EXCEPT !.pc = "loop", !.conv = None, !.proc = None, !.watchers = {}]
  ELSE NoJob

JobsAfter(j) ==
  [k \in Jobs |-> IF k \in EndedWith(j) THEN After(j, k) ELSE job[k]]

\* The job ends without a conversation to show.
EndWithout(j) == job' = JobsAfter(j)

\* open() rejects: a handler and a recovery catch it, while the promises of
\* `void recycleStale()` and of onConnection have no handler and end the
\* process.
Unhandled(j) ==
  \/ job[j].kind = "recycle"
  \/ Default \in EndedWith(j) /\ job[Default].watchers # {}

-----------------------------------------------------------------------------
(* defaultSession(): started by a connection or by a deletion.             *)

\* The synchronous part of resolveDefaultSession when the last conversation l
\* is not live, for the clients ss.
DefaultStart(l, ss) ==
  IF l = None THEN NewJob("default", "list", None, ss)
  ELSE NewJob("default", IF Recovering(l) THEN "join" ELSE "find", l, ss)

\* onConnection: the socket joins the clients and awaits defaultSession().
Connect(s) ==
  /\ core = "accepting" /\ conn[s] = "new"
  /\ conn' = [conn EXCEPT ![s] = "open"]
  /\ UNCHANGED <<live, pi, convOf, turn, stale, core>> /\ UNCHANGED diskVars
  /\ \/ /\ job[Default].pc # "idle"
        /\ job' = [job EXCEPT ![Default].watchers = @ \cup {s}]
        /\ UNCHANGED <<viewing, last, confirms>>
     \/ /\ job[Default].pc = "idle"
        /\ IF last # None /\ live[last] # None
           THEN ShowAll({s}, last) /\ UNCHANGED job
           ELSE /\ job' = [job EXCEPT ![Default] = DefaultStart(last, {s})]
                /\ UNCHANGED <<viewing, last, confirms>>

\* await findSession(lastSessionId), or the second one for the most recent.
DefaultFound ==
  /\ Running /\ job[Default].pc \in {"find", "refind"}
  /\ LET c == job[Default].conv IN
     job' = [job EXCEPT ![Default] =
               IF c \in stored THEN [@ EXCEPT !.pc = "auth"]
               ELSE IF @.pc = "find" THEN [@ EXCEPT !.pc = "list", !.conv = None]
               ELSE [@ EXCEPT !.pc = "auth", !.conv = None]]
  /\ UNCHANGED sessionVars /\ UNCHANGED clientVars /\ UNCHANGED diskVars
  /\ UNCHANGED core

\* await sessions.list(cwd): the most recent stored conversation, if any.
DefaultListed ==
  /\ Running /\ job[Default].pc = "list"
  /\ \/ \E c \in stored :
          IF live[c] # None
          THEN /\ ShowAll(DefaultAudience, c)
               /\ job' = JobsAfter(Default)
          ELSE /\ job' = [job EXCEPT ![Default] = [@ EXCEPT !.pc = "refind", !.conv = c]]
               /\ UNCHANGED <<viewing, last, confirms>>
     \/ /\ job' = [job EXCEPT ![Default] = [@ EXCEPT !.pc = "auth"]]
        /\ UNCHANGED <<viewing, last, confirms>>
  /\ UNCHANGED <<live, pi, convOf, turn, stale, conn, core>>
  /\ UNCHANGED diskVars

-----------------------------------------------------------------------------
(* open(): trust and credential, launch, the first RPCs, the status RPCs.  *)

\* Neither the project trust answer nor the credential was obtained, or the
\* directory is gone: undefined.
OpenRefused(j) ==
  /\ Running /\ job[j].pc = "auth"
  /\ EndWithout(j)
  /\ UNCHANGED sessionVars /\ UNCHANGED clientVars /\ UNCHANGED diskVars
  /\ UNCHANGED core

Launch(j, p) ==
  /\ Running /\ job[j].pc = "auth" /\ pi[p] = "unused"
  /\ pi' = [pi EXCEPT ![p] = "starting"]
  /\ job' = [job EXCEPT ![j] = [@ EXCEPT !.pc = "boot", !.proc = p]]
  /\ UNCHANGED <<live, convOf, turn, confirms, stale, core>>
  /\ UNCHANGED clientVars /\ UNCHANGED diskVars

\* getState, setAutoCompaction or setAutoRetry failed: pi.close(), undefined.
BootFailed(j) ==
  /\ Running /\ job[j].pc = "boot"
  /\ pi' = [pi EXCEPT ![job[j].proc] = "closed"]
  /\ EndWithout(j)
  /\ UNCHANGED <<live, convOf, turn, confirms, stale, core>>
  /\ UNCHANGED clientVars /\ UNCHANGED diskVars

\* getEntries timed out or was cut off inside absorb(): open() rejects and
\* nobody closes the process.
BootRejected(j) ==
  /\ Running /\ job[j].pc = "boot"
  /\ pi' = [pi EXCEPT ![job[j].proc] = IF @ = "starting" THEN "up" ELSE @]
  /\ core' = IF Unhandled(j) THEN "crashed" ELSE core
  /\ EndWithout(j)
  /\ UNCHANGED <<live, convOf, turn, confirms, stale>>
  /\ UNCHANGED clientVars /\ UNCHANGED diskVars

\* The transcript is in: live.set under the id Pi reported, which is the
\* resumed one, or a new one.
Booted(j, c) ==
  /\ Running /\ job[j].pc = "boot" /\ pi[job[j].proc] = "starting"
  /\ IF job[j].conv # None THEN c = job[j].conv ELSE c \notin named
  /\ LET p == job[j].proc IN
     /\ pi' = [pi EXCEPT ![p] = "up"]
     /\ convOf' = [convOf EXCEPT ![p] = c]
     /\ live' = [live EXCEPT ![c] = p]
  /\ named' = named \cup {c}
  /\ job' = [job EXCEPT ![j] = [@ EXCEPT !.pc = "status"]]
  /\ UNCHANGED <<turn, confirms, stale, stored, core>> /\ UNCHANGED clientVars

\* MUTANT of Recovery: one at a time, after every other job.
RecoveryInTurn(jobs, c) ==
  IF core = "accepting" /\ Viewers(c) # {} /\ \A j \in Jobs : jobs[j].pc = "idle"
  THEN [jobs EXCEPT ![c] = NewJob("recover", "find", c, {})]
  ELSE jobs

\* recoverUnexpectedClose(), up to its first await, after the maps changed.
Recovery(jobs, c) ==
  IF core = "accepting" /\ Viewers(c) # {} /\ jobs[c].pc = "idle"
  THEN [jobs EXCEPT ![c] = NewJob("recover", "find", c, {})]
  ELSE jobs

\* The process had already exited when onClose was registered: the listener
\* runs at once, and open() returns undefined.
OpenedDead(j) ==
  /\ Running /\ job[j].pc = "status"
  /\ LET p == job[j].proc
         c == convOf[p]
     IN  /\ pi[p] = "dead" /\ live[c] = p
         /\ live' = [live EXCEPT ![c] = None]
         /\ confirms' = [confirms EXCEPT ![p] = {}]
         /\ turn' = [turn EXCEPT ![p] = FALSE]
         \* While j is still in `recoveries` it is not started again.
         /\ job' = IF j = c THEN JobsAfter(j) ELSE Recovery(JobsAfter(j), c)
  /\ UNCHANGED <<pi, convOf, stale, core>>
  /\ UNCHANGED clientVars /\ UNCHANGED diskVars

\* MUTANT of OpenedLost: the launch puts itself back into the map.
OpenedLostReturns(j) ==
  /\ Running /\ job[j].pc = "status"
  /\ live[convOf[job[j].proc]] # job[j].proc
  /\ live' = [live EXCEPT ![convOf[job[j].proc]] = job[j].proc]
  /\ EndWithout(j)
  /\ UNCHANGED <<pi, convOf, turn, confirms, stale, core>>
  /\ UNCHANGED clientVars /\ UNCHANGED diskVars

\* Stopped, deleted or superseded while its status was read: undefined.
OpenedLost(j) ==
  /\ Running /\ job[j].pc = "status"
  /\ live[convOf[job[j].proc]] # job[j].proc
  /\ EndWithout(j)
  /\ UNCHANGED sessionVars /\ UNCHANGED clientVars /\ UNCHANGED diskVars
  /\ UNCHANGED core

\* A recovery whose viewers have all gone stops what it reopened, and then
\* hands that same conversation to those who joined it.
AbandonedRecovery(j) == j \in Conversations /\ Viewers(j) = {}

Opened(j) ==
  /\ Running /\ job[j].pc = "status"
  /\ LET p  == job[j].proc
         c  == convOf[p]
         ss == Audience(j, c)
     IN  /\ live[c] = p /\ pi[p] # "dead"
         /\ job' = JobsAfter(j)
         /\ viewing' = Pointed(ss, c)
         /\ last' = IF ss = {} THEN last ELSE c
         /\ IF AbandonedRecovery(j)
            THEN /\ live' = [live EXCEPT ![c] = None]
                 /\ pi' = [pi EXCEPT ![p] = "closed"]
                 /\ turn' = [turn EXCEPT ![p] = FALSE]
                 /\ confirms' = [DeniedBy(Pointed(ss, c)) EXCEPT ![p] = {}]
            ELSE /\ confirms' = DeniedBy(Pointed(ss, c))
                 /\ UNCHANGED <<live, pi, turn>>
  /\ UNCHANGED <<convOf, stale, conn, core>> /\ UNCHANGED diskVars

-----------------------------------------------------------------------------
(* Messages from clients.                                                  *)

\* A connected client whose message the drain gate lets through.
Speaks(s) == conn[s] = "open" /\ core = "accepting"

Free(h) == job[h].pc = "idle"

OpenSession(s, h, c) ==
  /\ Speaks(s) /\ Free(h) /\ c \in named
  /\ IF live[c] # None
     THEN ShowAll({s}, c) /\ UNCHANGED job
     ELSE /\ job' = [job EXCEPT ![h] =
                       NewJob("open", IF Recovering(c) THEN "join" ELSE "find", c, {s})]
          /\ UNCHANGED <<viewing, last, confirms>>
  /\ UNCHANGED <<live, pi, convOf, turn, stale, conn, core>>
  /\ UNCHANGED diskVars

CreateSession(s, h) ==
  /\ Speaks(s) /\ Free(h)
  /\ job' = [job EXCEPT ![h] = NewJob("create", "auth", None, {s})]
  /\ UNCHANGED sessionVars /\ UNCHANGED clientVars /\ UNCHANGED diskVars
  /\ UNCHANGED core

DeleteSession(s, h, c) ==
  /\ Speaks(s) /\ Free(h) /\ c \in named
  /\ job' = [job EXCEPT ![h] = NewJob("delete", "find", c, {})]
  /\ UNCHANGED sessionVars /\ UNCHANGED clientVars /\ UNCHANGED diskVars
  /\ UNCHANGED core

\* await findSession in an open_session handler or a recovery.
Found(j) ==
  /\ Running /\ job[j].pc = "find" /\ job[j].kind \in {"open", "recover"}
  /\ job' = [job EXCEPT ![j] =
               IF @.conv \in stored THEN [@ EXCEPT !.pc = "auth"]
               ELSE IF @.kind = "recover" THEN [@ EXCEPT !.pc = "auth", !.conv = None]
               ELSE NoJob]
  /\ UNCHANGED sessionVars /\ UNCHANGED clientVars /\ UNCHANGED diskVars
  /\ UNCHANGED core

\* delete_session after its findSession: stop, remove the file, forget it as
\* the last one, and send whoever was looking at it to the default.
Deleted(h) ==
  /\ Running /\ job[h].pc = "find" /\ job[h].kind = "delete"
  /\ LET c       == job[h].conv
         orphans == Viewers(c)
         left    == IF last = c THEN None ELSE last
         orphaned == [job[h] EXCEPT !.pc = "fallback", !.watchers = orphans]
     IN  /\ StopAll({c})
         /\ stored' = stored \ {c}
         /\ IF orphans = {}
            THEN /\ job' = [job EXCEPT ![h] = NoJob]
                 /\ last' = left /\ UNCHANGED viewing
            ELSE IF job[Default].pc = "idle" /\ left # None /\ live[left] # None
            THEN /\ job' = [job EXCEPT ![h] = NoJob]
                 /\ last' = left /\ viewing' = Pointed(orphans, left)
            ELSE /\ job' = [job EXCEPT
                              ![h] = orphaned,
                              ![Default] =
                                IF @.pc = "idle" THEN DefaultStart(left, {}) ELSE @]
                 /\ last' = left /\ UNCHANGED viewing
  /\ UNCHANGED <<named, conn, core>>

Prompt(s) ==
  /\ Speaks(s) /\ viewing[s] # None
  /\ LET p == live[viewing[s]] IN
     /\ p # None /\ pi[p] = "up" /\ ~turn[p]
     /\ turn' = [turn EXCEPT ![p] = TRUE]
  /\ UNCHANGED <<live, pi, convOf, confirms, stale, core, job>>
  /\ UNCHANGED clientVars /\ UNCHANGED diskVars

\* Allow or deny, from a client or from the request's own timer.
Answer(c, r) ==
  /\ Running /\ live[c] # None
  /\ r \in confirms[live[c]]
  /\ confirms' = [confirms EXCEPT ![live[c]] = @ \ {r}]
  /\ UNCHANGED <<live, pi, convOf, turn, stale, core, job>>
  /\ UNCHANGED clientVars /\ UNCHANGED diskVars

\* The last viewer to leave takes the pending requests with it.
Disconnect(s) ==
  /\ Running /\ conn[s] = "open"
  /\ conn' = [conn EXCEPT ![s] = "closed"]
  /\ viewing' = [viewing EXCEPT ![s] = None]
  /\ confirms' = DeniedBy([viewing EXCEPT ![s] = None])
  /\ UNCHANGED <<live, pi, convOf, turn, stale, last, core, job>>
  /\ UNCHANGED diskVars

-----------------------------------------------------------------------------
(* What Pi does.                                                           *)

\* The turn or the compaction ends, by itself or by an abort.
TurnEnds(p) ==
  /\ Running /\ turn[p] /\ pi[p] = "up"
  /\ turn' = [turn EXCEPT ![p] = FALSE]
  /\ UNCHANGED <<live, pi, convOf, confirms, stale, core, job>>
  /\ UNCHANGED clientVars /\ UNCHANGED diskVars

\* Pi writes the session file with the first entry of the conversation.
EntryWritten(p) ==
  /\ Running /\ turn[p] /\ pi[p] = "up" /\ convOf[p] \notin stored
  /\ stored' = stored \cup {convOf[p]}
  /\ UNCHANGED sessionVars /\ UNCHANGED clientVars
  /\ UNCHANGED <<named, core, job>>

\* The permission gate asks.  With nobody looking the answer is no.
UiRequest(p, r) ==
  /\ Running /\ pi[p] = "up" /\ turn[p] /\ Viewed(viewing, convOf[p])
  /\ r \notin confirms[p]
  /\ confirms' = [confirms EXCEPT ![p] = @ \cup {r}]
  /\ UNCHANGED <<live, pi, convOf, turn, stale, core, job>>
  /\ UNCHANGED clientVars /\ UNCHANGED diskVars

\* The process exits by itself.  Once onClose is registered, a live
\* conversation loses its Pi and is recovered if somebody is looking.
PiDies(p) ==
  /\ Running /\ pi[p] \in {"starting", "up"}
  /\ pi' = [pi EXCEPT ![p] = "dead"]
  /\ IF p \in LiveProcs /\ ~Opening(p)
     THEN /\ live' = [live EXCEPT ![convOf[p]] = None]
          /\ confirms' = [confirms EXCEPT ![p] = {}]
          /\ turn' = [turn EXCEPT ![p] = FALSE]
          /\ job' = Recovery(job, convOf[p])
     ELSE UNCHANGED <<live, confirms, turn, job>>
  /\ UNCHANGED <<convOf, stale, core>>
  /\ UNCHANGED clientVars /\ UNCHANGED diskVars

-----------------------------------------------------------------------------
(* Maintenance: the idle sweep and the replacement of stale processes.     *)

\* sweepIdle found the conversation unwatched and idle for the whole period.
\* That is ten minutes, longer than the 30 s timeout of every RPC open() awaits.
Reclaim(c) ==
  /\ Running /\ live[c] # None /\ Viewers(c) = {} /\ CanStopNow(live[c])
  /\ ~Opening(live[c])
  /\ StopAll({c})
  /\ UNCHANGED clientVars /\ UNCHANGED diskVars /\ UNCHANGED <<core, job>>

\* markCredentialsStale: mark every open conversation, start a recycle.
CredentialsChanged(h) ==
  /\ Running /\ Free(h) /\ LiveProcs # {}
  /\ stale' = [p \in Procs |-> stale[p] \/ p \in LiveProcs]
  /\ job' = [job EXCEPT ![h] = NewJob("recycle", "list", None, {})]
  /\ UNCHANGED <<live, pi, convOf, turn, confirms, core>>
  /\ UNCHANGED clientVars /\ UNCHANGED diskVars

\* The minute's maintenance retries what was mid-turn.
RecycleRetry(h) ==
  /\ Running /\ Free(h) /\ \E p \in LiveProcs : stale[p]
  /\ job' = [job EXCEPT ![h] = NewJob("recycle", "list", None, {})]
  /\ UNCHANGED sessionVars /\ UNCHANGED clientVars /\ UNCHANGED diskVars
  /\ UNCHANGED core

\* await credentials.list(); the loop runs over the sessions of this moment.
RecycleListed(h) ==
  /\ Running /\ job[h].pc = "list" /\ job[h].kind = "recycle"
  /\ job' = [job EXCEPT ![h] = [@ EXCEPT !.pc = "loop", !.todo = LiveProcs]]
  /\ UNCHANGED sessionVars /\ UNCHANGED clientVars /\ UNCHANGED diskVars
  /\ UNCHANGED core

\* A captured session this pass replaces, judged as its turn in the loop comes.
Replaces(p) == stale[p] /\ CanStopNow(p)

\* The recycle awaiting findSession for p, its watchers captured.
PausedAt(p, rest) ==
  [NewJob("recycle", "find", convOf[p], Viewers(convOf[p])) EXCEPT !.todo = rest]

\* The loop up to its next await: the unwatched ones among `seen` are stopped,
\* and it pauses at a watched one to find its file, or it ends.
RecycleLoop(h) ==
  /\ Running /\ job[h].pc = "loop"
  /\ \E seen \in SUBSET job[h].todo :
       /\ \A p \in seen : Replaces(p) => Viewers(convOf[p]) = {}
       /\ StopAll({convOf[p] : p \in {q \in seen : Replaces(q)}})
       /\ \/ seen = job[h].todo /\ job' = [job EXCEPT ![h] = NoJob]
          \/ \E p \in job[h].todo \ seen :
               /\ Replaces(p) /\ Viewers(convOf[p]) # {}
               /\ job' = [job EXCEPT ![h] = PausedAt(p, job[h].todo \ (seen \cup {p}))]
  /\ UNCHANGED clientVars /\ UNCHANGED diskVars /\ UNCHANGED core

\* The file is found: stop whatever serves that id now, then open again.
RecycleStops(h) ==
  /\ Running /\ job[h].pc = "find" /\ job[h].kind = "recycle"
  /\ LET c == job[h].conv IN
     /\ StopAll({c})
     /\ job' = [job EXCEPT ![h] =
                  [@ EXCEPT !.pc = "auth", !.conv = IF c \in stored THEN c ELSE None]]
  /\ UNCHANGED clientVars /\ UNCHANGED diskVars /\ UNCHANGED core

-----------------------------------------------------------------------------
(* Shutdown.                                                               *)

\* request(): no new work from now on, and check() at once.
DrainRequested ==
  /\ core = "accepting"
  /\ IF SafeToRestart
     THEN core' = "stopping" /\ StopAll(Conversations)
     ELSE core' = "draining" /\ UNCHANGED sessionVars
  /\ UNCHANGED clientVars /\ UNCHANGED diskVars /\ UNCHANGED job

\* check(), run as actions are flushed to clients and as recoveries end, finds
\* nothing in progress: closeAll, then the server is stopped.
DrainedSafely ==
  /\ core = "draining" /\ SafeToRestart
  /\ core' = "stopping" /\ StopAll(Conversations)
  /\ UNCHANGED clientVars /\ UNCHANGED diskVars /\ UNCHANGED job

\* The deadline or a second stop request: deny, abort, closeAll.
DrainForced ==
  /\ core = "draining"
  /\ core' = "stopping" /\ StopAll(Conversations)
  /\ UNCHANGED clientVars /\ UNCHANGED diskVars /\ UNCHANGED job

Stopped ==
  /\ core = "stopping" /\ core' = "stopped"
  /\ UNCHANGED sessionVars /\ UNCHANGED clientVars /\ UNCHANGED diskVars
  /\ UNCHANGED job

-----------------------------------------------------------------------------
OpenStep(j) ==
  \/ OpenRefused(j) \/ \E p \in Procs : Launch(j, p)
  \/ BootFailed(j) \/ BootRejected(j) \/ \E c \in Conversations : Booted(j, c)
  \/ OpenedDead(j) \/ OpenedLost(j) \/ Opened(j)

JobStep ==
  \/ DefaultFound \/ DefaultListed
  \/ \E j \in Jobs : Found(j) \/ OpenStep(j)
  \/ \E h \in Handlers : Deleted(h) \/ RecycleListed(h) \/ RecycleLoop(h) \/ RecycleStops(h)

ClientStep ==
  \/ \E s \in Sockets : Connect(s) \/ Prompt(s) \/ Disconnect(s)
  \/ \E s \in Sockets, h \in Handlers :
       \/ CreateSession(s, h)
       \/ \E c \in Conversations : OpenSession(s, h, c) \/ DeleteSession(s, h, c)
  \/ \E c \in Conversations, r \in Requests : Answer(c, r)

PiStep ==
  \E p \in Procs : TurnEnds(p) \/ EntryWritten(p) \/ PiDies(p)
                   \/ \E r \in Requests : UiRequest(p, r)

MaintenanceStep ==
  \/ \E c \in Conversations : Reclaim(c)
  \/ \E h \in Handlers : CredentialsChanged(h) \/ RecycleRetry(h)

DrainStep == DrainRequested \/ DrainedSafely \/ DrainForced \/ Stopped

Next == JobStep \/ ClientStep \/ PiStep \/ MaintenanceStep \/ DrainStep

Spec == Init /\ [][Next]_vars

\* Every await of a job ends: RPCs time out after 30 s, a process that cannot
\* start reports it, and files are read or not.  Only the project trust answer
\* has no bound, and recoveries and recycles do not ask for it.  The drain
\* deadline and runtime.stop() are timers and closes.
FairSpec ==
  /\ Spec
  /\ \A c \in Conversations : WF_vars(Found(c)) /\ WF_vars(OpenStep(c))
  /\ WF_vars(DrainForced) /\ WF_vars(Stopped)

-----------------------------------------------------------------------------
(* Properties.                                                             *)

\* A permission request of an open conversation is pending only while some
\* client looks at that conversation: otherwise Pi would be blocked inside the
\* gate on an answer nobody can give.
ConfirmationHasViewer ==
  \A c \in Conversations :
    live[c] # None /\ confirms[live[c]] # {} => Viewed(viewing, c)

\* The map `live` and the processes agree: an entry is the launch that reported
\* that id, and its process runs, or its exit has yet to reach open().
LivePiRuns ==
  \A c \in Conversations :
    LET p == live[c] IN
    p # None => convOf[p] = c /\ (pi[p] = "up" \/ (pi[p] = "dead" /\ Opening(p)))

\* Two jobs never hold the same launch.
LaunchHasOneJob ==
  \A j, k \in Jobs :
    job[j].proc # None /\ job[j].proc = job[k].proc => j = k

\* A job that is starting a process holds it, and only such a job; until the
\* process reports its conversation the launch is known to that job alone.
JobsHoldLaunches ==
  \A j \in Jobs :
    /\ job[j].proc # None <=> job[j].pc \in {"boot", "status"}
    /\ job[j].pc = "boot" =>
         pi[job[j].proc] \in {"starting", "dead"} /\ convOf[job[j].proc] = None
    /\ job[j].pc = "status" =>
         pi[job[j].proc] # "unused" /\ convOf[job[j].proc] # None

\* A launch that has not reported its conversation has no turn and no request,
\* and one that was never used has reported nothing.
UnreportedIsQuiet ==
  \A p \in Procs :
    /\ convOf[p] = None => ~turn[p] /\ confirms[p] = {}
    /\ pi[p] = "unused" => convOf[p] = None

\* The inductive invariant behind the theorems of CoreSessionsProofs.
IInv ==
  /\ TypeOK /\ JobsHoldLaunches /\ LaunchHasOneJob /\ UnreportedIsQuiet
  /\ LivePiRuns /\ ConfirmationHasViewer

\* The identity test `live.get(id) === session` is sound: a launch that left
\* the map never comes back to it, nor does it change conversation.
NeverLiveAgain ==
  [][\A p \in Procs : convOf[p] # None =>
        /\ convOf'[p] = convOf[p]
        /\ (\A c \in Conversations : live[c] # p) => (\A c \in Conversations : live'[c] # p)]_vars

\* A watched conversation that loses its Pi to a crash is being restarted at
\* once, unless Core is shutting down or a restart of it was already running.
CrashIsRecovered ==
  [][\A c \in Conversations :
        /\ live[c] # None /\ live'[c] = None /\ pi'[live[c]] = "dead"
        /\ \/ pi[live[c]] = "up"
           \/ \E j \in Jobs : job[j].proc = live[c] /\ job'[j].proc # live[c]
        /\ core = "accepting" /\ Viewers(c) # {}
        => Recovering(c) \/ Recovering(c)']_vars

\* A recovery always ends, so it cannot keep Core from being restarted.
RecoveryEnds == \A c \in Conversations : Recovering(c) ~> (~Recovering(c) \/ ~Running)

\* A drain always ends in a stopped Core.
DrainEnds == core = "draining" ~> core \in {"stopped", "crashed"}

\* Neither keeps Core from ending, whatever is under way.
NothingHangs == RecoveryEnds /\ DrainEnds
=============================================================================
