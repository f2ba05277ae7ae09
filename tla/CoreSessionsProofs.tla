-------------------------- MODULE CoreSessionsProofs --------------------------
(* Theorems about CoreSessions, for any number of clients, conversations,   *)
(* launches and handlers, and, in the second part, about SessionTurn, for   *)
(* any number of operations under way and of questions, on the invariants   *)
(* of SessionTurnInvariants.                                                *)
EXTENDS CoreSessions, SessionTurnInvariants, SequenceTheorems, FiniteSetTheorems, WellFoundedInduction, TLAPS

-----------------------------------------------------------------------------
(* The records of job. *)

LEMMA NoJobType == NoJob \in JobType
BY DEF NoJob, JobType, Kinds, Phases

LEMMA NewJobType ==
  ASSUME NEW kind \in Kinds, NEW pc \in Phases,
         NEW conv \in Conversations \cup {None}, NEW watchers \in SUBSET Sockets
  PROVE  /\ NewJob(kind, pc, conv, watchers) \in JobType
         /\ NewJob(kind, pc, conv, watchers).pc = pc
         /\ NewJob(kind, pc, conv, watchers).proc = None
BY DEF NewJob, NoJob, JobType, Kinds, Phases

LEMMA NoJobFields == NoJob.pc = "idle" /\ NoJob.proc = None
BY DEF NoJob

\* Ending a job touches no record but those that end with it.
LEMMA JobsAfterType ==
  ASSUME TypeOK, NEW j \in Jobs
  PROVE  JobsAfter(j) \in [Jobs -> JobType]
<1> SUFFICES ASSUME NEW k \in Jobs PROVE After(j, k) \in JobType
  BY DEF JobsAfter, TypeOK
<1>1. job[j] \in JobType
  BY DEF TypeOK
<1>2. CASE k = j /\ job[j].kind = "recycle"
  BY <1>1, <1>2 DEF After, JobType, Phases, Kinds
<1>3. CASE ~(k = j /\ job[j].kind = "recycle")
  BY <1>3, NoJobType DEF After
<1> QED BY <1>2, <1>3

LEMMA DefaultStartType ==
  ASSUME TypeOK, NEW l \in Conversations \cup {None}, NEW ss \in SUBSET Sockets
  PROVE  /\ DefaultStart(l, ss) \in JobType
         /\ DefaultStart(l, ss).pc \in {"list", "join", "find"}
         /\ DefaultStart(l, ss).proc = None
BY NewJobType, SessionConstants DEF DefaultStart, Kinds, Phases

LEMMA RecoveryType ==
  ASSUME NEW js \in [Jobs -> JobType], NEW c \in Conversations
  PROVE  Recovery(js, c) \in [Jobs -> JobType]
<1>1. NewJob("recover", "find", c, {}) \in JobType
  BY NewJobType DEF Kinds, Phases
<1> QED BY <1>1 DEF Recovery, Jobs

LEMMA AudienceType ==
  ASSUME TypeOK, NEW j \in Jobs, NEW c \in Conversations
  PROVE  Audience(j, c) \in SUBSET Sockets
<1>1. \A k \in Jobs : job[k].watchers \in SUBSET Sockets
  BY DEF TypeOK, JobType
<1>2. Handlers \subseteq Jobs /\ Default \in Jobs /\ Conversations \subseteq Jobs
  BY DEF Jobs
<1>3. DefaultAudience \in SUBSET Sockets
  BY <1>1, <1>2 DEF DefaultAudience, Fallbacks
<1>4. Viewers(j) \in SUBSET Sockets
  BY DEF Viewers
<1>5. (UNION {job[h].watchers \ Viewers(c) : h \in Joined(j) \cap Handlers})
        \in SUBSET Sockets
  BY <1>1, <1>2
<1>6. JoinedAudience(j, c) \in SUBSET Sockets
  BY <1>3, <1>5 DEF JoinedAudience
<1> QED BY <1>1, <1>2, <1>3, <1>4, <1>6 DEF Audience

LEMMA DefaultAudienceType == TypeOK => DefaultAudience \in SUBSET Sockets
<1> SUFFICES ASSUME TypeOK PROVE DefaultAudience \in SUBSET Sockets
  OBVIOUS
<1>1. \A k \in Jobs : job[k].watchers \in SUBSET Sockets
  BY DEF TypeOK, JobType
<1> QED BY <1>1 DEF DefaultAudience, Fallbacks, Jobs

LEMMA PointedType ==
  ASSUME TypeOK, NEW ss \in SUBSET Sockets, NEW c \in Conversations
  PROVE  Pointed(ss, c) \in [Sockets -> Conversations \cup {None}]
BY DEF TypeOK, Pointed

LEMMA DeniedByType ==
  ASSUME TypeOK, NEW v
  PROVE  DeniedBy(v) \in [Procs -> SUBSET Requests]
BY DEF TypeOK, DeniedBy

LEMMA ShowAllType ==
  ASSUME TypeOK, NEW ss \in SUBSET Sockets, NEW c \in Conversations, ShowAll(ss, c)
  PROVE  /\ viewing' \in [Sockets -> Conversations \cup {None}]
         /\ last' \in Conversations \cup {None}
         /\ confirms' \in [Procs -> SUBSET Requests]
BY PointedType, DeniedByType DEF ShowAll, TypeOK

LEMMA StopAllType ==
  ASSUME TypeOK, NEW cs, StopAll(cs)
  PROVE  /\ live' \in [Conversations -> Procs \cup {None}]
         /\ pi' \in [Procs -> {"unused", "starting", "up", "dead", "closed"}]
         /\ convOf' \in [Procs -> Conversations \cup {None}]
         /\ turn' \in [Procs -> BOOLEAN]
         /\ confirms' \in [Procs -> SUBSET Requests]
         /\ stale' \in [Procs -> BOOLEAN]
BY DEF TypeOK, StopAll

-----------------------------------------------------------------------------
(* Type correctness. *)

LEMMA InitType == Init => TypeOK
BY NoJobType DEF Init, TypeOK

\* Replacing the record of one job by a record of the type.
LEMMA SetJobType ==
  ASSUME TypeOK, NEW j \in Jobs, NEW r \in JobType
  PROVE  [job EXCEPT ![j] = r] \in [Jobs -> JobType]
BY DEF TypeOK

LEMMA JobIsRecord ==
  ASSUME TypeOK, NEW j \in Jobs
  PROVE  /\ job[j] \in JobType
         /\ job[j].conv \in Conversations \cup {None}
         /\ job[j].proc \in Procs \cup {None}
         /\ job[j].watchers \in SUBSET Sockets
         /\ job[j].todo \in SUBSET Procs
BY DEF TypeOK, JobType

LEMMA PausedAtType ==
  ASSUME TypeOK, NEW p \in Procs, NEW rest \in SUBSET Procs
  PROVE  /\ PausedAt(p, rest) \in JobType
         /\ PausedAt(p, rest).pc = "find"
         /\ PausedAt(p, rest).proc = None
<1> DEFINE r == NewJob("recycle", "find", convOf[p], Viewers(convOf[p]))
<1>1. Viewers(convOf[p]) \in SUBSET Sockets /\ convOf[p] \in Conversations \cup {None}
  BY DEF Viewers, TypeOK
<1>2. r \in JobType /\ r.pc = "find" /\ r.proc = None
  BY <1>1, NewJobType DEF Kinds, Phases
<1> QED BY <1>2 DEF PausedAt, JobType

LEMMA JobIds ==
  /\ Default \in Jobs
  /\ \A h \in Handlers : h \in Jobs
  /\ \A c \in Conversations : c \in Jobs
BY DEF Jobs

LEMMA ConnectType ==
  ASSUME TypeOK, NEW s \in Sockets, Connect(s)
  PROVE  TypeOK'
<1>1. job' \in [Jobs -> JobType]
  <2>1. ASSUME job' = [job EXCEPT ![Default].watchers = @ \cup {s}]
        PROVE  job' \in [Jobs -> JobType]
    BY <2>1, JobIds, JobIsRecord DEF TypeOK, JobType
  <2>2. ASSUME job' = [job EXCEPT ![Default] = DefaultStart(last, {s})]
        PROVE  job' \in [Jobs -> JobType]
    BY <2>2, JobIds, DefaultStartType DEF TypeOK
  <2> QED BY <2>1, <2>2 DEF Connect, TypeOK
<1>2. /\ viewing' \in [Sockets -> Conversations \cup {None}]
      /\ last' \in Conversations \cup {None}
      /\ confirms' \in [Procs -> SUBSET Requests]
  <2>1. ASSUME ShowAll({s}, last), last # None
        PROVE  /\ viewing' \in [Sockets -> Conversations \cup {None}]
               /\ last' \in Conversations \cup {None}
               /\ confirms' \in [Procs -> SUBSET Requests]
    <3>1. last \in Conversations
      BY <2>1 DEF TypeOK
    <3> QED BY <2>1, <3>1, ShowAllType
  <2> QED BY <2>1 DEF Connect, TypeOK
<1>3. conn' \in [Sockets -> {"new", "open", "closed"}]
  BY DEF Connect, TypeOK
<1> QED BY <1>1, <1>2, <1>3 DEF Connect, diskVars, TypeOK

LEMMA DefaultFoundType ==
  ASSUME TypeOK, DefaultFound
  PROVE  TypeOK'
<1>1. job' \in [Jobs -> JobType]
  <2>1. job[Default] \in JobType
    BY JobIds, JobIsRecord
  <2>2. [job[Default] EXCEPT !.pc = "auth"] \in JobType
    BY <2>1 DEF JobType, Phases
  <2>3. [job[Default] EXCEPT !.pc = "list", !.conv = None] \in JobType
    BY <2>1 DEF JobType, Phases
  <2>4. [job[Default] EXCEPT !.pc = "auth", !.conv = None] \in JobType
    BY <2>1 DEF JobType, Phases
  <2> QED BY <2>2, <2>3, <2>4, JobIds, SetJobType DEF DefaultFound, TypeOK
<1> QED BY <1>1 DEF DefaultFound, sessionVars, clientVars, diskVars, TypeOK

LEMMA DefaultListedType ==
  ASSUME TypeOK, DefaultListed
  PROVE  TypeOK'
<1>1. ASSUME NEW c \in stored, ShowAll(DefaultAudience, c), job' = JobsAfter(Default)
      PROVE  TypeOK'
  <2>1. c \in Conversations
    BY DEF TypeOK
  <2> QED
    BY <1>1, <2>1, JobIds, JobsAfterType, DefaultAudienceType, ShowAllType
    DEF DefaultListed, diskVars, TypeOK
<1>2. ASSUME NEW c \in stored,
             job' = [job EXCEPT ![Default] = [@ EXCEPT !.pc = "refind", !.conv = c]]
      PROVE  job' \in [Jobs -> JobType]
  <2>1. [job[Default] EXCEPT !.pc = "refind", !.conv = c] \in JobType
    BY JobIds, JobIsRecord DEF TypeOK, JobType, Phases
  <2> QED BY <1>2, <2>1, JobIds, SetJobType
<1>3. ASSUME job' = [job EXCEPT ![Default] = [@ EXCEPT !.pc = "auth"]]
      PROVE  job' \in [Jobs -> JobType]
  <2>1. [job[Default] EXCEPT !.pc = "auth"] \in JobType
    BY JobIds, JobIsRecord DEF JobType, Phases
  <2> QED BY <1>3, <2>1, JobIds, SetJobType
<1>4. CASE job' \in [Jobs -> JobType] /\ UNCHANGED <<viewing, last, confirms>>
  BY <1>4 DEF DefaultListed, diskVars, TypeOK
<1> QED BY <1>1, <1>2, <1>3, <1>4 DEF DefaultListed

LEMMA OpenStepType ==
  ASSUME TypeOK, JobsHoldLaunches, NEW j \in Jobs, OpenStep(j)
  PROVE  TypeOK'
<1> USE DEF sessionVars, clientVars, diskVars
<1>1. CASE OpenRefused(j)
  BY <1>1, JobsAfterType DEF OpenRefused, EndWithout, TypeOK
<1>2. ASSUME NEW p \in Procs, Launch(j, p)
      PROVE  TypeOK'
  <2>1. [job[j] EXCEPT !.pc = "boot", !.proc = p] \in JobType
    BY JobIsRecord DEF JobType, Phases
  <2>2. job' \in [Jobs -> JobType]
    BY <1>2, <2>1, SetJobType DEF Launch
  <2> QED BY <1>2, <2>2 DEF Launch, TypeOK
<1>3. CASE BootFailed(j)
  BY <1>3, JobsAfterType DEF BootFailed, EndWithout, TypeOK
<1>4. CASE BootRejected(j)
  BY <1>4, JobsAfterType DEF BootRejected, EndWithout, TypeOK
<1>5. ASSUME NEW c \in Conversations, Booted(j, c)
      PROVE  TypeOK'
  <2>1. [job[j] EXCEPT !.pc = "status"] \in JobType
    BY JobIsRecord DEF JobType, Phases
  <2>2. job' \in [Jobs -> JobType]
    BY <1>5, <2>1, SetJobType DEF Booted
  <2>3. job[j].proc \in Procs \cup {None}
    BY JobIsRecord
  <2>4. live' \in [Conversations -> Procs \cup {None}]
    BY <1>5, <2>3 DEF Booted, TypeOK
  <2> QED BY <1>5, <2>2, <2>4 DEF Booted, TypeOK
<1>6. CASE OpenedDead(j)
  <2> DEFINE p == job[j].proc
             c == convOf[p]
  <2>1. p \in Procs /\ c \in Conversations
    BY <1>6, JobIsRecord DEF OpenedDead, JobsHoldLaunches, TypeOK
  <2>2. job' = IF j = c THEN JobsAfter(j) ELSE Recovery(JobsAfter(j), c)
    BY <1>6 DEF OpenedDead
  <2>3. job' \in [Jobs -> JobType]
    BY <2>1, <2>2, JobsAfterType, RecoveryType
  <2> QED BY <1>6, <2>1, <2>3 DEF OpenedDead, TypeOK
<1>7. CASE OpenedLost(j)
  BY <1>7, JobsAfterType DEF OpenedLost, EndWithout, TypeOK
<1>8. CASE Opened(j)
  <2> DEFINE p == job[j].proc
             c == convOf[p]
             ss == Audience(j, c)
  <2>1. p \in Procs /\ c \in Conversations
    BY <1>8, JobIsRecord DEF Opened, JobsHoldLaunches, TypeOK
  <2>2. ss \in SUBSET Sockets
    BY <2>1, AudienceType
  <2>3. /\ viewing' = Pointed(ss, c)
        /\ last' = IF ss = {} THEN last ELSE c
        /\ job' = JobsAfter(j)
    BY <1>8 DEF Opened
  <2>4. /\ viewing' \in [Sockets -> Conversations \cup {None}]
        /\ last' \in Conversations \cup {None}
        /\ job' \in [Jobs -> JobType]
    BY <2>1, <2>2, <2>3, PointedType, JobsAfterType DEF TypeOK
  <2>5. DeniedBy(Pointed(ss, c)) \in [Procs -> SUBSET Requests]
    BY DeniedByType
  <2>6. /\ live' \in [Conversations -> Procs \cup {None}]
        /\ pi' \in [Procs -> {"unused", "starting", "up", "dead", "closed"}]
        /\ turn' \in [Procs -> BOOLEAN]
        /\ confirms' \in [Procs -> SUBSET Requests]
    <3>1. CASE AbandonedRecovery(j)
      BY <1>8, <2>1, <2>5, <3>1 DEF Opened, TypeOK
    <3>2. CASE ~AbandonedRecovery(j)
      BY <1>8, <2>1, <2>5, <3>2 DEF Opened, TypeOK
    <3> QED BY <3>1, <3>2
  <2> QED BY <1>8, <2>4, <2>6 DEF Opened, TypeOK
<1> QED BY <1>1, <1>2, <1>3, <1>4, <1>5, <1>6, <1>7, <1>8 DEF OpenStep

LEMMA HandlerStepType ==
  ASSUME TypeOK, NEW h \in Handlers
  PROVE  /\ Deleted(h) => TypeOK'
         /\ RecycleListed(h) => TypeOK'
         /\ RecycleLoop(h) => TypeOK'
         /\ RecycleStops(h) => TypeOK'
<1> USE DEF sessionVars, clientVars, diskVars
<1> USE JobIds
<1>1. job[h] \in JobType
  BY JobIsRecord
<1>2. ASSUME Deleted(h) PROVE TypeOK'
  <2> DEFINE orphans == Viewers(job[h].conv)
             left == IF last = job[h].conv THEN None ELSE last
             orphaned == [job[h] EXCEPT !.pc = "fallback", !.watchers = orphans]
  <2>1. left \in Conversations \cup {None} /\ orphans \in SUBSET Sockets
    BY DEF TypeOK, Viewers
  <2>2. orphaned \in JobType
    BY <1>1, <2>1 DEF JobType, Phases
  <2>3. DefaultStart(left, {}) \in JobType
    BY <2>1, DefaultStartType
  <2>4. job' \in [Jobs -> JobType]
    <3>1. ASSUME job' = [job EXCEPT ![h] = NoJob]
          PROVE  job' \in [Jobs -> JobType]
      BY <3>1, NoJobType, SetJobType
    <3>2. ASSUME job' = [job EXCEPT
                           ![h] = orphaned,
                           ![Default] = IF @.pc = "idle" THEN DefaultStart(left, {}) ELSE @]
          PROVE  job' \in [Jobs -> JobType]
      BY <3>2, <2>2, <2>3 DEF TypeOK
    <3> QED BY <1>2, <3>1, <3>2 DEF Deleted
  <2>5. /\ last' = left
        /\ viewing' = viewing \/ (left # None /\ viewing' = Pointed(orphans, left))
    BY <1>2 DEF Deleted
  <2>6. /\ last' \in Conversations \cup {None}
        /\ viewing' \in [Sockets -> Conversations \cup {None}]
    <3>1. ASSUME left # None PROVE Pointed(orphans, left) \in [Sockets -> Conversations \cup {None}]
      <4>1. left \in Conversations
        BY <2>1, <3>1
      <4> QED BY <2>1, <4>1, PointedType
    <3>2. viewing \in [Sockets -> Conversations \cup {None}]
      BY DEF TypeOK
    <3> HIDE DEF left, orphans
    <3> QED BY <2>1, <2>5, <3>1, <3>2
  <2>7. StopAll({job[h].conv}) /\ stored' \in SUBSET Conversations
    BY <1>2 DEF Deleted, TypeOK
  <2> QED BY <1>2, <2>4, <2>6, <2>7, StopAllType DEF Deleted, TypeOK
<1>3. ASSUME RecycleListed(h) PROVE TypeOK'
  <2>1. [job[h] EXCEPT !.pc = "loop", !.todo = LiveProcs] \in JobType
    BY <1>1 DEF JobType, Phases, LiveProcs
  <2> QED BY <1>3, <2>1, SetJobType DEF RecycleListed, TypeOK
<1>4. ASSUME RecycleLoop(h) PROVE TypeOK'
  <2>1. PICK seen \in SUBSET job[h].todo :
          /\ StopAll({convOf[p] : p \in {q \in seen : Replaces(q)}})
          /\ \/ job' = [job EXCEPT ![h] = NoJob]
             \/ \E p \in job[h].todo \ seen :
                  job' = [job EXCEPT ![h] = PausedAt(p, job[h].todo \ (seen \cup {p}))]
    BY <1>4 DEF RecycleLoop
  <2>2. ASSUME NEW p \in job[h].todo \ seen
        PROVE  PausedAt(p, job[h].todo \ (seen \cup {p})) \in JobType
    <3>1. p \in Procs
      BY JobIsRecord
    <3>2. job[h].todo \ (seen \cup {p}) \in SUBSET Procs
      BY JobIsRecord
    <3> QED BY <3>1, <3>2, PausedAtType
  <2>3. job' \in [Jobs -> JobType]
    <3> DEFINE R(p) == PausedAt(p, job[h].todo \ (seen \cup {p}))
    <3>1. \A p \in job[h].todo \ seen : R(p) \in JobType
      BY <2>2
    <3>2. \/ job' = [job EXCEPT ![h] = NoJob]
          \/ \E p \in job[h].todo \ seen : job' = [job EXCEPT ![h] = R(p)]
      BY <2>1
    <3> HIDE DEF R
    <3> QED BY <3>1, <3>2, NoJobType, SetJobType
  <2> QED BY <1>4, <2>1, <2>3, StopAllType DEF RecycleLoop, TypeOK
<1>5. ASSUME RecycleStops(h) PROVE TypeOK'
  <2> DEFINE c == job[h].conv
             r == [job[h] EXCEPT !.pc = "auth", !.conv = IF c \in stored THEN c ELSE None]
  <2>1. (IF job[h].conv \in stored THEN job[h].conv ELSE None) \in Conversations \cup {None}
    BY JobIsRecord
  <2>2. r \in JobType
    BY <1>1, <2>1 DEF JobType, Phases
  <2>3. job' = [job EXCEPT ![h] = r]
    BY <1>5 DEF RecycleStops
  <2>4. job' \in [Jobs -> JobType]
    BY <2>2, <2>3, SetJobType
  <2> QED BY <1>5, <2>4, StopAllType DEF RecycleStops, TypeOK
<1> QED BY <1>2, <1>3, <1>4, <1>5

LEMMA FoundType ==
  ASSUME TypeOK, NEW j \in Jobs, Found(j)
  PROVE  TypeOK'
<1>1. job[j] \in JobType
  BY JobIsRecord
<1>2. /\ [job[j] EXCEPT !.pc = "auth"] \in JobType
      /\ [job[j] EXCEPT !.pc = "auth", !.conv = None] \in JobType
  BY <1>1 DEF JobType, Phases
<1>3. job' \in [Jobs -> JobType]
  BY <1>2, NoJobType, SetJobType DEF Found
<1> QED BY <1>3 DEF Found, sessionVars, clientVars, diskVars, TypeOK

LEMMA ClientStepType ==
  ASSUME TypeOK, ClientStep
  PROVE  TypeOK'
<1> USE DEF sessionVars, clientVars, diskVars
<1>1. ASSUME NEW s \in Sockets, Prompt(s) PROVE TypeOK'
  BY <1>1 DEF Prompt, TypeOK
<1>2. ASSUME NEW s \in Sockets, Disconnect(s) PROVE TypeOK'
  BY <1>2, DeniedByType DEF Disconnect, TypeOK
<1>3. ASSUME NEW s \in Sockets, NEW h \in Handlers, CreateSession(s, h) PROVE TypeOK'
  <2>1. NewJob("create", "auth", None, {s}) \in JobType
    BY NewJobType DEF Kinds, Phases
  <2> QED BY <1>3, <2>1, JobIds, SetJobType DEF CreateSession, TypeOK
<1>4. ASSUME NEW s \in Sockets, NEW h \in Handlers, NEW c \in Conversations,
             OpenSession(s, h, c)
      PROVE  TypeOK'
  <2>1. NewJob("open", IF Recovering(c) THEN "join" ELSE "find", c, {s}) \in JobType
    BY NewJobType DEF Kinds, Phases
  <2>2. CASE live[c] # None
    <3>1. ShowAll({s}, c) /\ {s} \in SUBSET Sockets
      BY <1>4, <2>2 DEF OpenSession
    <3> QED BY <1>4, <2>2, <3>1, ShowAllType DEF OpenSession, TypeOK
  <2>3. CASE live[c] = None
    BY <1>4, <2>1, <2>3, JobIds, SetJobType DEF OpenSession, TypeOK
  <2> QED BY <2>2, <2>3
<1>5. ASSUME NEW s \in Sockets, NEW h \in Handlers, NEW c \in Conversations,
             DeleteSession(s, h, c)
      PROVE  TypeOK'
  <2>1. NewJob("delete", "find", c, {}) \in JobType
    BY NewJobType DEF Kinds, Phases
  <2> QED BY <1>5, <2>1, JobIds, SetJobType DEF DeleteSession, TypeOK
<1>6. ASSUME NEW c \in Conversations, NEW r \in Requests, Answer(c, r) PROVE TypeOK'
  BY <1>6 DEF Answer, TypeOK
<1> QED BY <1>1, <1>2, <1>3, <1>4, <1>5, <1>6, ConnectType DEF ClientStep

LEMMA PiStepType ==
  ASSUME TypeOK, UnreportedIsQuiet, LivePiRuns, PiStep
  PROVE  TypeOK'
<1> USE DEF sessionVars, clientVars, diskVars
<1>1. ASSUME NEW p \in Procs, TurnEnds(p) PROVE TypeOK'
  BY <1>1 DEF TurnEnds, TypeOK
<1>2. ASSUME NEW p \in Procs, EntryWritten(p) PROVE TypeOK'
  <2>1. convOf[p] \in Conversations
    BY <1>2 DEF EntryWritten, UnreportedIsQuiet, TypeOK
  <2> QED BY <1>2, <2>1 DEF EntryWritten, TypeOK
<1>3. ASSUME NEW p \in Procs, NEW r \in Requests, UiRequest(p, r) PROVE TypeOK'
  BY <1>3 DEF UiRequest, TypeOK
<1>4. ASSUME NEW p \in Procs, PiDies(p) PROVE TypeOK'
  <2>1. CASE p \in LiveProcs /\ ~Opening(p)
    <3>1. convOf[p] \in Conversations
      BY <2>1, SessionConstants DEF LiveProcs, LivePiRuns, TypeOK
    <3>2. job' \in [Jobs -> JobType]
      BY <1>4, <2>1, <3>1, RecoveryType DEF PiDies, TypeOK
    <3> QED BY <1>4, <2>1, <3>1, <3>2 DEF PiDies, TypeOK
  <2>2. CASE ~(p \in LiveProcs /\ ~Opening(p))
    BY <1>4, <2>2 DEF PiDies, TypeOK
  <2> QED BY <2>1, <2>2
<1> QED BY <1>1, <1>2, <1>3, <1>4 DEF PiStep

LEMMA MaintenanceStepType ==
  ASSUME TypeOK, MaintenanceStep
  PROVE  TypeOK'
<1> USE DEF sessionVars, clientVars, diskVars
<1>1. ASSUME NEW c \in Conversations, Reclaim(c) PROVE TypeOK'
  BY <1>1, StopAllType DEF Reclaim, TypeOK
<1>2. NewJob("recycle", "list", None, {}) \in JobType
  BY NewJobType DEF Kinds, Phases
<1>3. ASSUME NEW h \in Handlers, CredentialsChanged(h) PROVE TypeOK'
  BY <1>2, <1>3, JobIds, SetJobType DEF CredentialsChanged, TypeOK
<1>4. ASSUME NEW h \in Handlers, RecycleRetry(h) PROVE TypeOK'
  BY <1>2, <1>4, JobIds, SetJobType DEF RecycleRetry, TypeOK
<1> QED BY <1>1, <1>3, <1>4 DEF MaintenanceStep

LEMMA DrainStepType ==
  ASSUME TypeOK, DrainStep
  PROVE  TypeOK'
<1> USE DEF sessionVars, clientVars, diskVars
<1>1. CASE DrainRequested
  BY <1>1, StopAllType DEF DrainRequested, TypeOK
<1>2. CASE DrainedSafely
  BY <1>2, StopAllType DEF DrainedSafely, TypeOK
<1>3. CASE DrainForced
  BY <1>3, StopAllType DEF DrainForced, TypeOK
<1>4. CASE Stopped
  BY <1>4 DEF Stopped, TypeOK
<1> QED BY <1>1, <1>2, <1>3, <1>4 DEF DrainStep

LEMMA NextType == IInv /\ [Next]_vars => TypeOK'
<1> SUFFICES ASSUME IInv, [Next]_vars PROVE TypeOK'
  OBVIOUS
<1>1. TypeOK /\ JobsHoldLaunches /\ UnreportedIsQuiet /\ LivePiRuns
  BY DEF IInv
<1>2. CASE JobStep
  BY <1>1, <1>2, DefaultFoundType, DefaultListedType, FoundType, OpenStepType,
     HandlerStepType DEF JobStep
<1>3. CASE UNCHANGED vars
  BY <1>1, <1>3 DEF vars, TypeOK
<1> QED
  BY <1>1, <1>2, <1>3, ClientStepType, PiStepType, MaintenanceStepType, DrainStepType
  DEF Next

-----------------------------------------------------------------------------
(* The steps by what they do to the maps.  Everything but the life of a     *)
(* launch falls in one of three classes, each preserving the invariant.     *)

OpenPhases == {"boot", "status"}

\* Job k neither starts a launch nor lets one go.
Same(k) == job'[k].pc = job[k].pc /\ job'[k].proc = job[k].proc

\* Job k neither holds a launch nor takes one.
Aside(k) == /\ job[k].pc \notin OpenPhases
            /\ job'[k].pc \notin OpenPhases /\ job'[k].proc = None

JobsKept == \A k \in Jobs : Same(k) \/ Aside(k)

\* Job j lets its launch go.
JobEnds(j) ==
  /\ job'[j].pc \notin OpenPhases /\ job'[j].proc = None
  /\ \A k \in Jobs : k = j \/ Same(k) \/ Aside(k)

\* Clients are moved about.
ShowStep ==
  /\ JobsKept /\ UNCHANGED <<live, pi, convOf, turn>>
  /\ UNCHANGED <<viewing, confirms>> \/ confirms' = DeniedBy(viewing')

\* Conversations are stopped, and no other one loses its last viewer.
StopStep ==
  /\ JobsKept
  /\ \E cs : /\ StopAll(cs)
             /\ \A c \in Conversations \ cs : Viewed(viewing, c) => Viewed(viewing', c)

\* Turns and permission requests come and go.
WorkStep ==
  /\ UNCHANGED <<live, pi, convOf, viewing, job>>
  /\ \A p \in Procs : turn'[p] => turn[p] \/ \E c \in Conversations : live[c] = p
  /\ \A p \in Procs : confirms'[p] \subseteq confirms[p]
                      \/ (turn[p] /\ Viewed(viewing, convOf[p]))

LEMMA KeptWhenSet ==
  ASSUME TypeOK, NEW j \in Jobs, NEW r,
         job[j].pc \notin OpenPhases, r.pc \notin OpenPhases, r.proc = None,
         job' = [job EXCEPT ![j] = r]
  PROVE  JobsKept
BY DEF TypeOK, JobsKept, Aside, Same

LEMMA EndedAside ==
  ASSUME TypeOK, NEW j \in Jobs, job' = JobsAfter(j)
  PROVE  JobEnds(j)
<1>1. ASSUME NEW k \in EndedWith(j), k \in Jobs
      PROVE  job'[k].pc \notin OpenPhases /\ job'[k].proc = None
  <2>1. job'[k] = After(j, k)
    BY <1>1 DEF JobsAfter
  <2>2. CASE k = j /\ job[j].kind = "recycle"
    <3>1. job[j] \in JobType
      BY JobIsRecord
    <3>2. After(j, k).pc = "loop" /\ After(j, k).proc = None
      BY <2>2, <3>1 DEF After, JobType
    <3> QED BY <2>1, <3>2 DEF OpenPhases
  <2>3. CASE ~(k = j /\ job[j].kind = "recycle")
    BY <2>1, <2>3, NoJobFields DEF After, OpenPhases
  <2> QED BY <2>2, <2>3
<1>2. j \in EndedWith(j)
  BY DEF EndedWith
<1>3. ASSUME NEW k \in EndedWith(j), k \in Jobs, k # j
      PROVE  job[k].pc \notin OpenPhases
  BY <1>3 DEF EndedWith, Joined, Fallbacks, OpenPhases
<1>4. ASSUME NEW k \in Jobs, k \notin EndedWith(j)
      PROVE  job'[k] = job[k]
  BY <1>4 DEF JobsAfter
<1> QED BY <1>1, <1>2, <1>3, <1>4 DEF JobEnds, Aside, Same

LEMMA KeptWhenEnded ==
  ASSUME TypeOK, NEW j \in Jobs, job[j].pc \notin OpenPhases, job' = JobsAfter(j)
  PROVE  JobsKept
BY EndedAside DEF JobsKept, JobEnds, Aside, Same

\* The fields a step leaves alone in a record.
LEMMA RecordFields ==
  ASSUME NEW r \in JobType, NEW x, NEW y
  PROVE  /\ [r EXCEPT !.pc = x].pc = x /\ [r EXCEPT !.pc = x].proc = r.proc
         /\ [r EXCEPT !.pc = x, !.conv = y].pc = x
         /\ [r EXCEPT !.pc = x, !.conv = y].proc = r.proc
         /\ [r EXCEPT !.pc = x, !.todo = y].pc = x
         /\ [r EXCEPT !.pc = x, !.todo = y].proc = r.proc
         /\ [r EXCEPT !.pc = x, !.watchers = y].pc = x
         /\ [r EXCEPT !.pc = x, !.watchers = y].proc = r.proc
BY DEF JobType

\* The job a message or a credential change starts holds no launch.
LEMMA FreshJob ==
  ASSUME NEW kind \in Kinds, NEW pc \in Phases \ OpenPhases,
         NEW conv \in Conversations \cup {None}, NEW watchers \in SUBSET Sockets
  PROVE  /\ NewJob(kind, pc, conv, watchers).pc \notin OpenPhases
         /\ NewJob(kind, pc, conv, watchers).proc = None
<1>1. pc \in Phases
  OBVIOUS
<1> QED BY <1>1, NewJobType

\* Phases and kinds of those jobs, named once.
LEMMA FreshPhases ==
  /\ {"auth", "find", "join", "list"} \subseteq Phases \ OpenPhases
  /\ {"recycle", "create", "delete", "open"} \subseteq Kinds
  /\ None \in Conversations \cup {None} /\ {} \in SUBSET Sockets
BY DEF Kinds, Phases, OpenPhases

LEMMA ShowSteps ==
  ASSUME IInv,
         \/ DefaultFound \/ DefaultListed
         \/ \E j \in Jobs : Found(j) \/ OpenRefused(j)
         \/ \E h \in Handlers : RecycleListed(h) \/ CredentialsChanged(h) \/ RecycleRetry(h)
         \/ \E s \in Sockets : Connect(s) \/ Disconnect(s)
         \/ \E s \in Sockets, h \in Handlers :
              \/ CreateSession(s, h)
              \/ \E c \in Conversations : OpenSession(s, h, c) \/ DeleteSession(s, h, c)
         \/ (DrainRequested /\ ~SafeToRestart) \/ Stopped
  PROVE  ShowStep
<1> USE DEF sessionVars, clientVars, diskVars
<1> USE JobIds
<1>0. TypeOK /\ JobsHoldLaunches
  BY DEF IInv
<1>1. ASSUME NEW j \in Jobs PROVE job[j] \in JobType /\ (job[j].pc \notin OpenPhases => job[j].proc = None)
  BY <1>0, JobIsRecord DEF JobsHoldLaunches, OpenPhases
<1>2. CASE DefaultFound
  <2>1. job[Default].pc \notin OpenPhases
    BY <1>2 DEF DefaultFound, OpenPhases
  <2> DEFINE d == job[Default]
             r == IF d.conv \in stored THEN [d EXCEPT !.pc = "auth"]
                  ELSE IF d.pc = "find" THEN [d EXCEPT !.pc = "list", !.conv = None]
                  ELSE [d EXCEPT !.pc = "auth", !.conv = None]
  <2>2. job' = [job EXCEPT ![Default] = r]
    BY <1>2 DEF DefaultFound
  <2>3. r.pc \in {"auth", "list"} /\ r.proc = None
    BY <1>1, <2>1, RecordFields
  <2>4. JobsKept
    BY <1>0, <2>1, <2>2, <2>3, KeptWhenSet DEF OpenPhases
  <2> QED BY <1>2, <2>4 DEF DefaultFound, ShowStep
<1>3. CASE DefaultListed
  <2>1. job[Default].pc \notin OpenPhases
    BY <1>3 DEF DefaultListed, OpenPhases
  <2>2. CASE \E c \in stored : ShowAll(DefaultAudience, c) /\ job' = JobsAfter(Default)
    BY <1>0, <1>3, <2>1, <2>2, KeptWhenEnded DEF DefaultListed, ShowStep, ShowAll
  <2>3. CASE \E r : /\ job' = [job EXCEPT ![Default] = r]
                    /\ r.pc \notin OpenPhases /\ r.proc = None
                    /\ UNCHANGED <<viewing, confirms>>
    BY <1>0, <1>3, <2>1, <2>3, KeptWhenSet DEF DefaultListed, ShowStep
  <2>4. \A c \in stored :
           /\ [job[Default] EXCEPT !.pc = "refind", !.conv = c].pc \notin OpenPhases
           /\ [job[Default] EXCEPT !.pc = "refind", !.conv = c].proc = None
    BY <1>1, <2>1, RecordFields DEF OpenPhases
  <2>5. /\ [job[Default] EXCEPT !.pc = "auth"].pc \notin OpenPhases
        /\ [job[Default] EXCEPT !.pc = "auth"].proc = None
    BY <1>1, <2>1, RecordFields DEF OpenPhases
  <2> QED BY <1>3, <2>2, <2>3, <2>4, <2>5 DEF DefaultListed
<1>4. ASSUME NEW j \in Jobs, Found(j) PROVE ShowStep
  <2>1. job[j].pc \notin OpenPhases
    BY <1>4 DEF Found, OpenPhases
  <2> DEFINE d == job[j]
             r == IF d.conv \in stored THEN [d EXCEPT !.pc = "auth"]
                  ELSE IF d.kind = "recover" THEN [d EXCEPT !.pc = "auth", !.conv = None]
                  ELSE NoJob
  <2>2. job' = [job EXCEPT ![j] = r]
    BY <1>4 DEF Found
  <2>3. r.pc \in {"auth", "idle"} /\ r.proc = None
    BY <1>1, <2>1, RecordFields, NoJobFields
  <2>4. JobsKept
    BY <1>0, <2>1, <2>2, <2>3, KeptWhenSet DEF OpenPhases
  <2> QED BY <1>4, <2>4 DEF Found, ShowStep
<1>5. ASSUME NEW j \in Jobs, OpenRefused(j) PROVE ShowStep
  <2>1. job[j].pc \notin OpenPhases
    BY <1>5 DEF OpenRefused, OpenPhases
  <2> QED BY <1>0, <1>5, <2>1, KeptWhenEnded DEF OpenRefused, EndWithout, ShowStep
<1>6. ASSUME NEW h \in Handlers, RecycleListed(h) PROVE ShowStep
  <2>1. job[h].pc \notin OpenPhases
    BY <1>6 DEF RecycleListed, OpenPhases
  <2> DEFINE r == [job[h] EXCEPT !.pc = "loop", !.todo = LiveProcs]
  <2>2. job' = [job EXCEPT ![h] = r]
    BY <1>6 DEF RecycleListed
  <2>3. r.pc = "loop" /\ r.proc = None
    BY <1>1, <2>1, RecordFields
  <2>4. JobsKept
    BY <1>0, <2>1, <2>2, <2>3, KeptWhenSet DEF OpenPhases
  <2> QED BY <1>6, <2>4 DEF RecycleListed, ShowStep
<1>7. ASSUME NEW h \in Handlers, NEW r, job' = [job EXCEPT ![h] = r],
             Free(h), r.pc \notin OpenPhases, r.proc = None
      PROVE  JobsKept
  BY <1>0, <1>7, KeptWhenSet DEF Free, OpenPhases
<1>9. ASSUME NEW h \in Handlers, CredentialsChanged(h) \/ RecycleRetry(h) PROVE ShowStep
  <2> DEFINE r == NewJob("recycle", "list", None, {})
  <2>1. r.pc \notin OpenPhases /\ r.proc = None
    BY FreshJob, FreshPhases
  <2>2. JobsKept
    BY <1>7, <1>9, <2>1 DEF CredentialsChanged, RecycleRetry
  <2> QED BY <1>9, <2>2 DEF CredentialsChanged, RecycleRetry, ShowStep
<1>10. ASSUME NEW s \in Sockets, Connect(s) PROVE ShowStep
  <2>1. CASE job[Default].pc # "idle"
    <3>1. job' = [job EXCEPT ![Default].watchers = @ \cup {s}]
          /\ UNCHANGED <<viewing, confirms>>
      BY <1>10, <2>1 DEF Connect
    <3>2. \A k \in Jobs : Same(k)
      BY <1>0, <1>1, <3>1 DEF Same, JobType, TypeOK
    <3> QED BY <1>10, <3>1, <3>2 DEF Connect, ShowStep, JobsKept
  <2>2. CASE job[Default].pc = "idle" /\ last # None /\ live[last] # None
    <3>1. ShowAll({s}, last) /\ job' = job
      BY <1>10, <2>2 DEF Connect
    <3> QED BY <1>10, <3>1 DEF Connect, ShowStep, ShowAll, JobsKept, Same
  <2>3. CASE job[Default].pc = "idle" /\ ~(last # None /\ live[last] # None)
    <3>1. /\ job' = [job EXCEPT ![Default] = DefaultStart(last, {s})]
          /\ UNCHANGED <<viewing, confirms>>
      BY <1>10, <2>3 DEF Connect
    <3>2. /\ DefaultStart(last, {s}).pc \in {"list", "join", "find"}
          /\ DefaultStart(last, {s}).proc = None
      BY <1>0, DefaultStartType DEF TypeOK
    <3>3. JobsKept
      BY <1>0, <2>3, <3>1, <3>2, KeptWhenSet DEF OpenPhases
    <3> QED BY <1>10, <3>1, <3>3 DEF Connect, ShowStep
  <2> QED BY <2>1, <2>2, <2>3
<1>11. ASSUME NEW s \in Sockets, Disconnect(s) PROVE ShowStep
  BY <1>11 DEF Disconnect, ShowStep, JobsKept, Same
<1>12. ASSUME NEW s \in Sockets, NEW h \in Handlers, CreateSession(s, h) PROVE ShowStep
  <2> DEFINE r == NewJob("create", "auth", None, {s})
  <2>1. r.pc \notin OpenPhases /\ r.proc = None
    BY FreshJob, FreshPhases
  <2>2. JobsKept
    BY <1>7, <1>12, <2>1 DEF CreateSession
  <2> QED BY <1>12, <2>2 DEF CreateSession, ShowStep
<1>13. ASSUME NEW s \in Sockets, NEW h \in Handlers, NEW c \in Conversations,
              DeleteSession(s, h, c)
       PROVE  ShowStep
  <2> DEFINE r == NewJob("delete", "find", c, {})
  <2>1. r.pc \notin OpenPhases /\ r.proc = None
    BY FreshJob, FreshPhases
  <2>2. JobsKept
    BY <1>7, <1>13, <2>1 DEF DeleteSession
  <2> QED BY <1>13, <2>2 DEF DeleteSession, ShowStep
<1>14. ASSUME NEW s \in Sockets, NEW h \in Handlers, NEW c \in Conversations,
              OpenSession(s, h, c)
       PROVE  ShowStep
  <2>1. CASE live[c] # None
    BY <1>14, <2>1 DEF OpenSession, ShowStep, ShowAll, JobsKept, Same
  <2>2. CASE live[c] = None
    <3> DEFINE r == NewJob("open", IF Recovering(c) THEN "join" ELSE "find", c, {s})
    <3>1. r.pc \notin OpenPhases /\ r.proc = None
      BY FreshJob, FreshPhases
    <3>2. job' = [job EXCEPT ![h] = r] /\ Free(h)
      BY <1>14, <2>2 DEF OpenSession
    <3>3. JobsKept
      BY <1>7, <3>1, <3>2
    <3> QED BY <1>14, <2>2, <3>3 DEF OpenSession, ShowStep
  <2> QED BY <2>1, <2>2
<1>15. CASE (DrainRequested /\ ~SafeToRestart) \/ Stopped
  BY <1>15 DEF DrainRequested, Stopped, ShowStep, JobsKept, Same
<1> QED
  BY <1>2, <1>3, <1>4, <1>5, <1>6, <1>9, <1>10, <1>11, <1>12, <1>13, <1>14, <1>15

LEMMA StopSteps ==
  ASSUME IInv,
         \/ \E h \in Handlers : Deleted(h) \/ RecycleLoop(h) \/ RecycleStops(h)
         \/ \E c \in Conversations : Reclaim(c)
         \/ (DrainRequested /\ SafeToRestart) \/ DrainedSafely \/ DrainForced
  PROVE  StopStep
<1> USE DEF clientVars, diskVars
<1> USE JobIds
<1>0. TypeOK /\ JobsHoldLaunches
  BY DEF IInv
<1>1. ASSUME NEW j \in Jobs
      PROVE  job[j] \in JobType /\ (job[j].pc \notin OpenPhases => job[j].proc = None)
  BY <1>0, JobIsRecord DEF JobsHoldLaunches, OpenPhases
<1>2. ASSUME UNCHANGED viewing, JobsKept, NEW cs, StopAll(cs)
      PROVE  StopStep
  BY <1>2 DEF StopStep, Viewed
<1>3. ASSUME NEW h \in Handlers, Deleted(h) PROVE StopStep
  <2> DEFINE c == job[h].conv
             orphans == Viewers(c)
             left == IF last = c THEN None ELSE last
             orphaned == [job[h] EXCEPT !.pc = "fallback", !.watchers = orphans]
  <2>1. job[h].pc = "find" /\ job[h].proc = None
    BY <1>1, <1>3 DEF Deleted, OpenPhases
  <2>2. orphaned.pc = "fallback" /\ orphaned.proc = None
    BY <1>1, <2>1, RecordFields
  <2>3. left \in Conversations \cup {None}
    BY <1>0 DEF TypeOK
  <2>4. DefaultStart(left, {}).pc \notin OpenPhases /\ DefaultStart(left, {}).proc = None
    BY <1>0, <2>3, DefaultStartType DEF OpenPhases
  <2>5. JobsKept
    <3>1. CASE job' = [job EXCEPT ![h] = NoJob]
      BY <1>0, <2>1, <3>1, NoJobFields, KeptWhenSet DEF OpenPhases
    <3>2. CASE job' = [job EXCEPT
                         ![h] = orphaned,
                         ![Default] = IF @.pc = "idle" THEN DefaultStart(left, {}) ELSE @]
      <4>1. h # Default
        BY SessionConstants
      <4>2. job'[h] = orphaned
        BY <1>0, <3>2, <4>1 DEF TypeOK
      <4>3. job'[Default] = IF job[Default].pc = "idle" THEN DefaultStart(left, {})
                            ELSE job[Default]
        BY <1>0, <3>2, <4>1 DEF TypeOK
      <4>4. \A k \in Jobs \ {h, Default} : job'[k] = job[k]
        BY <1>0, <3>2 DEF TypeOK
      <4>5. Aside(h)
        BY <2>1, <2>2, <4>2 DEF Aside, OpenPhases
      <4>6. Same(Default) \/ Aside(Default)
        BY <2>4, <4>3 DEF Aside, Same, OpenPhases
      <4> QED BY <4>4, <4>5, <4>6 DEF JobsKept, Same
    <3> QED BY <1>3, <3>1, <3>2 DEF Deleted
  <2>6. StopAll({c}) /\ (viewing' = viewing \/ viewing' = Pointed(orphans, left))
    BY <1>3 DEF Deleted
  <2>7. \A d \in Conversations \ {c} : Viewed(viewing, d) => Viewed(viewing', d)
    BY <2>6 DEF Viewed, Pointed, Viewers
  <2> QED BY <2>5, <2>6, <2>7 DEF StopStep
<1>4. ASSUME NEW h \in Handlers, RecycleLoop(h) PROVE StopStep
  <2>1. job[h].pc \notin OpenPhases
    BY <1>4 DEF RecycleLoop, OpenPhases
  <2>2. PICK seen \in SUBSET job[h].todo :
          /\ StopAll({convOf[p] : p \in {q \in seen : Replaces(q)}})
          /\ \/ job' = [job EXCEPT ![h] = NoJob]
             \/ \E p \in job[h].todo \ seen :
                  job' = [job EXCEPT ![h] = PausedAt(p, job[h].todo \ (seen \cup {p}))]
    BY <1>4 DEF RecycleLoop
  <2>3. \A p \in job[h].todo \ seen :
          LET r == PausedAt(p, job[h].todo \ (seen \cup {p}))
          IN  r.pc = "find" /\ r.proc = None
    <3> SUFFICES ASSUME NEW p \in job[h].todo \ seen
                 PROVE  LET r == PausedAt(p, job[h].todo \ (seen \cup {p}))
                        IN  r.pc = "find" /\ r.proc = None
      OBVIOUS
    <3>1. p \in Procs /\ job[h].todo \ (seen \cup {p}) \in SUBSET Procs
      BY <1>0, JobIsRecord
    <3> QED BY <1>0, <3>1, PausedAtType
  <2>4. JobsKept
    BY <1>0, <2>1, <2>2, <2>3, NoJobFields, KeptWhenSet DEF OpenPhases
  <2> QED BY <1>2, <1>4, <2>2, <2>4 DEF RecycleLoop
<1>5. ASSUME NEW h \in Handlers, RecycleStops(h) PROVE StopStep
  <2> DEFINE c == job[h].conv
             r == [job[h] EXCEPT !.pc = "auth", !.conv = IF c \in stored THEN c ELSE None]
  <2>1. job[h].pc \notin OpenPhases
    BY <1>5 DEF RecycleStops, OpenPhases
  <2>2. job' = [job EXCEPT ![h] = r] /\ StopAll({c})
    BY <1>5 DEF RecycleStops
  <2>3. r.pc = "auth" /\ r.proc = None
    BY <1>1, <2>1, RecordFields
  <2>4. JobsKept
    BY <1>0, <2>1, <2>2, <2>3, KeptWhenSet DEF OpenPhases
  <2> QED BY <1>2, <1>5, <2>2, <2>4 DEF RecycleStops
<1>6. ASSUME NEW c \in Conversations, Reclaim(c) PROVE StopStep
  BY <1>2, <1>6 DEF Reclaim, JobsKept, Same
<1>7. CASE (DrainRequested /\ SafeToRestart) \/ DrainedSafely \/ DrainForced
  BY <1>2, <1>7 DEF DrainRequested, DrainedSafely, DrainForced, JobsKept, Same
<1> QED BY <1>3, <1>4, <1>5, <1>6, <1>7

LEMMA WorkSteps ==
  ASSUME IInv,
         \/ \E s \in Sockets : Prompt(s)
         \/ \E c \in Conversations, r \in Requests : Answer(c, r)
         \/ \E p \in Procs : \/ TurnEnds(p) \/ EntryWritten(p)
                             \/ \E r \in Requests : UiRequest(p, r)
  PROVE  WorkStep
<1> USE DEF clientVars, diskVars, sessionVars
<1>0. TypeOK
  BY DEF IInv
<1>1. ASSUME NEW s \in Sockets, Prompt(s) PROVE WorkStep
  <2>1. viewing[s] \in Conversations
    BY <1>0, <1>1 DEF Prompt, TypeOK
  <2> QED BY <1>0, <1>1, <2>1 DEF Prompt, WorkStep, TypeOK
<1>2. ASSUME NEW c \in Conversations, NEW r \in Requests, Answer(c, r) PROVE WorkStep
  BY <1>0, <1>2 DEF Answer, WorkStep, TypeOK
<1>3. ASSUME NEW p \in Procs, TurnEnds(p) PROVE WorkStep
  BY <1>0, <1>3 DEF TurnEnds, WorkStep, TypeOK
<1>4. ASSUME NEW p \in Procs, EntryWritten(p) PROVE WorkStep
  BY <1>4 DEF EntryWritten, WorkStep
<1>5. ASSUME NEW p \in Procs, NEW r \in Requests, UiRequest(p, r) PROVE WorkStep
  BY <1>0, <1>5 DEF UiRequest, WorkStep, TypeOK
<1> QED BY <1>1, <1>2, <1>3, <1>4, <1>5

-----------------------------------------------------------------------------
(* Each class preserves the invariant. *)

\* The parts of the invariant that speak of jobs and launches only.
LEMMA KeptLaunches ==
  ASSUME IInv, JobsKept, UNCHANGED convOf,
         \A p \in Procs : pi[p] = "starting" => pi'[p] \in {"starting", "dead"},
         \A p \in Procs : pi[p] = "dead" => pi'[p] = "dead",
         \A p \in Procs : pi'[p] = "unused" <=> pi[p] = "unused"
  PROVE  JobsHoldLaunches' /\ LaunchHasOneJob' /\ (\A p \in Procs : Opening(p) => Opening(p)')
<1>0. TypeOK /\ JobsHoldLaunches /\ LaunchHasOneJob
  BY DEF IInv
<1>1. \A k \in Jobs : Same(k) \/ (job[k].proc = None /\ Aside(k))
  BY <1>0 DEF JobsKept, Aside, JobsHoldLaunches, OpenPhases
<1>2. \A k \in Jobs : job[k].proc \in Procs \cup {None}
  BY <1>0, JobIsRecord
<1>3. JobsHoldLaunches'
  BY <1>0, <1>1, <1>2 DEF JobsHoldLaunches, Same, Aside, OpenPhases
<1>4. LaunchHasOneJob'
  BY <1>0, <1>1 DEF LaunchHasOneJob, Same, Aside
<1>5. \A p \in Procs : Opening(p) => Opening(p)'
  BY <1>1 DEF Opening, Same, Aside, OpenPhases
<1> QED BY <1>3, <1>4, <1>5

LEMMA ShowKeeps == IInv /\ TypeOK' /\ ShowStep => IInv'
<1> SUFFICES ASSUME IInv, TypeOK', ShowStep PROVE IInv'
  OBVIOUS
<1>0. TypeOK /\ UnreportedIsQuiet /\ LivePiRuns /\ ConfirmationHasViewer
  BY DEF IInv
<1>1. JobsHoldLaunches' /\ LaunchHasOneJob' /\ (\A p \in Procs : Opening(p) => Opening(p)')
  BY KeptLaunches DEF ShowStep
<1>2. \A p \in Procs : confirms'[p] \subseteq confirms[p]
  BY <1>0 DEF ShowStep, DeniedBy, TypeOK
<1>3. UnreportedIsQuiet'
  BY <1>0, <1>2 DEF UnreportedIsQuiet, ShowStep
<1>4. LivePiRuns'
  BY <1>0, <1>1 DEF LivePiRuns, ShowStep, TypeOK
<1>5. ConfirmationHasViewer'
  <2>1. CASE UNCHANGED <<viewing, confirms>>
    BY <1>0, <2>1 DEF ShowStep, ConfirmationHasViewer, Viewed
  <2>2. CASE confirms' = DeniedBy(viewing')
    BY <1>0, <2>2 DEF ShowStep, ConfirmationHasViewer, DeniedBy, Viewed, TypeOK
  <2> QED BY <2>1, <2>2 DEF ShowStep
<1> QED BY <1>1, <1>3, <1>4, <1>5 DEF IInv

LEMMA StopKeeps == IInv /\ TypeOK' /\ StopStep => IInv'
<1> SUFFICES ASSUME IInv, TypeOK', StopStep PROVE IInv'
  OBVIOUS
<1>0. TypeOK /\ UnreportedIsQuiet /\ LivePiRuns /\ ConfirmationHasViewer
  BY DEF IInv
<1>1. PICK cs : /\ StopAll(cs)
                /\ \A c \in Conversations \ cs : Viewed(viewing, c) => Viewed(viewing', c)
  BY DEF StopStep
<1>2. JobsHoldLaunches' /\ LaunchHasOneJob' /\ (\A p \in Procs : Opening(p) => Opening(p)')
  <2>1. /\ UNCHANGED convOf
        /\ \A p \in Procs : pi'[p] = pi[p] \/ (pi[p] = "up" /\ pi'[p] = "closed")
    BY <1>0, <1>1 DEF StopAll, TypeOK
  <2> QED BY <2>1, KeptLaunches DEF StopStep
<1>3. UnreportedIsQuiet'
  BY <1>0, <1>1 DEF StopAll, UnreportedIsQuiet, TypeOK
<1>4. ASSUME NEW c \in Conversations, live'[c] # None
      PROVE  /\ c \notin cs /\ live'[c] = live[c] /\ live[c] \in Procs
             /\ pi'[live[c]] = pi[live[c]]
             /\ confirms'[live[c]] = confirms[live[c]]
  <2>1. c \notin cs /\ live'[c] = live[c] /\ live[c] \in Procs
    BY <1>0, <1>1, <1>4 DEF StopAll, TypeOK
  <2>2. convOf[live[c]] = c
    BY <1>0, <1>4, <2>1 DEF LivePiRuns
  <2>3. ~ \E d \in Conversations \cap cs : live[d] = live[c]
    BY <1>0, <1>4, <2>1, <2>2 DEF LivePiRuns
  <2> QED BY <1>1, <2>1, <2>3 DEF StopAll
<1>5. LivePiRuns'
  BY <1>0, <1>1, <1>2, <1>4 DEF LivePiRuns, StopAll
<1>6. ConfirmationHasViewer'
  BY <1>0, <1>1, <1>4 DEF ConfirmationHasViewer
<1> QED BY <1>2, <1>3, <1>5, <1>6 DEF IInv

LEMMA WorkKeeps == IInv /\ TypeOK' /\ WorkStep => IInv'
<1> SUFFICES ASSUME IInv, TypeOK', WorkStep PROVE IInv'
  OBVIOUS
<1>0. TypeOK /\ UnreportedIsQuiet /\ LivePiRuns /\ ConfirmationHasViewer
  BY DEF IInv
<1>1. JobsHoldLaunches' /\ LaunchHasOneJob' /\ (\A p \in Procs : Opening(p) => Opening(p)')
  BY KeptLaunches DEF WorkStep, JobsKept, Same
<1>2. \A p \in Procs : (\E c \in Conversations : live[c] = p) => convOf[p] # None
  BY <1>0, SessionConstants DEF LivePiRuns, TypeOK
<1>3. UnreportedIsQuiet'
  BY <1>0, <1>2 DEF UnreportedIsQuiet, WorkStep, TypeOK
<1>4. LivePiRuns'
  BY <1>0, <1>1 DEF LivePiRuns, WorkStep, TypeOK
<1>5. ConfirmationHasViewer'
  BY <1>0 DEF ConfirmationHasViewer, LivePiRuns, WorkStep, TypeOK
<1> QED BY <1>1, <1>3, <1>4, <1>5 DEF IInv

-----------------------------------------------------------------------------
(* The life of a launch. *)

\* A job lets its launch go, while no other launch is touched.
LEMMA EndsLaunches ==
  ASSUME IInv, NEW j \in Jobs, JobEnds(j), UNCHANGED convOf,
         \A p \in Procs : p # job[j].proc => pi'[p] = pi[p],
         \A p \in Procs : pi'[p] = "unused" <=> pi[p] = "unused"
  PROVE  /\ JobsHoldLaunches' /\ LaunchHasOneJob'
         /\ \A p \in Procs : p # job[j].proc => (Opening(p) => Opening(p)')
<1>0. TypeOK /\ JobsHoldLaunches /\ LaunchHasOneJob
  BY DEF IInv
<1>1. \A k \in Jobs : k = j \/ Same(k) \/ (job[k].proc = None /\ Aside(k))
  BY <1>0 DEF JobEnds, Aside, JobsHoldLaunches, OpenPhases
<1>2. \A k \in Jobs : job[k].proc \in Procs \cup {None}
  BY <1>0, JobIsRecord
<1>3. job'[j].pc \notin OpenPhases /\ job'[j].proc = None
  BY DEF JobEnds
<1>4. \A k \in Jobs : k # j /\ job[k].proc # None => job[k].proc # job[j].proc
  BY <1>0 DEF LaunchHasOneJob
<1>5. JobsHoldLaunches'
  BY <1>0, <1>1, <1>2, <1>3, <1>4 DEF JobsHoldLaunches, Same, Aside, OpenPhases
<1>6. LaunchHasOneJob'
  BY <1>0, <1>1, <1>3 DEF LaunchHasOneJob, Same, Aside
<1>7. \A p \in Procs : p # job[j].proc => (Opening(p) => Opening(p)')
  BY <1>1 DEF Opening, Same, Aside, OpenPhases
<1> QED BY <1>5, <1>6, <1>7

\* Replacing the record of the acting job by one in an open phase.
LEMMA LaunchKeeps ==
  ASSUME IInv, TypeOK', NEW j \in Jobs, NEW p \in Procs, Launch(j, p)
  PROVE  IInv'
<1> USE DEF clientVars, diskVars, OpenPhases
<1>0. TypeOK /\ JobsHoldLaunches /\ LaunchHasOneJob /\ UnreportedIsQuiet
      /\ LivePiRuns /\ ConfirmationHasViewer
  BY DEF IInv
<1>1. \A k \in Jobs : k # j => job'[k] = job[k]
  BY <1>0 DEF Launch, TypeOK
<1>2. job[j] \in JobType
  BY <1>0, JobIsRecord
<1>3. job'[j].pc = "boot" /\ job'[j].proc = p
  BY <1>0, <1>2 DEF Launch, TypeOK, JobType
<1>4. pi[p] = "unused" /\ convOf[p] = None /\ job[j].pc = "auth" /\ job[j].proc = None
  BY <1>0 DEF Launch, UnreportedIsQuiet, JobsHoldLaunches
<1>5. \A k \in Jobs : job[k].proc \in Procs \cup {None} /\ job[k].proc # p
  <2>1. \A k \in Jobs : job[k].proc \in Procs \cup {None}
    BY <1>0, JobIsRecord
  <2>2. \A k \in Jobs : job[k].proc # None => pi[job[k].proc] # "unused"
    BY <1>0, <2>1 DEF JobsHoldLaunches
  <2> QED BY <1>4, <2>1, <2>2, SessionConstants
<1>6. \A q \in Procs : q # p => pi'[q] = pi[q]
  BY <1>0 DEF Launch, TypeOK
<1>7. pi'[p] = "starting" /\ UNCHANGED convOf
  BY <1>0 DEF Launch, TypeOK
<1>8. JobsHoldLaunches'
  BY <1>0, <1>1, <1>3, <1>4, <1>5, <1>6, <1>7, SessionConstants DEF JobsHoldLaunches
<1>9. LaunchHasOneJob'
  BY <1>0, <1>1, <1>3, <1>5 DEF LaunchHasOneJob
<1>10. \A q \in Procs : Opening(q) => Opening(q)'
  BY <1>1, <1>4 DEF Opening
<1>11. UnreportedIsQuiet'
  BY <1>0, <1>4, <1>6, <1>7 DEF Launch, UnreportedIsQuiet
<1>12. LivePiRuns'
  BY <1>0, <1>4, <1>6, <1>10 DEF Launch, LivePiRuns, TypeOK
<1>13. ConfirmationHasViewer'
  BY <1>0 DEF Launch, ConfirmationHasViewer, Viewed
<1> QED BY <1>8, <1>9, <1>11, <1>12, <1>13 DEF IInv

LEMMA BootedKeeps ==
  ASSUME IInv, TypeOK', NEW j \in Jobs, NEW c \in Conversations, Booted(j, c)
  PROVE  IInv'
<1> USE DEF clientVars, OpenPhases
<1> DEFINE p == job[j].proc
<1>0. TypeOK /\ JobsHoldLaunches /\ LaunchHasOneJob /\ UnreportedIsQuiet
      /\ LivePiRuns /\ ConfirmationHasViewer
  BY DEF IInv
<1>1. \A k \in Jobs : k # j => job'[k] = job[k]
  BY <1>0 DEF Booted, TypeOK
<1>2. job[j] \in JobType /\ p \in Procs \cup {None}
  BY <1>0, JobIsRecord
<1>3. job[j].pc = "boot" /\ pi[p] = "starting"
  BY DEF Booted
<1>4. p \in Procs /\ convOf[p] = None
  BY <1>0, <1>2, <1>3 DEF JobsHoldLaunches
<1>5. job'[j].pc = "status" /\ job'[j].proc = p
  BY <1>0, <1>2 DEF Booted, TypeOK, JobType
<1>6. /\ pi' = [pi EXCEPT ![p] = "up"]
      /\ convOf' = [convOf EXCEPT ![p] = c]
      /\ live' = [live EXCEPT ![c] = p]
      /\ UNCHANGED <<turn, confirms, viewing>>
  BY DEF Booted
<1>7. \A k \in Jobs : job[k].proc \in Procs \cup {None}
  BY <1>0, JobIsRecord
<1>8. \A k \in Jobs : k # j => job[k].proc # p
  BY <1>0, <1>4, SessionConstants DEF LaunchHasOneJob
<1> HIDE DEF p
<1>9. JobsHoldLaunches'
  <2>1. ASSUME NEW k \in Jobs, k # j, job[k].proc # None
        PROVE  pi'[job[k].proc] = pi[job[k].proc] /\ convOf'[job[k].proc] = convOf[job[k].proc]
    BY <1>0, <1>6, <1>7, <1>8, <2>1 DEF TypeOK
  <2>2. pi'[p] = "up" /\ convOf'[p] = c /\ p # None /\ c # None
    BY <1>0, <1>4, <1>6, SessionConstants DEF TypeOK
  <2> QED BY <1>0, <1>1, <1>5, <2>1, <2>2 DEF JobsHoldLaunches
<1>10. LaunchHasOneJob'
  BY <1>0, <1>1, <1>5, <1>8 DEF LaunchHasOneJob
<1>11. \A q \in Procs : Opening(q) => Opening(q)'
  BY <1>1, <1>5 DEF Opening, p
<1>12. UnreportedIsQuiet'
  BY <1>0, <1>4, <1>6, SessionConstants DEF UnreportedIsQuiet, TypeOK
<1>13. \A d \in Conversations : d # c => live'[d] = live[d] /\ live[d] # p
  BY <1>0, <1>4, <1>6, SessionConstants DEF LivePiRuns, TypeOK
<1>14. LivePiRuns'
  <2>1. live'[c] = p /\ convOf'[p] = c /\ pi'[p] = "up"
    BY <1>0, <1>4, <1>6 DEF TypeOK
  <2>2. ASSUME NEW d \in Conversations, d # c, live[d] # None
        PROVE  convOf'[live[d]] = convOf[live[d]] /\ pi'[live[d]] = pi[live[d]]
    BY <1>0, <1>6, <1>13, <2>2 DEF TypeOK
  <2>3. \A d \in Conversations : live[d] \in Procs \cup {None}
    BY <1>0 DEF TypeOK
  <2> QED BY <1>0, <1>11, <1>13, <2>1, <2>2, <2>3 DEF LivePiRuns
<1>15. ConfirmationHasViewer'
  <2>1. live'[c] = p /\ confirms[p] = {}
    BY <1>0, <1>4, <1>6 DEF UnreportedIsQuiet, TypeOK
  <2> QED BY <1>0, <1>6, <1>13, <2>1 DEF ConfirmationHasViewer, Viewed
<1> QED BY <1>9, <1>10, <1>12, <1>14, <1>15 DEF IInv

\* Before it reports a conversation a launch serves none: letting it go
\* changes nothing else.
LEMMA BootEndsKeeps ==
  ASSUME IInv, TypeOK', NEW j \in Jobs, BootFailed(j) \/ BootRejected(j)
  PROVE  IInv'
<1> USE DEF clientVars, diskVars, OpenPhases
<1> DEFINE p == job[j].proc
<1>0. TypeOK /\ JobsHoldLaunches /\ UnreportedIsQuiet /\ LivePiRuns /\ ConfirmationHasViewer
  BY DEF IInv
<1>1. JobEnds(j)
  BY <1>0, EndedAside DEF BootFailed, BootRejected, EndWithout
<1>2. p \in Procs /\ convOf[p] = None /\ pi[p] # "unused"
  BY <1>0, JobIsRecord DEF BootFailed, BootRejected, JobsHoldLaunches
<1>3. /\ UNCHANGED <<live, convOf, turn, confirms, viewing>>
      /\ \A q \in Procs : q # p => pi'[q] = pi[q]
      /\ pi'[p] # "unused"
  BY <1>0, <1>2 DEF BootFailed, BootRejected, TypeOK
<1>4. /\ JobsHoldLaunches' /\ LaunchHasOneJob'
      /\ \A q \in Procs : q # p => (Opening(q) => Opening(q)')
  BY <1>1, <1>2, <1>3, EndsLaunches
<1>5. UnreportedIsQuiet'
  BY <1>0, <1>2, <1>3 DEF UnreportedIsQuiet
<1>6. \A c \in Conversations : live[c] # p
  BY <1>0, <1>2, SessionConstants DEF LivePiRuns, TypeOK
<1> HIDE DEF p
<1>7. LivePiRuns'
  BY <1>0, <1>3, <1>4, <1>6 DEF LivePiRuns, TypeOK
<1>8. ConfirmationHasViewer'
  BY <1>0, <1>3 DEF ConfirmationHasViewer, Viewed
<1> QED BY <1>4, <1>5, <1>7, <1>8 DEF IInv

LEMMA RecoveryAside ==
  ASSUME NEW js \in [Jobs -> JobType], NEW c \in Conversations, NEW k \in Jobs
  PROVE  \/ Recovery(js, c)[k] = js[k]
         \/ /\ js[k].pc = "idle"
            /\ Recovery(js, c)[k].pc = "find" /\ Recovery(js, c)[k].proc = None
<1>1. NewJob("recover", "find", c, {}).pc = "find" /\ NewJob("recover", "find", c, {}).proc = None
  BY NewJobType DEF Kinds, Phases
<1> QED BY <1>1, JobIds DEF Recovery

LEMMA OpenedLostKeeps ==
  ASSUME IInv, TypeOK', NEW j \in Jobs, OpenedLost(j)
  PROVE  IInv'
<1> USE DEF clientVars, diskVars, sessionVars, OpenPhases
<1> DEFINE p == job[j].proc
<1>0. TypeOK /\ JobsHoldLaunches /\ UnreportedIsQuiet /\ LivePiRuns /\ ConfirmationHasViewer
  BY DEF IInv
<1>1. JobEnds(j)
  BY <1>0, EndedAside DEF OpenedLost, EndWithout
<1>2. p \in Procs /\ live[convOf[p]] # p
  BY <1>0, JobIsRecord DEF OpenedLost, JobsHoldLaunches
<1>3. UNCHANGED <<live, pi, convOf, turn, confirms, viewing>>
  BY DEF OpenedLost
<1>4. /\ JobsHoldLaunches' /\ LaunchHasOneJob'
      /\ \A q \in Procs : q # p => (Opening(q) => Opening(q)')
  BY <1>1, <1>3, EndsLaunches
<1>5. \A c \in Conversations : live[c] # p
  BY <1>0, <1>2, SessionConstants DEF LivePiRuns, TypeOK
<1> HIDE DEF p
<1>6. LivePiRuns'
  BY <1>0, <1>3, <1>4, <1>5 DEF LivePiRuns, TypeOK
<1> QED
  BY <1>0, <1>3, <1>4, <1>6 DEF IInv, UnreportedIsQuiet, ConfirmationHasViewer, Viewed

LEMMA OpenedDeadKeeps ==
  ASSUME IInv, TypeOK', NEW j \in Jobs, OpenedDead(j)
  PROVE  IInv'
<1> USE DEF clientVars, diskVars, OpenPhases
<1> DEFINE p == job[j].proc
           c == convOf[p]
<1>0. TypeOK /\ JobsHoldLaunches /\ UnreportedIsQuiet /\ LivePiRuns /\ ConfirmationHasViewer
  BY DEF IInv
<1>1. p \in Procs /\ c \in Conversations /\ live[c] = p
  BY <1>0, JobIsRecord DEF OpenedDead, JobsHoldLaunches, TypeOK
<1>2. JobEnds(j)
  <2> DEFINE js == JobsAfter(j)
  <2>1. js \in [Jobs -> JobType]
    BY <1>0, JobsAfterType
  <2>2. js[j].pc \notin OpenPhases /\ js[j].proc = None
    <3>1. job[j] \in JobType /\ j \in EndedWith(j)
      BY <1>0, JobIsRecord DEF EndedWith
    <3> QED BY <3>1, NoJobFields DEF JobsAfter, After, JobType
  <2>3. \A k \in Jobs : k # j =>
           \/ js[k] = job[k]
           \/ /\ job[k].pc \notin OpenPhases
              /\ js[k].pc = "idle" /\ js[k].proc = None
    BY NoJobFields DEF JobsAfter, After, EndedWith, Joined, Fallbacks
  <2>4. CASE job' = js
    BY <2>2, <2>3, <2>4 DEF JobEnds, Same, Aside
  <2>5. CASE job' = Recovery(js, c)
    <3>1. \A k \in Jobs :
            \/ job'[k] = js[k]
            \/ js[k].pc = "idle" /\ job'[k].pc = "find" /\ job'[k].proc = None
      BY <1>1, <2>1, <2>5, RecoveryAside
    <3> QED BY <2>2, <2>3, <3>1 DEF JobEnds, Same, Aside
  <2> QED BY <2>4, <2>5 DEF OpenedDead
<1>3. /\ live' = [live EXCEPT ![c] = None]
      /\ confirms' = [confirms EXCEPT ![p] = {}]
      /\ turn' = [turn EXCEPT ![p] = FALSE]
      /\ UNCHANGED <<pi, convOf, viewing>>
  BY DEF OpenedDead
<1>4. /\ JobsHoldLaunches' /\ LaunchHasOneJob'
      /\ \A q \in Procs : q # p => (Opening(q) => Opening(q)')
  BY <1>2, <1>3, EndsLaunches
<1>5. \A d \in Conversations : live'[d] # None =>
        live'[d] = live[d] /\ live[d] \in Procs /\ live[d] # p /\ confirms'[live[d]] = confirms[live[d]]
  BY <1>0, <1>1, <1>3 DEF LivePiRuns, TypeOK
<1> HIDE DEF p, c
<1>6. UnreportedIsQuiet'
  BY <1>0, <1>1, <1>3 DEF UnreportedIsQuiet, TypeOK
<1>7. LivePiRuns'
  BY <1>0, <1>3, <1>4, <1>5 DEF LivePiRuns
<1>8. ConfirmationHasViewer'
  BY <1>0, <1>3, <1>5 DEF ConfirmationHasViewer, Viewed
<1> QED BY <1>4, <1>6, <1>7, <1>8 DEF IInv

LEMMA OpenedKeeps ==
  ASSUME IInv, TypeOK', NEW j \in Jobs, Opened(j)
  PROVE  IInv'
<1> USE DEF diskVars, OpenPhases
<1> DEFINE p == job[j].proc
           c == convOf[p]
           view == Pointed(Audience(j, c), c)
<1>0. TypeOK /\ JobsHoldLaunches /\ UnreportedIsQuiet /\ LivePiRuns /\ ConfirmationHasViewer
  BY DEF IInv
<1>1. p \in Procs /\ c \in Conversations /\ live[c] = p
  BY <1>0, JobIsRecord DEF Opened, JobsHoldLaunches, TypeOK
<1>2. pi[p] = "up"
  <2>1. p # None /\ pi[p] # "dead"
    BY <1>1, SessionConstants DEF Opened
  <2> HIDE DEF p, c
  <2> QED BY <1>0, <1>1, <2>1 DEF LivePiRuns
<1>3. JobEnds(j)
  BY <1>0, EndedAside DEF Opened
<1>4. viewing' = view /\ UNCHANGED convOf
  BY DEF Opened
<1>5. \/ /\ live' = [live EXCEPT ![c] = None]
         /\ pi' = [pi EXCEPT ![p] = "closed"]
         /\ turn' = [turn EXCEPT ![p] = FALSE]
         /\ confirms' = [DeniedBy(view) EXCEPT ![p] = {}]
      \/ confirms' = DeniedBy(view) /\ UNCHANGED <<live, pi, turn>>
  BY DEF Opened
<1>6. DeniedBy(view) \in [Procs -> SUBSET Requests]
  BY <1>0, DeniedByType
<1> HIDE DEF p, c, view
<1>7. /\ \A q \in Procs : q # p => pi'[q] = pi[q]
      /\ \A q \in Procs : pi'[q] = "unused" <=> pi[q] = "unused"
  BY <1>0, <1>1, <1>2, <1>5 DEF TypeOK
<1>8. /\ JobsHoldLaunches' /\ LaunchHasOneJob'
      /\ \A q \in Procs : q # p => (Opening(q) => Opening(q)')
  BY <1>3, <1>4, <1>7, EndsLaunches DEF p
<1>9. \A q \in Procs : confirms'[q] \subseteq DeniedBy(view)[q] /\ DeniedBy(view)[q] \subseteq confirms[q]
  BY <1>1, <1>5, <1>6 DEF DeniedBy
<1>10. UnreportedIsQuiet'
  BY <1>0, <1>1, <1>4, <1>5, <1>7, <1>9 DEF UnreportedIsQuiet, TypeOK
<1>11. \A d \in Conversations : live'[d] # None =>
         /\ live'[d] = live[d] /\ live[d] \in Procs
         /\ (live[d] = p => pi'[p] = pi[p])
  BY <1>0, <1>1, <1>5 DEF LivePiRuns, TypeOK
<1>12. LivePiRuns'
  BY <1>0, <1>2, <1>4, <1>7, <1>8, <1>11 DEF LivePiRuns
<1>13. ConfirmationHasViewer'
  <2> SUFFICES ASSUME NEW d \in Conversations, live'[d] # None, confirms'[live'[d]] # {}
               PROVE  Viewed(viewing', d)
    BY DEF ConfirmationHasViewer, Viewed
  <2>1. live'[d] = live[d] /\ live[d] \in Procs
    BY <1>11
  <2>2. DeniedBy(view)[live[d]] # {} /\ confirms[live[d]] # {}
    BY <1>9, <2>1
  <2>3. Viewed(viewing, d)
    BY <1>0, <2>1, <2>2, SessionConstants DEF ConfirmationHasViewer
  <2> QED BY <1>4, <2>1, <2>2, <2>3 DEF DeniedBy
<1> QED BY <1>8, <1>10, <1>12, <1>13 DEF IInv

LEMMA PiDiesKeeps ==
  ASSUME IInv, TypeOK', NEW p \in Procs, PiDies(p)
  PROVE  IInv'
<1> USE DEF clientVars, diskVars, OpenPhases
<1>0. TypeOK /\ JobsHoldLaunches /\ LaunchHasOneJob /\ UnreportedIsQuiet
      /\ LivePiRuns /\ ConfirmationHasViewer
  BY DEF IInv
<1>1. /\ pi' = [pi EXCEPT ![p] = "dead"] /\ pi[p] \in {"starting", "up"}
      /\ UNCHANGED <<convOf, viewing>>
  BY DEF PiDies
<1>2. \A q \in Procs : /\ pi[q] = "starting" => pi'[q] \in {"starting", "dead"}
                       /\ pi[q] = "dead" => pi'[q] = "dead"
                       /\ pi'[q] = "unused" <=> pi[q] = "unused"
                       /\ q # p => pi'[q] = pi[q]
  BY <1>0, <1>1 DEF TypeOK
<1>3. CASE p \in LiveProcs /\ ~Opening(p)
  <2> DEFINE c == convOf[p]
  <2>1. c \in Conversations /\ live[c] = p
    BY <1>0, <1>3, SessionConstants DEF LiveProcs, LivePiRuns, TypeOK
  <2>2. /\ live' = [live EXCEPT ![c] = None]
        /\ confirms' = [confirms EXCEPT ![p] = {}]
        /\ turn' = [turn EXCEPT ![p] = FALSE]
        /\ job' = Recovery(job, c)
    BY <1>3 DEF PiDies
  <2>3. JobsKept
    BY <1>0, <2>1, <2>2, RecoveryAside DEF JobsKept, Same, Aside, TypeOK
  <2>4. JobsHoldLaunches' /\ LaunchHasOneJob' /\ (\A q \in Procs : Opening(q) => Opening(q)')
    BY <1>1, <1>2, <2>3, KeptLaunches
  <2> HIDE DEF c
  <2>5. \A d \in Conversations : live'[d] # None =>
          live'[d] = live[d] /\ live[d] \in Procs /\ live[d] # p /\ confirms'[live[d]] = confirms[live[d]]
    BY <1>0, <2>1, <2>2 DEF LivePiRuns, TypeOK, c
  <2>6. UnreportedIsQuiet'
    BY <1>0, <1>1, <1>2, <2>2 DEF UnreportedIsQuiet, TypeOK
  <2>7. LivePiRuns'
    BY <1>0, <1>1, <1>2, <2>4, <2>5 DEF LivePiRuns
  <2>8. ConfirmationHasViewer'
    BY <1>0, <1>1, <2>5 DEF ConfirmationHasViewer, Viewed
  <2> QED BY <2>4, <2>6, <2>7, <2>8 DEF IInv
<1>4. CASE ~(p \in LiveProcs /\ ~Opening(p))
  <2>1. UNCHANGED <<live, confirms, turn, job>>
    BY <1>4 DEF PiDies
  <2>2. JobsKept
    BY <2>1 DEF JobsKept, Same
  <2>3. JobsHoldLaunches' /\ LaunchHasOneJob' /\ (\A q \in Procs : Opening(q) => Opening(q)')
    BY <1>1, <1>2, <2>2, KeptLaunches
  <2>4. UnreportedIsQuiet'
    BY <1>0, <1>1, <1>2, <2>1 DEF UnreportedIsQuiet
  <2>5. \A d \in Conversations : live[d] = p => Opening(p)
    BY <1>4 DEF LiveProcs
  <2>6. LivePiRuns'
    BY <1>0, <1>1, <1>2, <2>1, <2>3, <2>5 DEF LivePiRuns, TypeOK
  <2>7. ConfirmationHasViewer'
    BY <1>0, <1>1, <2>1 DEF ConfirmationHasViewer, Viewed
  <2> QED BY <2>3, <2>4, <2>6, <2>7 DEF IInv
<1> QED BY <1>3, <1>4

-----------------------------------------------------------------------------
(* The theorems. *)

LEMMA InitIInv == Init => IInv
<1> SUFFICES ASSUME Init PROVE IInv
  OBVIOUS
<1>1. TypeOK
  BY InitType
<1>2. \A j \in Jobs : job[j].pc = "idle" /\ job[j].proc = None
  BY NoJobFields DEF Init
<1> QED
  BY <1>1, <1>2 DEF Init, IInv, JobsHoldLaunches, LaunchHasOneJob, UnreportedIsQuiet,
     LivePiRuns, ConfirmationHasViewer

LEMMA NextIInv == IInv /\ [Next]_vars => IInv'
<1> SUFFICES ASSUME IInv, [Next]_vars PROVE IInv'
  OBVIOUS
<1>0. TypeOK'
  BY NextType
<1>1. CASE UNCHANGED vars
  BY <1>1 DEF vars, IInv, TypeOK, JobsHoldLaunches, LaunchHasOneJob, UnreportedIsQuiet,
     LivePiRuns, ConfirmationHasViewer, Viewed, Opening
<1>2. ASSUME NEW j \in Jobs, OpenStep(j) PROVE IInv'
  BY <1>0, <1>2, ShowSteps, ShowKeeps, LaunchKeeps, BootedKeeps, BootEndsKeeps,
     OpenedDeadKeeps, OpenedLostKeeps, OpenedKeeps DEF OpenStep
<1>3. CASE JobStep
  BY <1>0, <1>2, <1>3, ShowSteps, ShowKeeps, StopSteps, StopKeeps DEF JobStep
<1>4. CASE ClientStep
  BY <1>0, <1>4, ShowSteps, ShowKeeps, WorkSteps, WorkKeeps DEF ClientStep
<1>5. CASE PiStep
  BY <1>0, <1>5, WorkSteps, WorkKeeps, PiDiesKeeps DEF PiStep
<1>6. CASE MaintenanceStep
  BY <1>0, <1>6, ShowSteps, ShowKeeps, StopSteps, StopKeeps DEF MaintenanceStep
<1>7. CASE DrainStep
  BY <1>0, <1>7, ShowSteps, ShowKeeps, StopSteps, StopKeeps DEF DrainStep
<1> QED BY <1>1, <1>3, <1>4, <1>5, <1>6, <1>7 DEF Next

\* IInv, and with it every part of it, holds in every reachable state of Core.
THEOREM IInvHolds == Spec => []IInv
<1>1. Init => IInv
  BY InitIInv
<1>2. IInv /\ [Next]_vars => IInv'
  BY NextIInv
<1> QED BY <1>1, <1>2, PTL DEF Spec

\* The variables keep their types.
THEOREM TypeCorrect == Spec => []TypeOK
<1>1. IInv => TypeOK
  BY DEF IInv
<1> QED BY <1>1, IInvHolds, PTL

\* A permission request of an open conversation waits only while a client
\* looks at that conversation.
THEOREM ConfirmationsAreWatched == Spec => []ConfirmationHasViewer
<1>1. IInv => ConfirmationHasViewer
  BY DEF IInv
<1> QED BY <1>1, IInvHolds, PTL

\* The map of open conversations names processes that run, each serving the
\* conversation it is filed under.
THEOREM OpenConversationsRun == Spec => []LivePiRuns
<1>1. IInv => LivePiRuns
  BY DEF IInv
<1> QED BY <1>1, IInvHolds, PTL

\* What a step may do to the map of open conversations.
StaysOut ==
  \A p \in Procs : convOf[p] # None =>
    /\ convOf'[p] = convOf[p]
    /\ (\A c \in Conversations : live[c] # p) => (\A c \in Conversations : live'[c] # p)

LEMMA LiveShrinks ==
  ASSUME UNCHANGED convOf,
         \A c \in Conversations : live'[c] = live[c] \/ live'[c] = None
  PROVE  StaysOut
BY SessionConstants DEF StaysOut

LEMMA NextStaysOut == IInv /\ [Next]_vars => StaysOut
<1> SUFFICES ASSUME IInv, [Next]_vars PROVE StaysOut
  OBVIOUS
<1> USE DEF clientVars, diskVars, sessionVars
<1>0. TypeOK /\ JobsHoldLaunches
  BY DEF IInv
<1>1. CASE UNCHANGED vars
  BY <1>1, LiveShrinks DEF vars
<1>2. CASE ShowStep
  BY <1>2, LiveShrinks DEF ShowStep
<1>3. CASE StopStep
  BY <1>0, <1>3, LiveShrinks DEF StopStep, StopAll, TypeOK
<1>4. CASE WorkStep
  BY <1>4, LiveShrinks DEF WorkStep
<1>5. ASSUME NEW p \in Procs, PiDies(p) PROVE StaysOut
  BY <1>0, <1>5, LiveShrinks DEF PiDies, TypeOK
<1>6. ASSUME NEW j \in Jobs, NEW c \in Conversations, Booted(j, c) PROVE StaysOut
  <2> DEFINE p == job[j].proc
  <2>1. p \in Procs /\ convOf[p] = None
    BY <1>0, <1>6, JobIsRecord DEF Booted, JobsHoldLaunches
  <2>2. convOf' = [convOf EXCEPT ![p] = c] /\ live' = [live EXCEPT ![c] = p]
    BY <1>6 DEF Booted
  <2> HIDE DEF p
  <2> QED BY <1>0, <2>1, <2>2 DEF StaysOut, TypeOK
<1>7. ASSUME NEW j \in Jobs, NEW p \in Procs, Launch(j, p) PROVE StaysOut
  BY <1>7, LiveShrinks DEF Launch
<1>8. ASSUME NEW j \in Jobs, BootFailed(j) \/ BootRejected(j) \/ OpenedLost(j)
      PROVE  StaysOut
  BY <1>8, LiveShrinks DEF BootFailed, BootRejected, OpenedLost
<1>9. ASSUME NEW j \in Jobs, OpenedDead(j) PROVE StaysOut
  BY <1>0, <1>9, LiveShrinks DEF OpenedDead, TypeOK
<1>10. ASSUME NEW j \in Jobs, Opened(j) PROVE StaysOut
  BY <1>0, <1>10, LiveShrinks DEF Opened, TypeOK
<1>11. ASSUME NEW j \in Jobs, OpenStep(j) PROVE StaysOut
  BY <1>2, <1>6, <1>7, <1>8, <1>9, <1>10, <1>11, ShowSteps DEF OpenStep
<1>12. CASE JobStep
  BY <1>2, <1>3, <1>11, <1>12, ShowSteps, StopSteps DEF JobStep
<1>13. CASE ClientStep
  BY <1>2, <1>4, <1>13, ShowSteps, WorkSteps DEF ClientStep
<1>14. CASE PiStep
  BY <1>4, <1>5, <1>14, WorkSteps DEF PiStep
<1>15. CASE MaintenanceStep
  BY <1>2, <1>3, <1>15, ShowSteps, StopSteps DEF MaintenanceStep
<1>16. CASE DrainStep
  BY <1>2, <1>3, <1>16, ShowSteps, StopSteps DEF DrainStep
<1> QED BY <1>1, <1>12, <1>13, <1>14, <1>15, <1>16 DEF Next

\* Comparing `live.get(id)` with the session object a callback holds tells
\* whether it is still the open one: a launch that left the map is never put
\* back, and its conversation never changes.
THEOREM NoComeback == Spec => NeverLiveAgain
<1>1. IInv /\ [Next]_vars => StaysOut
  BY NextStaysOut
<1>2. IInv /\ [Next]_vars =>
        [\A p \in Procs : convOf[p] # None =>
           /\ convOf'[p] = convOf[p]
           /\ (\A c \in Conversations : live[c] # p) => (\A c \in Conversations : live'[c] # p)]_vars
  BY <1>1 DEF StaysOut
<1> QED BY <1>2, IInvHolds, PTL DEF Spec, NeverLiveAgain

-----------------------------------------------------------------------------
(* A crash in front of a viewer. *)

\* c loses its Pi to a crash, found out by onClose or by the open() that had
\* started it, while Core takes work and somebody looks.
LosesPi(c) ==
  /\ live[c] # None /\ live'[c] = None /\ pi'[live[c]] = "dead"
  /\ \/ pi[live[c]] = "up"
     \/ \E j \in Jobs : job[j].proc = live[c] /\ job'[j].proc # live[c]
  /\ core = "accepting" /\ Viewers(c) # {}

LEMMA RecoveryStarts ==
  ASSUME NEW js \in [Jobs -> JobType], NEW c \in Conversations,
         core = "accepting", Viewers(c) # {}
  PROVE  Recovery(js, c)[c].pc # "idle"
<1>1. NewJob("recover", "find", c, {}).pc = "find"
  BY NewJobType DEF Kinds, Phases
<1> QED BY <1>1, JobIds DEF Recovery

LEMMA StoppedIsNoCrash ==
  ASSUME IInv, StopStep, NEW c \in Conversations
  PROVE  ~LosesPi(c)
<1>0. TypeOK /\ JobsHoldLaunches /\ LivePiRuns
  BY DEF IInv
<1> SUFFICES ASSUME LosesPi(c) PROVE FALSE
  OBVIOUS
<1>1. PICK cs : StopAll(cs)
  BY DEF StopStep
<1>2. live[c] \in Procs /\ live'[c] = None /\ pi'[live[c]] = "dead"
  BY <1>0 DEF LosesPi, TypeOK
<1>3. c \in cs
  BY <1>1, <1>2, SessionConstants DEF StopAll
<1>4. pi[live[c]] # "up"
  BY <1>1, <1>2, <1>3 DEF StopAll
<1>5. PICK j \in Jobs : job[j].proc = live[c] /\ job'[j].proc # live[c]
  BY <1>4 DEF LosesPi
<1>6. live[c] # None
  BY DEF LosesPi
<1> QED
  BY <1>0, <1>5, <1>6 DEF StopStep, JobsKept, Same, Aside, JobsHoldLaunches, OpenPhases

LEMMA NextRecovers ==
  ASSUME IInv, [Next]_vars, NEW c \in Conversations, LosesPi(c)
  PROVE  Recovering(c) \/ Recovering(c)'
<1> USE DEF clientVars, diskVars, sessionVars
<1>0. TypeOK /\ JobsHoldLaunches /\ LivePiRuns
  BY DEF IInv
<1>1. live[c] # live'[c] /\ live'[c] = None /\ live[c] \in Procs
  BY <1>0 DEF LosesPi, TypeOK
<1>2. CASE ShowStep \/ WorkStep \/ UNCHANGED vars
  BY <1>1, <1>2 DEF ShowStep, WorkStep, vars
<1>3. CASE StopStep
  BY <1>3, StoppedIsNoCrash
<1>4. ASSUME NEW p \in Procs, PiDies(p) PROVE Recovering(c) \/ Recovering(c)'
  <2>1. live' = [live EXCEPT ![convOf[p]] = None] /\ job' = Recovery(job, convOf[p])
    BY <1>1, <1>4 DEF PiDies
  <2>2. c = convOf[p]
    BY <1>0, <1>1, <2>1 DEF TypeOK
  <2>3. job'[c].pc # "idle"
    BY <1>0, <2>1, <2>2, RecoveryStarts DEF LosesPi, TypeOK
  <2> QED BY <2>3 DEF Recovering
<1>5. ASSUME NEW j \in Jobs, OpenedDead(j) PROVE Recovering(c) \/ Recovering(c)'
  <2> DEFINE d == convOf[job[j].proc]
             js == JobsAfter(j)
  <2>1. live' = [live EXCEPT ![d] = None] /\ job[j].pc = "status"
        /\ job' = IF j = d THEN js ELSE Recovery(js, d)
    BY <1>5 DEF OpenedDead
  <2>2. js \in [Jobs -> JobType]
    BY <1>0, JobsAfterType
  <2> HIDE DEF d, js
  <2>3. c = d
    BY <1>0, <1>1, <2>1 DEF TypeOK
  <2>4. CASE j = d
    BY <2>1, <2>3, <2>4 DEF Recovering
  <2>5. CASE j # d
    BY <2>1, <2>2, <2>3, <2>5, RecoveryStarts DEF Recovering, LosesPi
  <2> QED BY <2>4, <2>5
<1>6. ASSUME NEW j \in Jobs, Opened(j) PROVE FALSE
  <2> DEFINE p == job[j].proc
  <2>1. p \in Procs
    BY <1>0, <1>6, JobIsRecord DEF Opened, JobsHoldLaunches
  <2>2. live[convOf[p]] = p
        /\ \/ UNCHANGED <<live, pi>>
           \/ live' = [live EXCEPT ![convOf[p]] = None] /\ pi' = [pi EXCEPT ![p] = "closed"]
    BY <1>6 DEF Opened
  <2> HIDE DEF p
  <2>3. c = convOf[p] /\ pi' = [pi EXCEPT ![p] = "closed"]
    BY <1>0, <1>1, <2>2 DEF TypeOK
  <2>4. pi'[live[c]] = "closed"
    BY <1>0, <2>1, <2>2, <2>3 DEF TypeOK
  <2> QED BY <2>4 DEF LosesPi
<1>7. ASSUME NEW j \in Jobs, NEW d \in Conversations, Booted(j, d) PROVE FALSE
  <2>1. live' = [live EXCEPT ![d] = job[j].proc] /\ job[j].proc # None
    BY <1>0, <1>7 DEF Booted, JobsHoldLaunches
  <2> QED BY <1>0, <1>1, <2>1 DEF TypeOK
<1>8. ASSUME NEW j \in Jobs, NEW p \in Procs, Launch(j, p) PROVE FALSE
  BY <1>1, <1>8 DEF Launch
<1>9. ASSUME NEW j \in Jobs, BootFailed(j) \/ BootRejected(j) \/ OpenedLost(j) PROVE FALSE
  BY <1>1, <1>9 DEF BootFailed, BootRejected, OpenedLost
<1>10. ASSUME NEW j \in Jobs, OpenStep(j) PROVE Recovering(c) \/ Recovering(c)'
  BY <1>2, <1>5, <1>6, <1>7, <1>8, <1>9, <1>10, ShowSteps DEF OpenStep
<1>11. CASE JobStep
  BY <1>2, <1>3, <1>10, <1>11, ShowSteps, StopSteps DEF JobStep
<1>12. CASE ClientStep
  BY <1>2, <1>12, ShowSteps, WorkSteps DEF ClientStep
<1>13. CASE PiStep
  BY <1>2, <1>4, <1>13, WorkSteps DEF PiStep
<1>14. CASE MaintenanceStep
  BY <1>2, <1>3, <1>14, ShowSteps, StopSteps DEF MaintenanceStep
<1>15. CASE DrainStep
  BY <1>2, <1>3, <1>15, ShowSteps, StopSteps DEF DrainStep
<1> QED BY <1>2, <1>11, <1>12, <1>13, <1>14, <1>15 DEF Next

\* A watched conversation whose Pi crashes is being restarted at once,
\* whichever of the two places where an exit is found out comes first: onClose,
\* or the open() that is still reading the status of what it started.
THEOREM CrashStartsRecovery == Spec => CrashIsRecovered
<1>1. IInv /\ [Next]_vars =>
        \A c \in Conversations : LosesPi(c) => Recovering(c) \/ Recovering(c)'
  BY NextRecovers
<1>2. IInv /\ [Next]_vars =>
        [\A c \in Conversations :
           /\ live[c] # None /\ live'[c] = None /\ pi'[live[c]] = "dead"
           /\ \/ pi[live[c]] = "up"
              \/ \E j \in Jobs : job[j].proc = live[c] /\ job'[j].proc # live[c]
           /\ core = "accepting" /\ Viewers(c) # {}
           => Recovering(c) \/ Recovering(c)']_vars
  BY <1>1 DEF LosesPi
<1> QED BY <1>2, IInvHolds, PTL DEF Spec, CrashIsRecovered

-----------------------------------------------------------------------------
(* SessionTurn: pipes *)

LEMMA PipeIs ==
  ASSUME NEW S, NEW s \in Seq(S)
  PROVE  Pipe(s) /\ Len(s) \in Nat
<1>1. Len(s) \in Nat /\ DOMAIN s = 1..Len(s) /\ s \in [1..Len(s) -> S]
  BY LenProperties
<1>2. s = [i \in 1..Len(s) |-> s[i]]
  BY <1>1
<1>3. s \in [1..Len(s) -> Elements(s)]
  BY <1>2 DEF Elements
<1>4. s \in Seq(Elements(s))
  BY <1>1, <1>3
<1> QED
  BY <1>1, <1>4 DEF Pipe

LEMMA EmptyPipe == Pipe(<<>>) /\ Len(<<>>) = 0
BY EmptySeq, PipeIs

LEMMA SinglePipe ==
  ASSUME NEW e
  PROVE  Pipe(<<e>>) /\ Len(<<e>>) = 1 /\ <<e>>[1] = e
<1>1. <<e>> \in Seq({e})
  OBVIOUS
<1> QED
  BY <1>1, PipeIs

LEMMA JoinedPipe ==
  ASSUME NEW s, NEW t, Pipe(s), Pipe(t)
  PROVE  /\ Pipe(s \o t) /\ Len(s) \in Nat /\ Len(t) \in Nat /\ Len(s \o t) = Len(s) + Len(t)
         /\ \A i \in 1..Len(s) : (s \o t)[i] = s[i]
         /\ \A i \in 1..Len(t) : (s \o t)[Len(s) + i] = t[i]
<1> DEFINE S == Elements(s) \cup Elements(t)
<1>1. s \in Seq(S) /\ t \in Seq(S)
  BY SeqMonotonic DEF Pipe
<1> HIDE DEF S
<1>2. /\ s \o t \in Seq(S) /\ Len(s \o t) = Len(s) + Len(t)
      /\ \A i \in 1..Len(s) + Len(t) : (s \o t)[i] = IF i <= Len(s) THEN s[i] ELSE t[i - Len(s)]
  BY <1>1, ConcatProperties
<1>3. Len(s) \in Nat /\ Len(t) \in Nat
  BY <1>1, LenProperties
<1>4. Pipe(s \o t)
  BY <1>2, PipeIs
<1> QED
  BY <1>2, <1>3, <1>4

\* Append is a concatenation.
LEMMA AppendedPipe ==
  ASSUME NEW s, NEW e, Pipe(s)
  PROVE  Append(s, e) = s \o <<e>>
<1>1. s \in Seq(Elements(s) \cup {e}) /\ <<e>> \in Seq(Elements(s) \cup {e})
  BY SeqMonotonic DEF Pipe
<1> QED
  BY <1>1

LEMMA RestPipe ==
  ASSUME NEW s, Pipe(s), s # <<>>
  PROVE  /\ Pipe(Tail(s)) /\ Len(s) \in Nat \ {0} /\ Len(Tail(s)) = Len(s) - 1 /\ Head(s) = s[1]
         /\ \A i \in 1..Len(s) - 1 : Tail(s)[i] = s[i + 1]
<1>1. s \in Seq(Elements(s))
  BY DEF Pipe
<1>2. /\ Tail(s) \in Seq(Elements(s)) /\ Len(Tail(s)) = Len(s) - 1
      /\ \A i \in 1..Len(Tail(s)) : Tail(s)[i] = s[i + 1]
  BY <1>1, HeadTailProperties
<1>3. Len(s) \in Nat \ {0}
  BY <1>1, EmptySeq
<1>4. Head(s) = s[1]
  BY <1>1
<1>5. Pipe(Tail(s))
  BY <1>2, PipeIs
<1> QED
  BY <1>2, <1>3, <1>4, <1>5

LEMMA JoinedTells ==
  ASSUME NEW s, NEW t, Pipe(s), Pipe(t), NEW type, NEW id
  PROVE  /\ Told(s \o t, type, id) <=> Told(s, type, id) \/ Told(t, type, id)
         /\ Once(s, type, id) /\ Once(t, type, id) /\ ~(Told(s, type, id) /\ Told(t, type, id))
              => Once(s \o t, type, id)
<1> DEFINE st == s \o t
           Is(l) == l.type = type /\ l.id = id
<1>1. /\ Len(s) \in Nat /\ Len(t) \in Nat /\ Len(st) = Len(s) + Len(t)
      /\ \A i \in 1..Len(s) : st[i] = s[i]
      /\ \A i \in 1..Len(t) : st[Len(s) + i] = t[i]
  BY JoinedPipe
<1> HIDE DEF st
<1>2. ASSUME NEW i \in 1..Len(st)
      PROVE  i \in 1..Len(s) \/ (i - Len(s) \in 1..Len(t) /\ st[i] = t[i - Len(s)])
  <2>1. CASE i > Len(s)
    <3>1. i - Len(s) \in 1..Len(t) /\ Len(s) + (i - Len(s)) = i
      BY <1>1, <2>1
    <3> QED
      BY <1>1, <3>1
  <2>2. CASE i <= Len(s)
    BY <1>1, <2>2
  <2> QED
    BY <1>1, <2>1, <2>2
<1>3. Told(st, type, id) <=> Told(s, type, id) \/ Told(t, type, id)
  <2>1. ASSUME Told(st, type, id) PROVE Told(s, type, id) \/ Told(t, type, id)
    <3>1. PICK i \in 1..Len(st) : Is(st[i])
      BY <2>1 DEF Told
    <3> QED
      BY <1>1, <1>2, <3>1 DEF Told
  <2>2. ASSUME Told(s, type, id) PROVE Told(st, type, id)
    BY <1>1, <2>2 DEF Told
  <2>3. ASSUME Told(t, type, id) PROVE Told(st, type, id)
    <3>1. PICK i \in 1..Len(t) : Is(t[i])
      BY <2>3 DEF Told
    <3>2. Len(s) + i \in 1..Len(st) /\ st[Len(s) + i] = t[i]
      BY <1>1
    <3> QED
      BY <3>1, <3>2 DEF Told
  <2> QED
    BY <2>1, <2>2, <2>3
<1>4. ASSUME Once(s, type, id), Once(t, type, id), ~(Told(s, type, id) /\ Told(t, type, id))
      PROVE  Once(st, type, id)
  <2> SUFFICES ASSUME NEW i \in 1..Len(st), NEW k \in 1..Len(st), Is(st[i]), Is(st[k])
               PROVE  i = k
    BY DEF Once
  <2>1. CASE i \in 1..Len(s) /\ k \in 1..Len(s)
    BY <1>1, <1>4, <2>1 DEF Once
  <2>2. CASE i \notin 1..Len(s) /\ k \notin 1..Len(s)
    <3>1. /\ i - Len(s) \in 1..Len(t) /\ k - Len(s) \in 1..Len(t)
          /\ Is(t[i - Len(s)]) /\ Is(t[k - Len(s)])
      BY <1>2, <2>2
    <3>2. i - Len(s) = k - Len(s)
      BY <1>4, <3>1 DEF Once
    <3> QED
      BY <1>1, <3>2
  <2>3. ASSUME NEW x \in {i, k}, NEW y \in {i, k}, x \in 1..Len(s), y \notin 1..Len(s)
        PROVE  FALSE
    <3>1. Is(st[x]) /\ Is(st[y])
      OBVIOUS
    <3>2. Told(s, type, id)
      BY <1>1, <2>3, <3>1 DEF Told
    <3>3. Told(t, type, id)
      BY <1>2, <2>3, <3>1 DEF Told
    <3> QED
      BY <1>4, <3>2, <3>3
  <2> QED
    BY <2>1, <2>2, <2>3
<1> QED
  BY <1>3, <1>4 DEF st

LEMMA SingleTells ==
  ASSUME NEW e, NEW type, NEW id
  PROVE  /\ Told(<<e>>, type, id) <=> e.type = type /\ e.id = id
         /\ Once(<<e>>, type, id)
BY SinglePipe DEF Told, Once

LEMMA EmptyTells ==
  ASSUME NEW type, NEW id
  PROVE  ~Told(<<>>, type, id) /\ Once(<<>>, type, id)
BY EmptyPipe DEF Told, Once

LEMMA RestTells ==
  ASSUME NEW s, Pipe(s), s # <<>>, NEW type, NEW id
  PROVE  /\ Told(s, type, id) <=> (Head(s).type = type /\ Head(s).id = id) \/ Told(Tail(s), type, id)
         /\ Once(s, type, id) => Once(Tail(s), type, id)
         /\ Once(s, type, id) /\ Head(s).type = type /\ Head(s).id = id => ~Told(Tail(s), type, id)
<1> DEFINE t == Tail(s)
           Is(l) == l.type = type /\ l.id = id
<1>1. /\ Len(s) \in Nat \ {0} /\ Len(t) = Len(s) - 1 /\ Head(s) = s[1]
      /\ \A i \in 1..Len(s) - 1 : t[i] = s[i + 1]
  BY RestPipe
<1> HIDE DEF t
<1>2. \A i \in 1..Len(t) : i + 1 \in 1..Len(s) /\ t[i] = s[i + 1] /\ i + 1 # 1
  BY <1>1
<1>3. ASSUME NEW i \in 1..Len(s), i # 1
      PROVE  i - 1 \in 1..Len(t) /\ t[i - 1] = s[i]
  <2>1. i - 1 \in 1..Len(s) - 1 /\ (i - 1) + 1 = i
    BY <1>1, <1>3
  <2> QED
    BY <1>1, <2>1
<1>4. Told(s, type, id) <=> Is(Head(s)) \/ Told(t, type, id)
  <2>1. ASSUME Told(s, type, id), ~Is(Head(s)) PROVE Told(t, type, id)
    <3>1. PICK i \in 1..Len(s) : Is(s[i])
      BY <2>1 DEF Told
    <3> QED
      BY <1>1, <1>3, <2>1, <3>1 DEF Told
  <2>2. ASSUME Is(Head(s)) PROVE Told(s, type, id)
    BY <1>1, <2>2 DEF Told
  <2>3. ASSUME Told(t, type, id) PROVE Told(s, type, id)
    BY <1>2, <2>3 DEF Told
  <2> QED
    BY <2>1, <2>2, <2>3
<1>5. ASSUME Once(s, type, id) PROVE Once(t, type, id)
  <2> SUFFICES ASSUME NEW i \in 1..Len(t), NEW k \in 1..Len(t), Is(t[i]), Is(t[k])
               PROVE  i = k
    BY DEF Once
  <2>1. i + 1 = k + 1
    BY <1>2, <1>5 DEF Once
  <2> QED
    BY <1>1, <2>1
<1>6. ASSUME Once(s, type, id), Is(Head(s)) PROVE ~Told(t, type, id)
  BY <1>1, <1>2, <1>6 DEF Told, Once
<1> QED
  BY <1>4, <1>5, <1>6 DEF t

LEMMA JoinedCloses ==
  ASSUME NEW s, NEW t, Pipe(s), Pipe(t), NEW type
  PROVE  /\ Closing(s \o t, type) <=> Closing(s, type) \/ Closing(t, type)
         /\ Unclosed(s \o t, type) => Unclosed(t, type) \/ (Unclosed(s, type) /\ ~Closing(t, type))
<1> DEFINE st == s \o t
           Off(l) == l.type = type /\ ~l.ok
           On(l) == l.type = type /\ l.ok
<1>1. /\ Len(s) \in Nat /\ Len(t) \in Nat /\ Len(st) = Len(s) + Len(t)
      /\ \A i \in 1..Len(s) : st[i] = s[i]
      /\ \A i \in 1..Len(t) : st[Len(s) + i] = t[i]
  BY JoinedPipe
<1> HIDE DEF st
<1>2. ASSUME NEW i \in 1..Len(st)
      PROVE  i \in 1..Len(s) \/ (i - Len(s) \in 1..Len(t) /\ st[i] = t[i - Len(s)])
  <2>1. CASE i > Len(s)
    <3>1. i - Len(s) \in 1..Len(t) /\ Len(s) + (i - Len(s)) = i
      BY <1>1, <2>1
    <3> QED
      BY <1>1, <3>1
  <2>2. CASE i <= Len(s)
    BY <1>1, <2>2
  <2> QED
    BY <1>1, <2>1, <2>2
<1>3. ASSUME Closing(st, type) PROVE Closing(s, type) \/ Closing(t, type)
  <2>1. PICK i \in 1..Len(st) : Off(st[i])
    BY <1>3 DEF Closing
  <2> QED
    BY <1>1, <1>2, <2>1 DEF Closing
<1>4. ASSUME Closing(s, type) PROVE Closing(st, type)
  BY <1>1, <1>4 DEF Closing
<1>5. ASSUME NEW k \in 1..Len(t) PROVE Len(s) + k \in 1..Len(st) /\ st[Len(s) + k] = t[k]
  BY <1>1
<1>6. ASSUME Closing(t, type) PROVE Closing(st, type)
  <2>1. PICK k \in 1..Len(t) : Off(t[k])
    BY <1>6 DEF Closing
  <2> QED
    BY <1>5, <2>1 DEF Closing
<1>7. ASSUME Unclosed(st, type) PROVE Unclosed(t, type) \/ (Unclosed(s, type) /\ ~Closing(t, type))
  <2>1. PICK i \in 1..Len(st) : On(st[i]) /\ \A k \in 1..Len(st) : k > i => ~Off(st[k])
    BY <1>7 DEF Unclosed
  <2>2. CASE i \in 1..Len(s)
    <3>1. \A k \in 1..Len(t) : Len(s) + k > i
      BY <1>1, <2>2
    <3>2. \A k \in 1..Len(t) : ~Off(t[k])
      BY <1>5, <2>1, <3>1
    <3>3. \A k \in 1..Len(s) : k \in 1..Len(st) /\ st[k] = s[k]
      BY <1>1
    <3>4. Unclosed(s, type)
      BY <2>1, <2>2, <3>3 DEF Unclosed
    <3> QED
      BY <3>2, <3>4 DEF Closing
  <2>3. CASE i - Len(s) \in 1..Len(t) /\ st[i] = t[i - Len(s)]
    <3>1. \A k \in 1..Len(t) : k > i - Len(s) => Len(s) + k > i
      BY <1>1
    <3>2. \A k \in 1..Len(t) : k > i - Len(s) => ~Off(t[k])
      BY <1>5, <2>1, <3>1
    <3> QED
      BY <2>1, <2>3, <3>2 DEF Unclosed
  <2> QED
    BY <1>2, <2>1, <2>2, <2>3
<1> QED
  BY <1>3, <1>4, <1>6, <1>7 DEF st

LEMMA RestCloses ==
  ASSUME NEW s, Pipe(s), s # <<>>, NEW type
  PROVE  /\ Closing(s, type) <=> (Head(s).type = type /\ ~Head(s).ok) \/ Closing(Tail(s), type)
         /\ Unclosed(Tail(s), type) => Unclosed(s, type)
         /\ Head(s).type = type /\ Head(s).ok => Closing(Tail(s), type) \/ Unclosed(s, type)
<1> DEFINE t == Tail(s)
           Off(l) == l.type = type /\ ~l.ok
           On(l) == l.type = type /\ l.ok
<1>1. /\ Len(s) \in Nat \ {0} /\ Len(t) = Len(s) - 1 /\ Head(s) = s[1]
      /\ \A i \in 1..Len(s) - 1 : t[i] = s[i + 1]
  BY RestPipe
<1> HIDE DEF t
<1>2. /\ 1 \in 1..Len(s)
      /\ \A i \in 1..Len(t) : i + 1 \in 1..Len(s) /\ t[i] = s[i + 1]
      /\ \A i \in 1..Len(s) : i = 1 \/ (i - 1 \in 1..Len(t) /\ s[i] = t[i - 1])
  BY <1>1
<1>3. ASSUME Closing(s, type) PROVE Off(Head(s)) \/ Closing(t, type)
  <2>1. PICK i \in 1..Len(s) : Off(s[i])
    BY <1>3 DEF Closing
  <2> QED
    BY <1>1, <1>2, <2>1 DEF Closing
<1>4. ASSUME Off(Head(s)) \/ Closing(t, type) PROVE Closing(s, type)
  BY <1>1, <1>2, <1>4 DEF Closing
<1>5. ASSUME Unclosed(t, type) PROVE Unclosed(s, type)
  <2>1. PICK i \in 1..Len(t) : On(t[i]) /\ \A k \in 1..Len(t) : k > i => ~Off(t[k])
    BY <1>5 DEF Unclosed
  <2>2. ASSUME NEW k \in 1..Len(s), k > i + 1 PROVE ~Off(s[k])
    <3>1. k - 1 \in 1..Len(t) /\ k - 1 > i /\ s[k] = t[k - 1]
      BY <1>1, <1>2, <2>2
    <3> QED
      BY <2>1, <3>1
  <2> QED
    BY <1>2, <2>1, <2>2 DEF Unclosed
<1>6. ASSUME On(Head(s)), ~Closing(t, type) PROVE Unclosed(s, type)
  <2>1. ASSUME NEW k \in 1..Len(s), k > 1 PROVE ~Off(s[k])
    <3>1. k - 1 \in 1..Len(t) /\ s[k] = t[k - 1]
      BY <1>2, <2>1
    <3> QED
      BY <1>6, <3>1 DEF Closing
  <2> QED
    BY <1>1, <1>2, <1>6, <2>1 DEF Unclosed
<1> QED
  BY <1>3, <1>4, <1>5, <1>6 DEF t

LEMMA SilentCloses ==
  ASSUME NEW t, NEW type, \A id : ~Told(t, type, id)
  PROVE  ~Closing(t, type) /\ ~Unclosed(t, type)
BY DEF Told, Closing, Unclosed

\* What a step may do to a pipe that the lines of a type do not notice.
LEMMA SameQuiet ==
  ASSUME NEW s, Pipe(s), NEW type
  PROVE  Quiet(s, s, type)
BY DEF Quiet

LEMMA RestQuiet ==
  ASSUME NEW s, Pipe(s), s # <<>>, NEW type, Head(s).type # type
  PROVE  Quiet(s, Tail(s), type)
<1>1. Closing(s, type) <=> Closing(Tail(s), type)
  BY RestCloses
<1>2. Unclosed(Tail(s), type) => Unclosed(s, type)
  BY RestCloses
<1> QED
  BY <1>1, <1>2, RestPipe, RestTells DEF Quiet

LEMMA JoinedQuiet ==
  ASSUME NEW s, NEW t, Pipe(s), Pipe(t), NEW type, \A id : ~Told(t, type, id)
  PROVE  Quiet(s, s \o t, type)
<1>1. \A id : Once(t, type, id)
  BY DEF Told, Once
<1>2. ~Closing(t, type) /\ ~Unclosed(t, type)
  BY SilentCloses
<1>3. (Closing(s \o t, type) <=> Closing(s, type)) /\ (Unclosed(s \o t, type) => Unclosed(s, type))
  BY <1>2, JoinedCloses
<1> QED
  BY <1>1, <1>3, JoinedPipe, JoinedTells DEF Quiet

LEMMA AppendedQuiet ==
  ASSUME NEW s, Pipe(s), NEW e, NEW type, e.type # type
  PROVE  Quiet(s, Append(s, e), type)
<1>1. Append(s, e) = s \o <<e>>
  BY AppendedPipe
<1>2. Pipe(<<e>>) /\ \A id : ~Told(<<e>>, type, id)
  BY SinglePipe, SingleTells
<1> QED
  BY <1>1, <1>2, JoinedQuiet

LEMMA PairQuiet ==
  ASSUME NEW s, Pipe(s), NEW d, NEW e, NEW type, d.type # type, e.type # type
  PROVE  /\ Quiet(s, s \o <<d, e>>, type)
         /\ Pipe(<<d, e>>) /\ \A id : ~Told(<<d, e>>, type, id)
<1>1. <<d, e>> \in Seq({d, e}) /\ Len(<<d, e>>) = 2 /\ <<d, e>>[1] = d /\ <<d, e>>[2] = e
  OBVIOUS
<1>2. Pipe(<<d, e>>)
  BY <1>1, PipeIs
<1>3. \A id : ~Told(<<d, e>>, type, id)
  BY <1>1 DEF Told
<1> QED
  BY <1>2, <1>3, JoinedQuiet

LEMMA TripleQuiet ==
  ASSUME NEW s, Pipe(s), NEW d, NEW e, NEW f, NEW type, d.type # type, e.type # type, f.type # type
  PROVE  Quiet(s, s \o <<d, e, f>>, type)
<1>1. /\ <<d, e, f>> \in Seq({d, e, f}) /\ Len(<<d, e, f>>) = 3
      /\ <<d, e, f>>[1] = d /\ <<d, e, f>>[2] = e /\ <<d, e, f>>[3] = f
  OBVIOUS
<1>2. Pipe(<<d, e, f>>)
  BY <1>1, PipeIs
<1>3. \A id : ~Told(<<d, e, f>>, type, id)
  BY <1>1 DEF Told
<1> QED
  BY <1>2, <1>3, JoinedQuiet

-----------------------------------------------------------------------------
(* SessionTurn: where a question is *)

\* As long as Pi's process is up, a step that moves no question.
LEMMA QuietKeeps ==
  ASSUME QInv, AgentIs', agent'.state = "up" => agent.state = "up",
         agent.state = "up" => /\ agent'.asks \in {agent.asks, Nil} /\ pendingConfirms' = pendingConfirms
                               /\ Quiet(fromPi, fromPi', "ask") /\ Quiet(toPi, toPi', "reply")
  PROVE  QInv'
<1> SUFFICES ASSUME agent'.state = "up" PROVE PipesHold' /\ \A r \in Questions : InOnePlace(r)' /\ Blocked(r)'
  BY DEF QInv
<1>1. /\ PipesHold /\ \A r \in Questions : InOnePlace(r) /\ Blocked(r)
      /\ agent'.asks \in {agent.asks, Nil} /\ pendingConfirms' = pendingConfirms
      /\ Quiet(fromPi, fromPi', "ask") /\ Quiet(toPi, toPi', "reply")
  BY DEF QInv
<1>2. PipesHold'
  BY <1>1 DEF PipesHold, Quiet
<1>3. ASSUME NEW r \in Questions PROVE InOnePlace(r)' /\ Blocked(r)'
  <2>1. /\ Asking(r)' <=> Asking(r)
        /\ Once(fromPi, "ask", r) => Once(fromPi', "ask", r)
        /\ Replied(r)' <=> Replied(r)
        /\ Once(toPi, "reply", r) => Once(toPi', "reply", r)
        /\ Waiting(r)' <=> Waiting(r)
    BY <1>1 DEF Quiet, Asking, Replied, Waiting
  <2>2. InOnePlace(r)'
    BY <1>1, <2>1 DEF InOnePlace
  <2>3. r # Nil
    BY <1>3, NilIsNobody
  <2>4. Blocked(r)'
    BY <1>1, <2>1, <2>3 DEF Blocked
  <2> QED
    BY <2>2, <2>4
<1> QED
  BY <1>2, <1>3

LEMMA StaysPut ==
  ASSUME QInv, UNCHANGED <<agent, fromPi, toPi, pendingConfirms>>
  PROVE  QInv'
<1>1. AgentIs'
  BY DEF QInv, AgentIs
<1>2. agent.state = "up" => Quiet(fromPi, fromPi', "ask") /\ Quiet(toPi, toPi', "reply")
  BY SameQuiet DEF QInv, PipesHold
<1> QED
  BY <1>1, <1>2, QuietKeeps

LEMMA FunctionIsSeq ==
  ASSUME NEW S, NEW m \in Nat, NEW h \in [1..m -> S]
  PROVE  h \in Seq(S) /\ Len(h) = m
OBVIOUS

\* The lines of the questions Core gives up are one reply each.
LEMMA DenyAllTells ==
  ASSUME IsFiniteSet(pendingConfirms)
  PROVE  /\ Pipe(DenyAll)
         /\ \A r : (Told(DenyAll, "reply", r) <=> r \in pendingConfirms) /\ Once(DenyAll, "reply", r)
         /\ \A type, r : type # "reply" => ~Told(DenyAll, type, r)
<1> DEFINE S == {Reply(r, FALSE) : r \in pendingConfirms}
           n == Cardinality(S)
           f == DenyAll
<1>1. \A r : Reply(r, FALSE).type = "reply" /\ Reply(r, FALSE).id = r
  BY DEF Reply, Line
<1>2. IsFiniteSet(S)
  <2> DEFINE g == [r \in pendingConfirms |-> Reply(r, FALSE)]
  <2>1. g \in Surjection(pendingConfirms, S)
    BY DEF Surjection
  <2> QED
    BY <2>1, FS_Surjection
<1>3. n \in Nat /\ ExistsBijection(1..n, S)
  BY <1>2, FS_CardinalityType
<1>4. \E h \in [1..n -> S] : IsInjective(h)
  BY <1>3 DEF ExistsBijection, Bijection, Injection
<1>5. f \in [1..n -> S] /\ IsInjective(f)
  BY <1>4 DEF DenyAll, SetToSeq
<1>6. f \in Surjection(1..n, S)
  <2>1. f \in Injection(1..n, S)
    BY <1>5 DEF Injection
  <2>2. IsFiniteSet(1..n) /\ Cardinality(1..n) = n
    BY <1>3, FS_Interval
  <2> QED
    BY <1>2, <2>1, <2>2, FS_Injection
<1>7. f \in Seq(S) /\ Len(f) = n
  <2>1. \A m \in Nat : \A h \in [1..m -> S] : h \in Seq(S) /\ Len(h) = m
    BY FunctionIsSeq
  <2> HIDE DEF S, n, f
  <2> QED
    BY <1>3, <1>5, <2>1
<1>8. Pipe(f)
  BY <1>7, PipeIs
<1> HIDE DEF f, n
<1>9. ASSUME NEW i \in 1..n
       PROVE  f[i].id \in pendingConfirms /\ f[i] = Reply(f[i].id, FALSE)
  <2>1. f[i] \in S
    BY <1>5
  <2>2. PICK r \in pendingConfirms : f[i] = Reply(r, FALSE)
    BY <2>1
  <2> QED
    BY <1>1, <2>2
<1>10. ASSUME NEW r PROVE Told(f, "reply", r) <=> r \in pendingConfirms
  <2>1. ASSUME Told(f, "reply", r) PROVE r \in pendingConfirms
    <3>1. PICK i \in 1..n : f[i].id = r
      BY <1>7, <2>1 DEF Told
    <3> QED
      BY <1>9, <3>1
  <2>2. ASSUME r \in pendingConfirms PROVE Told(f, "reply", r)
    <3>1. PICK i \in 1..n : f[i] = Reply(r, FALSE)
      BY <1>6, <2>2 DEF Surjection
    <3> QED
      BY <1>1, <1>7, <3>1 DEF Told
  <2> QED
    BY <2>1, <2>2
<1>11. ASSUME NEW r PROVE Once(f, "reply", r)
  <2> SUFFICES ASSUME NEW i \in 1..n, NEW k \in 1..n, f[i].id = r, f[k].id = r PROVE i = k
    BY <1>7 DEF Once
  <2>1. f[i] = Reply(r, FALSE) /\ f[k] = Reply(r, FALSE)
    BY <1>9
  <2> QED
    BY <1>5, <2>1 DEF IsInjective
<1>12. ASSUME NEW type, NEW r, type # "reply" PROVE ~Told(f, type, r)
  <2>1. ASSUME NEW i \in 1..n PROVE f[i].type = "reply"
    <3>1. f[i] = Reply(f[i].id, FALSE)
      BY <1>9
    <3>2. Reply(f[i].id, FALSE).type = "reply"
      BY <1>1
    <3> QED
      BY <3>1, <3>2
  <2> QED
    BY <1>7, <1>12, <2>1 DEF Told
<1> QED
  BY <1>8, <1>10, <1>11, <1>12 DEF f

\* Questions that were waiting are answered; nothing else is said of questions.
LEMMA AnsweringKeeps ==
  ASSUME QInv, AgentIs', agent' = agent, NEW answers,
         agent.state = "up" =>
           /\ Pipe(answers) /\ toPi' = toPi \o answers /\ Quiet(fromPi, fromPi', "ask")
           /\ \A r : Once(answers, "reply", r)
           /\ \A r : Waiting(r) <=> r \in pendingConfirms' \/ Told(answers, "reply", r)
           /\ \A r : ~(r \in pendingConfirms' /\ Told(answers, "reply", r))
  PROVE  QInv'
<1> SUFFICES ASSUME agent.state = "up" PROVE PipesHold' /\ \A r \in Questions : InOnePlace(r)' /\ Blocked(r)'
  BY DEF QInv
<1>1. /\ PipesHold /\ \A r \in Questions : InOnePlace(r) /\ Blocked(r)
      /\ Pipe(answers) /\ toPi' = toPi \o answers /\ Quiet(fromPi, fromPi', "ask")
      /\ \A r : Once(answers, "reply", r)
      /\ \A r : Waiting(r) <=> r \in pendingConfirms' \/ Told(answers, "reply", r)
      /\ \A r : ~(r \in pendingConfirms' /\ Told(answers, "reply", r))
  BY DEF QInv
<1>2. PipesHold'
  <2>1. pendingConfirms' \subseteq pendingConfirms
    BY <1>1 DEF Waiting
  <2>2. IsFiniteSet(pendingConfirms')
    BY <1>1, <2>1, FS_Subset DEF PipesHold
  <2>3. Pipe(toPi')
    BY <1>1, JoinedPipe DEF PipesHold
  <2> QED
    BY <1>1, <2>2, <2>3 DEF PipesHold, Quiet
<1>3. ASSUME NEW r \in Questions PROVE InOnePlace(r)' /\ Blocked(r)'
  <2>1. /\ Asking(r)' <=> Asking(r)
        /\ Once(fromPi, "ask", r) => Once(fromPi', "ask", r)
    BY <1>1 DEF Quiet, Asking
  <2>2. /\ Replied(r)' <=> Replied(r) \/ Told(answers, "reply", r)
        /\ Once(toPi, "reply", r) /\ ~(Replied(r) /\ Told(answers, "reply", r)) => Once(toPi', "reply", r)
    BY <1>1, JoinedTells DEF PipesHold, Replied
  <2>3. /\ Waiting(r) <=> Waiting(r)' \/ Told(answers, "reply", r)
        /\ ~(Waiting(r)' /\ Told(answers, "reply", r))
    BY <1>1 DEF Waiting
  <2>4. InOnePlace(r)'
    BY <1>1, <2>1, <2>2, <2>3 DEF InOnePlace
  <2>5. Blocked(r)'
    BY <1>1, <2>1, <2>2, <2>3 DEF Blocked
  <2> QED
    BY <2>4, <2>5
<1> QED
  BY <1>2, <1>3

\* One question is answered by a person or a timer.
LEMMA OneAnswerKeeps ==
  ASSUME QInv, UNCHANGED <<agent, fromPi>>, NEW r \in pendingConfirms, NEW yes,
         pendingConfirms' = pendingConfirms \ {r}, toPi' = Sent(<<Reply(r, yes)>>)
  PROVE  QInv'
<1>1. AgentIs'
  BY DEF QInv, AgentIs
<1> DEFINE answers == <<Reply(r, yes)>>
<1>2. /\ Pipe(answers)
      /\ \A q : (Told(answers, "reply", q) <=> q = r) /\ Once(answers, "reply", q)
  <2>1. Reply(r, yes).type = "reply" /\ Reply(r, yes).id = r
    BY DEF Reply, Line
  <2> QED
    BY <2>1, SinglePipe, SingleTells
<1>3. agent.state = "up" => Quiet(fromPi, fromPi', "ask") /\ toPi' = toPi \o answers
  BY SameQuiet DEF QInv, PipesHold, Sent
<1> HIDE DEF answers
<1> QED
  BY <1>1, <1>2, <1>3, AnsweringKeeps DEF Waiting

-----------------------------------------------------------------------------
(* SessionTurn: the steps of Core *)

LEMMA Empties == Pipe(<<>>) /\ \A type, id : ~Told(<<>>, type, id)
BY EmptyPipe, EmptyTells

\* A request follows what the callback wrote before it.
LEMMA CallSends ==
  ASSUME NEW j, NEW work, NEW command, NEW entry, NEW first, Call(j, work, command, entry, first),
         command # "reply", agent.state = "up", Pipe(first)
  PROVE  \E lines : toPi' = toPi \o lines /\ Quiet(first, lines, "reply")
<1>1. CASE session.closed
  <2>1. toPi' = toPi \o first
    BY <1>1 DEF Call, Sent
  <2> QED
    BY <2>1, SameQuiet
<1>2. CASE ~session.closed
  <2>1. PICK id : toPi' = Sent(Append(first, [Line(command, id) EXCEPT !.entry = entry]))
    BY <1>2 DEF Call
  <2> DEFINE l == [Line(command, id) EXCEPT !.entry = entry]
  <2>2. l.type # "reply"
    BY DEF Line
  <2>3. toPi' = toPi \o Append(first, l)
    BY <2>1 DEF Sent
  <2> HIDE DEF l
  <2>4. Quiet(first, Append(first, l), "reply")
    BY <2>2, AppendedQuiet
  <2> QED
    BY <2>3, <2>4
<1> QED
  BY <1>1, <1>2

LEMMA CallQuiet ==
  ASSUME NEW j, NEW work, NEW command, NEW entry, Call(j, work, command, entry, <<>>),
         command # "reply", agent.state = "up", Pipe(toPi)
  PROVE  Quiet(toPi, toPi', "reply")
<1>1. PICK lines : toPi' = toPi \o lines /\ Quiet(<<>>, lines, "reply")
  BY CallSends, Empties
<1>2. Pipe(lines) /\ \A id : ~Told(lines, "reply", id)
  BY <1>1, Empties DEF Quiet
<1> QED
  BY <1>1, <1>2, JoinedQuiet

LEMMA ReleaseQuiet ==
  ASSUME NEW j, Release(j), Pipe(toPi)
  PROVE  Quiet(toPi, toPi', "reply")
BY SameQuiet DEF Release

LEMMA ResumesQuiet ==
  ASSUME NEW j, NEW op, NEW at, Resumes(j, op, at), Pipe(fromPi), NEW type, type # "response"
  PROVE  Quiet(fromPi, fromPi', type)
<1>1. CASE fromPi' = fromPi
  BY <1>1, SameQuiet
<1>2. CASE fromPi # <<>> /\ Head(fromPi).type = "response" /\ fromPi' = Tail(fromPi)
  BY <1>2, RestQuiet
<1> QED
  BY <1>1, <1>2 DEF Resumes

LEMMA HearsQuiet ==
  ASSUME NEW heard, Hears(heard), Pipe(fromPi), NEW type, type # heard
  PROVE  Quiet(fromPi, fromPi', type)
BY RestQuiet DEF Hears

LEMMA CoreKeeps ==
  ASSUME QInv, UNCHANGED <<agent, pendingConfirms>>,
         agent.state = "up" /\ Pipe(toPi) /\ Pipe(fromPi) =>
           Quiet(fromPi, fromPi', "ask") /\ Quiet(toPi, toPi', "reply")
  PROVE  QInv'
<1>1. AgentIs'
  BY DEF QInv, AgentIs
<1> QED
  BY <1>1, QuietKeeps DEF QInv, PipesHold

LEMMA CommandKeeps ==
  ASSUME QInv, NEW j, NEW op, NEW was, NEW target, NEW command, NEW entry,
         Command(j, op, was, target, command, entry, <<>>), command # "reply", UNCHANGED pendingConfirms
  PROVE  QInv'
<1>1. /\ UNCHANGED <<agent, fromPi>>
      /\ \E work : Call(j, work, command, entry, <<>>)
  BY DEF Command, piVars
<1> QED
  BY <1>1, CallQuiet, SameQuiet, CoreKeeps

LEMMA CommandsKeep ==
  ASSUME QInv, NEW j,
         SendPrompt(j) \/ ClearQueue(j) \/ Abort(j) \/ Compact(j) \/ SetModel(j) \/ SetThinking(j) \/ Ask(j)
  PROVE  QInv'
<1>1. CASE SendPrompt(j)
  BY <1>1, CommandKeeps DEF SendPrompt
<1>2. CASE ClearQueue(j)
  BY <1>2, CommandKeeps DEF ClearQueue
<1>3. CASE Abort(j)
  BY <1>3, CommandKeeps DEF Abort
<1>4. CASE Compact(j)
  BY <1>4, CommandKeeps DEF Compact
<1>5. CASE SetModel(j)
  BY <1>5, CommandKeeps DEF SetModel
<1>6. CASE SetThinking(j) \/ Ask(j)
  BY <1>6, CommandKeeps DEF SetThinking, Ask
<1> QED
  BY <1>1, <1>2, <1>3, <1>4, <1>5, <1>6

\* Every waiting question is denied, in this order, before the edit asks Pi for anything.
LEMMA EditMessageKeeps ==
  ASSUME QInv, NEW j, EditMessage(j)
  PROVE  QInv'
<1>1. PICK work, command, entry :
        Call(j, work, command, entry, DenyAll) /\ command # "reply"
  BY DEF EditMessage, Command
<1>2. UNCHANGED <<agent, fromPi>> /\ pendingConfirms' = {}
  BY DEF EditMessage, Command, piVars
<1>3. AgentIs'
  BY <1>2 DEF QInv, AgentIs
<1>4. CASE agent.state = "up"
  <2>1. PipesHold /\ Quiet(fromPi, fromPi', "ask")
    BY <1>2, <1>4, SameQuiet DEF QInv, PipesHold
  <2>2. /\ Pipe(DenyAll)
        /\ \A r : (Told(DenyAll, "reply", r) <=> r \in pendingConfirms) /\ Once(DenyAll, "reply", r)
    BY <2>1, DenyAllTells DEF PipesHold
  <2>3. PICK lines : toPi' = toPi \o lines /\ Quiet(DenyAll, lines, "reply")
    BY <1>1, <1>4, <2>2, CallSends
  <2>4. /\ Pipe(lines)
        /\ \A r : (Told(lines, "reply", r) <=> Waiting(r)) /\ Once(lines, "reply", r)
    BY <2>2, <2>3 DEF Quiet, Waiting
  <2> QED
    BY <1>2, <1>3, <1>4, <2>1, <2>3, <2>4, AnsweringKeeps
<1>5. CASE agent.state # "up"
  BY <1>2, <1>3, <1>5 DEF QInv
<1> QED
  BY <1>4, <1>5

\* The last viewer leaves: what waits is denied if the conversation is live.
LEMMA ViewersLeaveKeeps ==
  ASSUME QInv, ViewersLeave
  PROVE  QInv'
<1>1. UNCHANGED <<agent, fromPi>>
  BY DEF ViewersLeave, piVars
<1>2. AgentIs'
  BY <1>1 DEF QInv, AgentIs
<1>3. CASE UNCHANGED <<pendingConfirms, toPi>>
  BY <1>1, <1>3, StaysPut
<1>4. CASE agent.state = "up" /\ pendingConfirms' = {} /\ toPi' = Sent(DenyAll)
  <2>1. PipesHold /\ Quiet(fromPi, fromPi', "ask") /\ toPi' = toPi \o DenyAll
    BY <1>1, <1>4, SameQuiet DEF QInv, PipesHold, Sent
  <2>2. /\ Pipe(DenyAll)
        /\ \A r : (Told(DenyAll, "reply", r) <=> Waiting(r)) /\ Once(DenyAll, "reply", r)
    BY <2>1, DenyAllTells DEF PipesHold, Waiting
  <2> QED
    BY <1>1, <1>2, <1>4, <2>1, <2>2, AnsweringKeeps
<1>5. CASE agent.state # "up"
  BY <1>1, <1>2, <1>5 DEF QInv
<1> QED
  BY <1>3, <1>4, <1>5 DEF ViewersLeave

LEMMA StopTurnKeeps ==
  ASSUME QInv, Stop
  PROVE  QInv'
<1>1. agent' = [agent EXCEPT !.state = IF @ = "up" THEN "killed" ELSE @]
  BY DEF Stop
<1>2. AgentIs' /\ agent'.state # "up"
  BY <1>1 DEF QInv, AgentIs
<1> QED
  BY <1>2 DEF QInv

LEMMA CoresStepKeeps ==
  ASSUME QInv, Core
  PROVE  QInv'
<1>1. ASSUME NEW r, ConfirmationTimesOut(r) \/ \E yes \in BOOLEAN : RespondToConfirmation(r, yes)
      PROVE  QInv'
  BY <1>1, OneAnswerKeeps DEF ConfirmationTimesOut, RespondToConfirmation, piVars
<1>2. CASE ViewerComes
  BY <1>2, StaysPut DEF ViewerComes, piVars, wires
<1> QED
  BY <1>1, <1>2, CommandsKeep, EditMessageKeeps, ViewersLeaveKeeps, StopTurnKeeps DEF Core

LEMMA JobKeeps ==
  ASSUME QInv, NEW j, NEW op, NEW at, Resumes(j, op, at), Touches(j), UNCHANGED <<agent, pendingConfirms>>
  PROVE  QInv'
<1>1. ASSUME agent.state = "up", Pipe(toPi), Pipe(fromPi)
      PROVE  Quiet(fromPi, fromPi', "ask") /\ Quiet(toPi, toPi', "reply")
  BY <1>1, ResumesQuiet, ReleaseQuiet, CallQuiet DEF Touches
<1> QED
  BY <1>1, CoreKeeps

LEMMA JobsKeep ==
  ASSUME QInv, NEW j,
         \/ PromptEnds(j) \/ SimpleEnds(j) \/ ModelEnds(j) \/ AbortGoesOn(j) \/ AbortEnds(j)
         \/ CompactGoesOn(j) \/ ReconcileEnds(j)
  PROVE  QInv'
<1>1. Touches(j) /\ UNCHANGED <<agent, pendingConfirms>>
  <2>1. CASE PromptEnds(j) \/ SimpleEnds(j) \/ ModelEnds(j) \/ AbortEnds(j) \/ ReconcileEnds(j)
    BY <2>1 DEF PromptEnds, SimpleEnds, ModelEnds, AbortEnds, ReconcileEnds, Touches, piVars
  <2>2. CASE AbortGoesOn(j)
    BY <2>2 DEF AbortGoesOn, Touches, piVars
  <2>3. CASE CompactGoesOn(j)
    BY <2>3 DEF CompactGoesOn, Touches, piVars
  <2> QED
    BY <2>1, <2>2, <2>3
<1>2. \E op, at : Resumes(j, op, at)
  BY DEF PromptEnds, SimpleEnds, ModelEnds, AbortEnds, ReconcileEnds, AbortGoesOn, CompactGoesOn
<1> QED
  BY <1>1, <1>2, JobKeeps

LEMMA EditsKeep ==
  ASSUME QInv, NEW j, EditStopped(j) \/ EditReads(j) \/ EditMoves(j) \/ EditResends(j)
  PROVE  QInv'
<1>1. Touches(j) /\ UNCHANGED <<agent, pendingConfirms>>
  <2>1. CASE EditStopped(j)
    BY <2>1 DEF EditStopped, EditFails, Touches, piVars
  <2>2. CASE EditReads(j)
    BY <2>2 DEF EditReads, EditFails, Touches, piVars
  <2>3. CASE EditMoves(j)
    BY <2>3 DEF EditMoves, EditFails, Touches, piVars
  <2>4. CASE EditResends(j)
    BY <2>4 DEF EditResends, EditFails, Touches, piVars
  <2> QED
    BY <2>1, <2>2, <2>3, <2>4
<1>2. \E op, at : Resumes(j, op, at)
  BY DEF EditStopped, EditReads, EditMoves, EditResends
<1> QED
  BY <1>1, <1>2, JobKeeps

LEMMA AgentSettlesKeeps ==
  ASSUME QInv, NEW j, AgentSettles(j)
  PROVE  QInv'
<1>1. UNCHANGED <<agent, pendingConfirms>> /\ Hears("settled")
  BY DEF AgentSettles, piVars
<1>2. \E work, entry : Call(j, work, "get_entries", entry, <<>>)
  BY DEF AgentSettles
<1>3. ASSUME agent.state = "up", Pipe(toPi), Pipe(fromPi)
      PROVE  Quiet(fromPi, fromPi', "ask") /\ Quiet(toPi, toPi', "reply")
  BY <1>1, <1>2, <1>3, HearsQuiet, CallQuiet
<1> QED
  BY <1>1, <1>3, CoreKeeps

LEMMA HearsKeep ==
  ASSUME QInv, LateAnswer \/ TurnStarts \/ MessageEnds \/ CompactionChanges
  PROVE  QInv'
<1>1. UNCHANGED <<agent, toPi, pendingConfirms>> /\ \E type : type # "ask" /\ Hears(type)
  BY DEF LateAnswer, TurnStarts, MessageEnds, CompactionChanges, piVars
<1>2. ASSUME agent.state = "up", Pipe(toPi), Pipe(fromPi)
      PROVE  Quiet(fromPi, fromPi', "ask") /\ Quiet(toPi, toPi', "reply")
  BY <1>1, <1>2, HearsQuiet, SameQuiet
<1> QED
  BY <1>1, <1>2, CoreKeeps

\* A question that arrives waits for a person, or is refused when nobody looks.
LEMMA OnUiRequestKeeps ==
  ASSUME QInv, OnUiRequest
  PROVE  QInv'
<1> DEFINE q == Head(fromPi).id
<1>1. /\ agent' = agent /\ fromPi # <<>> /\ Head(fromPi).type = "ask" /\ fromPi' = Tail(fromPi)
      /\ \/ pendingConfirms' = pendingConfirms \cup {q} /\ toPi' = toPi
         \/ toPi' = Sent(<<Reply(q, FALSE)>>) /\ pendingConfirms' = pendingConfirms
  BY DEF OnUiRequest, Hears, piVars
<1>2. AgentIs'
  BY <1>1 DEF QInv, AgentIs
<1> HIDE DEF q
<1> SUFFICES ASSUME agent.state = "up" PROVE PipesHold' /\ \A r \in Questions : InOnePlace(r)' /\ Blocked(r)'
  BY <1>1, <1>2 DEF QInv
<1>3. PipesHold /\ \A r \in Questions : InOnePlace(r) /\ Blocked(r)
  BY DEF QInv
<1>4. /\ Pipe(fromPi')
      /\ \A r : /\ Asking(r) <=> r = q \/ Asking(r)'
                /\ Once(fromPi, "ask", r) => Once(fromPi', "ask", r)
                /\ Once(fromPi, "ask", r) /\ r = q => ~Asking(r)'
  BY <1>1, <1>3, RestPipe, RestTells DEF PipesHold, Asking, q
<1>5. CASE pendingConfirms' = pendingConfirms \cup {q} /\ toPi' = toPi
  <2>1. PipesHold'
    BY <1>1, <1>3, <1>4, <1>5, FS_AddElement DEF PipesHold
  <2>2. ASSUME NEW r \in Questions PROVE InOnePlace(r)' /\ Blocked(r)'
    <3>1. Replied(r)' <=> Replied(r)
      BY <1>5 DEF Replied
    <3>2. Waiting(r)' <=> Waiting(r) \/ r = q
      BY <1>5 DEF Waiting
    <3>3. Once(toPi, "reply", r)' <=> Once(toPi, "reply", r)
      BY <1>5
    <3>4. InOnePlace(r)'
      BY <1>3, <1>4, <3>1, <3>2, <3>3 DEF InOnePlace
    <3>5. Blocked(r)'
      BY <1>1, <1>3, <1>4, <3>1, <3>2 DEF Blocked
    <3> QED
      BY <3>4, <3>5
  <2> QED
    BY <2>1, <2>2
<1>6. CASE toPi' = Sent(<<Reply(q, FALSE)>>) /\ pendingConfirms' = pendingConfirms
  <2> DEFINE answer == <<Reply(q, FALSE)>>
  <2>1. Pipe(answer) /\ \A r : (Told(answer, "reply", r) <=> r = q) /\ Once(answer, "reply", r)
    <3> DEFINE l == Reply(q, FALSE)
    <3>1. l.type = "reply" /\ l.id = q
      BY DEF Reply, Line
    <3> HIDE DEF l
    <3>2. Pipe(<<l>>) /\ \A r : (Told(<<l>>, "reply", r) <=> r = q) /\ Once(<<l>>, "reply", r)
      BY <3>1, SinglePipe, SingleTells
    <3> QED
      BY <3>2 DEF l
  <2>2. toPi' = toPi \o answer
    BY <1>6 DEF Sent
  <2> HIDE DEF answer
  <2>3. PipesHold'
    <3>1. Pipe(toPi \o answer)
      BY <1>3, <2>1, JoinedPipe DEF PipesHold
    <3> QED
      BY <1>1, <1>3, <1>4, <1>6, <2>2, <3>1 DEF PipesHold
  <2>4. ASSUME NEW r \in Questions PROVE InOnePlace(r)' /\ Blocked(r)'
    <3>1. /\ Replied(r)' <=> Replied(r) \/ r = q
          /\ Once(toPi, "reply", r) /\ ~(Replied(r) /\ r = q) => Once(toPi', "reply", r)
      BY <1>3, <2>1, <2>2, JoinedTells DEF PipesHold, Replied
    <3>2. Waiting(r)' <=> Waiting(r)
      BY <1>6 DEF Waiting
    <3>3. InOnePlace(r)'
      BY <1>3, <1>4, <3>1, <3>2 DEF InOnePlace
    <3>4. Blocked(r)'
      BY <1>1, <1>3, <1>4, <3>1, <3>2 DEF Blocked
    <3> QED
      BY <3>3, <3>4
  <2> QED
    BY <2>3, <2>4
<1> QED
  BY <1>1, <1>5, <1>6

LEMMA ContinuesKeeps ==
  ASSUME QInv, Continues
  PROVE  QInv'
<1>1. CASE PiClosed
  <2>1. agent' = agent /\ agent.state = "gone"
    BY <1>1 DEF PiClosed, piVars
  <2> QED
    BY <2>1 DEF QInv, AgentIs
<1> QED
  BY <1>1, JobsKeep, EditsKeep, AgentSettlesKeeps, HearsKeep, OnUiRequestKeeps DEF Continues

LEMMA TimesOutKeeps ==
  ASSUME QInv, TimesOut
  PROVE  QInv'
BY StaysPut DEF TimesOut, RequestTimesOut, piVars, wires

-----------------------------------------------------------------------------
(* SessionTurn: the steps of Pi *)

\* What Pi writes while it handles a line that is no reply.
LEMMA PiKeeps ==
  ASSUME QInv, AgentIs', agent'.state = agent.state, agent'.asks \in {agent.asks, Nil}, PiSteps,
         Pipe(fromPi) => Quiet(fromPi, fromPi', "ask"),
         \/ toPi' = toPi
         \/ toPi # <<>> /\ Head(toPi).type # "reply" /\ toPi' = Tail(toPi)
  PROVE  QInv'
<1>1. Pipe(toPi) => Quiet(toPi, toPi', "reply")
  BY SameQuiet, RestQuiet
<1>2. pendingConfirms' = pendingConfirms
  BY DEF PiSteps
<1> QED
  BY <1>1, <1>2, QuietKeeps DEF QInv, PipesHold

LEMMA PiHandles ==
  ASSUME NEW type, PiReads(type), type # "reply"
  PROVE  toPi # <<>> /\ Head(toPi).type # "reply" /\ toPi' = Tail(toPi)
BY DEF PiReads

LEMMA LineTypes ==
  /\ \A type, id : Line(type, id).type = type
  /\ \A l : \A ok : Response(l, ok).type = "response"
  /\ \A type : Newest(type).type = type
BY DEF Line, Response, Newest

LEMMA PiPromptQuiet ==
  ASSUME PiPrompt, Pipe(fromPi), NEW type \in {"ask", "compaction"}
  PROVE  Quiet(fromPi, fromPi', type)
<1>1. CASE \E ok : fromPi' = Append(fromPi, Response(Head(toPi), ok))
  BY <1>1, LineTypes, AppendedQuiet
<1>2. CASE fromPi' = fromPi \o <<Newest("turn"), Response(Head(toPi), TRUE)>>
  BY <1>2, LineTypes, PairQuiet
<1> QED
  BY <1>1, <1>2 DEF PiPrompt

LEMMA PiPromptKeeps ==
  ASSUME QInv, PiPrompt
  PROVE  QInv'
<1>1. toPi # <<>> /\ Head(toPi).type # "reply" /\ toPi' = Tail(toPi)
  BY PiHandles DEF PiPrompt
<1>2. AgentIs' /\ agent'.state = agent.state /\ agent'.asks = agent.asks
  BY DEF PiPrompt, QInv, AgentIs, piVars
<1>3. Pipe(fromPi) => Quiet(fromPi, fromPi', "ask")
  BY PiPromptQuiet
<1> QED
  BY <1>1, <1>2, <1>3, PiKeeps DEF PiPrompt

LEMMA PiClearQueueQuiet ==
  ASSUME PiClearQueue, Pipe(fromPi), NEW type \in {"ask", "compaction"}
  PROVE  Quiet(fromPi, fromPi', type)
BY LineTypes, AppendedQuiet DEF PiClearQueue

LEMMA PiClearQueueKeeps ==
  ASSUME QInv, PiClearQueue
  PROVE  QInv'
<1>1. toPi # <<>> /\ Head(toPi).type # "reply" /\ toPi' = Tail(toPi)
  BY PiHandles DEF PiClearQueue
<1>2. AgentIs' /\ agent'.state = agent.state /\ agent'.asks = agent.asks
  BY DEF PiClearQueue, QInv, AgentIs
<1>3. Pipe(fromPi) => Quiet(fromPi, fromPi', "ask")
  BY PiClearQueueQuiet
<1> QED
  BY <1>1, <1>2, <1>3, PiKeeps DEF PiClearQueue

\* An abort ends the turn, and with it what Pi asked.
LEMMA PiAbortKeeps ==
  ASSUME QInv, PiAbort
  PROVE  QInv'
<1>1. toPi # <<>> /\ Head(toPi).type # "reply" /\ toPi' = Tail(toPi)
  BY PiHandles DEF PiAbort
<1>2. AgentIs' /\ agent'.state = agent.state /\ agent'.asks \in {agent.asks, Nil}
  BY DEF PiAbort, QInv, AgentIs
<1>3. ASSUME Pipe(fromPi) PROVE Quiet(fromPi, fromPi', "ask")
  <2> DEFINE off == [Line("compaction", Nil) EXCEPT !.ok = FALSE]
             undone == Response(Line("compact", agent.packing), FALSE)
             done == Response(Head(toPi), TRUE)
             told == [done EXCEPT !.last = Len(tree')]
  <2>1. /\ off.type = "compaction" /\ undone.type = "response" /\ done.type = "response"
        /\ told.type = "response"
    BY DEF Line, Response
  <2>2. \/ fromPi' = fromPi \o (IF agent.packing = Nil THEN <<>> ELSE <<off, undone>>) \o <<done>>
        \/ fromPi' = Append(fromPi, told)
        \/ fromPi' = fromPi \o <<Newest("answer"), Line("settled", Nil), done>>
    BY DEF PiAbort
  <2> HIDE DEF off, undone, done, told
  <2>3. CASE fromPi' = fromPi \o <<>> \o <<done>>
    <3>1. fromPi \o <<>> = fromPi
      BY <1>3, ConcatEmptySeq DEF Pipe
    <3>2. Pipe(<<done>>) /\ \A id : ~Told(<<done>>, "ask", id)
      BY <2>1, SinglePipe, SingleTells
    <3> QED
      BY <1>3, <2>3, <3>1, <3>2, JoinedQuiet
  <2>4. CASE fromPi' = fromPi \o <<off, undone>> \o <<done>>
    <3>1. Quiet(fromPi, fromPi \o <<off, undone>>, "ask")
      BY <1>3, <2>1, PairQuiet
    <3>2. Pipe(<<done>>) /\ \A id : ~Told(<<done>>, "ask", id)
      BY <2>1, SinglePipe, SingleTells
    <3>3. Quiet(fromPi \o <<off, undone>>, fromPi', "ask")
      BY <2>4, <3>1, <3>2, JoinedQuiet DEF Quiet
    <3> QED
      BY <3>1, <3>3 DEF Quiet
  <2>5. CASE fromPi' = Append(fromPi, told)
    BY <1>3, <2>1, <2>5, AppendedQuiet
  <2>6. CASE fromPi' = fromPi \o <<Newest("answer"), Line("settled", Nil), done>>
    BY <1>3, <2>1, <2>6, LineTypes, TripleQuiet
  <2> QED
    BY <2>2, <2>3, <2>4, <2>5, <2>6
<1> QED
  BY <1>1, <1>2, <1>3, PiKeeps DEF PiAbort

LEMMA PiCompactsKeep ==
  ASSUME QInv, PiCompact \/ PiCompacted
  PROVE  QInv'
<1>1. \/ toPi' = toPi
      \/ toPi # <<>> /\ Head(toPi).type # "reply" /\ toPi' = Tail(toPi)
  BY PiHandles DEF PiCompact, PiCompacted
<1>2. AgentIs' /\ agent'.state = agent.state /\ agent'.asks = agent.asks
  BY DEF PiCompact, PiCompacted, QInv, AgentIs
<1>3. ASSUME Pipe(fromPi) PROVE Quiet(fromPi, fromPi', "ask")
  <2>1. CASE fromPi' = Append(fromPi, Line("compaction", Nil))
    BY <1>3, <2>1, LineTypes, AppendedQuiet
  <2>2. CASE fromPi' = Append(fromPi, Response(Head(toPi), FALSE))
    BY <1>3, <2>2, LineTypes, AppendedQuiet
  <2>3. ASSUME NEW ok,
               fromPi' = fromPi \o <<[Line("compaction", Nil) EXCEPT !.ok = FALSE],
                                     Response(Line("compact", agent.packing), ok)>>
        PROVE  Quiet(fromPi, fromPi', "ask")
    <3> DEFINE off == [Line("compaction", Nil) EXCEPT !.ok = FALSE]
               done == Response(Line("compact", agent.packing), ok)
    <3>1. off.type = "compaction" /\ done.type = "response"
      BY DEF Line, Response
    <3>2. fromPi' = fromPi \o <<off, done>>
      BY <2>3
    <3> HIDE DEF off, done
    <3> QED
      BY <1>3, <3>1, <3>2, PairQuiet
  <2> QED
    BY <2>1, <2>2, <2>3 DEF PiCompact, PiCompacted
<1> QED
  BY <1>1, <1>2, <1>3, PiKeeps DEF PiCompact, PiCompacted

LEMMA PiAnsweringQuiet ==
  ASSUME PiEntries \/ PiNavigate \/ PiSetModel \/ PiTune, Pipe(fromPi), NEW type \in {"ask", "compaction"}
  PROVE  Quiet(fromPi, fromPi', type)
<1>1. \E l : l.type = "response" /\ fromPi' = Append(fromPi, l)
  <2>1. CASE PiEntries
    <3> DEFINE l == [Response(Head(toPi), TRUE) EXCEPT
                       !.entry = Head(toPi).entry, !.last = Len(tree), !.leaf = leaf]
    <3>1. l.type = "response" /\ fromPi' = Append(fromPi, l)
      BY <2>1 DEF PiEntries, Response, Line
    <3> QED
      BY <3>1
  <2>2. CASE PiNavigate
    BY <2>2, LineTypes DEF PiNavigate
  <2>3. CASE PiTune
    BY <2>3, LineTypes DEF PiTune
  <2>4. CASE PiSetModel
    <3> DEFINE l == [Response(Head(toPi), TRUE) EXCEPT !.last = Len(tree')]
    <3>1. l.type = "response"
      BY DEF Response, Line
    <3>2. fromPi' = Append(fromPi, l) \/ fromPi' = Append(fromPi, Response(Head(toPi), FALSE))
      BY <2>4 DEF PiSetModel
    <3> HIDE DEF l
    <3> QED
      BY <3>1, <3>2, LineTypes
  <2> QED
    BY <2>1, <2>2, <2>3, <2>4
<1> QED
  BY <1>1, AppendedQuiet

LEMMA PiAnsweringKeeps ==
  ASSUME QInv, PiEntries \/ PiNavigate \/ PiSetModel \/ PiTune
  PROVE  QInv'
<1>1. toPi # <<>> /\ Head(toPi).type # "reply" /\ toPi' = Tail(toPi)
  BY PiHandles DEF PiEntries, PiNavigate, PiSetModel, PiTune
<1>2. agent' = agent /\ AgentIs'
  BY DEF PiEntries, PiNavigate, PiSetModel, PiTune, QInv, AgentIs, piVars
<1>3. Pipe(fromPi) => Quiet(fromPi, fromPi', "ask")
  BY PiAnsweringQuiet
<1> QED
  BY <1>1, <1>2, <1>3, PiKeeps DEF PiEntries, PiNavigate, PiSetModel, PiTune

LEMMA PiAnswersQuiet ==
  ASSUME PiAnswers, Pipe(fromPi), NEW type \in {"ask", "compaction"}
  PROVE  Quiet(fromPi, fromPi', type)
<1> DEFINE told == [Line("answer", Nil) EXCEPT !.last = Len(tree) + 1]
<1>1. told.type = "answer"
  BY DEF Line
<1>2. \/ fromPi' = fromPi \o <<told, Newest("turn")>>
      \/ fromPi' = fromPi \o <<Newest("answer"), Line("settled", Nil)>>
  BY DEF PiAnswers
<1> HIDE DEF told
<1>3. CASE fromPi' = fromPi \o <<told, Newest("turn")>>
  BY <1>1, <1>3, LineTypes, PairQuiet
<1>4. CASE fromPi' = fromPi \o <<Newest("answer"), Line("settled", Nil)>>
  BY <1>4, LineTypes, PairQuiet
<1> QED
  BY <1>2, <1>3, <1>4

LEMMA PiAnswersKeeps ==
  ASSUME QInv, PiAnswers
  PROVE  QInv'
<1>1. toPi' = toPi
  BY DEF PiAnswers
<1>2. AgentIs' /\ agent'.state = agent.state /\ agent'.asks = agent.asks
  BY DEF PiAnswers, QInv, AgentIs
<1>3. Pipe(fromPi) => Quiet(fromPi, fromPi', "ask")
  BY PiAnswersQuiet
<1> QED
  BY <1>1, <1>2, <1>3, PiKeeps DEF PiAnswers

\* Pi hears the one reply to what it asked.
LEMMA PiHearsReplyKeeps ==
  ASSUME QInv, PiHearsReply
  PROVE  QInv'
<1> DEFINE q == Head(toPi).id
<1>1. /\ agent' = [agent EXCEPT !.asks = IF agent.asks = q THEN Nil ELSE agent.asks]
      /\ toPi # <<>> /\ Head(toPi).type = "reply" /\ toPi' = Tail(toPi)
      /\ fromPi' = fromPi /\ pendingConfirms' = pendingConfirms
  BY DEF PiHearsReply, PiReads, PiSteps
<1> HIDE DEF q
<1>2. AgentIs' /\ agent'.state = agent.state /\ agent'.asks = (IF agent.asks = q THEN Nil ELSE agent.asks)
  BY <1>1 DEF QInv, AgentIs
<1> SUFFICES ASSUME agent.state = "up" PROVE PipesHold' /\ \A r \in Questions : InOnePlace(r)' /\ Blocked(r)'
  BY <1>2 DEF QInv
<1>3. PipesHold /\ \A r \in Questions : InOnePlace(r) /\ Blocked(r)
  BY DEF QInv
<1>4. /\ Pipe(toPi')
      /\ \A r : /\ Replied(r) <=> r = q \/ Replied(r)'
                /\ Once(toPi, "reply", r) => Once(toPi', "reply", r)
  BY <1>1, <1>3, RestPipe, RestTells DEF PipesHold, Replied, q
<1>5. PipesHold'
  BY <1>1, <1>2, <1>3, <1>4 DEF PipesHold
<1>6. ASSUME NEW r \in Questions PROVE InOnePlace(r)' /\ Blocked(r)'
  <2>1. (Asking(r)' <=> Asking(r)) /\ (Waiting(r)' <=> Waiting(r))
    BY <1>1 DEF Asking, Waiting
  <2>2. Once(fromPi, "ask", r) => Once(fromPi', "ask", r)
    BY <1>1
  <2>3. InOnePlace(r)'
    BY <1>3, <1>4, <2>1, <2>2 DEF InOnePlace
  <2>4. Blocked(r)'
    <3>1. r # Nil
      BY <1>6, NilIsNobody
    <3> QED
      BY <1>2, <1>3, <1>4, <2>1, <3>1 DEF Blocked
  <2> QED
    BY <2>3, <2>4
<1> QED
  BY <1>5, <1>6

\* Pi asks under an id of which nothing is left.
LEMMA PiAsksKeeps ==
  ASSUME QInv, NEW q \in Questions, PiAsks(q)
  PROVE  QInv'
<1> DEFINE l == Line("ask", q)
<1>1. /\ agent.asks = Nil /\ agent' = [agent EXCEPT !.asks = q] /\ fromPi' = Append(fromPi, l)
      /\ toPi' = toPi /\ pendingConfirms' = pendingConfirms /\ q \notin pendingConfirms
      /\ \A m \in Range(toPi) \cup Range(fromPi) : m.id # q
  BY DEF PiAsks, PiSteps
<1>2. AgentIs' /\ agent'.state = agent.state /\ agent'.asks = q
  BY <1>1 DEF QInv, AgentIs
<1>3. l.type = "ask" /\ l.id = q
  BY DEF Line
<1> HIDE DEF l
<1> SUFFICES ASSUME agent.state = "up" PROVE PipesHold' /\ \A r \in Questions : InOnePlace(r)' /\ Blocked(r)'
  BY <1>2 DEF QInv
<1>4. PipesHold /\ \A r \in Questions : InOnePlace(r) /\ Blocked(r)
  BY DEF QInv
<1>5. fromPi' = fromPi \o <<l>> /\ Pipe(<<l>>) /\ Pipe(fromPi')
  <2>1. Pipe(fromPi)
    BY <1>4 DEF PipesHold
  <2>2. Pipe(<<l>>)
    BY SinglePipe
  <2>3. fromPi' = fromPi \o <<l>>
    BY <1>1, <2>1, AppendedPipe
  <2>4. Pipe(fromPi \o <<l>>)
    BY <2>1, <2>2, JoinedPipe
  <2> QED
    BY <2>2, <2>3, <2>4
<1>6. ~Asking(q) /\ ~Replied(q)
  <2>1. DOMAIN fromPi = 1..Len(fromPi) /\ DOMAIN toPi = 1..Len(toPi)
    BY <1>4 DEF PipesHold, Pipe
  <2> QED
    BY <1>1, <2>1 DEF Asking, Replied, Told, Range
<1>7. PipesHold'
  BY <1>1, <1>2, <1>4, <1>5 DEF PipesHold
<1>8. ASSUME NEW r \in Questions PROVE InOnePlace(r)' /\ Blocked(r)'
  <2>1. (Replied(r)' <=> Replied(r)) /\ (Waiting(r)' <=> Waiting(r))
    BY <1>1 DEF Replied, Waiting
  <2>2. Once(toPi, "reply", r) => Once(toPi', "reply", r)
    BY <1>1
  <2>3. /\ Asking(r)' <=> Asking(r) \/ r = q
        /\ Once(fromPi, "ask", r) /\ ~(Asking(r) /\ r = q) => Once(fromPi', "ask", r)
    BY <1>3, <1>4, <1>5, SingleTells, JoinedTells DEF PipesHold, Asking
  <2>4. InOnePlace(r)'
    BY <1>1, <1>4, <1>6, <2>1, <2>2, <2>3 DEF InOnePlace, Waiting
  <2>5. Blocked(r)'
    BY <1>2, <2>3 DEF Blocked
  <2> QED
    BY <2>4, <2>5
<1> QED
  BY <1>7, <1>8

LEMMA PiStepKeeps ==
  ASSUME QInv, Pi
  PROVE  QInv'
<1>1. CASE PiExits
  <2>1. AgentIs' /\ agent'.state = "gone"
    BY <1>1 DEF PiExits, QInv, AgentIs
  <2> QED
    BY <2>1 DEF QInv
<1> QED
  BY <1>1, PiPromptKeeps, PiClearQueueKeeps, PiAbortKeeps, PiCompactsKeep, PiAnsweringKeeps, PiAnswersKeeps,
     PiHearsReplyKeeps, PiAsksKeeps DEF Pi

-----------------------------------------------------------------------------
(* SessionTurn: the questions *)

LEMMA NextQInv == QInv /\ [TurnNext]_turnVars => QInv'
BY CoresStepKeeps, ContinuesKeeps, TimesOutKeeps, PiStepKeeps, StaysPut DEF TurnNext, turnVars

LEMMA InitQInv == TurnInit => QInv
<1> SUFFICES ASSUME TurnInit PROVE QInv
  OBVIOUS
<1>1. AgentIs
  BY DEF TurnInit, AgentIs
<1>2. PipesHold
  BY EmptyPipe, FS_EmptySet DEF TurnInit, PipesHold
<1>3. ASSUME NEW r \in Questions PROVE InOnePlace(r) /\ Blocked(r)
  <2>1. r # agent.asks
    BY <1>3, NilIsNobody DEF TurnInit
  <2> QED
    BY <2>1, EmptyTells DEF TurnInit, InOnePlace, Blocked, Asking, Replied, Waiting
<1> QED
  BY <1>1, <1>2, <1>3 DEF QInv

LEMMA CountsOnce ==
  ASSUME NEW s, NEW type, NEW id, Once(s, type, id)
  PROVE  LET places == {i \in 1..Len(s) : s[i].type = type /\ s[i].id = id}
         IN  Cardinality(places) = IF Told(s, type, id) THEN 1 ELSE 0
<1> DEFINE places == {i \in 1..Len(s) : s[i].type = type /\ s[i].id = id}
<1>1. CASE Told(s, type, id)
  <2>1. PICK i \in 1..Len(s) : s[i].type = type /\ s[i].id = id
    BY <1>1 DEF Told
  <2>2. places = {i}
    BY <2>1 DEF Once
  <2> QED
    BY <1>1, <2>2, FS_Singleton
<1>2. CASE ~Told(s, type, id)
  <2>1. places = {}
    BY <1>2 DEF Told
  <2> QED
    BY <1>2, <2>1, FS_EmptySet
<1> QED
  BY <1>1, <1>2

LEMMA PlacesAre ==
  ASSUME NEW r, InOnePlace(r)
  PROVE  Places(r) = IF Asking(r) \/ Replied(r) \/ Waiting(r) THEN 1 ELSE 0
<1>1. Cardinality({i \in 1..Len(fromPi) : fromPi[i].type = "ask" /\ fromPi[i].id = r}) = IF Asking(r) THEN 1 ELSE 0
  BY CountsOnce DEF InOnePlace, Asking
<1>2. Cardinality({i \in 1..Len(toPi) : toPi[i].type = "reply" /\ toPi[i].id = r}) = IF Replied(r) THEN 1 ELSE 0
  BY CountsOnce DEF InOnePlace, Replied
<1> QED
  BY <1>1, <1>2 DEF Places, InOnePlace, Waiting

LEMMA QuestionsAreSafe == QInv => NoQuestionIsLost
<1> SUFFICES ASSUME QInv, agent.state = "up"
             PROVE  /\ agent.asks # Nil => Places(agent.asks) = 1
                    /\ \A r \in Questions : Places(r) <= 1
  BY DEF NoQuestionIsLost
<1>1. PipesHold /\ \A r \in Questions : InOnePlace(r) /\ Blocked(r)
  BY DEF QInv
<1>2. ASSUME NEW r \in Questions
      PROVE  Places(r) <= 1 /\ (agent.asks = r => Places(r) = 1)
  BY <1>1, PlacesAre DEF Blocked
<1> QED
  BY <1>1, <1>2 DEF PipesHold

\* Whatever operations of the conversation overlap, and whoever leaves: a question of
\* Pi's is on its way, waits, or is answered, in one of these places and no other.
THEOREM QuestionsAreKept == TurnSpec => []NoQuestionIsLost
<1>1. TurnSpec => []QInv
  BY InitQInv, NextQInv, PTL DEF TurnSpec
<1> QED
  BY <1>1, QuestionsAreSafe, PTL

-----------------------------------------------------------------------------
(* SessionTurn: stops and compactions *)

LEMMA EndsKept ==
  ASSUME QInv, EInv, agent' = agent, Shapes', StopHasJob',
         agent.state = "up" =>
           /\ session'.managed /\ Quiet(fromPi, fromPi', "compaction") /\ Named(toPi')
           /\ ledger'.compacting =>
                \/ ledger.compacting /\ \A k \in Slots : Compacts(k) => Compacts(k)'
                \/ \E k \in Slots : Compacts(k)'
  PROVE  EInv'
<1> SUFFICES ASSUME agent.state = "up" PROVE CompactionEnds' /\ StartsAreTrue'
  BY DEF EInv, Named
<1>1. /\ CompactionEnds /\ StartsAreTrue
      /\ Closing(fromPi', "compaction") <=> Closing(fromPi, "compaction")
      /\ Unclosed(fromPi', "compaction") => Unclosed(fromPi, "compaction")
  BY DEF EInv, Quiet
<1>2. StartsAreTrue'
  BY <1>1 DEF StartsAreTrue
<1>3. CompactionEnds'
  BY <1>1 DEF CompactionEnds
<1> QED
  BY <1>2, <1>3

LEMMA CallFiles ==
  ASSUME Shapes, NEW j \in Slots, NEW work, IsJob(work), NEW command, NEW entry, NEW first,
         Call(j, work, command, entry, first)
  PROVE  /\ JobsAreFiled' /\ jobs'[j].op = work.op /\ jobs'[j].at = command
         /\ \A k \in Slots \ {j} : jobs'[k] = jobs[k]
<1> DEFINE w == [work EXCEPT !.at = command]
<1>1. jobs' = [jobs EXCEPT ![j] = w]
  BY DEF Call
<1>2. IsJob(w) /\ w.op = work.op /\ w.at = command
  BY DEF IsJob
<1> HIDE DEF w
<1>3. jobs' = [k \in Slots |-> IF k = j THEN w ELSE jobs[k]]
  BY <1>1 DEF Shapes, JobsAreFiled
<1> QED
  BY <1>2, <1>3 DEF Shapes, JobsAreFiled

LEMMA ReleaseFiles ==
  ASSUME Shapes, NEW j \in Slots, Release(j)
  PROVE  /\ JobsAreFiled' /\ jobs'[j].op = "none"
         /\ \A k \in Slots \ {j} : jobs'[k] = jobs[k]
<1>1. jobs' = [jobs EXCEPT ![j] = Idle]
  BY DEF Release
<1>2. IsJob(Idle) /\ Idle.op = "none"
  BY DEF IsJob, Idle
<1>3. jobs' = [k \in Slots |-> IF k = j THEN Idle ELSE jobs[k]]
  BY <1>1 DEF Shapes, JobsAreFiled
<1> QED
  BY <1>2, <1>3 DEF Shapes, JobsAreFiled

\* No request is written without an id.
LEMMA CallIsNamed ==
  ASSUME NEW j, NEW work, NEW command, NEW entry, NEW first, Call(j, work, command, entry, first),
         agent.state = "up", Pipe(toPi), Pipe(first), Named(toPi), Named(first)
  PROVE  Named(toPi')
<1>1. CASE session.closed
  <2>1. toPi' = toPi \o first
    BY <1>1 DEF Call, Sent
  <2> QED
    BY <2>1, JoinedTells DEF Named
<1>2. CASE ~session.closed
  <2>1. PICK id \in Ids : toPi' = Sent(Append(first, [Line(command, id) EXCEPT !.entry = entry]))
    <3> DEFINE id == CHOOSE i \in FreeIds(j) : TRUE
    <3>1. FreeIds(j) # {} /\ toPi' = Sent(Append(first, [Line(command, id) EXCEPT !.entry = entry]))
      BY <1>2 DEF Call
    <3>2. id \in FreeIds(j)
      BY <3>1
    <3>3. id \in Ids
      BY <3>2 DEF FreeIds
    <3> QED
      BY <3>1, <3>3
  <2> DEFINE l == [Line(command, id) EXCEPT !.entry = entry]
  <2>2. l.id # Nil
    BY NilIsNobody DEF Line
  <2>3. toPi' = toPi \o Append(first, l)
    BY <2>1 DEF Sent
  <2> HIDE DEF l
  <2>4. Append(first, l) = first \o <<l>>
    BY AppendedPipe
  <2>5. Pipe(<<l>>) /\ Named(<<l>>)
    BY <2>2, SinglePipe, SingleTells DEF Named
  <2>6. Pipe(first \o <<l>>)
    BY <2>5, JoinedPipe
  <2>7. Named(first \o <<l>>)
    BY <2>5, JoinedTells DEF Named
  <2>8. Named(toPi \o (first \o <<l>>))
    BY <2>6, <2>7, JoinedTells DEF Named
  <2> QED
    BY <2>3, <2>4, <2>8
<1> QED
  BY <1>1, <1>2

LEMMA EmptyNamed == Pipe(<<>>) /\ Named(<<>>)
BY EmptyPipe, EmptyTells DEF Named

\* A new job in a free slot.
LEMMA NewJobEnds ==
  ASSUME QInv, EInv, NEW j \in Slots, jobs[j].op = "none",
         NEW work, NEW command, NEW entry, NEW first, IsJob(work), Call(j, work, command, entry, first),
         agent' = agent, IsLedger(ledger'), IsSession(session'), session'.managed = session.managed,
         session'.stopping => session.stopping \/ work.op = "abort",
         ledger'.compacting => ledger.compacting \/ (work.op = "compact" /\ command = "compact"),
         agent.state = "up" => /\ Pipe(first) /\ Named(first)
                               /\ Quiet(fromPi, fromPi', "compaction")
  PROVE  EInv'
<1>1. Shapes
  BY DEF EInv
<1>2. /\ JobsAreFiled' /\ jobs'[j].op = work.op /\ jobs'[j].at = command
      /\ \A k \in Slots \ {j} : jobs'[k] = jobs[k]
  BY <1>1, CallFiles
<1>3. Shapes'
  BY <1>2 DEF Shapes
<1>4. \A k \in Slots : (Aborting(k) => Aborting(k)') /\ (Compacts(k) => Compacts(k)')
  BY <1>2 DEF Aborting, Compacts
<1>5. StopHasJob'
  BY <1>2, <1>4 DEF EInv, StopHasJob, Aborting
<1>6. ASSUME agent.state = "up"
      PROVE  /\ session'.managed /\ Named(toPi')
             /\ ledger'.compacting =>
                  \/ ledger.compacting /\ \A k \in Slots : Compacts(k) => Compacts(k)'
                  \/ \E k \in Slots : Compacts(k)'
  <2>1. session.managed /\ Named(toPi) /\ Pipe(toPi)
    BY <1>6 DEF EInv, QInv, PipesHold
  <2>2. Named(toPi')
    BY <1>6, <2>1, CallIsNamed
  <2>3. work.op = "compact" /\ command = "compact" => Compacts(j)'
    BY <1>2 DEF Compacts
  <2> QED
    BY <1>4, <2>1, <2>2, <2>3
<1> QED
  BY <1>3, <1>5, <1>6, EndsKept

\* A job that goes on: what it leaves undone is shown no more.
LEMMA GoingOnEnds ==
  ASSUME QInv, EInv, NEW j \in Slots, NEW op, NEW at, Resumes(j, op, at),
         \/ Release(j)
         \/ \E work, command, entry : IsJob(work) /\ Call(j, work, command, entry, <<>>),
         agent' = agent, IsLedger(ledger'), IsSession(session'), session'.managed = session.managed,
         session'.stopping => session.stopping /\ (op = "abort" => jobs'[j].op = "abort"),
         agent.state = "up" /\ ledger'.compacting => ledger.compacting /\ ~(op = "compact" /\ at = "compact")
  PROVE  EInv'
<1>1. Shapes /\ jobs[j].op = op /\ jobs[j].at = at
  BY DEF EInv, Resumes
<1>2. JobsAreFiled' /\ \A k \in Slots \ {j} : jobs'[k] = jobs[k]
  BY <1>1, CallFiles, ReleaseFiles
<1>3. Shapes'
  BY <1>2 DEF Shapes
<1>4. StopHasJob'
  <2> SUFFICES ASSUME session'.stopping PROVE \E k \in Slots : Aborting(k)'
    BY DEF StopHasJob
  <2>1. PICK k \in Slots : Aborting(k)
    BY DEF EInv, StopHasJob
  <2> QED
    BY <1>1, <1>2, <2>1 DEF Aborting
<1>5. ASSUME agent.state = "up"
      PROVE  /\ session'.managed /\ Named(toPi') /\ Quiet(fromPi, fromPi', "compaction")
             /\ ledger'.compacting =>
                  ledger.compacting /\ \A k \in Slots : Compacts(k) => Compacts(k)'
  <2>1. session.managed /\ Named(toPi) /\ Pipe(toPi) /\ Pipe(fromPi)
    BY <1>5 DEF EInv, QInv, PipesHold
  <2>2. Named(toPi')
    <3>1. CASE Release(j)
      BY <2>1, <3>1 DEF Release
    <3>2. CASE \E work, command, entry : Call(j, work, command, entry, <<>>)
      BY <1>5, <2>1, <3>2, CallIsNamed, EmptyNamed
    <3> QED
      BY <3>1, <3>2
  <2>3. Quiet(fromPi, fromPi', "compaction")
    BY <2>1, ResumesQuiet
  <2>4. ledger'.compacting => ledger.compacting /\ \A k \in Slots : Compacts(k) => Compacts(k)'
    BY <1>1, <1>2, <1>5 DEF Compacts
  <2> QED
    BY <2>1, <2>2, <2>3, <2>4
<1> QED
  BY <1>3, <1>4, <1>5, EndsKept

\* A step that leaves jobs, session and compaction as they are.
LEMMA StillEnds ==
  ASSUME QInv, EInv, UNCHANGED jobs, agent' = agent, IsLedger(ledger'), IsSession(session'),
         session'.managed = session.managed, session'.stopping = session.stopping,
         ledger'.compacting = ledger.compacting,
         agent.state = "up" => Quiet(fromPi, fromPi', "compaction") /\ Named(toPi')
  PROVE  EInv'
<1>1. Shapes'
  BY DEF EInv, Shapes, JobsAreFiled
<1>2. StopHasJob'
  BY DEF EInv, StopHasJob, Aborting
<1>3. \A k \in Slots : Compacts(k) => Compacts(k)'
  BY DEF Compacts
<1>4. agent.state = "up" => session'.managed
  BY DEF EInv
<1> QED
  BY <1>1, <1>2, <1>3, <1>4, EndsKept

-----------------------------------------------------------------------------
(* SessionTurn: the steps of Core, for stops and compactions *)

LEMMA ReplyNamed == \A r, yes : Pipe(<<Reply(r, yes)>>) /\ Named(<<Reply(r, yes)>>)
<1> SUFFICES ASSUME NEW r, NEW yes PROVE Pipe(<<Reply(r, yes)>>) /\ Named(<<Reply(r, yes)>>)
  OBVIOUS
<1>1. Reply(r, yes).type # "compact"
  BY DEF Reply, Line
<1> QED
  BY <1>1, SinglePipe, SingleTells DEF Named

LEMMA SentNamed ==
  ASSUME NEW lines, Pipe(lines), Named(lines), Pipe(toPi), Named(toPi), toPi' = Sent(lines)
  PROVE  Named(toPi')
BY JoinedTells DEF Sent, Named

LEMMA DenyAllNamed ==
  ASSUME IsFiniteSet(pendingConfirms)
  PROVE  Pipe(DenyAll) /\ Named(DenyAll)
BY DenyAllTells DEF Named

\* What QInv and EInv say of the pipes while Pi runs.
LEMMA PipesAre ==
  ASSUME QInv, EInv, agent.state = "up"
  PROVE  /\ Pipe(toPi) /\ Pipe(fromPi) /\ IsFiniteSet(pendingConfirms)
         /\ Named(toPi) /\ session.managed /\ CompactionEnds /\ StartsAreTrue
         /\ Quiet(fromPi, fromPi, "compaction")
BY SameQuiet DEF QInv, PipesHold, EInv

LEMMA CommandEnds ==
  ASSUME QInv, EInv, NEW j \in Slots, NEW op, NEW was, NEW target, NEW command, NEW entry, NEW first,
         Command(j, op, was, target, command, entry, first),
         IsLedger(ledger'), IsSession(session'), session'.managed = session.managed,
         session'.stopping => session.stopping \/ op = "abort",
         ledger'.compacting => ledger.compacting \/ (op = "compact" /\ command = "compact"),
         agent.state = "up" => Pipe(first) /\ Named(first)
  PROVE  EInv'
<1> DEFINE work == [op |-> op, at |-> command, was |-> was, target |-> target]
<1>1. /\ jobs[j].op = "none" /\ agent' = agent /\ fromPi' = fromPi
      /\ Call(j, work, command, entry, first)
  BY DEF Command, piVars
<1>2. IsJob(work) /\ work.op = op
  BY DEF IsJob
<1> HIDE DEF work
<1>3. agent.state = "up" => Quiet(fromPi, fromPi', "compaction")
  BY <1>1, PipesAre
<1> QED
  BY <1>1, <1>2, <1>3, NewJobEnds

LEMMA CommandsEnd ==
  ASSUME QInv, EInv, NEW j \in Slots,
         \/ SendPrompt(j) \/ ClearQueue(j) \/ Abort(j) \/ Compact(j) \/ EditMessage(j)
         \/ SetModel(j) \/ SetThinking(j) \/ Ask(j)
  PROVE  EInv'
<1>1. IsLedger(ledger) /\ IsSession(session)
  BY DEF EInv, Shapes
<1>2. CASE SendPrompt(j)
  <2>1. IsLedger(ledger') /\ ledger'.compacting = ledger.compacting /\ session' = session
    BY <1>1, <1>2 DEF SendPrompt, IsLedger
  <2>2. Command(j, "prompt", ledger.busy, 0, "prompt", 0, <<>>)
    BY <1>2 DEF SendPrompt
  <2> QED
    BY <1>1, <2>1, <2>2, EmptyNamed, CommandEnds
<1>3. CASE ClearQueue(j)
  BY <1>1, <1>3, EmptyNamed, CommandEnds DEF ClearQueue
<1>4. CASE Abort(j)
  <2>1. IsSession(session') /\ session'.managed = session.managed /\ ledger' = ledger
    BY <1>1, <1>4 DEF Abort, IsSession
  <2>2. Command(j, "abort", ledger.compacting, 0, "clear_queue", 0, <<>>)
    BY <1>4 DEF Abort
  <2> QED
    BY <1>1, <2>1, <2>2, EmptyNamed, CommandEnds
<1>5. CASE Compact(j)
  <2>1. IsLedger(ledger') /\ session' = session
    BY <1>1, <1>5 DEF Compact, IsLedger
  <2>2. Command(j, "compact", FALSE, 0, "compact", 0, <<>>)
    BY <1>5 DEF Compact
  <2> QED
    BY <1>1, <2>1, <2>2, EmptyNamed, CommandEnds
<1>6. CASE EditMessage(j)
  <2>1. IsLedger(ledger') /\ ledger'.compacting = ledger.compacting /\ session' = session
    BY <1>1, <1>6 DEF EditMessage, IsLedger
  <2>2. PICK was, target, command, entry : Command(j, "edit", was, target, command, entry, DenyAll)
    BY <1>6 DEF EditMessage
  <2>3. agent.state = "up" => Pipe(DenyAll) /\ Named(DenyAll)
    BY PipesAre, DenyAllNamed
  <2> QED
    BY <1>1, <2>1, <2>2, <2>3, CommandEnds
<1>7. CASE SetModel(j)
  BY <1>1, <1>7, EmptyNamed, CommandEnds DEF SetModel
<1>8. CASE SetThinking(j) \/ Ask(j)
  BY <1>1, <1>8, EmptyNamed, CommandEnds DEF SetThinking, Ask
<1> QED
  BY <1>2, <1>3, <1>4, <1>5, <1>6, <1>7, <1>8

LEMMA ViewersEnd ==
  ASSUME QInv, EInv,
         \/ ViewersLeave \/ ViewerComes
         \/ \E r \in Questions : ConfirmationTimesOut(r) \/ \E yes \in BOOLEAN : RespondToConfirmation(r, yes)
  PROVE  EInv'
<1>1. IsLedger(ledger) /\ IsSession(session)
  BY DEF EInv, Shapes
<1>2. CASE ViewersLeave
  <2>1. /\ UNCHANGED <<jobs, agent, fromPi, ledger>> /\ IsSession(session')
        /\ session'.managed = session.managed /\ session'.stopping = session.stopping
    BY <1>1, <1>2 DEF ViewersLeave, IsSession, piVars
  <2>2. agent.state = "up" => Named(toPi')
    BY <1>2, PipesAre, DenyAllNamed, SentNamed DEF ViewersLeave
  <2> QED
    BY <1>1, <2>1, <2>2, PipesAre, StillEnds
<1>3. CASE ViewerComes
  <2>1. /\ UNCHANGED <<jobs, agent, fromPi, toPi, ledger>> /\ IsSession(session')
        /\ session'.managed = session.managed /\ session'.stopping = session.stopping
    BY <1>1, <1>3 DEF ViewerComes, IsSession, piVars, wires
  <2> QED
    BY <1>1, <2>1, PipesAre, StillEnds
<1>4. ASSUME NEW r \in Questions,
             ConfirmationTimesOut(r) \/ \E yes \in BOOLEAN : RespondToConfirmation(r, yes)
      PROVE  EInv'
  <2>1. UNCHANGED <<jobs, agent, fromPi, session>> /\ \E yes : toPi' = Sent(<<Reply(r, yes)>>)
    BY <1>4 DEF ConfirmationTimesOut, RespondToConfirmation, piVars
  <2>2. IsLedger(ledger') /\ ledger'.compacting = ledger.compacting
    BY <1>1, <1>4 DEF ConfirmationTimesOut, RespondToConfirmation, IsLedger
  <2>3. agent.state = "up" => Named(toPi')
    BY <2>1, PipesAre, ReplyNamed, SentNamed
  <2> QED
    BY <1>1, <2>1, <2>2, <2>3, PipesAre, StillEnds
<1> QED
  BY <1>2, <1>3, <1>4

LEMMA StopEndsNothing ==
  ASSUME QInv, EInv, Stop
  PROVE  EInv'
<1>1. agent'.state # "up"
  BY DEF Stop, QInv, AgentIs
<1>2. UNCHANGED <<jobs, ledger>> /\ IsSession(session') /\ session'.stopping = session.stopping
  BY DEF Stop, EInv, Shapes, IsSession
<1> QED
  BY <1>1, <1>2 DEF EInv, Shapes, JobsAreFiled, StopHasJob, Aborting

LEMMA CoresStepEnds ==
  ASSUME QInv, EInv, Core
  PROVE  EInv'
BY CommandsEnd, ViewersEnd, StopEndsNothing DEF Core

\* What a reconcile and the ends of a turn do to the compaction that is shown.
LEMMA LedgersAre ==
  ASSUME IsLedger(ledger)
  PROVE  /\ \A line : IsLedger(Reconciled(line)) /\ Reconciled(line).compacting = ledger.compacting
         /\ IsLedger(NotBusy) /\ NotBusy.compacting = ledger.compacting
         /\ \A l : IsLedger(l) => IsLedger(Finished(l)) /\ ~Finished(l).compacting
         /\ \A l : IsLedger(l) => \A busy : /\ IsLedger([l EXCEPT !.busy = busy])
                                            /\ [l EXCEPT !.busy = busy].compacting = l.compacting
<1>1. ASSUME NEW line PROVE IsLedger(Reconciled(line)) /\ Reconciled(line).compacting = ledger.compacting
  <2>1. Reconciled(line) = ledger
        \/ \E truth : Reconciled(line) = [ledger EXCEPT !.busy = FALSE, !.card = Nil, !.shown = truth]
    BY DEF Reconciled
  <2> QED
    BY <2>1 DEF IsLedger
<1>2. ASSUME NEW l, IsLedger(l) PROVE IsLedger(Finished(l)) /\ ~Finished(l).compacting
  BY <1>2 DEF Finished, IsLedger
<1>3. ASSUME NEW l, IsLedger(l), NEW busy
      PROVE  IsLedger([l EXCEPT !.busy = busy]) /\ [l EXCEPT !.busy = busy].compacting = l.compacting
  BY <1>3 DEF IsLedger
<1>4. IsLedger(NotBusy) /\ NotBusy.compacting = ledger.compacting
  BY <1>3 DEF NotBusy
<1> QED
  BY <1>1, <1>2, <1>3, <1>4

LEMMA IdleIsJob == IsJob(Idle)
BY DEF IsJob, Idle

\* A job with another operation or another memory of busy is a job.
LEMMA JobChanges ==
  ASSUME NEW work, IsJob(work), NEW op, NEW was
  PROVE  /\ IsJob([work EXCEPT !.op = op]) /\ [work EXCEPT !.op = op].op = op
         /\ IsJob([work EXCEPT !.op = op, !.was = was])
<1> DEFINE other == [work EXCEPT !.op = op]
<1>1. IsJob(other) /\ other.op = op
  BY DEF IsJob
<1>2. [work EXCEPT !.op = op, !.was = was] = [other EXCEPT !.was = was]
  OBVIOUS
<1> HIDE DEF other
<1>3. IsJob([other EXCEPT !.was = was])
  BY <1>1 DEF IsJob
<1>4. IsJob([work EXCEPT !.op = op, !.was = was])
  BY <1>2, <1>3
<1> QED
  BY <1>1, <1>4 DEF other

\* What a job finds.
LEMMA JobIs ==
  ASSUME EInv, NEW j \in Slots
  PROVE  /\ IsJob(jobs[j])
         /\ \A op : IsJob([jobs[j] EXCEPT !.op = op])
         /\ \A op, was : IsJob([jobs[j] EXCEPT !.op = op, !.was = was])
         /\ IsLedger(ledger) /\ IsSession(session)
<1>1. IsJob(jobs[j]) /\ IsLedger(ledger) /\ IsSession(session)
  BY DEF EInv, Shapes, JobsAreFiled
<1>2. \A op : IsJob([jobs[j] EXCEPT !.op = op])
  BY <1>1, JobChanges
<1>3. \A op, was : IsJob([jobs[j] EXCEPT !.op = op, !.was = was])
  BY <1>1, JobChanges
<1> QED
  BY <1>1, <1>2, <1>3

\* The jobs that end here, or go on with the session and the compaction as they are.
LEMMA PlainJobEnds ==
  ASSUME QInv, EInv, NEW j \in Slots, NEW op, NEW at, Resumes(j, op, at),
         op # "abort", ~(op = "compact" /\ at = "compact"),
         \/ Release(j)
         \/ \E work, command, entry : IsJob(work) /\ Call(j, work, command, entry, <<>>),
         agent' = agent, session' = session,
         IsLedger(ledger'), ledger'.compacting => ledger.compacting
  PROVE  EInv'
<1>1. IsSession(session')
  BY JobIs
<1> QED
  BY <1>1, GoingOnEnds

LEMMA PlainJobsEnd ==
  ASSUME QInv, EInv, NEW j \in Slots, PromptEnds(j) \/ SimpleEnds(j) \/ ModelEnds(j) \/ ReconcileEnds(j)
  PROVE  EInv'
<1>1. IsLedger(ledger)
  BY JobIs
<1>2. /\ IsLedger(NotBusy) /\ NotBusy.compacting = ledger.compacting
      /\ IsLedger(Finished(ledger)) /\ ~Finished(ledger).compacting
      /\ \A line : IsLedger(Reconciled(line)) /\ Reconciled(line).compacting = ledger.compacting
  BY <1>1, LedgersAre
<1>3. CASE PromptEnds(j)
  <2>1. Resumes(j, "prompt", "prompt") /\ Release(j) /\ UNCHANGED <<agent, session>>
        /\ ledger' \in {NotBusy, ledger}
    BY <1>3 DEF PromptEnds, piVars
  <2> QED
    BY <1>1, <1>2, <2>1, PlainJobEnds
<1>4. CASE SimpleEnds(j)
  <2>1. /\ Resumes(j, "clear", "clear_queue") \/ Resumes(j, "tune", "tune")
        /\ Release(j) /\ UNCHANGED <<agent, session, ledger>>
    BY <1>4 DEF SimpleEnds, piVars
  <2> QED
    BY <1>1, <2>1, PlainJobEnds
<1>5. CASE ModelEnds(j)
  <2>1. Resumes(j, "model", "set_model") /\ Release(j) /\ UNCHANGED <<agent, session>>
    BY <1>5 DEF ModelEnds, piVars
  <2>2. IsLedger(ledger') /\ ledger'.compacting = ledger.compacting
    BY <1>1, <1>5 DEF ModelEnds, IsLedger
  <2> QED
    BY <2>1, <2>2, PlainJobEnds
<1>6. CASE ReconcileEnds(j)
  <2>1. /\ Resumes(j, "reconcile", "get_entries") \/ Resumes(j, "compact", "get_entries")
        /\ Release(j) /\ UNCHANGED <<agent, session>>
        /\ ledger' = Reconciled(Head(fromPi)) \/ ledger' \in {Finished(ledger), ledger}
    BY <1>6 DEF ReconcileEnds, TakesFile, piVars
  <2>2. IsLedger(ledger') /\ (ledger'.compacting => ledger.compacting)
    BY <1>1, <1>2, <2>1
  <2> QED
    BY <2>1, <2>2, PlainJobEnds
<1> QED
  BY <1>3, <1>4, <1>5, <1>6

\* Whatever Pi answers, the stop ends with its job, and the compaction with its own.
LEMMA StopsEnd ==
  ASSUME QInv, EInv, NEW j \in Slots, AbortGoesOn(j) \/ AbortEnds(j) \/ CompactGoesOn(j)
  PROVE  EInv'
<1>1. IsLedger(ledger) /\ IsSession(session) /\ IsJob(jobs[j])
  BY JobIs
<1>2. /\ IsLedger(NotBusy) /\ NotBusy.compacting = ledger.compacting
      /\ IsLedger(Finished(ledger)) /\ ~Finished(ledger).compacting
      /\ IsLedger(Finished(NotBusy)) /\ ~Finished(NotBusy).compacting
  BY <1>1, LedgersAre
<1>3. CASE AbortGoesOn(j)
  <2>1. /\ Resumes(j, "abort", "clear_queue") /\ Call(j, jobs[j], "abort", 0, <<>>)
        /\ UNCHANGED <<agent, session, ledger>>
    BY <1>3 DEF AbortGoesOn, piVars
  <2>2. jobs[j].op = "abort" /\ Shapes
    BY <2>1 DEF Resumes, EInv
  <2>3. jobs'[j].op = "abort"
    BY <1>1, <2>1, <2>2, CallFiles
  <2>4. \E work, command, entry : IsJob(work) /\ Call(j, work, command, entry, <<>>)
    BY <1>1, <2>1
  <2> QED
    BY <1>1, <2>1, <2>3, <2>4, GoingOnEnds
<1>4. CASE AbortEnds(j)
  <2>1. /\ Resumes(j, "abort", "abort") /\ Release(j) /\ agent' = agent
        /\ session' = [session EXCEPT !.stopping = FALSE]
        /\ ledger' \in {Finished(NotBusy), NotBusy, ledger}
    BY <1>4 DEF AbortEnds, piVars
  <2>2. IsLedger(ledger') /\ (ledger'.compacting => ledger.compacting)
    BY <1>1, <1>2, <2>1
  <2>3. IsSession(session') /\ session'.managed = session.managed /\ ~session'.stopping
    BY <1>1, <2>1 DEF IsSession
  <2> QED
    BY <2>1, <2>2, <2>3, GoingOnEnds
<1>5. CASE CompactGoesOn(j)
  <2>1. /\ Resumes(j, "compact", "compact") /\ UNCHANGED <<agent, session>>
        /\ \/ Call(j, jobs[j], "get_entries", copy.upTo, <<>>) /\ ledger' = Finished(ledger)
           \/ Release(j) /\ ledger' = IF session.managed THEN Finished(ledger) ELSE ledger
    BY <1>5 DEF CompactGoesOn, piVars
  <2>2. IsLedger(ledger')
    BY <1>1, <1>2, <2>1
  <2>3. agent.state = "up" => ~ledger'.compacting
    BY <1>2, <2>1, PipesAre
  <2>4. \/ Release(j)
        \/ \E work, command, entry : IsJob(work) /\ Call(j, work, command, entry, <<>>)
    BY <1>1, <2>1
  <2> QED
    BY <1>1, <2>1, <2>2, <2>3, <2>4, GoingOnEnds
<1> QED
  BY <1>3, <1>4, <1>5

LEMMA EditsEnd ==
  ASSUME QInv, EInv, NEW j \in Slots, EditStopped(j) \/ EditReads(j) \/ EditMoves(j) \/ EditResends(j)
  PROVE  EInv'
<1>1. /\ IsLedger(ledger) /\ IsJob(jobs[j])
      /\ \A op : IsJob([jobs[j] EXCEPT !.op = op])
      /\ \A op, was : IsJob([jobs[j] EXCEPT !.op = op, !.was = was])
  BY JobIs
<1>2. /\ IsLedger(NotBusy) /\ NotBusy.compacting = ledger.compacting
      /\ \A line : IsLedger(Reconciled(line)) /\ Reconciled(line).compacting = ledger.compacting
      /\ \A l : IsLedger(l) => \A busy : /\ IsLedger([l EXCEPT !.busy = busy])
                                         /\ [l EXCEPT !.busy = busy].compacting = l.compacting
  BY <1>1, LedgersAre
<1>3. CASE EditStopped(j)
  <2>1. /\ Resumes(j, "edit", "abort") /\ UNCHANGED <<agent, session>>
        /\ Release(j) \/ Call(j, jobs[j], "get_entries", copy.upTo, <<>>)
        /\ ledger' \in {NotBusy, ledger}
    BY <1>3 DEF EditStopped, EditFails, piVars
  <2> QED
    BY <1>1, <1>2, <2>1, PlainJobEnds
<1>4. CASE EditReads(j)
  <2> DEFINE now == Reconciled(Head(fromPi))
  <2>1. /\ Resumes(j, "edit", "get_entries") /\ UNCHANGED <<agent, session>>
        /\ Release(j) \/ Call(j, jobs[j], "navigate", jobs[j].target, <<>>)
        /\ ledger' \in {NotBusy, now, [now EXCEPT !.busy = FALSE]}
    BY <1>4 DEF EditReads, EditFails, piVars
  <2>2. IsLedger(now) /\ now.compacting = ledger.compacting
    BY <1>2
  <2> HIDE DEF now
  <2> DEFINE free == [now EXCEPT !.busy = FALSE]
             busy == [now EXCEPT !.busy = TRUE]
  <2>3. /\ IsLedger(free) /\ free.compacting = ledger.compacting
        /\ IsLedger(busy) /\ busy.compacting = ledger.compacting
    BY <1>2, <2>2
  <2> HIDE DEF free, busy
  <2>4. ledger' \in {NotBusy, now, free, busy}
    BY <2>1 DEF free, busy
  <2>5. IsLedger(ledger') /\ ledger'.compacting = ledger.compacting
    BY <1>2, <2>2, <2>3, <2>4
  <2> QED
    BY <1>1, <2>1, <2>5, PlainJobEnds
<1>5. CASE EditMoves(j)
  <2>1. /\ Resumes(j, "edit", "navigate") /\ UNCHANGED <<agent, session>>
        /\ Release(j) \/ Call(j, [jobs[j] EXCEPT !.op = "resend"], "get_entries", copy.upTo, <<>>)
        /\ ledger' \in {NotBusy, ledger}
    BY <1>5 DEF EditMoves, EditFails, piVars
  <2>2. \/ Release(j)
        \/ \E work, command, entry : IsJob(work) /\ Call(j, work, command, entry, <<>>)
    BY <1>1, <2>1
  <2> QED
    BY <1>1, <1>2, <2>1, <2>2, PlainJobEnds
<1>6. CASE EditResends(j)
  <2> DEFINE now == Reconciled(Head(fromPi))
  <2>1. /\ Resumes(j, "resend", "get_entries") /\ UNCHANGED <<agent, session>>
        /\ Release(j) \/ Call(j, [jobs[j] EXCEPT !.op = "prompt", !.was = now.busy], "prompt", 0, <<>>)
        /\ ledger' \in {NotBusy, now, [now EXCEPT !.busy = FALSE], [now EXCEPT !.busy = TRUE]}
    BY <1>6 DEF EditResends, EditFails, piVars
  <2>2. IsLedger(now) /\ now.compacting = ledger.compacting
    BY <1>2
  <2> HIDE DEF now
  <2> DEFINE free == [now EXCEPT !.busy = FALSE]
             busy == [now EXCEPT !.busy = TRUE]
  <2>3. /\ IsLedger(free) /\ free.compacting = ledger.compacting
        /\ IsLedger(busy) /\ busy.compacting = ledger.compacting
    BY <1>2, <2>2
  <2> HIDE DEF free, busy
  <2>4. ledger' \in {NotBusy, now, free, busy}
    BY <2>1 DEF free, busy
  <2>5. IsLedger(ledger') /\ ledger'.compacting = ledger.compacting
    BY <1>2, <2>2, <2>3, <2>4
  <2>6. \/ Release(j)
        \/ \E work, command, entry : IsJob(work) /\ Call(j, work, command, entry, <<>>)
    BY <1>1, <2>1
  <2> QED
    BY <2>1, <2>5, <2>6, PlainJobEnds
<1> QED
  BY <1>3, <1>4, <1>5, <1>6

LEMMA HeardEnds ==
  ASSUME QInv, EInv,
         \/ LateAnswer \/ TurnStarts \/ MessageEnds \/ OnUiRequest
         \/ \E j \in Slots : AgentSettles(j)
  PROVE  EInv'
<1>1. IsLedger(ledger) /\ IsSession(session)
  BY DEF EInv, Shapes
<1>2. ASSUME LateAnswer \/ TurnStarts \/ MessageEnds \/ OnUiRequest PROVE EInv'
  <2>1. UNCHANGED <<jobs, agent, session>> /\ \E type : type # "compaction" /\ Hears(type)
    BY <1>2 DEF LateAnswer, TurnStarts, MessageEnds, OnUiRequest, piVars
  <2>2. IsLedger(ledger') /\ ledger'.compacting = ledger.compacting
    <3>1. CASE LateAnswer
      BY <1>1, <3>1 DEF LateAnswer
    <3>2. CASE TurnStarts
      BY <1>1, <3>2 DEF TurnStarts, IsLedger
    <3>3. CASE MessageEnds
      BY <1>1, <3>3 DEF MessageEnds, IsLedger
    <3>4. CASE OnUiRequest
      BY <1>1, <3>4 DEF OnUiRequest, IsLedger
    <3> QED
      BY <1>2, <3>1, <3>2, <3>3, <3>4
  <2>3. toPi' = toPi \/ \E r : toPi' = Sent(<<Reply(r, FALSE)>>)
    BY <1>2 DEF LateAnswer, TurnStarts, MessageEnds, OnUiRequest
  <2>4. agent.state = "up" => Named(toPi')
    BY <2>3, PipesAre, ReplyNamed, SentNamed
  <2>5. agent.state = "up" => Quiet(fromPi, fromPi', "compaction")
    BY <2>1, PipesAre, HearsQuiet
  <2> QED
    BY <1>1, <2>1, <2>2, <2>4, <2>5, StillEnds
<1>3. ASSUME NEW j \in Slots, AgentSettles(j) PROVE EInv'
  <2> DEFINE work == [Idle EXCEPT !.op = "reconcile"]
  <2>1. /\ jobs[j].op = "none" /\ UNCHANGED <<agent, session>> /\ ledger' = NotBusy
        /\ Hears("settled") /\ Call(j, work, "get_entries", copy.upTo, <<>>)
    BY <1>3 DEF AgentSettles, piVars
  <2>2. IsJob(work) /\ work.op = "reconcile"
    BY IdleIsJob, JobChanges
  <2> HIDE DEF work
  <2>3. IsLedger(NotBusy) /\ NotBusy.compacting = ledger.compacting
    BY <1>1, LedgersAre
  <2>4. agent.state = "up" => Quiet(fromPi, fromPi', "compaction")
    BY <2>1, PipesAre, HearsQuiet
  <2> QED
    BY <1>1, <2>1, <2>2, <2>3, <2>4, EmptyNamed, NewJobEnds
<1> QED
  BY <1>2, <1>3

\* Core hears that a compaction has begun only if it will hear of its end.
LEMMA CompactionChangesEnds ==
  ASSUME QInv, EInv, CompactionChanges
  PROVE  EInv'
<1> DEFINE l == Head(fromPi)
<1>1. /\ UNCHANGED <<jobs, agent, session, toPi>> /\ fromPi # <<>> /\ l.type = "compaction"
      /\ fromPi' = Tail(fromPi) /\ ledger' = [ledger EXCEPT !.compacting = l.ok]
  BY DEF CompactionChanges, Hears, piVars
<1>2. Shapes' /\ ledger'.compacting = l.ok
  BY <1>1 DEF EInv, Shapes, JobsAreFiled, IsLedger
<1>3. StopHasJob'
  BY <1>1 DEF EInv, StopHasJob, Aborting
<1> SUFFICES ASSUME agent.state = "up"
             PROVE  session'.managed /\ Named(toPi') /\ CompactionEnds' /\ StartsAreTrue'
  BY <1>1, <1>2, <1>3 DEF EInv, Named
<1>4. Pipe(fromPi) /\ Named(toPi) /\ session.managed /\ StartsAreTrue
  BY PipesAre
<1>5. /\ Unclosed(fromPi', "compaction") => Unclosed(fromPi, "compaction")
      /\ l.ok => Closing(fromPi', "compaction") \/ Unclosed(fromPi, "compaction")
  BY <1>1, <1>4, RestCloses
<1> QED
  BY <1>1, <1>2, <1>4, <1>5 DEF StartsAreTrue, CompactionEnds

LEMMA ContinuesEnds ==
  ASSUME QInv, EInv, Continues
  PROVE  EInv'
<1>1. CASE PiClosed
  <2>1. /\ agent' = agent /\ agent.state = "gone" /\ UNCHANGED <<jobs, ledger>>
        /\ session' = [session EXCEPT !.closed = TRUE, !.managed = FALSE]
    BY <1>1 DEF PiClosed, piVars
  <2>2. IsSession(session') /\ session'.stopping = session.stopping
    BY <2>1 DEF EInv, Shapes, IsSession
  <2> QED
    BY <2>1, <2>2 DEF EInv, Shapes, JobsAreFiled, StopHasJob, Aborting
<1> QED
  BY <1>1, PlainJobsEnd, StopsEnd, EditsEnd, HeardEnds, CompactionChangesEnds DEF Continues

LEMMA TimesOutEnds ==
  ASSUME QInv, EInv, TimesOut
  PROVE  EInv'
<1>1. UNCHANGED <<jobs, agent, session, ledger, toPi, fromPi>>
  BY DEF TimesOut, RequestTimesOut, piVars, wires
<1>2. IsLedger(ledger) /\ IsSession(session)
  BY DEF EInv, Shapes
<1> QED
  BY <1>1, <1>2, PipesAre, StillEnds

-----------------------------------------------------------------------------
(* SessionTurn: the steps of Pi, for stops and compactions *)

LEMMA PiEnds ==
  ASSUME QInv, EInv, PiSteps, agent'.state = agent.state,
         toPi' = toPi \/ (toPi # <<>> /\ toPi' = Tail(toPi)),
         agent.state = "up" =>
           /\ Unclosed(fromPi', "compaction") => agent'.packing # Nil
           /\ agent.packing # Nil \/ Closing(fromPi, "compaction") =>
                agent'.packing # Nil \/ Closing(fromPi', "compaction")
  PROVE  EInv'
<1>1. UNCHANGED <<jobs, ledger, session>>
  BY DEF PiSteps
<1>2. Shapes' /\ StopHasJob'
  BY <1>1 DEF EInv, Shapes, JobsAreFiled, StopHasJob, Aborting
<1> SUFFICES ASSUME agent.state = "up"
             PROVE  session'.managed /\ Named(toPi') /\ CompactionEnds' /\ StartsAreTrue'
  BY <1>2 DEF EInv, Named
<1>3. Pipe(toPi) /\ Named(toPi) /\ session.managed /\ CompactionEnds
  BY PipesAre
<1>4. Named(toPi')
  BY <1>3, RestTells DEF Named
<1>5. CompactionEnds' /\ StartsAreTrue'
  BY <1>1, <1>3 DEF CompactionEnds, StartsAreTrue, Compacts
<1> QED
  BY <1>1, <1>3, <1>4, <1>5

LEMMA QuietPiEnds ==
  ASSUME QInv, EInv, PiSteps, agent'.state = agent.state, agent'.packing = agent.packing,
         toPi' = toPi \/ (toPi # <<>> /\ toPi' = Tail(toPi)),
         Pipe(fromPi) => Quiet(fromPi, fromPi', "compaction")
  PROVE  EInv'
<1>1. ASSUME agent.state = "up"
      PROVE  /\ Unclosed(fromPi', "compaction") => agent'.packing # Nil
             /\ agent.packing # Nil \/ Closing(fromPi, "compaction") =>
                  agent'.packing # Nil \/ Closing(fromPi', "compaction")
  BY <1>1, PipesAre DEF Quiet, StartsAreTrue
<1> QED
  BY <1>1, PiEnds

\* The end of a compaction, as Pi writes it.
LEMMA OffCloses ==
  ASSUME NEW d, NEW e, d.type = "compaction", ~d.ok, e.type = "response"
  PROVE  Pipe(<<d, e>>) /\ Closing(<<d, e>>, "compaction") /\ ~Unclosed(<<d, e>>, "compaction")
<1>1. <<d, e>> \in Seq({d, e}) /\ Len(<<d, e>>) = 2 /\ <<d, e>>[1] = d /\ <<d, e>>[2] = e
  OBVIOUS
<1>2. Pipe(<<d, e>>)
  BY <1>1, PipeIs
<1> QED
  BY <1>1, <1>2 DEF Closing, Unclosed

LEMMA PlainPiEnds ==
  ASSUME QInv, EInv,
         \/ PiPrompt \/ PiClearQueue \/ PiAnswers \/ PiHearsReply
         \/ PiEntries \/ PiNavigate \/ PiSetModel \/ PiTune \/ \E r \in Questions : PiAsks(r)
  PROVE  EInv'
<1>1. CASE PiPrompt
  <2>1. /\ PiSteps /\ agent'.state = agent.state /\ agent'.packing = agent.packing
        /\ toPi # <<>> /\ toPi' = Tail(toPi)
    BY <1>1 DEF PiPrompt, PiReads, QInv, AgentIs, piVars
  <2> QED
    BY <1>1, <2>1, PiPromptQuiet, QuietPiEnds
<1>2. CASE PiClearQueue
  <2>1. /\ PiSteps /\ agent'.state = agent.state /\ agent'.packing = agent.packing
        /\ toPi # <<>> /\ toPi' = Tail(toPi)
    BY <1>2 DEF PiClearQueue, PiReads, QInv, AgentIs
  <2> QED
    BY <1>2, <2>1, PiClearQueueQuiet, QuietPiEnds
<1>3. CASE PiAnswers
  <2>1. /\ PiSteps /\ agent'.state = agent.state /\ agent'.packing = agent.packing /\ toPi' = toPi
    BY <1>3 DEF PiAnswers, QInv, AgentIs
  <2> QED
    BY <1>3, <2>1, PiAnswersQuiet, QuietPiEnds
<1>4. CASE PiHearsReply
  <2>1. /\ PiSteps /\ agent'.state = agent.state /\ agent'.packing = agent.packing
        /\ toPi # <<>> /\ toPi' = Tail(toPi) /\ fromPi' = fromPi
    BY <1>4 DEF PiHearsReply, PiReads, QInv, AgentIs
  <2> QED
    BY <2>1, SameQuiet, QuietPiEnds
<1>5. CASE PiEntries \/ PiNavigate \/ PiSetModel \/ PiTune
  <2>1. PiSteps /\ agent' = agent /\ toPi # <<>> /\ toPi' = Tail(toPi)
    BY <1>5 DEF PiEntries, PiNavigate, PiSetModel, PiTune, PiReads, piVars
  <2> QED
    BY <1>5, <2>1, PiAnsweringQuiet, QuietPiEnds
<1>6. ASSUME NEW r \in Questions, PiAsks(r) PROVE EInv'
  <2>1. /\ PiSteps /\ agent'.state = agent.state /\ agent'.packing = agent.packing /\ toPi' = toPi
        /\ fromPi' = Append(fromPi, Line("ask", r))
    BY <1>6 DEF PiAsks, QInv, AgentIs
  <2>2. Pipe(fromPi) => Quiet(fromPi, fromPi', "compaction")
    BY <2>1, LineTypes, AppendedQuiet
  <2> QED
    BY <2>1, <2>2, QuietPiEnds
<1> QED
  BY <1>1, <1>2, <1>3, <1>4, <1>5, <1>6

LEMMA PiCompactsEnd ==
  ASSUME QInv, EInv, PiCompact \/ PiCompacted
  PROVE  EInv'
<1>1. CASE PiCompact
  <2>1. PiSteps /\ toPi # <<>> /\ Head(toPi).type = "compact" /\ toPi' = Tail(toPi)
    BY <1>1 DEF PiCompact, PiReads
  <2>2. CASE agent' = [agent EXCEPT !.packing = Head(toPi).id]
    <3>1. agent'.state = agent.state /\ agent'.packing = Head(toPi).id
      BY <2>2 DEF QInv, AgentIs
    <3>2. ASSUME agent.state = "up" PROVE Head(toPi).id # Nil
      <4>1. Pipe(toPi) /\ Named(toPi)
        BY <3>2, PipesAre
      <4> QED
        BY <2>1, <4>1, RestTells DEF Named
    <3> QED
      BY <2>1, <3>1, <3>2, PiEnds
  <2>3. CASE agent' = agent /\ fromPi' = Append(fromPi, Response(Head(toPi), FALSE))
    <3>1. Pipe(fromPi) => Quiet(fromPi, fromPi', "compaction")
      BY <2>3, LineTypes, AppendedQuiet
    <3> QED
      BY <2>1, <2>3, <3>1, QuietPiEnds
  <2> QED
    BY <1>1, <2>2, <2>3 DEF PiCompact
<1>2. CASE PiCompacted
  <2> DEFINE off == [Line("compaction", Nil) EXCEPT !.ok = FALSE]
  <2>1. /\ PiSteps /\ toPi' = toPi /\ agent' = [agent EXCEPT !.packing = Nil]
        /\ \E ok : fromPi' = fromPi \o <<off, Response(Line("compact", agent.packing), ok)>>
    BY <1>2 DEF PiCompacted
  <2>2. PICK done : done.type = "response" /\ fromPi' = fromPi \o <<off, done>>
    BY <2>1, LineTypes
  <2>3. off.type = "compaction" /\ ~off.ok
    BY DEF Line
  <2> HIDE DEF off
  <2>4. agent'.state = agent.state
    BY <2>1 DEF QInv, AgentIs
  <2>5. ASSUME agent.state = "up"
        PROVE  Closing(fromPi', "compaction") /\ ~Unclosed(fromPi', "compaction")
    <3>1. Pipe(fromPi)
      BY <2>5, PipesAre
    <3>2. Pipe(<<off, done>>) /\ Closing(<<off, done>>, "compaction") /\ ~Unclosed(<<off, done>>, "compaction")
      BY <2>2, <2>3, OffCloses
    <3> QED
      BY <2>2, <3>1, <3>2, JoinedCloses
  <2> QED
    BY <2>1, <2>4, <2>5, PiEnds
<1> QED
  BY <1>1, <1>2

\* An abort of a compaction ends it, and Pi says so before it answers.
LEMMA PiAbortEnds ==
  ASSUME QInv, EInv, PiAbort
  PROVE  EInv'
<1> DEFINE off == [Line("compaction", Nil) EXCEPT !.ok = FALSE]
           undone == Response(Line("compact", agent.packing), FALSE)
           done == Response(Head(toPi), TRUE)
           told == [done EXCEPT !.last = Len(tree')]
<1>1. /\ off.type = "compaction" /\ ~off.ok /\ undone.type = "response" /\ done.type = "response"
      /\ told.type = "response"
  BY DEF Line, Response
<1>2. PiSteps /\ agent'.state = agent.state /\ toPi # <<>> /\ toPi' = Tail(toPi)
  BY DEF PiAbort, PiReads, QInv, AgentIs
<1>3. \/ /\ agent'.packing = Nil
         /\ fromPi' = fromPi \o (IF agent.packing = Nil THEN <<>> ELSE <<off, undone>>) \o <<done>>
      \/ /\ agent'.packing = agent.packing
         /\ \/ fromPi' = Append(fromPi, told)
            \/ fromPi' = fromPi \o <<Newest("answer"), Line("settled", Nil), done>>
  BY DEF PiAbort, QInv, AgentIs
<1> HIDE DEF off, undone, done, told
<1>4. Pipe(<<done>>) /\ \A id : ~Told(<<done>>, "compaction", id)
  BY <1>1, SinglePipe, SingleTells
<1>5. CASE agent'.packing = agent.packing /\ fromPi' = fromPi \o <<>> \o <<done>>
  <2>1. ASSUME Pipe(fromPi) PROVE Quiet(fromPi, fromPi', "compaction")
    <3>1. fromPi \o <<>> = fromPi
      BY <2>1, ConcatEmptySeq DEF Pipe
    <3> QED
      BY <1>4, <1>5, <2>1, <3>1, JoinedQuiet
  <2> QED
    BY <1>2, <1>5, <2>1, QuietPiEnds
<1>6. CASE fromPi' = fromPi \o <<off, undone>> \o <<done>>
  <2>1. ASSUME agent.state = "up"
        PROVE  Closing(fromPi', "compaction") /\ ~Unclosed(fromPi', "compaction")
    <3> DEFINE s == fromPi \o <<off, undone>>
    <3>1. Pipe(fromPi)
      BY <2>1, PipesAre
    <3>2. Pipe(<<off, undone>>) /\ Closing(<<off, undone>>, "compaction") /\ ~Unclosed(<<off, undone>>, "compaction")
      BY <1>1, OffCloses
    <3>3. Pipe(s) /\ Closing(s, "compaction") /\ ~Unclosed(s, "compaction")
      BY <3>1, <3>2, JoinedPipe, JoinedCloses
    <3> HIDE DEF s
    <3>4. fromPi' = s \o <<done>>
      BY <1>6 DEF s
    <3>5. Quiet(s, fromPi', "compaction")
      BY <1>4, <3>3, <3>4, JoinedQuiet
    <3> QED
      BY <3>3, <3>5 DEF Quiet
  <2> QED
    BY <1>2, <2>1, PiEnds
<1>7. CASE agent'.packing = agent.packing /\ fromPi' = Append(fromPi, told)
  <2>1. Pipe(fromPi) => Quiet(fromPi, fromPi', "compaction")
    BY <1>1, <1>7, AppendedQuiet
  <2> QED
    BY <1>2, <1>7, <2>1, QuietPiEnds
<1>8. CASE /\ agent'.packing = agent.packing
           /\ fromPi' = fromPi \o <<Newest("answer"), Line("settled", Nil), done>>
  <2>1. Pipe(fromPi) => Quiet(fromPi, fromPi', "compaction")
    BY <1>1, <1>8, LineTypes, TripleQuiet
  <2> QED
    BY <1>2, <1>8, <2>1, QuietPiEnds
<1> QED
  BY <1>3, <1>5, <1>6, <1>7, <1>8

LEMMA PiStepEnds ==
  ASSUME QInv, EInv, Pi
  PROVE  EInv'
<1>1. CASE PiExits
  <2>1. agent'.state # "up" /\ UNCHANGED <<jobs, ledger, session>>
    BY <1>1 DEF PiExits, PiSteps, QInv, AgentIs
  <2> QED
    BY <2>1 DEF EInv, Shapes, JobsAreFiled, StopHasJob, Aborting
<1> QED
  BY <1>1, PlainPiEnds, PiCompactsEnd, PiAbortEnds DEF Pi

-----------------------------------------------------------------------------
(* SessionTurn: a conversation at rest *)

LEMMA NextEInv == QInv /\ EInv /\ [TurnNext]_turnVars => EInv'
<1>1. ASSUME QInv, EInv, UNCHANGED turnVars PROVE EInv'
  <2>1. UNCHANGED <<agent, jobs, session, ledger, toPi, fromPi>>
    BY <1>1 DEF turnVars
  <2>2. IsLedger(ledger) /\ IsSession(session)
    BY <1>1 DEF EInv, Shapes
  <2> QED
    BY <1>1, <2>1, <2>2, PipesAre, StillEnds
<1> QED
  BY <1>1, CoresStepEnds, ContinuesEnds, TimesOutEnds, PiStepEnds DEF TurnNext

LEMMA InitEInv == TurnInit => EInv
<1> SUFFICES ASSUME TurnInit PROVE EInv
  OBVIOUS
<1>1. JobsAreFiled
  BY IdleIsJob DEF TurnInit, JobsAreFiled
<1>2. IsLedger(ledger) /\ IsSession(session) /\ ~session.stopping /\ ~ledger.compacting /\ session.managed
  BY DEF TurnInit, IsLedger, IsSession
<1>3. Named(toPi) /\ ~Unclosed(fromPi, "compaction")
  BY EmptyNamed, EmptyTells, SilentCloses DEF TurnInit
<1> QED
  BY <1>1, <1>2, <1>3 DEF EInv, Shapes, StopHasJob, CompactionEnds, StartsAreTrue

LEMMA RestIsOver == EInv /\ AtRest => ~ledger.compacting /\ ~session.stopping
<1> SUFFICES ASSUME EInv, AtRest PROVE ~ledger.compacting /\ ~session.stopping
  OBVIOUS
<1>1. /\ agent.state = "up" /\ agent.packing = Nil /\ fromPi = <<>>
      /\ \A j \in Slots : jobs[j].op = "none"
  BY DEF AtRest
<1>2. ~session.stopping
  BY <1>1 DEF EInv, StopHasJob, Aborting
<1>3. ~Closing(fromPi, "compaction")
  BY <1>1, EmptyTells, SilentCloses
<1>4. ~ledger.compacting
  BY <1>1, <1>3 DEF EInv, CompactionEnds, Compacts
<1> QED
  BY <1>2, <1>4

\* Nothing that overlaps, is refused, late or lost leaves a conversation at rest
\* stopping or compacting, where every later prompt would be turned away: the part
\* of RestIsFree that holds also while the ledger has drifted from the session file.
THEOREM StopsAndCompactionsEnd ==
  TurnSpec => [](AtRest => ~ledger.compacting /\ ~session.stopping)
<1>1. TurnSpec => [](QInv /\ EInv)
  BY InitQInv, NextQInv, InitEInv, NextEInv, PTL DEF TurnSpec
<1> QED
  BY <1>1, RestIsOver, PTL

\* The induction of the naturals, for a set in place of a predicate.
LEMMA Upward ==
  ASSUME NEW S, 0 \in S, \A n \in Nat : n \in S => n + 1 \in S
  PROVE  \A n \in Nat : n \in S
<1> DEFINE R == OpToRel(<, Nat)
           T == Nat \ S
<1>1. IsWellFoundedOn(R, Nat)
  BY NatLessThanWellFounded
<1>2. \A x, y \in Nat : y < x => <<y, x>> \in R
  BY DEF OpToRel
<1> HIDE DEF R
<1>3. SUFFICES ASSUME T # {} PROVE FALSE
  OBVIOUS
<1>4. PICK n \in T : \A m \in T : <<m, n>> \notin R
  <2>1. T \subseteq Nat
    OBVIOUS
  <2> HIDE DEF T
  <2> QED
    BY <1>1, <1>3, <2>1, WFMin
<1>5. n \in Nat /\ n # 0 /\ n - 1 \in Nat /\ n - 1 < n /\ n = (n - 1) + 1
  BY <1>4
<1>6. n - 1 \in S
  BY <1>2, <1>4, <1>5
<1> QED
  BY <1>4, <1>5, <1>6

-----------------------------------------------------------------------------
(* SessionTurn: branches of the session file *)

LEMMA PathExists ==
  ASSUME NEW file, Rooted(file), NEW entries
  PROVE  \A m \in Nat : m <= Len(file) => \E path : Unrolls(path, file, entries, m)
<1> DEFINE S == {m \in Nat : m <= Len(file) => \E path : Unrolls(path, file, entries, m)}
<1>1. 0 \in S
  <2> DEFINE path == [n \in 0..0 |-> <<>>]
  <2>1. Unrolls(path, file, entries, 0)
    BY DEF Unrolls
  <2> QED
    BY <2>1
<1>2. ASSUME NEW m \in Nat, m \in S PROVE m + 1 \in S
  <2> SUFFICES ASSUME m + 1 <= Len(file) PROVE \E path : Unrolls(path, file, entries, m + 1)
    OBVIOUS
  <2>1. m <= Len(file) /\ Len(file) \in Nat
    BY DEF Rooted
  <2>2. PICK p : Unrolls(p, file, entries, m)
    BY <1>2, <2>1
  <2> DEFINE Step(n) == IF n = 0 \/ n \notin entries THEN <<>> ELSE Append(p[file[n].parent], n)
             q == [n \in 0..(m + 1) |-> Step(n)]
  <2>3. \A n \in 0..m : q[n] = p[n]
    <3> SUFFICES ASSUME NEW n \in 0..m PROVE q[n] = p[n]
      OBVIOUS
    <3>1. p[n] = Step(n)
      BY <2>2 DEF Unrolls
    <3>2. n \in 0..(m + 1)
      OBVIOUS
    <3> HIDE DEF Step
    <3> QED
      BY <3>1, <3>2
  <2>4. \A n \in 0..(m + 1) : n # 0 => q[file[n].parent] = p[file[n].parent]
    <3> SUFFICES ASSUME NEW n \in 0..(m + 1), n # 0 PROVE q[file[n].parent] = p[file[n].parent]
      OBVIOUS
    <3>1. n \in 1..Len(file)
      BY <2>1
    <3>2. file[n].parent \in 0..(n - 1)
      BY <3>1 DEF Rooted
    <3>3. file[n].parent \in 0..m
      BY <3>2
    <3> HIDE DEF q
    <3> QED
      BY <2>3, <3>3
  <2>5. q = [n \in 0..(m + 1) |-> IF n = 0 \/ n \notin entries THEN <<>> ELSE Append(q[file[n].parent], n)]
    <3>1. q = [n \in 0..(m + 1) |-> IF n = 0 \/ n \notin entries THEN <<>> ELSE Append(p[file[n].parent], n)]
      OBVIOUS
    <3> HIDE DEF q
    <3> QED
      BY <2>4, <3>1
  <2> HIDE DEF q
  <2>6. Unrolls(q, file, entries, m + 1)
    BY <2>5 DEF Unrolls
  <2> QED
    BY <2>6
<1>3. \A m \in Nat : m \in S
  <2> HIDE DEF S
  <2> QED
    BY <1>1, <1>2, Upward
<1> QED
  BY <1>3

LEMMA BranchUnrolls ==
  ASSUME NEW file, Rooted(file), NEW entries, NEW n \in 0..Len(file)
  PROVE  BranchOf(file, entries, n) =
           IF n = 0 \/ n \notin entries THEN <<>> ELSE Append(BranchOf(file, entries, file[n].parent), n)
<1> DEFINE P(p) == p = [k \in 0..Len(file) |-> IF k = 0 \/ k \notin entries THEN <<>> ELSE Append(p[file[k].parent], k)]
           path == CHOOSE p : P(p)
<1>1. \A k : BranchOf(file, entries, k) = path[k]
  BY DEF BranchOf
<1>2. \E p : P(p)
  <2>1. Len(file) \in Nat /\ Len(file) <= Len(file)
    BY DEF Rooted
  <2>2. PICK p : Unrolls(p, file, entries, Len(file))
    BY <2>1, PathExists
  <2>3. P(p)
    BY <2>2 DEF Unrolls
  <2> QED
    BY <2>3
<1>3. P(path)
  <2> HIDE DEF P
  <2> QED
    BY <1>2
<1> HIDE DEF path
<1> QED
  BY <1>1, <1>3

\* A branch goes up to where it is read from.
LEMMA BranchIs ==
  ASSUME NEW file, Rooted(file), NEW entries
  PROVE  \A n \in 0..Len(file) : BranchOf(file, entries, n) \in Seq(1..n)
<1> DEFINE S == {k \in Nat : \A n \in 0..Len(file) : n <= k => BranchOf(file, entries, n) \in Seq(1..n)}
<1>0. Len(file) \in Nat
  BY DEF Rooted
<1>1. 0 \in S
  <2>1. 0 \in 0..Len(file)
    BY <1>0
  <2>2. BranchOf(file, entries, 0) = <<>>
    BY <2>1, BranchUnrolls
  <2>3. \A n \in 0..Len(file) : n <= 0 => n = 0
    BY <1>0
  <2>4. BranchOf(file, entries, 0) \in Seq(1..0)
    BY <2>2, EmptySeq
  <2> QED
    BY <2>3, <2>4
<1>2. ASSUME NEW k \in Nat, k \in S PROVE k + 1 \in S
  <2> SUFFICES ASSUME NEW n \in 0..Len(file), n = k + 1 PROVE BranchOf(file, entries, n) \in Seq(1..n)
    BY <1>0, <1>2
  <2> DEFINE up == file[n].parent
             b == BranchOf(file, entries, up)
  <2>1. n \in 1..Len(file)
    BY <1>0
  <2>2. up \in 0..(n - 1)
    BY <2>1 DEF Rooted
  <2>3. up \in 0..Len(file) /\ up <= k
    BY <1>0, <2>2
  <2> HIDE DEF up
  <2>4. b \in Seq(1..up)
    BY <1>2, <2>3
  <2>5. (1..up) \subseteq (1..n) /\ n \in 1..n
    BY <2>1, <2>3
  <2>6. BranchOf(file, entries, n) = <<>> \/ BranchOf(file, entries, n) = Append(b, n)
    BY BranchUnrolls DEF up
  <2> HIDE DEF b
  <2>7. b \in Seq(1..n)
    BY <2>4, <2>5, SeqMonotonic
  <2>8. Append(b, n) \in Seq(1..n) /\ <<>> \in Seq(1..n)
    <3> DEFINE T == 1..n
    <3>1. b \in Seq(T) /\ n \in T
      BY <2>5, <2>7
    <3> HIDE DEF T
    <3>2. Append(b, n) \in Seq(T) /\ <<>> \in Seq(T)
      BY <3>1
    <3> QED
      BY <3>2 DEF T
  <2> QED
    BY <2>6, <2>8
<1>3. \A k \in Nat : k \in S
  <2> HIDE DEF S
  <2> QED
    BY <1>1, <1>2, Upward
<1> QED
  BY <1>0, <1>3

\* Two files that begin alike, read through the same entries.
LEMMA BranchesAgree ==
  ASSUME NEW file, Rooted(file), NEW other, Rooted(other), NEW entries, NEW others,
         NEW m \in Nat, m <= Len(file), m <= Len(other),
         \A n \in 1..m : file[n].parent = other[n].parent /\ (n \in entries <=> n \in others)
  PROVE  \A n \in 0..m : BranchOf(file, entries, n) = BranchOf(other, others, n)
<1> DEFINE Equal(n) == BranchOf(file, entries, n) = BranchOf(other, others, n)
           S == {k \in Nat : \A n \in 0..m : n <= k => Equal(n)}
<1>0. Len(file) \in Nat /\ Len(other) \in Nat
  BY DEF Rooted
<1>1. 0 \in S
  <2>1. 0 \in 0..Len(file) /\ 0 \in 0..Len(other)
    BY <1>0
  <2>2. Equal(0)
    BY <2>1, BranchUnrolls
  <2>3. \A n \in 0..m : n <= 0 => n = 0
    OBVIOUS
  <2> QED
    BY <2>2, <2>3
<1>2. ASSUME NEW k \in Nat, k \in S PROVE k + 1 \in S
  <2> SUFFICES ASSUME NEW n \in 0..m, n = k + 1 PROVE Equal(n)
    BY <1>2
  <2>1. n \in 0..Len(file) /\ n \in 0..Len(other) /\ n \in 1..Len(file) /\ n \in 1..m
    BY <1>0
  <2>2. file[n].parent \in 0..(n - 1) /\ file[n].parent = other[n].parent
    BY <2>1 DEF Rooted
  <2>3. file[n].parent \in 0..m /\ file[n].parent <= k
    BY <2>2
  <2>4. Equal(file[n].parent)
    BY <1>2, <2>3
  <2>5. n \in entries <=> n \in others
    BY <2>1
  <2>6. BranchOf(file, entries, n) = IF n = 0 \/ n \notin entries THEN <<>> ELSE Append(BranchOf(file, entries, file[n].parent), n)
    BY <2>1, BranchUnrolls
  <2>7. BranchOf(other, others, n) = IF n = 0 \/ n \notin others THEN <<>> ELSE Append(BranchOf(other, others, other[n].parent), n)
    BY <2>1, BranchUnrolls
  <2> QED
    BY <2>2, <2>4, <2>5, <2>6, <2>7
<1>3. \A k \in Nat : k \in S
  <2> HIDE DEF S
  <2> QED
    BY <1>1, <1>2, Upward
<1> QED
  BY <1>3

LEMMA BranchGrows ==
  ASSUME NEW file, Rooted(file), NEW other, Rooted(other), Begins(file, other), NEW x \in 0..Len(file)
  PROVE  Truth(other, x) = Truth(file, x) /\ \A n : OnPath(other, n, x) <=> OnPath(file, n, x)
<1>1. Len(file) \in Nat /\ Len(file) <= Len(file) /\ Len(file) <= Len(other) /\ Len(other) \in Nat
  BY DEF Rooted, Begins
<1>2. \A n \in 1..Len(file) : file[n].parent = other[n].parent /\ (n \in 1..Len(file) <=> n \in 1..Len(other))
  BY <1>1 DEF Begins
<1>3. BranchOf(file, 1..Len(file), x) = BranchOf(other, 1..Len(other), x)
  BY <1>1, <1>2, BranchesAgree
<1> QED
  BY <1>3 DEF Truth, OnPath

\* Who has read the first entries sees their branches.
LEMMA KnownBranch ==
  ASSUME NEW file, Rooted(file), NEW m \in 0..Len(file), NEW x \in 0..m
  PROVE  BranchOf(file, 1..m, x) = BranchOf(file, 1..Len(file), x)
<1>1. Len(file) \in Nat
  BY DEF Rooted
<1>2. m \in Nat /\ m <= Len(file) /\ \A n \in 1..m : n \in 1..m <=> n \in 1..Len(file)
  BY <1>1
<1> QED
  BY <1>2, BranchesAgree

LEMMA AppendedRange ==
  ASSUME NEW S, NEW b \in Seq(S), NEW e \in S
  PROVE  \A n : n \in Range(Append(b, e)) <=> n \in Range(b) \/ n = e
<1> DEFINE c == Append(b, e)
<1>1. /\ DOMAIN b = 1..Len(b) /\ Len(b) \in Nat /\ DOMAIN c = 1..Len(c) /\ Len(c) = Len(b) + 1
      /\ c[Len(c)] = e /\ \A i \in 1..Len(b) : c[i] = b[i]
  OBVIOUS
<1> HIDE DEF c
<1>2. ASSUME NEW n, n \in Range(c) PROVE n \in Range(b) \/ n = e
  <2>1. PICK i \in 1..Len(c) : n = c[i]
    BY <1>1, <1>2 DEF Range
  <2>2. i \in 1..Len(b) \/ i = Len(c)
    BY <1>1
  <2> QED
    BY <1>1, <2>1, <2>2 DEF Range
<1>3. ASSUME NEW n, n \in Range(b) PROVE n \in Range(c)
  <2>1. PICK i \in 1..Len(b) : n = b[i]
    BY <1>1, <1>3 DEF Range
  <2>2. i \in 1..Len(c)
    BY <1>1
  <2> QED
    BY <1>1, <2>1, <2>2 DEF Range
<1>4. e \in Range(c)
  BY <1>1 DEF Range
<1> QED
  BY <1>2, <1>3, <1>4 DEF c

LEMMA AppendedFold ==
  ASSUME NEW S, NEW b \in Seq(S), NEW e \in S
  PROVE  FoldEntries(Append(b, e)) = Append(FoldEntries(b), Message(e, TRUE))
<1> DEFINE c == Append(b, e)
           F(s) == [i \in 1..Len(s) |-> Message(s[i], TRUE)]
           T == {Message(x, TRUE) : x \in S}
<1>1. Len(b) \in Nat /\ Len(c) = Len(b) + 1 /\ c[Len(c)] = e /\ \A i \in 1..Len(b) : c[i] = b[i] /\ b[i] \in S
  OBVIOUS
<1> HIDE DEF c
<1>2. F(b) \in [1..Len(b) -> T]
  BY <1>1
<1>3. F(b) \in Seq(T) /\ Len(F(b)) = Len(b) /\ Message(e, TRUE) \in T
  <2> DEFINE g == F(b)
  <2> HIDE DEF F, T
  <2>1. g \in Seq(T) /\ Len(g) = Len(b)
    BY <1>1, <1>2, FunctionIsSeq
  <2> QED
    BY <2>1 DEF T
<1> DEFINE d == Append(F(b), Message(e, TRUE))
<1>4. /\ d \in Seq(T) /\ Len(d) = Len(b) + 1 /\ d[Len(b) + 1] = Message(e, TRUE)
      /\ \A i \in 1..Len(b) : d[i] = F(b)[i]
  <2> DEFINE g == F(b)
             m == Message(e, TRUE)
  <2>1. g \in Seq(T) /\ Len(g) = Len(b) /\ m \in T
    BY <1>3
  <2> HIDE DEF F, T, m, g
  <2>2. Append(g, m) \in Seq(T) /\ Len(Append(g, m)) = Len(g) + 1 /\ Append(g, m)[Len(g) + 1] = m
        /\ \A i \in 1..Len(g) : Append(g, m)[i] = g[i]
    BY <2>1, AppendProperties
  <2> QED
    BY <2>1, <2>2 DEF m, g
<1>5. d = [i \in 1..(Len(b) + 1) |-> d[i]]
  <2> HIDE DEF d, T
  <2>1. DOMAIN d = 1..Len(d) /\ d = [i \in 1..Len(d) |-> d[i]]
    BY <1>4
  <2> QED
    BY <1>4, <2>1
<1>6. \A i \in 1..(Len(b) + 1) : d[i] = F(c)[i]
  <2> SUFFICES ASSUME NEW i \in 1..(Len(b) + 1) PROVE d[i] = F(c)[i]
    OBVIOUS
  <2>1. F(c)[i] = Message(c[i], TRUE)
    BY <1>1
  <2>2. CASE i \in 1..Len(b)
    <3>1. F(b)[i] = Message(b[i], TRUE)
      BY <2>2
    <3> HIDE DEF d, F
    <3> QED
      BY <1>1, <1>4, <2>1, <2>2, <3>1
  <2>3. CASE i = Len(b) + 1
    <3> HIDE DEF d, F
    <3> QED
      BY <1>1, <1>4, <2>1, <2>3
  <2>4. i \in 1..Len(b) \/ i = Len(b) + 1
    BY <1>1
  <2> QED
    BY <2>2, <2>3, <2>4
<1>7. F(c) = d
  <2>1. F(c) = [i \in 1..(Len(b) + 1) |-> F(c)[i]]
    BY <1>1
  <2> HIDE DEF F, d
  <2> QED
    BY <1>5, <1>6, <2>1
<1> QED
  BY <1>7 DEF FoldEntries, c

\* One entry more on a branch.
LEMMA BranchStep ==
  ASSUME NEW file, Rooted(file), NEW n \in 1..Len(file)
  PROVE  /\ file[n].parent \in 0..Len(file)
         /\ Truth(file, n) = Append(Truth(file, file[n].parent), Message(n, TRUE))
         /\ \A k : OnPath(file, k, n) <=> OnPath(file, k, file[n].parent) \/ k = n
<1> DEFINE E == 1..Len(file)
           up == file[n].parent
           b == BranchOf(file, E, up)
<1>1. Len(file) \in Nat /\ up \in 0..(n - 1)
  BY DEF Rooted
<1>2. up \in 0..Len(file) /\ n \in 0..Len(file) /\ n # 0
  BY <1>1
<1>3. BranchOf(file, E, n) = Append(b, n)
  BY <1>2, BranchUnrolls
<1>4. b \in Seq(1..up)
  BY <1>2, BranchIs
<1>5. b \in Seq(E)
  <2>1. (1..up) \subseteq E
    BY <1>1, <1>2
  <2> HIDE DEF E, up, b
  <2> QED
    BY <1>4, <2>1, SeqMonotonic
<1>6. n \in E
  OBVIOUS
<1> HIDE DEF E, b
<1>7. FoldEntries(Append(b, n)) = Append(FoldEntries(b), Message(n, TRUE))
  BY <1>5, <1>6, AppendedFold
<1>8. \A k : k \in Range(Append(b, n)) <=> k \in Range(b) \/ k = n
  BY <1>5, <1>6, AppendedRange
<1> QED
  BY <1>2, <1>3, <1>7, <1>8 DEF Truth, OnPath, E, b

LEMMA PathBelow ==
  ASSUME NEW file, Rooted(file), NEW x \in 0..Len(file), NEW n, OnPath(file, n, x)
  PROVE  n \in 1..x
<1> DEFINE b == BranchOf(file, 1..Len(file), x)
<1>1. b \in Seq(1..x)
  BY BranchIs
<1>2. n \in Range(b)
  BY DEF OnPath
<1> HIDE DEF b
<1> QED
  BY <1>1, <1>2 DEF Range

\* Pipes of the same lines are the same.
LEMMA SamePipe ==
  ASSUME NEW s, Pipe(s), NEW t, Pipe(t), Len(s) = Len(t), \A i \in 1..Len(s) : s[i] = t[i]
  PROVE  s = t
<1>1. /\ s = [i \in 1..Len(s) |-> s[i]]
      /\ t = [i \in 1..Len(t) |-> t[i]]
  BY DEF Pipe
<1> QED
  BY <1>1

\* What a branch shows is its entries, in order, each under its own id.
LEMMA TruthIs ==
  ASSUME NEW file, Rooted(file), NEW x \in 0..Len(file)
  PROVE  \E b :
           /\ b = BranchOf(file, 1..Len(file), x)
           /\ Pipe(Truth(file, x)) /\ Len(Truth(file, x)) = Len(b) /\ Len(b) \in Nat
           /\ \A i \in 1..Len(b) :
                Truth(file, x)[i] = Message(b[i], TRUE) /\ b[i] \in 1..x /\ OnPath(file, b[i], x)
           /\ \A n : OnPath(file, n, x) => \E i \in 1..Len(b) : b[i] = n
<1> DEFINE b == BranchOf(file, 1..Len(file), x)
           T == {Message(n, TRUE) : n \in 1..x}
           t == [i \in 1..Len(b) |-> Message(b[i], TRUE)]
<1>0. Truth(file, x) = t
  BY DEF Truth, FoldEntries
<1>1. b \in Seq(1..x)
  BY BranchIs
<1>1a. \A n : OnPath(file, n, x) <=> n \in Range(b)
  BY DEF OnPath
<1> HIDE DEF b
<1>2. Len(b) \in Nat /\ DOMAIN b = 1..Len(b) /\ \A i \in 1..Len(b) : b[i] \in 1..x
  BY <1>1
<1>3. t \in [1..Len(b) -> T]
  BY <1>2
<1>4. t \in Seq(T) /\ Len(t) = Len(b)
  <2> HIDE DEF t, T
  <2> QED
    BY <1>2, <1>3, FunctionIsSeq
<1>5. Pipe(t)
  BY <1>4, PipeIs
<1>6. \A i \in 1..Len(b) : t[i] = Message(b[i], TRUE) /\ b[i] \in 1..x /\ b[i] \in Range(b)
  BY <1>2 DEF Range
<1>7. \A n : n \in Range(b) => \E i \in 1..Len(b) : b[i] = n
  BY <1>2 DEF Range
<1> HIDE DEF t
<1>9. b = BranchOf(file, 1..Len(file), x)
  BY DEF b
<1> QED
  BY <1>0, <1>1a, <1>2, <1>4, <1>5, <1>6, <1>7, <1>9

\* The places of a pipe without its head, and of two pipes in one.
LEMMA RestPlaces ==
  ASSUME NEW s, Pipe(s), s # <<>>
  PROVE  /\ Pipe(Tail(s)) /\ Len(s) \in Nat \ {0} /\ Len(Tail(s)) \in Nat /\ Len(s) = Len(Tail(s)) + 1
         /\ Head(s) = s[1] /\ 1 \in 1..Len(s)
         /\ \A q \in 1..Len(Tail(s)) : q + 1 \in 1..Len(s) /\ Tail(s)[q] = s[q + 1]
         /\ \A q \in 1..Len(s) : q # 1 => q - 1 \in 1..Len(Tail(s)) /\ s[q] = Tail(s)[q - 1]
<1> DEFINE t == Tail(s)
<1>1. /\ Pipe(t) /\ Len(s) \in Nat \ {0} /\ Len(t) = Len(s) - 1 /\ Head(s) = s[1]
      /\ \A i \in 1..Len(s) - 1 : t[i] = s[i + 1]
  BY RestPipe
<1> HIDE DEF t
<1>2. ASSUME NEW q \in 1..Len(s), q # 1 PROVE q - 1 \in 1..Len(t) /\ s[q] = t[q - 1]
  <2>1. q - 1 \in 1..(Len(s) - 1) /\ (q - 1) + 1 = q
    BY <1>1, <1>2
  <2> QED
    BY <1>1, <2>1
<1> QED
  BY <1>1, <1>2 DEF t

LEMMA JoinedPlaces ==
  ASSUME NEW s, NEW t, Pipe(s), Pipe(t)
  PROVE  LET st == s \o t
         IN  /\ Pipe(st) /\ Len(s) \in Nat /\ Len(t) \in Nat /\ Len(st) = Len(s) + Len(t)
             /\ \A q \in 1..Len(s) : q \in 1..Len(st) /\ st[q] = s[q]
             /\ \A q \in 1..Len(t) : Len(s) + q \in 1..Len(st) /\ st[Len(s) + q] = t[q]
             /\ \A q \in 1..Len(st) : \/ q \in 1..Len(s) /\ st[q] = s[q]
                                      \/ q > Len(s) /\ q - Len(s) \in 1..Len(t) /\ st[q] = t[q - Len(s)]
<1> DEFINE st == s \o t
<1>1. /\ Pipe(st) /\ Len(s) \in Nat /\ Len(t) \in Nat /\ Len(st) = Len(s) + Len(t)
      /\ \A i \in 1..Len(s) : st[i] = s[i]
      /\ \A i \in 1..Len(t) : st[Len(s) + i] = t[i]
  BY JoinedPipe
<1> HIDE DEF st
<1>2. \A q \in 1..Len(s) : q \in 1..Len(st)
  BY <1>1
<1>3. \A q \in 1..Len(t) : Len(s) + q \in 1..Len(st)
  BY <1>1
<1>4. ASSUME NEW q \in 1..Len(st)
      PROVE  \/ q \in 1..Len(s) /\ st[q] = s[q]
             \/ q > Len(s) /\ q - Len(s) \in 1..Len(t) /\ st[q] = t[q - Len(s)]
  <2>1. CASE q <= Len(s)
    BY <1>1, <2>1
  <2>2. CASE q > Len(s)
    <3>1. q - Len(s) \in 1..Len(t) /\ Len(s) + (q - Len(s)) = q
      BY <1>1, <2>2
    <3> QED
      BY <1>1, <2>2, <3>1
  <2> QED
    BY <1>1, <2>1, <2>2
<1> QED
  BY <1>1, <1>2, <1>3, <1>4 DEF st

\* One line more.
LEMMA OnePlace ==
  ASSUME NEW s, Pipe(s), NEW e
  PROVE  LET st == s \o <<e>>
         IN  /\ Pipe(st) /\ Len(s) \in Nat /\ Len(st) = Len(s) + 1 /\ Len(st) \in 1..Len(st) /\ st[Len(st)] = e
             /\ \A q \in 1..Len(s) : q \in 1..Len(st) /\ st[q] = s[q]
             /\ \A q \in 1..Len(st) : (q \in 1..Len(s) /\ st[q] = s[q]) \/ q = Len(st)
<1>1. ASSUME NEW t, Pipe(t), Len(t) = 1, t[1] = e
      PROVE  LET st == s \o t
             IN  /\ Pipe(st) /\ Len(s) \in Nat /\ Len(st) = Len(s) + 1 /\ Len(st) \in 1..Len(st) /\ st[Len(st)] = e
                 /\ \A q \in 1..Len(s) : q \in 1..Len(st) /\ st[q] = s[q]
                 /\ \A q \in 1..Len(st) : (q \in 1..Len(s) /\ st[q] = s[q]) \/ q = Len(st)
  <2> DEFINE st == s \o t
  <2>1. /\ Pipe(st) /\ Len(s) \in Nat /\ Len(t) \in Nat /\ Len(st) = Len(s) + Len(t)
        /\ \A q \in 1..Len(s) : q \in 1..Len(st) /\ st[q] = s[q]
        /\ \A q \in 1..Len(t) : Len(s) + q \in 1..Len(st) /\ st[Len(s) + q] = t[q]
        /\ \A q \in 1..Len(st) : \/ q \in 1..Len(s) /\ st[q] = s[q]
                                 \/ q > Len(s) /\ q - Len(s) \in 1..Len(t) /\ st[q] = t[q - Len(s)]
    BY <1>1, JoinedPlaces
  <2> HIDE DEF st
  <2>2. Len(st) = Len(s) + 1 /\ Len(st) \in 1..Len(st) /\ 1 \in 1..Len(t)
    BY <1>1, <2>1
  <2>3. st[Len(st)] = e
    BY <1>1, <2>1, <2>2
  <2>4. \A q \in 1..Len(st) : q > Len(s) => q = Len(st)
    BY <2>1, <2>2
  <2> QED
    BY <2>1, <2>2, <2>3, <2>4 DEF st
<1>2. Pipe(<<e>>) /\ Len(<<e>>) = 1 /\ <<e>>[1] = e
  BY SinglePipe
<1> QED
  BY <1>1, <1>2

LEMMA RestFollowed ==
  ASSUME NEW s, Pipe(s), s # <<>>, NEW going, Followed(s, going)
  PROVE  Followed(Tail(s), going)
<1> DEFINE t == Tail(s)
<1>1. /\ Len(t) \in Nat
      /\ \A q \in 1..Len(t) : q + 1 \in 1..Len(s) /\ t[q] = s[q + 1]
      /\ \A q \in 1..Len(s) : q # 1 => q - 1 \in 1..Len(t) /\ s[q] = t[q - 1]
  BY RestPlaces
<1> HIDE DEF t
<1> SUFFICES ASSUME ~going, NEW q \in 1..Len(t), TurnLine(t[q])
             PROVE  \E r \in 1..Len(t) : r > q /\ Ends(t[r])
  BY DEF Followed, t
<1>2. PICK r \in 1..Len(s) : r > q + 1 /\ Ends(s[r])
  BY <1>1 DEF Followed
<1>3. r - 1 \in 1..Len(t) /\ r - 1 > q /\ t[r - 1] = s[r]
  BY <1>1, <1>2
<1> QED
  BY <1>2, <1>3

LEMMA JoinedFollowed ==
  ASSUME NEW s, Pipe(s), NEW t, Pipe(t), NEW going, NEW now,
         \/ now
         \/ (going => now) /\ Followed(s, going) /\ \A q \in 1..Len(t) : ~TurnLine(t[q])
         \/ \E e \in 1..Len(t) : Ends(t[e]) /\ \A q \in 1..Len(t) : q >= e => ~TurnLine(t[q])
  PROVE  Followed(s \o t, now)
<1> DEFINE st == s \o t
<1>1. /\ Len(s) \in Nat /\ Len(t) \in Nat
      /\ \A q \in 1..Len(s) : q \in 1..Len(st) /\ st[q] = s[q]
      /\ \A q \in 1..Len(t) : Len(s) + q \in 1..Len(st) /\ st[Len(s) + q] = t[q]
      /\ \A q \in 1..Len(st) : \/ q \in 1..Len(s) /\ st[q] = s[q]
                               \/ q > Len(s) /\ q - Len(s) \in 1..Len(t) /\ st[q] = t[q - Len(s)]
  BY JoinedPlaces
<1> HIDE DEF st
<1> SUFFICES ASSUME ~now, NEW q \in 1..Len(st), TurnLine(st[q])
             PROVE  \E r \in 1..Len(st) : r > q /\ Ends(st[r])
  BY DEF Followed, st
<1>2. CASE ~going /\ Followed(s, going) /\ \A k \in 1..Len(t) : ~TurnLine(t[k])
  <2>1. q \in 1..Len(s) /\ TurnLine(s[q])
    BY <1>1, <1>2
  <2>2. PICK r \in 1..Len(s) : r > q /\ Ends(s[r])
    BY <1>2, <2>1 DEF Followed
  <2> QED
    BY <1>1, <2>2
<1>3. CASE \E e \in 1..Len(t) : Ends(t[e]) /\ \A k \in 1..Len(t) : k >= e => ~TurnLine(t[k])
  <2>1. PICK e \in 1..Len(t) : Ends(t[e]) /\ \A k \in 1..Len(t) : k >= e => ~TurnLine(t[k])
    BY <1>3
  <2>2. CASE q \in 1..Len(s)
    BY <1>1, <2>1, <2>2
  <2>3. CASE q > Len(s) /\ q - Len(s) \in 1..Len(t) /\ st[q] = t[q - Len(s)]
    <3>1. ~(q - Len(s) >= e)
      BY <2>1, <2>3
    <3>2. Len(s) + e > q
      BY <1>1, <2>1, <2>3, <3>1
    <3> QED
      BY <1>1, <2>1, <3>2
  <2> QED
    BY <1>1, <2>2, <2>3
<1> QED
  BY <1>2, <1>3

LEMMA RestOrdered ==
  ASSUME NEW s, Pipe(s), s # <<>>, Ordered(s)
  PROVE  /\ Ordered(Tail(s))
         /\ IsRead(Head(s)) => \A l \in Elements(Tail(s)) : IsRead(l) => Head(s).last <= l.last
<1> DEFINE t == Tail(s)
<1>1. /\ Len(t) \in Nat /\ Head(s) = s[1] /\ 1 \in 1..Len(s)
      /\ \A q \in 1..Len(t) : q + 1 \in 1..Len(s) /\ t[q] = s[q + 1]
  BY RestPlaces
<1> HIDE DEF t
<1>2. Ordered(t)
  <2> SUFFICES ASSUME NEW q \in 1..Len(t), NEW r \in 1..Len(t), q < r, IsRead(t[q]), IsRead(t[r])
               PROVE  t[q].last <= t[r].last
    BY DEF Ordered
  <2>1. q + 1 < r + 1
    BY <1>1
  <2> QED
    BY <1>1, <2>1 DEF Ordered
<1>3. ASSUME IsRead(Head(s)), NEW l \in Elements(t), IsRead(l) PROVE Head(s).last <= l.last
  <2>1. PICK q \in 1..Len(t) : l = t[q]
    BY <1>3 DEF Elements
  <2>2. 1 < q + 1
    BY <1>1
  <2> QED
    BY <1>1, <1>3, <2>1, <2>2 DEF Ordered
<1> QED
  BY <1>2, <1>3 DEF t

LEMMA JoinedOrdered ==
  ASSUME NEW s, Pipe(s), NEW t, Pipe(t), Ordered(s), Ordered(t),
         \A l \in Elements(s), k \in Elements(t) : IsRead(l) /\ IsRead(k) => l.last <= k.last
  PROVE  Ordered(s \o t)
<1> DEFINE st == s \o t
<1>1. /\ Len(s) \in Nat /\ Len(t) \in Nat
      /\ \A q \in 1..Len(st) : \/ q \in 1..Len(s) /\ st[q] = s[q]
                               \/ q > Len(s) /\ q - Len(s) \in 1..Len(t) /\ st[q] = t[q - Len(s)]
      /\ \A q \in 1..Len(st) : q \in Nat
  BY JoinedPlaces
<1> HIDE DEF st
<1> SUFFICES ASSUME NEW q \in 1..Len(st), NEW r \in 1..Len(st), q < r, IsRead(st[q]), IsRead(st[r])
             PROVE  st[q].last <= st[r].last
  BY DEF Ordered, st
<1>2. CASE r \in 1..Len(s) /\ st[r] = s[r]
  <2>1. q \in 1..Len(s) /\ st[q] = s[q]
    BY <1>1, <1>2
  <2> QED
    BY <1>2, <2>1 DEF Ordered
<1>3. CASE r > Len(s) /\ r - Len(s) \in 1..Len(t) /\ st[r] = t[r - Len(s)]
  <2>1. CASE q \in 1..Len(s) /\ st[q] = s[q]
    <3>1. st[q] \in Elements(s) /\ st[r] \in Elements(t)
      BY <1>3, <2>1 DEF Elements
    <3> QED
      BY <3>1
  <2>2. CASE q > Len(s) /\ q - Len(s) \in 1..Len(t) /\ st[q] = t[q - Len(s)]
    <3>1. q - Len(s) < r - Len(s)
      BY <1>1, <1>3, <2>2
    <3> QED
      BY <1>3, <2>2, <3>1 DEF Ordered
  <2> QED
    BY <1>1, <2>1, <2>2
<1> QED
  BY <1>1, <1>2, <1>3

\* The lines of a pipe without its head, and of two pipes in one.
LEMMA RestLines ==
  ASSUME NEW s, Pipe(s), s # <<>>
  PROVE  Elements(Tail(s)) \subseteq Elements(s) /\ Head(s) \in Elements(s)
<1> DEFINE t == Tail(s)
<1>1. /\ Head(s) = s[1] /\ 1 \in 1..Len(s)
      /\ \A q \in 1..Len(t) : q + 1 \in 1..Len(s) /\ t[q] = s[q + 1]
  BY RestPlaces
<1> HIDE DEF t
<1>2. \A l \in Elements(t) : l \in Elements(s)
  BY <1>1 DEF Elements
<1> QED
  BY <1>1, <1>2 DEF Elements, t

LEMMA JoinedLines ==
  ASSUME NEW s, Pipe(s), NEW t, Pipe(t)
  PROVE  Elements(s \o t) = Elements(s) \cup Elements(t)
<1> DEFINE st == s \o t
<1>1. /\ \A q \in 1..Len(s) : q \in 1..Len(st) /\ st[q] = s[q]
      /\ \A q \in 1..Len(t) : Len(s) + q \in 1..Len(st) /\ st[Len(s) + q] = t[q]
      /\ \A q \in 1..Len(st) : \/ q \in 1..Len(s) /\ st[q] = s[q]
                               \/ q > Len(s) /\ q - Len(s) \in 1..Len(t) /\ st[q] = t[q - Len(s)]
  BY JoinedPlaces
<1> HIDE DEF st
<1>2. ASSUME NEW l \in Elements(st) PROVE l \in Elements(s) \cup Elements(t)
  <2>1. PICK q \in 1..Len(st) : l = st[q]
    BY DEF Elements
  <2> QED
    BY <1>1, <2>1 DEF Elements
<1>3. ASSUME NEW l \in Elements(s) PROVE l \in Elements(st)
  BY <1>1 DEF Elements
<1>4. ASSUME NEW l \in Elements(t) PROVE l \in Elements(st)
  <2>1. PICK q \in 1..Len(t) : l = t[q]
    BY DEF Elements
  <2> QED
    BY <1>1, <2>1 DEF Elements
<1> QED
  BY <1>2, <1>3, <1>4 DEF st

LEMMA SingleLines == \A e : Elements(<<e>>) = {e} /\ Elements(<<>>) = {}
<1> SUFFICES ASSUME NEW e PROVE Elements(<<e>>) = {e} /\ Elements(<<>>) = {}
  OBVIOUS
<1>1. Len(<<e>>) = 1 /\ <<e>>[1] = e /\ Len(<<>>) = 0
  BY SinglePipe, EmptyPipe
<1> QED
  BY <1>1 DEF Elements

LEMMA LeadsRest ==
  ASSUME NEW s, Pipe(s), s # <<>>, NEW q \in Nat, q <= Len(Tail(s)), NEW from, NEW file, NEW to,
         Leads(s, q + 1, from, file, to)
  PROVE  Leads(Tail(s), q, from, file, to)
<1> DEFINE t == Tail(s)
<1>1. /\ Len(t) \in Nat /\ Len(s) = Len(t) + 1
      /\ \A r \in 1..Len(t) : r + 1 \in 1..Len(s) /\ t[r] = s[r + 1]
  BY RestPlaces
<1>2. PICK f : f[q + 1] = from /\ f[Len(s)] = to /\ \A r \in 1..Len(s) : r > q + 1 => Steps(s, f, r, file)
  BY DEF Leads
<1>0. q <= Len(t)
  OBVIOUS
<1> HIDE DEF t
<1> DEFINE g == [r \in Nat |-> f[r + 1]]
<1>3. g[q] = from /\ g[Len(t)] = to
  BY <1>1, <1>2
<1>4. ASSUME NEW r \in 1..Len(t), r > q PROVE Steps(t, g, r, file)
  <2>1. r + 1 \in 1..Len(s) /\ r + 1 > q + 1 /\ t[r] = s[r + 1]
    BY <1>1, <1>4
  <2>2. Steps(s, f, r + 1, file)
    BY <1>2, <2>1
  <2>3. (r + 1) - 1 = r /\ r \in Nat /\ r - 1 \in Nat /\ (r - 1) + 1 = r
    BY <1>1
  <2>4. g[r] = f[r + 1] /\ g[r - 1] = f[r]
    BY <2>3
  <2> HIDE DEF g
  <2> QED
    BY <2>1, <2>2, <2>3, <2>4 DEF Steps
<1> HIDE DEF g
<1>5. Leads(t, q, from, file, to)
  BY <1>3, <1>4 DEF Leads
<1> QED
  BY <1>5 DEF t

\* Core handles the head: a model that it appends, or a line that moves no leaf.
LEMMA LeadsOn ==
  ASSUME NEW s, Pipe(s), s # <<>>, NEW from, NEW file, NEW to, Leads(s, 0, from, file, to)
  PROVE  IF IsModel(Head(s)) THEN file[Head(s).last].parent = from /\ Leads(Tail(s), 0, Head(s).last, file, to)
                             ELSE Leads(Tail(s), 0, from, file, to)
<1>1. 1 \in 1..Len(s) /\ Head(s) = s[1] /\ Len(Tail(s)) \in Nat /\ Len(s) \in Nat
  BY RestPlaces
<1>2. PICK f : f[0] = from /\ f[Len(s)] = to /\ \A r \in 1..Len(s) : r > 0 => Steps(s, f, r, file)
  BY DEF Leads
<1>3. Steps(s, f, 1, file)
  BY <1>1, <1>2
<1>4. Leads(s, 0 + 1, f[1], file, to)
  <2>1. \A r \in 1..Len(s) : r > 1 => Steps(s, f, r, file)
    BY <1>1, <1>2
  <2> QED
    BY <1>2, <2>1 DEF Leads
<1>5. Leads(Tail(s), 0, f[1], file, to)
  BY <1>1, <1>4, LeadsRest
<1> QED
  BY <1>1, <1>2, <1>3, <1>5 DEF Steps

LEMMA LeadsPlain ==
  ASSUME NEW s, Pipe(s), NEW t, Pipe(t), NEW q \in 0..Len(s), NEW from, NEW file, NEW to,
         Leads(s, q, from, file, to), \A l \in Elements(t) : ~IsModel(l)
  PROVE  Leads(s \o t, q, from, file, to)
<1> DEFINE st == s \o t
<1>1. /\ Len(s) \in Nat /\ Len(t) \in Nat /\ Len(st) = Len(s) + Len(t)
      /\ \A r \in 1..Len(st) : \/ r \in 1..Len(s) /\ st[r] = s[r]
                               \/ r > Len(s) /\ r - Len(s) \in 1..Len(t) /\ st[r] = t[r - Len(s)]
  BY JoinedPlaces
<1> HIDE DEF st
<1>2. PICK f : f[q] = from /\ f[Len(s)] = to /\ \A r \in 1..Len(s) : r > q => Steps(s, f, r, file)
  BY DEF Leads
<1> DEFINE g == [r \in Nat |-> IF r <= Len(s) THEN f[r] ELSE to]
<1>3. \A r \in Nat : g[r] = IF r <= Len(s) THEN f[r] ELSE to
  OBVIOUS
<1> HIDE DEF g
<1>4. g[q] = from /\ g[Len(st)] = to
  BY <1>1, <1>2, <1>3
<1>5. ASSUME NEW r \in 1..Len(st), r > q PROVE Steps(st, g, r, file)
  <2>1. CASE r \in 1..Len(s) /\ st[r] = s[r]
    <3>1. Steps(s, f, r, file)
      BY <1>2, <1>5, <2>1
    <3>2. r \in Nat /\ r - 1 \in Nat /\ r <= Len(s) /\ r - 1 <= Len(s)
      BY <1>1, <2>1
    <3>3. g[r] = f[r] /\ g[r - 1] = f[r - 1]
      BY <1>3, <3>2
    <3> QED
      BY <2>1, <3>1, <3>3 DEF Steps
  <2>2. CASE r > Len(s) /\ r - Len(s) \in 1..Len(t) /\ st[r] = t[r - Len(s)]
    <3>1. ~IsModel(st[r])
      BY <2>2 DEF Elements
    <3>2. r \in Nat /\ r - 1 \in Nat /\ ~(r <= Len(s)) /\ (r - 1 <= Len(s) => r - 1 = Len(s))
      BY <1>1, <2>2
    <3>3. g[r] = to /\ g[r - 1] = to
      BY <1>2, <1>3, <3>2
    <3> QED
      BY <3>1, <3>3 DEF Steps
  <2> QED
    BY <1>1, <2>1, <2>2
<1>6. Leads(st, q, from, file, to)
  BY <1>4, <1>5 DEF Leads
<1> QED
  BY <1>6 DEF st

LEMMA LeadsFurther ==
  ASSUME NEW s, Pipe(s), NEW e, NEW q \in 0..Len(s), NEW from, NEW file, NEW to,
         Leads(s, q, from, file, to), IsModel(e), file[e.last].parent = to
  PROVE  Leads(s \o <<e>>, q, from, file, e.last)
<1> DEFINE st == s \o <<e>>
<1>1. /\ Len(s) \in Nat /\ Len(st) = Len(s) + 1 /\ st[Len(st)] = e
      /\ \A r \in 1..Len(st) : (r \in 1..Len(s) /\ st[r] = s[r]) \/ r = Len(st)
  BY OnePlace
<1> HIDE DEF st
<1>2. PICK f : f[q] = from /\ f[Len(s)] = to /\ \A r \in 1..Len(s) : r > q => Steps(s, f, r, file)
  BY DEF Leads
<1> DEFINE g == [r \in Nat |-> IF r <= Len(s) THEN f[r] ELSE e.last]
<1>3. \A r \in Nat : g[r] = IF r <= Len(s) THEN f[r] ELSE e.last
  OBVIOUS
<1> HIDE DEF g
<1>4. g[q] = from /\ g[Len(st)] = e.last /\ g[Len(st) - 1] = to
  <2>1. Len(st) \in Nat /\ Len(st) - 1 = Len(s) /\ ~(Len(st) <= Len(s)) /\ q \in Nat /\ q <= Len(s)
    BY <1>1
  <2> QED
    BY <1>1, <1>2, <1>3, <2>1
<1>5. ASSUME NEW r \in 1..Len(st), r > q PROVE Steps(st, g, r, file)
  <2>1. CASE r \in 1..Len(s) /\ st[r] = s[r]
    <3>1. Steps(s, f, r, file)
      BY <1>2, <1>5, <2>1
    <3>2. r \in Nat /\ r - 1 \in Nat /\ r <= Len(s) /\ r - 1 <= Len(s)
      BY <1>1, <2>1
    <3>3. g[r] = f[r] /\ g[r - 1] = f[r - 1]
      BY <1>3, <3>2
    <3> QED
      BY <2>1, <3>1, <3>3 DEF Steps
  <2>2. CASE r = Len(st)
    BY <1>1, <1>4, <2>2 DEF Steps
  <2> QED
    BY <1>1, <2>1, <2>2
<1>6. Leads(st, q, from, file, e.last)
  BY <1>4, <1>5 DEF Leads
<1> QED
  BY <1>6 DEF st

LEMMA LeadsNowhere ==
  ASSUME NEW s, Pipe(s), NEW x, NEW file
  PROVE  Leads(s, Len(s), x, file, x)
<1>1. Len(s) \in Nat
  BY JoinedPipe
<1> DEFINE f == [r \in Nat |-> x]
<1>2. f[Len(s)] = x /\ \A r \in 1..Len(s) : r > Len(s) => Steps(s, f, r, file)
  BY <1>1
<1> HIDE DEF f
<1> QED
  BY <1>2 DEF Leads

LEMMA LeadsInMore ==
  ASSUME NEW s, NEW q, NEW from, NEW file, NEW other, NEW to, Leads(s, q, from, file, to),
         Begins(file, other), \A l \in Elements(s) : IsModel(l) => l.last \in 1..Len(file)
  PROVE  Leads(s, q, from, other, to)
<1>1. PICK f : f[q] = from /\ f[Len(s)] = to /\ \A r \in 1..Len(s) : r > q => Steps(s, f, r, file)
  BY DEF Leads
<1>2. ASSUME NEW r \in 1..Len(s), r > q PROVE Steps(s, f, r, other)
  <2>1. Steps(s, f, r, file) /\ s[r] \in Elements(s)
    BY <1>1, <1>2 DEF Elements
  <2> QED
    BY <2>1 DEF Steps, Begins
<1> QED
  BY <1>1, <1>2 DEF Leads

\* What is due after a place, and what reads tell, as the pipe moves.
LEMMA RestDue ==
  ASSUME NEW s, Pipe(s), s # <<>>, NEW q \in Nat, NEW going, DueAfter(s, going, q + 1)
  PROVE  DueAfter(Tail(s), going, q)
<1> DEFINE t == Tail(s)
<1>1. /\ Len(t) \in Nat /\ Len(s) = Len(t) + 1
      /\ \A r \in 1..Len(s) : r # 1 => r - 1 \in 1..Len(t) /\ s[r] = t[r - 1]
  BY RestPlaces
<1> HIDE DEF t
<1>2. ASSUME NEW r \in 1..Len(s), r > q + 1 PROVE r - 1 \in 1..Len(t) /\ s[r] = t[r - 1] /\ r - 1 > q
  BY <1>1, <1>2
<1>3. DueAfter(t, going, q)
  BY <1>2 DEF DueAfter
<1> QED
  BY <1>3 DEF t

LEMMA JoinedDue ==
  ASSUME NEW s, Pipe(s), NEW t, Pipe(t), NEW q \in 0..Len(s), NEW going, NEW now,
         \/ now
         \/ (going => now) /\ DueAfter(s, going, q)
         \/ \E l \in Elements(t) : Ends(l) \/ IsMove(l)
  PROVE  DueAfter(s \o t, now, q)
<1> DEFINE st == s \o t
<1>1. /\ Len(s) \in Nat /\ Len(t) \in Nat
      /\ \A r \in 1..Len(s) : r \in 1..Len(st) /\ st[r] = s[r]
      /\ \A r \in 1..Len(t) : Len(s) + r \in 1..Len(st) /\ st[Len(s) + r] = t[r]
  BY JoinedPlaces
<1> HIDE DEF st
<1>2. CASE (going => now) /\ DueAfter(s, going, q)
  <2>1. DueAfter(st, now, q)
    BY <1>1, <1>2 DEF DueAfter
  <2> QED
    BY <2>1 DEF st
<1>3. CASE \E l \in Elements(t) : Ends(l) \/ IsMove(l)
  <2>1. PICK r \in 1..Len(t) : Ends(t[r]) \/ IsMove(t[r])
    BY <1>3 DEF Elements
  <2>2. Len(s) + r > q
    BY <1>1
  <2>3. DueAfter(st, now, q)
    BY <1>1, <2>1, <2>2 DEF DueAfter
  <2> QED
    BY <2>3 DEF st
<1> QED
  BY <1>2, <1>3 DEF DueAfter

LEMMA RestReads ==
  ASSUME NEW s, Pipe(s), s # <<>>, NEW going, NEW file, NEW to, ReadsAreTrue(s, going, file, to)
  PROVE  /\ ReadsAreTrue(Tail(s), going, file, to)
         /\ IsRead(Head(s)) => DueAfter(Tail(s), going, 0) \/ Leads(Tail(s), 0, Head(s).leaf, file, to)
<1> DEFINE t == Tail(s)
<1>1. /\ Len(t) \in Nat /\ 1 \in 1..Len(s) /\ Head(s) = s[1] /\ 0 + 1 = 1
      /\ \A r \in 1..Len(t) : r + 1 \in 1..Len(s) /\ t[r] = s[r + 1]
  BY RestPlaces
<1>2. ASSUME NEW q \in Nat, q <= Len(t), IsRead(s[q + 1]), q + 1 \in 1..Len(s)
      PROVE  DueAfter(t, going, q) \/ Leads(t, q, s[q + 1].leaf, file, to)
  <2>1. CASE DueAfter(s, going, q + 1)
    BY <2>1, RestDue
  <2>2. CASE Leads(s, q + 1, s[q + 1].leaf, file, to)
    BY <1>2, <2>2, LeadsRest
  <2> QED
    BY <1>2, <2>1, <2>2 DEF ReadsAreTrue
<1> HIDE DEF t
<1>3. ReadsAreTrue(t, going, file, to)
  <2> SUFFICES ASSUME NEW q \in 1..Len(t), IsRead(t[q])
               PROVE  DueAfter(t, going, q) \/ Leads(t, q, t[q].leaf, file, to)
    BY DEF ReadsAreTrue
  <2>1. q \in Nat /\ q <= Len(t) /\ q + 1 \in 1..Len(s) /\ t[q] = s[q + 1]
    BY <1>1
  <2> QED
    BY <1>2, <2>1
<1>4. IsRead(Head(s)) => DueAfter(t, going, 0) \/ Leads(t, 0, Head(s).leaf, file, to)
  <2>1. 0 \in Nat /\ 0 <= Len(t) /\ s[0 + 1] = Head(s) /\ 0 + 1 \in 1..Len(s)
    BY <1>1
  <2> QED
    BY <1>2, <2>1
<1> QED
  BY <1>3, <1>4 DEF t

LEMMA JoinedReads ==
  ASSUME NEW s, Pipe(s), NEW t, Pipe(t), NEW going, NEW now, NEW file, NEW to, ReadsAreTrue(s, going, file, to),
         NEW other, NEW then, \A l \in Elements(t) : ~IsRead(l),
         \/ now
         \/ \E l \in Elements(t) : Ends(l) \/ IsMove(l)
         \/ now = going /\ other = file /\ then = to /\ \A l \in Elements(t) : ~IsModel(l)
  PROVE  ReadsAreTrue(s \o t, now, other, then)
<1> DEFINE st == s \o t
<1>1. /\ Len(s) \in Nat
      /\ \A q \in 1..Len(st) : \/ q \in 1..Len(s) /\ st[q] = s[q]
                               \/ q > Len(s) /\ q - Len(s) \in 1..Len(t) /\ st[q] = t[q - Len(s)]
  BY JoinedPlaces
<1> SUFFICES ASSUME NEW q \in 1..Len(st), IsRead(st[q])
             PROVE  DueAfter(st, now, q) \/ Leads(st, q, st[q].leaf, other, then)
  BY DEF ReadsAreTrue
<1>2. q \in 1..Len(s) /\ q \in 0..Len(s) /\ st[q] = s[q]
  <2> HIDE DEF st
  <2> QED
    BY <1>1 DEF Elements
<1>3. CASE now \/ \E l \in Elements(t) : Ends(l) \/ IsMove(l)
  BY <1>2, <1>3, JoinedDue
<1>4. CASE now = going /\ other = file /\ then = to /\ \A l \in Elements(t) : ~IsModel(l)
  <2>1. DueAfter(s, going, q) \/ Leads(s, q, s[q].leaf, file, to)
    BY <1>2 DEF ReadsAreTrue
  <2>2. CASE DueAfter(s, going, q)
    BY <1>2, <1>4, <2>2, JoinedDue
  <2>3. CASE Leads(s, q, s[q].leaf, file, to)
    BY <1>2, <1>4, <2>3, LeadsPlain
  <2> QED
    BY <2>1, <2>2, <2>3
<1> QED
  BY <1>3, <1>4

\* A read that tells the file as it is.
LEMMA FreshRead ==
  ASSUME NEW s, Pipe(s), NEW e, NEW going, NEW file, NEW to, ReadsAreTrue(s, going, file, to), e.leaf = to,
         ~IsModel(e)
  PROVE  ReadsAreTrue(s \o <<e>>, going, file, to)
<1> DEFINE st == s \o <<e>>
<1>1. /\ Len(s) \in Nat /\ Pipe(st) /\ st[Len(st)] = e
      /\ \A q \in 1..Len(st) : (q \in 1..Len(s) /\ st[q] = s[q]) \/ q = Len(st)
  BY OnePlace
<1>2. Pipe(<<e>>) /\ Elements(<<e>>) = {e}
  BY SinglePipe, SingleLines
<1>3. Leads(st, Len(st), e.leaf, file, to)
  <2> HIDE DEF st
  <2> QED
    BY <1>1, LeadsNowhere
<1> SUFFICES ASSUME NEW q \in 1..Len(st), IsRead(st[q])
             PROVE  DueAfter(st, going, q) \/ Leads(st, q, st[q].leaf, file, to)
  BY DEF ReadsAreTrue
<1>4. CASE q \in 1..Len(s) /\ st[q] = s[q]
  <2>1. DueAfter(s, going, q) \/ Leads(s, q, s[q].leaf, file, to)
    BY <1>4 DEF ReadsAreTrue
  <2>0. q \in 0..Len(s) /\ \A l \in Elements(<<e>>) : ~IsModel(l)
    BY <1>2, <1>4
  <2>2. CASE DueAfter(s, going, q)
    BY <1>2, <2>0, <2>2, JoinedDue
  <2>3. CASE Leads(s, q, s[q].leaf, file, to)
    BY <1>2, <1>4, <2>0, <2>3, LeadsPlain
  <2> QED
    BY <2>1, <2>2, <2>3
<1> HIDE DEF st
<1> QED
  BY <1>1, <1>3, <1>4

\* A model is stored, and told, after the leaf.
LEMMA OneModelMore ==
  ASSUME NEW s, Pipe(s), NEW e, NEW going, NEW file, NEW to, NEW other, Begins(file, other),
         \A l \in Elements(s) : IsModel(l) => l.last \in 1..Len(file),
         IsModel(e), other[e.last].parent = to
  PROVE  /\ ReadsAreTrue(s, going, file, to) => ReadsAreTrue(s \o <<e>>, going, other, e.last)
         /\ \A x : Leads(s, 0, x, file, to) => Leads(s \o <<e>>, 0, x, other, e.last)
<1> DEFINE st == s \o <<e>>
<1>1. /\ Len(s) \in Nat /\ Pipe(st) /\ st[Len(st)] = e
      /\ \A q \in 1..Len(st) : (q \in 1..Len(s) /\ st[q] = s[q]) \/ q = Len(st)
  BY OnePlace
<1>2. ASSUME NEW q \in 0..Len(s), NEW x, Leads(s, q, x, file, to) PROVE Leads(st, q, x, other, e.last)
  <2>1. Leads(s, q, x, other, to)
    BY <1>2, LeadsInMore
  <2> QED
    BY <2>1, LeadsFurther
<1>3. ASSUME ReadsAreTrue(s, going, file, to) PROVE ReadsAreTrue(st, going, other, e.last)
  <2> SUFFICES ASSUME NEW q \in 1..Len(st), IsRead(st[q])
               PROVE  DueAfter(st, going, q) \/ Leads(st, q, st[q].leaf, other, e.last)
    BY DEF ReadsAreTrue
  <2>1. q \in 1..Len(s) /\ q \in 0..Len(s) /\ st[q] = s[q]
    <3>1. ~IsRead(e)
      BY DEF IsRead, IsModel, Answers
    <3> HIDE DEF st
    <3> QED
      BY <1>1, <3>1
  <2>2. DueAfter(s, going, q) \/ Leads(s, q, s[q].leaf, file, to)
    BY <1>3, <2>1 DEF ReadsAreTrue
  <2>3. CASE DueAfter(s, going, q)
    BY <2>1, <2>3, SinglePipe, JoinedDue
  <2> QED
    BY <1>2, <2>1, <2>2, <2>3
<1>4. 0 \in 0..Len(s)
  BY <1>1
<1> QED
  BY <1>2, <1>3, <1>4

-----------------------------------------------------------------------------
(* SessionTurn: what Core knows of the session file *)

\* What a read makes of the ledger.
LEMMA ReconciledIs ==
  ASSUME FileHolds, CopyHolds, Transcript(ledger.shown), NEW l, ReadHolds(l), IsLedger(ledger)
  PROVE  /\ Absorbed(l).stored = 1..l.last /\ Absorbed(l).upTo = l.last /\ Absorbed(l).leaf = l.leaf
         /\ Reconciled(l).shown = Truth(tree, l.leaf)
         /\ Reconciled(l).busy => Reconciled(l) = ledger
         /\ Branch(Absorbed(l).stored, l.leaf) = BranchOf(tree, 1..Len(tree), l.leaf)
<1> DEFINE now == Absorbed(l)
           b == BranchOf(tree, 1..Len(tree), l.leaf)
           truth == FoldEntries(Branch(now.stored, now.leaf))
<1>0. /\ Len(tree) \in Nat /\ copy.upTo \in 0..Len(tree) /\ l.entry \in 0..copy.upTo
      /\ l.last \in copy.upTo..Len(tree) /\ l.leaf \in 0..l.last
  BY DEF FileHolds, Rooted, CopyHolds, ReadHolds
<1>1. now.stored = copy.stored \cup (l.entry + 1)..l.last /\ now.upTo = l.last /\ now.leaf = l.leaf
  <2>1. /\ now.stored = copy.stored \cup (l.entry + 1)..l.last /\ now.leaf = l.leaf
        /\ now.upTo = IF l.last > l.entry THEN l.last ELSE copy.upTo
    BY Zenon DEF Absorbed
  <2>2. now.upTo = l.last
    <3> HIDE DEF now
    <3> QED
      BY <1>0, <2>1
  <2> HIDE DEF now
  <2> QED
    BY <2>1, <2>2
<1>2. now.stored = 1..l.last
  <2>1. copy.stored = 1..copy.upTo
    BY DEF CopyHolds
  <2>2. (1..copy.upTo) \cup ((l.entry + 1)..l.last) = 1..l.last
    BY <1>0
  <2> QED
    BY <1>1, <2>1, <2>2
<1>3. Branch(now.stored, now.leaf) = b
  <2>1. Branch(now.stored, now.leaf) = BranchOf(tree, 1..l.last, l.leaf)
    BY <1>1, <1>2 DEF Branch, BranchOf
  <2>2. l.last \in 0..Len(tree)
    BY <1>0
  <2> QED
    BY <1>0, <2>1, <2>2, KnownBranch DEF FileHolds
<1>4. truth = Truth(tree, l.leaf)
  BY <1>3 DEF Truth
<1> HIDE DEF now, truth
<1>5. CASE SameTranscript(ledger.shown, truth) /\ \A i \in 1..Len(ledger.shown) : ledger.shown[i].stable
  <2>1. Reconciled(l) = ledger
    BY <1>5 DEF Reconciled, now, truth
  <2>2. l.leaf \in 0..Len(tree)
    BY <1>0
  <2>3. /\ Pipe(truth) /\ Len(truth) = Len(b)
        /\ \A i \in 1..Len(truth) : truth[i] = Message(b[i], TRUE)
    <3>1. Rooted(tree)
      BY DEF FileHolds
    <3>2. PICK c : /\ c = b /\ Len(Truth(tree, l.leaf)) = Len(c)
                   /\ Pipe(Truth(tree, l.leaf))
                   /\ \A i \in 1..Len(c) : Truth(tree, l.leaf)[i] = Message(c[i], TRUE)
      BY <2>2, <3>1, TruthIs DEF Message
    <3> HIDE DEF b
    <3> QED
      BY <1>4, <3>2 DEF Message
  <2>4. Len(ledger.shown) = Len(b) /\ \A i \in 1..Len(b) : ledger.shown[i] = Message(b[i], TRUE)
    <3> HIDE DEF b
    <3> SUFFICES ASSUME NEW i \in 1..Len(b) PROVE ledger.shown[i] = Message(b[i], TRUE)
      BY <1>5, <2>3 DEF SameTranscript
    <3>1. /\ ledger.shown[i] = Message(ledger.shown[i].entry, TRUE)
          /\ ledger.shown[i].entry = truth[i].entry
      <4>1. Len(ledger.shown) = Len(b)
        BY <1>5, <2>3 DEF SameTranscript
      <4>2. /\ ledger.shown[i] = Message(ledger.shown[i].entry, ledger.shown[i].stable)
            /\ ledger.shown[i].stable \in BOOLEAN
        BY <4>1 DEF Transcript
      <4>3. ledger.shown[i].stable = TRUE
        BY <1>5, <4>1, <4>2
      <4>4. ledger.shown[i].entry = truth[i].entry
        BY <1>5, <4>1 DEF SameTranscript
      <4> QED
        BY <4>2, <4>3, <4>4 DEF Message
    <3>2. truth[i].entry = b[i]
      <4>1. i \in 1..Len(truth)
        BY <2>3
      <4>2. truth[i] = Message(b[i], TRUE)
        BY <2>3, <4>1, Zenon
      <4>3. \A n : Message(n, TRUE).entry = n
        BY DEF Message
      <4> QED
        BY <4>2, <4>3
    <3> QED
      BY <3>1, <3>2 DEF Message
  <2>6. ledger.shown = truth
    <3>1. Pipe(ledger.shown)
      BY DEF Transcript
    <3> QED
      BY <2>3, <2>4, <3>1, SamePipe DEF Message
  <2> QED
    BY <1>1, <1>2, <1>3, <1>4, <2>1, <2>6 DEF now
<1>6. CASE ~(SameTranscript(ledger.shown, truth) /\ \A i \in 1..Len(ledger.shown) : ledger.shown[i].stable)
  <2>1. Reconciled(l) = [ledger EXCEPT !.busy = FALSE, !.card = Nil, !.shown = truth]
    BY <1>6 DEF Reconciled, now, truth
  <2>2. Reconciled(l).shown = truth /\ ~Reconciled(l).busy
    BY <2>1 DEF IsLedger
  <2> QED
    BY <1>1, <1>2, <1>3, <1>4, <2>2 DEF now
<1> QED
  BY <1>5, <1>6

LEMMA PipeRange ==
  ASSUME NEW s, Pipe(s)
  PROVE  Range(s) = Elements(s)
<1>1. DOMAIN s = 1..Len(s)
  BY DEF Pipe
<1> QED
  BY <1>1 DEF Range, Elements

LEMMA CallWrites ==
  ASSUME ~session.closed, agent.state = "up", JobsAreFiled, pending \in [Ids -> Slots \cup {Nil}],
         Pipe(toPi), Pipe(fromPi'), NEW j \in Slots, NEW work, IsJob(work), NEW command, NEW entry, NEW first,
         Pipe(first), \A l \in Elements(first) : l.type = "reply",
         Call(j, work, command, entry, first), command = "get_entries" => entry = copy.upTo
  PROVE  \E t : /\ Writes(t) /\ (command = "get_entries" => Asks(t))
               /\ \A l \in Elements(t) : l.type \in {"reply", command}
<1> DEFINE w == [work EXCEPT !.at = command]
           id == CHOOSE i \in FreeIds(j) : TRUE
           line == [Line(command, id) EXCEPT !.entry = entry]
           t == Append(first, line)
<1>1. /\ jobs' = [jobs EXCEPT ![j] = w] /\ FreeIds(j) # {}
      /\ pending' = [Forgotten(j) EXCEPT ![id] = j] /\ toPi' = toPi \o t
  BY DEF Call, Sent
<1>2. id \in FreeIds(j)
  BY <1>1
<1>3. line.type = command /\ line.id = id /\ line.entry = entry
  BY DEF Line
<1>4. w.at = command
  BY DEF IsJob
<1> HIDE DEF w, id, line
<1>5. \A k \in Slots : jobs'[k] = IF k = j THEN w ELSE jobs[k]
  BY <1>1 DEF JobsAreFiled
<1>6. id \in Ids /\ ~Traced(id)
  <2>1. Range(toPi) = Elements(toPi) /\ Range(fromPi') = Elements(fromPi')
    BY PipeRange
  <2>2. /\ id \in Ids /\ id # agent.packing
        /\ \A l \in Range(toPi) \cup Range(fromPi') : l.id # id
    BY <1>2 DEF FreeIds
  <2> QED
    BY <2>1, <2>2 DEF Traced
<1>7. /\ pending' \in [Ids -> Slots \cup {Nil}] /\ pending'[id] = j
      /\ \A i \in Ids : i # id => pending'[i] = IF pending[i] = j THEN Nil ELSE pending[i]
  BY <1>1, <1>6 DEF Forgotten
<1>8. Pipe(t) /\ Elements(t) = Elements(first) \cup {line}
  <2>1. Pipe(<<line>>) /\ Elements(<<line>>) = {line}
    BY SinglePipe, SingleLines
  <2>2. t = first \o <<line>>
    BY AppendedPipe
  <2>3. Pipe(first \o <<line>>)
    BY <2>1, JoinedPipe
  <2>4. Elements(first \o <<line>>) = Elements(first) \cup Elements(<<line>>)
    BY <2>1, JoinedLines
  <2> HIDE DEF t
  <2> QED
    BY <2>1, <2>2, <2>3, <2>4
<1> HIDE DEF t
<1>9. ASSUME NEW i \in Ids, Traced(i)
      PROVE  pending'[i] = Nil \/ (pending'[i] = pending[i] /\ jobs'[pending[i]] = jobs[pending[i]])
  <2>1. i # id
    BY <1>6, <1>9
  <2> QED
    BY <1>5, <1>7, <2>1
<1>10. ASSUME NEW l \in Elements(t)
       PROVE  \/ l.type = "reply"
              \/ /\ l.id \in Ids /\ pending'[l.id] # Nil /\ jobs'[pending'[l.id]].at = l.type
                 /\ l.type = "get_entries" => l.entry = copy.upTo
  <2>1. CASE l = line
    BY <1>3, <1>4, <1>5, <1>6, <1>7, <2>1, NilIsNobody
  <2> QED
    BY <1>8, <1>10, <2>1
<1>11. command = "get_entries" => Asks(t)
  BY <1>3, <1>8 DEF Asks
<1>12. Writes(t)
  BY <1>1, <1>7, <1>8, <1>9, <1>10 DEF Writes
<1>13. \A l \in Elements(t) : l.type \in {"reply", command}
  BY <1>3, <1>8
<1> QED
  BY <1>11, <1>12, <1>13

\* The other ways to write, and not to write.
LEMMA ReleaseWrites ==
  ASSUME JobsAreFiled, pending \in [Ids -> Slots \cup {Nil}], Pipe(toPi), NEW j \in Slots, Release(j)
  PROVE  Writes(<<>>)
<1>1. jobs' = [jobs EXCEPT ![j] = Idle] /\ pending' = Forgotten(j) /\ toPi' = toPi \o <<>>
  BY ConcatEmptySeq DEF Release, Pipe
<1>2. \A k \in Slots : jobs'[k] = IF k = j THEN Idle ELSE jobs[k]
  BY <1>1 DEF JobsAreFiled
<1>3. /\ pending' \in [Ids -> Slots \cup {Nil}]
      /\ \A i \in Ids : pending'[i] = IF pending[i] = j THEN Nil ELSE pending[i]
  BY <1>1 DEF Forgotten
<1>4. Elements(<<>>) = {} /\ Pipe(<<>>)
  BY SingleLines, EmptyPipe
<1> QED
  BY <1>1, <1>2, <1>3, <1>4 DEF Writes

LEMMA SilenceWrites ==
  ASSUME pending \in [Ids -> Slots \cup {Nil}], UNCHANGED <<pending, jobs>>, NEW t, Pipe(t),
         \A l \in Elements(t) : l.type = "reply", toPi' = toPi \o t
  PROVE  Writes(t)
BY DEF Writes

LEMMA NothingWrites ==
  ASSUME pending \in [Ids -> Slots \cup {Nil}], UNCHANGED <<pending, jobs, toPi>>, Pipe(toPi)
  PROVE  Writes(<<>>)
<1>1. toPi' = toPi \o <<>>
  BY ConcatEmptySeq DEF Pipe
<1>2. Elements(<<>>) = {} /\ Pipe(<<>>)
  BY SingleLines, EmptyPipe
<1> QED
  BY <1>1, <1>2, SilenceWrites

LEMMA ForgettingWrites ==
  ASSUME pending \in [Ids -> Slots \cup {Nil}], UNCHANGED <<jobs, toPi>>, Pipe(toPi), NEW id,
         pending' = [pending EXCEPT ![id] = Nil]
  PROVE  Writes(<<>>)
<1>1. toPi' = toPi \o <<>>
  BY ConcatEmptySeq DEF Pipe
<1>2. Elements(<<>>) = {} /\ Pipe(<<>>)
  BY SingleLines, EmptyPipe
<1> QED
  BY <1>1, <1>2 DEF Writes

LEMMA HeadAndRest ==
  ASSUME NEW s, Pipe(s), s # <<>>
  PROVE  Elements(s) = {Head(s)} \cup Elements(Tail(s))
<1>1. /\ Head(s) = s[1] /\ 1 \in 1..Len(s)
      /\ \A q \in 1..Len(s) : q # 1 => q - 1 \in 1..Len(Tail(s)) /\ s[q] = Tail(s)[q - 1]
  BY RestPlaces
<1>2. Elements(Tail(s)) \subseteq Elements(s) /\ Head(s) \in Elements(s)
  BY RestLines
<1>3. ASSUME NEW l \in Elements(s) PROVE l = Head(s) \/ l \in Elements(Tail(s))
  BY <1>1 DEF Elements
<1> QED
  BY <1>2, <1>3

LEMMA StillDue ==
  ASSUME NEW s, Pipe(s), s # <<>>, NEW going, DueAfter(s, going, 0), ~Ends(Head(s)), ~IsMove(Head(s))
  PROVE  DueAfter(Tail(s), going, 0)
<1>1. Head(s) = s[1] /\ Len(s) \in Nat
  BY RestPlaces
<1>2. DueAfter(s, going, 0 + 1)
  BY <1>1 DEF DueAfter
<1> QED
  BY <1>2, RestDue

\* A transcript with one message more.
LEMMA OneMessageMore ==
  ASSUME NEW shown, Transcript(shown), NEW n, NEW stable \in BOOLEAN
  PROVE  Transcript(Append(shown, Message(n, stable)))
<1> DEFINE m == Message(n, stable)
           st == shown \o <<m>>
<1>1. /\ Pipe(st) /\ st[Len(st)] = m
      /\ \A q \in 1..Len(st) : (q \in 1..Len(shown) /\ st[q] = shown[q]) \/ q = Len(st)
  BY OnePlace DEF Transcript
<1>2. m = [entry |-> n, stable |-> stable]
  BY DEF Message
<1>3. Append(shown, m) = st
  BY AppendedPipe DEF Transcript
<1> HIDE DEF m, st
<1>4. m = Message(m.entry, m.stable) /\ m.stable \in BOOLEAN
  BY <1>2 DEF Message
<1>5. \A i \in 1..Len(shown) : shown[i] = Message(shown[i].entry, shown[i].stable) /\ shown[i].stable \in BOOLEAN
  BY DEF Transcript
<1>6. ASSUME NEW q \in 1..Len(st)
      PROVE  st[q] = Message(st[q].entry, st[q].stable) /\ st[q].stable \in BOOLEAN
  <2>1. CASE q \in 1..Len(shown) /\ st[q] = shown[q]
    BY <1>5, <2>1
  <2>2. CASE q = Len(st)
    BY <1>1, <1>4, <2>2
  <2> QED
    BY <1>1, <1>6, <2>1, <2>2
<1>7. Transcript(st)
  BY <1>1, <1>6 DEF Transcript
<1> QED
  BY <1>3, <1>7 DEF m

LEMMA TruthIsTranscript ==
  ASSUME NEW file, Rooted(file), NEW x \in 0..Len(file)
  PROVE  Transcript(Truth(file, x))
<1>1. PICK b : /\ Pipe(Truth(file, x)) /\ Len(Truth(file, x)) = Len(b)
               /\ \A i \in 1..Len(b) : Truth(file, x)[i] = Message(b[i], TRUE)
  BY TruthIs DEF Message
<1>2. ASSUME NEW i \in 1..Len(b)
      PROVE  /\ Truth(file, x)[i] = Message(Truth(file, x)[i].entry, Truth(file, x)[i].stable)
             /\ Truth(file, x)[i].stable \in BOOLEAN
  <2>1. Truth(file, x)[i] = [entry |-> b[i], stable |-> TRUE]
    BY <1>1 DEF Message
  <2> HIDE DEF Truth
  <2> QED
    BY <2>1 DEF Message
<1> QED
  BY <1>1, <1>2 DEF Transcript

\* What is known of the lines, and of the requests, after a step of Core.
LEMMA CoreKeepsWires ==
  ASSUME agent.state = "up", Pipe(toPi), Pipe(fromPi), WiresHold, NEW t, Writes(t), UNCHANGED piVars,
         Elements(fromPi') \subseteq Elements(fromPi)
  PROVE  WiresHold'
<1>1. Elements(toPi') = Elements(toPi) \cup Elements(t)
  BY JoinedLines DEF Writes
<1>2. ASSUME NEW id \in Ids, NEW at, Owned(id, at), Traced(id) PROVE Owned(id, at)'
  <2>1. pending'[id] = Nil \/ (pending'[id] = pending[id] /\ jobs'[pending[id]] = jobs[pending[id]])
    BY <1>2 DEF Writes
  <2> QED
    BY <1>2, <2>1 DEF Owned
<1>3. ASSUME NEW l \in Elements(fromPi'), l.type = "response" PROVE l.id \in Ids /\ Owned(l.id, l.command)'
  <2>1. l.id \in Ids /\ Owned(l.id, l.command)
    BY <1>3 DEF WiresHold
  <2>2. Traced(l.id)
    BY DEF Traced
  <2> QED
    BY <1>2, <2>1, <2>2
<1>4. ASSUME NEW l \in Elements(toPi'), l.type # "reply" PROVE l.id \in Ids /\ Owned(l.id, l.type)'
  <2>1. CASE l \in Elements(toPi)
    <3>1. l.id \in Ids /\ Owned(l.id, l.type)
      BY <1>4, <2>1 DEF WiresHold
    <3>2. Traced(l.id)
      BY <2>1 DEF Traced
    <3> QED
      BY <1>2, <3>1, <3>2
  <2>2. CASE l \in Elements(t)
    BY <1>4, <2>2 DEF Writes, Owned
  <2> QED
    BY <1>1, <2>1, <2>2
<1>5. ASSUME agent.packing # Nil
      PROVE  /\ agent.packing \in Ids
             /\ pending'[agent.packing] # Nil => jobs'[pending'[agent.packing]].at = "compact"
  <2>1. agent.packing \in Ids /\ Owned(agent.packing, "compact") /\ Traced(agent.packing)
    BY <1>5 DEF WiresHold, Traced
  <2>2. \/ pending'[agent.packing] = Nil
        \/ /\ pending'[agent.packing] = pending[agent.packing]
           /\ jobs'[pending[agent.packing]] = jobs[pending[agent.packing]]
    BY <2>1 DEF Writes
  <2> QED
    BY <2>1, <2>2 DEF Owned
<1>6. agent' = agent
  BY DEF piVars
<1>7. agent'.packing # Nil => agent'.packing \in Ids /\ Owned(agent.packing, "compact")'
  BY <1>5, <1>6 DEF Owned
<1> QED
  BY <1>3, <1>4, <1>7 DEF WiresHold, Writes

\* What a line that Core handles makes of its copy and of the transcript.
LEMMA HandlingKeeps ==
  ASSUME Pipe(fromPi), FileHolds, CopyHolds, LinesHold, Transcript(ledger.shown), IsLedger(ledger),
         UNCHANGED <<agent, tree, leaf>>, fromPi # <<>>, fromPi' = Tail(fromPi), NEW t, Handles(Head(fromPi), t)
  PROVE  /\ CopyHolds' /\ Transcript(ledger'.shown) /\ copy'.upTo \in copy.upTo..Len(tree)
         /\ \A l \in Elements(fromPi') : IsRead(l) => copy'.upTo <= l.last
<1> DEFINE h == Head(fromPi)
<1>0. copy.upTo \in 0..Len(tree) /\ Len(tree) \in Nat /\ Rooted(tree)
  BY DEF CopyHolds, FileHolds, Rooted
<1>1. Elements(fromPi') \subseteq Elements(fromPi) /\ h \in Elements(fromPi)
  BY RestLines
<1>2. \A l \in Elements(fromPi') : IsRead(l) => copy.upTo <= l.last
  <2>1. \A l \in Elements(fromPi') : IsRead(l) => ReadHolds(l)
    BY <1>1 DEF LinesHold
  <2> QED
    BY <2>1, <1>0 DEF ReadHolds
<1>3. CASE copy' = copy
  <2>1. CopyHolds' /\ copy'.upTo \in copy.upTo..Len(tree)
    BY <1>0, <1>3 DEF CopyHolds
  <2>2. Transcript(ledger'.shown)
    <3>1. CASE ledger'.shown = ledger.shown \/ Transcript(ledger'.shown)
      BY <3>1
    <3>2. CASE ledger'.shown = Append(ledger.shown, Message(h.last, TRUE))
      BY <3>2, OneMessageMore
    <3>3. CASE IsRead(h) /\ copy' = Absorbed(h) /\ ledger'.shown = Reconciled(h).shown
      <4>1. ReadHolds(h)
        BY <1>1, <3>3 DEF LinesHold
      <4>2. ledger'.shown = Truth(tree, h.leaf)
        BY <3>3, <4>1, ReconciledIs
      <4>3. h.leaf \in 0..Len(tree)
        BY <1>0, <4>1 DEF ReadHolds
      <4> QED
        BY <1>0, <4>2, <4>3, TruthIsTranscript
    <3> HIDE DEF h
    <3> QED
      BY <3>1, <3>2, <3>3 DEF Handles, h
  <2> QED
    BY <1>2, <1>3, <2>1, <2>2
<1>4. CASE IsRead(h) /\ copy' = Absorbed(h) /\ ledger'.shown = Reconciled(h).shown
  <2>1. ReadHolds(h)
    BY <1>1, <1>4 DEF LinesHold
  <2>2. ledger'.shown = Truth(tree, h.leaf) /\ copy'.stored = 1..h.last /\ copy'.upTo = h.last
    BY <1>4, <2>1, ReconciledIs
  <2>3. h.leaf \in 0..Len(tree) /\ h.last \in copy.upTo..Len(tree)
    BY <1>0, <2>1 DEF ReadHolds
  <2>4. Transcript(ledger'.shown)
    BY <1>0, <2>2, <2>3, TruthIsTranscript
  <2>5. \A l \in Elements(fromPi') : IsRead(l) => h.last <= l.last
    BY <1>4, RestOrdered DEF LinesHold
  <2>6. CopyHolds'
    BY <1>0, <2>2, <2>3 DEF CopyHolds
  <2> QED
    BY <2>2, <2>3, <2>4, <2>5, <2>6
<1> HIDE DEF h
<1> QED
  BY <1>3, <1>4 DEF Handles, h

\* What a step of Core makes of its copy, of the transcript and of the lines.
LEMMA CoreKeepsLines ==
  ASSUME agent.state = "up", Pipe(toPi), Pipe(fromPi), FInv, IsLedger(ledger), NEW t, CoreMoves(t)
  PROVE  FInv'
<1>1. ~session.closed /\ FileHolds /\ CopyHolds /\ WiresHold /\ LinesHold /\ Transcript(ledger.shown)
  BY DEF FInv
<1>2. UNCHANGED <<agent, tree, leaf>> /\ session'.closed = session.closed /\ Writes(t)
  BY DEF CoreMoves, piVars
<1>3. /\ Elements(fromPi') \subseteq Elements(fromPi)
      /\ Ordered(fromPi') /\ Followed(fromPi', agent.turn)
  <2>1. CASE fromPi' = fromPi
    BY <1>1, <2>1 DEF LinesHold
  <2>2. CASE fromPi # <<>> /\ fromPi' = Tail(fromPi)
    BY <1>1, <2>2, RestLines, RestOrdered, RestFollowed DEF LinesHold
  <2> QED
    BY <2>1, <2>2 DEF CoreMoves
<1>4. FileHolds'
  BY <1>1, <1>2 DEF FileHolds, Rooted
<1>5. WiresHold'
  BY <1>1, <1>2, <1>3, CoreKeepsWires DEF piVars
<1>0. copy.upTo \in 0..Len(tree) /\ Len(tree) \in Nat
  BY <1>1 DEF CopyHolds, FileHolds, Rooted
<1>6. /\ CopyHolds' /\ Transcript(ledger'.shown) /\ copy'.upTo \in copy.upTo..Len(tree)
      /\ \A l \in Elements(fromPi') : IsRead(l) => copy'.upTo <= l.last
  <2>1. CASE fromPi # <<>> /\ fromPi' = Tail(fromPi) /\ Handles(Head(fromPi), t)
    BY <1>1, <1>2, <2>1, HandlingKeeps
  <2>2. CASE UNCHANGED <<fromPi, copy>> /\ ledger'.shown = ledger.shown
    <3>1. CopyHolds' /\ copy'.upTo \in copy.upTo..Len(tree)
      BY <1>0, <1>1, <1>2, <2>2 DEF CopyHolds
    <3>2. \A l \in Elements(fromPi') : IsRead(l) => ReadHolds(l)
      BY <1>1, <2>2 DEF LinesHold
    <3>3. \A l \in Elements(fromPi') : IsRead(l) => copy.upTo <= l.last
      BY <3>2, <1>0 DEF ReadHolds
    <3> QED
      BY <1>1, <2>2, <3>1, <3>3
  <2> QED
    BY <2>1, <2>2 DEF CoreMoves
<1>7. ASSUME NEW l \in Elements(fromPi')
      PROVE  /\ IsRead(l) => ReadHolds(l)'
             /\ IsModel(l) => l.last \in 1..Len(tree') /\ tree'[l.last].kind = "model"
             /\ IsSilent(l) => l.ok
  <2>1. /\ IsRead(l) => ReadHolds(l)
        /\ IsModel(l) => l.last \in 1..Len(tree) /\ tree[l.last].kind = "model"
        /\ IsSilent(l) => l.ok
    BY <1>1, <1>3, <1>7 DEF LinesHold
  <2>2. ASSUME IsRead(l) PROVE ReadHolds(l)'
    <3>1. ReadHolds(l) /\ copy'.upTo <= l.last
      BY <1>6, <1>7, <2>1, <2>2
    <3> QED
      BY <1>0, <1>2, <1>6, <3>1 DEF ReadHolds
  <2> QED
    BY <1>2, <2>1, <2>2
<1>8. ASSUME NEW l \in Elements(toPi'), l.type = "get_entries" PROVE l.entry \in 0..copy'.upTo
  <2>1. Elements(toPi') = Elements(toPi) \cup Elements(t)
    BY <1>2, JoinedLines DEF Writes
  <2>2. l.entry \in 0..copy.upTo
    <3>1. CASE l \in Elements(toPi)
      BY <1>1, <1>8, <3>1 DEF LinesHold
    <3>2. CASE l \in Elements(t)
      BY <1>0, <1>2, <1>8, <3>2 DEF Writes
    <3> QED
      BY <2>1, <3>1, <3>2
  <2> QED
    BY <1>0, <1>6, <2>2
<1>9. LinesHold'
  BY <1>2, <1>3, <1>7, <1>8 DEF LinesHold
<1> QED
  BY <1>1, <1>2, <1>4, <1>5, <1>6, <1>9 DEF FInv

\* A line that Core handles leaves the ledger true, or it will hear of the file again.
LEMMA HandlingIsTrue ==
  ASSUME Pipe(toPi), Pipe(fromPi), FileHolds, CopyHolds, LinesHold, Transcript(ledger.shown), IsLedger(ledger),
         ReadsAreTrue(fromPi, agent.turn, tree, leaf), LedgerIsTrue,
         UNCHANGED <<agent, tree, leaf>>, fromPi # <<>>, fromPi' = Tail(fromPi),
         NEW t, Pipe(t), toPi' = toPi \o t, Handles(Head(fromPi), t)
  PROVE  LedgerIsTrue'
<1> DEFINE h == Head(fromPi)
<1>1. Elements(fromPi) = {h} \cup Elements(fromPi') /\ Pipe(fromPi')
  BY HeadAndRest, RestPlaces
<1>2. Elements(toPi') = Elements(toPi) \cup Elements(t)
  BY JoinedLines
<1>3. Rooted(tree) /\ Len(tree) \in Nat /\ copy.upTo \in 0..Len(tree)
  BY DEF FileHolds, Rooted, CopyHolds
<1>4. ASSUME DueAfter(fromPi', agent.turn, 0) PROVE LedgerIsTrue'
  BY <1>4 DEF LedgerIsTrue
<1>5. ASSUME \E l \in Elements(toPi') : l.type = "get_entries" PROVE LedgerIsTrue'
  BY <1>5 DEF LedgerIsTrue
<1>6. ASSUME NEW x \in 0..Len(tree), ledger'.shown = Truth(tree, x), Leads(fromPi', 0, x, tree, leaf)
      PROVE  LedgerIsTrue'
  BY <1>6 DEF LedgerIsTrue
<1>7. ASSUME drift' PROVE LedgerIsTrue'
  BY <1>7 DEF LedgerIsTrue
<1>8. CASE /\ copy' = copy /\ (drift => drift') /\ ledger'.shown = ledger.shown
           /\ ~IsRead(h) /\ ~IsModel(h) /\ (IsMove(h) \/ Ends(h) => Asks(t))
  <2>1. CASE drift
    BY <1>7, <1>8, <2>1
  <2>2. CASE DueAfter(fromPi, agent.turn, 0)
    <3>1. CASE Asks(t)
      BY <1>2, <1>5, <3>1 DEF Asks
    <3>2. CASE ~IsMove(h) /\ ~Ends(h)
      BY <1>4, <2>2, <3>2, StillDue
    <3> QED
      BY <1>8, <3>1, <3>2
  <2>3. CASE \E l \in Elements(toPi) : l.type = "get_entries"
    BY <1>2, <1>5, <2>3
  <2>4. CASE \E l \in Elements(fromPi) : IsRead(l)
    <3>1. \E l \in Elements(fromPi') : IsRead(l)
      BY <1>1, <1>8, <2>4
    <3> QED
      BY <3>1 DEF LedgerIsTrue
  <2>5. ASSUME NEW x \in 0..Len(tree), ledger.shown = Truth(tree, x), Leads(fromPi, 0, x, tree, leaf)
        PROVE  LedgerIsTrue'
    <3>1. Leads(fromPi', 0, x, tree, leaf)
      BY <1>8, <2>5, LeadsOn
    <3> QED
      BY <1>6, <1>8, <2>5, <3>1
  <2> QED
    BY <2>1, <2>2, <2>3, <2>4, <2>5 DEF LedgerIsTrue
<1>9. CASE copy' = copy /\ (drift => drift') /\ IsModel(h) /\ ledger'.shown = Append(ledger.shown, Message(h.last, TRUE))
  <2>1. CASE drift
    BY <1>7, <1>9, <2>1
  <2>0. ~Ends(h) /\ ~IsMove(h) /\ ~IsRead(h)
    BY <1>9 DEF Ends, IsMove, IsRead, IsModel, Answers, IsSilent
  <2>2. CASE DueAfter(fromPi, agent.turn, 0)
    BY <1>4, <2>0, <2>2, StillDue
  <2>3. CASE \E l \in Elements(toPi) : l.type = "get_entries"
    BY <1>2, <1>5, <2>3
  <2>4. CASE \E l \in Elements(fromPi) : IsRead(l)
    <3>1. \E l \in Elements(fromPi') : IsRead(l)
      BY <1>1, <2>0, <2>4
    <3> QED
      BY <3>1 DEF LedgerIsTrue
  <2>5. ASSUME NEW x \in 0..Len(tree), ledger.shown = Truth(tree, x), Leads(fromPi, 0, x, tree, leaf)
        PROVE  LedgerIsTrue'
    <3>1. tree[h.last].parent = x /\ Leads(fromPi', 0, h.last, tree, leaf)
      BY <1>9, <2>5, LeadsOn
    <3>2. h.last \in 1..Len(tree) /\ h.last \in 0..Len(tree)
      BY <1>1, <1>3, <1>9 DEF LinesHold
    <3>3. Truth(tree, h.last) = Append(Truth(tree, x), Message(h.last, TRUE))
      BY <1>3, <3>1, <3>2, BranchStep
    <3> HIDE DEF h
    <3> QED
      BY <1>6, <1>9, <2>5, <3>1, <3>2, <3>3
  <2> QED
    BY <2>1, <2>2, <2>3, <2>4, <2>5 DEF LedgerIsTrue
<1>10. CASE TurnLine(h)
  <2>1. Head(fromPi) = fromPi[1] /\ 1 \in 1..Len(fromPi) /\ Len(fromPi) \in Nat \ {0}
    BY RestPlaces
  <2>2. agent.turn \/ \E r \in 1..Len(fromPi) : r > 1 /\ Ends(fromPi[r])
    BY <1>10, <2>1 DEF LinesHold, Followed
  <2>3. DueAfter(fromPi, agent.turn, 0 + 1)
    BY <2>2 DEF DueAfter
  <2> QED
    BY <1>4, <2>3, RestDue
<1>11. CASE IsRead(h) /\ copy' = Absorbed(h) /\ ledger'.shown = Reconciled(h).shown
  <2>1. ReadHolds(h)
    BY <1>1, <1>11 DEF LinesHold
  <2>2. ledger'.shown = Truth(tree, h.leaf)
    BY <1>11, <2>1, ReconciledIs
  <2>3. h.leaf \in 0..Len(tree)
    BY <1>3, <2>1 DEF ReadHolds
  <2>4. DueAfter(fromPi', agent.turn, 0) \/ Leads(fromPi', 0, h.leaf, tree, leaf)
    BY <1>11, RestReads
  <2> HIDE DEF h
  <2> QED
    BY <1>4, <1>6, <2>2, <2>3, <2>4
<1> HIDE DEF h
<1> QED
  BY <1>7, <1>8, <1>9, <1>10, <1>11 DEF Handles, h

LEMMA CoreKeepsTruth ==
  ASSUME Pipe(toPi), Pipe(fromPi), FInv, LInv, agent.state = "up", IsLedger(ledger), NEW t, CoreMoves(t)
  PROVE  LInv'
<1>1. FileHolds /\ CopyHolds /\ LinesHold /\ Transcript(ledger.shown)
  BY DEF FInv
<1>2. UNCHANGED <<agent, tree, leaf>> /\ Pipe(t) /\ toPi' = toPi \o t
  BY DEF CoreMoves, piVars, Writes
<1>3. ReadsAreTrue(fromPi, agent.turn, tree, leaf) /\ LedgerIsTrue
  BY DEF LInv
<1>4. CASE fromPi # <<>> /\ fromPi' = Tail(fromPi) /\ Handles(Head(fromPi), t)
  <2>1. LedgerIsTrue'
    BY <1>1, <1>2, <1>3, <1>4, HandlingIsTrue
  <2>2. ReadsAreTrue(fromPi', agent.turn, tree, leaf)
    BY <1>3, <1>4, RestReads
  <2> QED
    BY <1>2, <2>1, <2>2 DEF LInv
<1>5. CASE UNCHANGED <<fromPi, copy>> /\ (drift => drift') /\ ledger'.shown = ledger.shown
  <2>1. Elements(toPi') = Elements(toPi) \cup Elements(t)
    BY <1>2, JoinedLines
  <2>2. LedgerIsTrue'
    BY <1>2, <1>3, <1>5, <2>1 DEF LedgerIsTrue
  <2> QED
    BY <1>2, <1>3, <1>5, <2>2 DEF LInv
<1> QED
  BY <1>4, <1>5 DEF CoreMoves

-----------------------------------------------------------------------------
(* SessionTurn: each step of Core is one of these moves *)

LEMMA RunsIs ==
  ASSUME QInv, EInv, FInv, agent.state = "up"
  PROVE  Runs
BY PipesAre DEF EInv, Shapes, FInv, Runs

\* Nothing is handled.
LEMMA Waits ==
  ASSUME Runs, NEW t, Writes(t), UNCHANGED <<piVars, fromPi, copy>>, session'.closed = session.closed,
         drift => drift', ledger'.shown = ledger.shown
  PROVE  CoreMoves(t)
BY DEF CoreMoves

\* The lines that deny what is asked.
LEMMA DenyAllLines ==
  ASSUME IsFiniteSet(pendingConfirms)
  PROVE  Pipe(DenyAll) /\ \A l \in Elements(DenyAll) : l.type = "reply"
<1>1. Pipe(DenyAll) /\ \A type, r : type # "reply" => ~Told(DenyAll, type, r)
  BY DenyAllTells
<1>2. ASSUME NEW i \in 1..Len(DenyAll), DenyAll[i].type # "reply" PROVE FALSE
  BY <1>1, <1>2 DEF Told
<1> QED
  BY <1>1, <1>2 DEF Elements

LEMMA ReplyLines == \A r, yes : Pipe(<<Reply(r, yes)>>) /\ \A l \in Elements(<<Reply(r, yes)>>) : l.type = "reply"
<1> SUFFICES ASSUME NEW r, NEW yes
             PROVE  Pipe(<<Reply(r, yes)>>) /\ \A l \in Elements(<<Reply(r, yes)>>) : l.type = "reply"
  OBVIOUS
<1>1. Reply(r, yes).type = "reply"
  BY DEF Reply, Line
<1> QED
  BY <1>1, SinglePipe, SingleLines

LEMMA EmptyLines == Pipe(<<>>) /\ Elements(<<>>) = {}
BY EmptyPipe, SingleLines

LEMMA CommandMoves ==
  ASSUME Runs, NEW j \in Slots, NEW op, NEW was, NEW target, NEW command, NEW entry, NEW first,
         Command(j, op, was, target, command, entry, first), Pipe(first),
         \A l \in Elements(first) : l.type = "reply", command = "get_entries" => entry = copy.upTo,
         session'.closed = session.closed, ledger'.shown = ledger.shown
  PROVE  \E t : CoreMoves(t)
<1> DEFINE work == [op |-> op, at |-> command, was |-> was, target |-> target]
<1>1. UNCHANGED <<piVars, fromPi, copy, drift>> /\ Call(j, work, command, entry, first)
  BY DEF Command
<1>2. IsJob(work)
  BY DEF IsJob
<1> HIDE DEF work
<1>3. PICK t : Writes(t)
  BY <1>1, <1>2, CallWrites DEF Runs, WiresHold
<1> QED
  BY <1>1, <1>3, Waits

LEMMA CommandsMove ==
  ASSUME Runs, NEW j \in Slots,
         \/ SendPrompt(j) \/ ClearQueue(j) \/ Abort(j) \/ Compact(j) \/ EditMessage(j)
         \/ SetModel(j) \/ SetThinking(j) \/ Ask(j)
  PROVE  \E t : CoreMoves(t)
<1>0. IsLedger(ledger) /\ IsSession(session)
  BY DEF Runs
<1>1. CASE SendPrompt(j)
  <2>1. Command(j, "prompt", ledger.busy, 0, "prompt", 0, <<>>) /\ session' = session
        /\ ledger'.shown = ledger.shown
    BY <1>0, <1>1 DEF SendPrompt, IsLedger
  <2> QED
    BY <2>1, EmptyLines, CommandMoves
<1>2. CASE ClearQueue(j) \/ SetModel(j) \/ SetThinking(j) \/ Ask(j)
  <2>1. \E command \in {"clear_queue", "set_model", "tune"} : \E op : Command(j, op, FALSE, 0, command, 0, <<>>)
    BY <1>2 DEF ClearQueue, SetModel, SetThinking, Ask
  <2>2. session' = session /\ ledger' = ledger
    BY <1>2 DEF ClearQueue, SetModel, SetThinking, Ask
  <2> QED
    BY <2>1, <2>2, EmptyLines, CommandMoves
<1>3. CASE Abort(j)
  <2>1. Command(j, "abort", ledger.compacting, 0, "clear_queue", 0, <<>>) /\ ledger' = ledger
        /\ session'.closed = session.closed
    BY <1>0, <1>3 DEF Abort, IsSession
  <2> QED
    BY <2>1, EmptyLines, CommandMoves
<1>4. CASE Compact(j)
  <2>1. Command(j, "compact", FALSE, 0, "compact", 0, <<>>) /\ session' = session /\ ledger'.shown = ledger.shown
    BY <1>0, <1>4 DEF Compact, IsLedger
  <2> QED
    BY <2>1, EmptyLines, CommandMoves
<1>5. CASE EditMessage(j)
  <2>1. session' = session /\ ledger'.shown = ledger.shown
    BY <1>0, <1>5 DEF EditMessage, IsLedger
  <2>2. \E target : \/ Command(j, "edit", TRUE, target, "abort", 0, DenyAll)
                     \/ Command(j, "edit", FALSE, target, "get_entries", copy.upTo, DenyAll)
    BY <1>5, Zenon DEF EditMessage
  <2>3. Pipe(DenyAll) /\ \A l \in Elements(DenyAll) : l.type = "reply"
    BY DenyAllLines DEF Runs
  <2>4. ASSUME NEW target, Command(j, "edit", TRUE, target, "abort", 0, DenyAll) PROVE \E t : CoreMoves(t)
    BY <2>1, <2>3, <2>4, CommandMoves
  <2>5. ASSUME NEW target, Command(j, "edit", FALSE, target, "get_entries", copy.upTo, DenyAll)
        PROVE  \E t : CoreMoves(t)
    BY <2>1, <2>3, <2>5, CommandMoves
  <2> QED
    BY <2>2, <2>4, <2>5, Zenon
<1> QED
  BY <1>1, <1>2, <1>3, <1>4, <1>5

LEMMA ViewersMove ==
  ASSUME Runs,
         \/ ViewersLeave \/ ViewerComes
         \/ \E r \in Questions : ConfirmationTimesOut(r) \/ \E yes \in BOOLEAN : RespondToConfirmation(r, yes)
  PROVE  \E t : CoreMoves(t)
<1>0. IsLedger(ledger) /\ IsSession(session) /\ pending \in [Ids -> Slots \cup {Nil}] /\ Pipe(toPi)
  BY DEF Runs, WiresHold
<1>1. CASE ViewersLeave
  <2>1. UNCHANGED <<piVars, fromPi, ledger, copy, pending, jobs, drift>> /\ session'.closed = session.closed
    BY <1>0, <1>1 DEF ViewersLeave, IsSession
  <2>2. toPi' = toPi \o DenyAll \/ toPi' = toPi
    BY <1>1 DEF ViewersLeave, Sent, Runs
  <2>3. Pipe(DenyAll) /\ \A l \in Elements(DenyAll) : l.type = "reply"
    BY DenyAllLines DEF Runs
  <2>4. \E t : Writes(t)
    BY <1>0, <2>1, <2>2, <2>3, SilenceWrites, NothingWrites
  <2> QED
    BY <2>1, <2>4, Waits
<1>2. CASE ViewerComes
  <2>1. UNCHANGED <<piVars, fromPi, toPi, ledger, copy, pending, jobs, drift>> /\ session'.closed = session.closed
    BY <1>0, <1>2 DEF ViewerComes, IsSession, wires
  <2>2. Writes(<<>>)
    BY <1>0, <2>1, NothingWrites
  <2> QED
    BY <2>1, <2>2, Waits
<1>3. ASSUME NEW r \in Questions,
             ConfirmationTimesOut(r) \/ \E yes \in BOOLEAN : RespondToConfirmation(r, yes)
      PROVE  \E t : CoreMoves(t)
  <2>1. /\ UNCHANGED <<piVars, fromPi, copy, pending, jobs, session, drift>>
        /\ \E yes : toPi' = Sent(<<Reply(r, yes)>>)
    BY <1>3 DEF ConfirmationTimesOut, RespondToConfirmation
  <2>2. ledger'.shown = ledger.shown
    BY <1>0, <1>3 DEF ConfirmationTimesOut, RespondToConfirmation, IsLedger
  <2>3. PICK yes : toPi' = toPi \o <<Reply(r, yes)>>
    BY <2>1 DEF Sent, Runs
  <2>4. Writes(<<Reply(r, yes)>>)
    BY <1>0, <2>1, <2>3, ReplyLines, SilenceWrites
  <2> QED
    BY <2>1, <2>2, <2>4, Waits
<1> QED
  BY <1>1, <1>2, <1>3

LEMMA TimesOutMoves ==
  ASSUME Runs, TimesOut
  PROVE  \E t : CoreMoves(t)
<1>1. UNCHANGED <<piVars, fromPi, toPi, copy, jobs, ledger, session, drift>>
      /\ \E id \in Ids : pending' = [pending EXCEPT ![id] = Nil]
  BY DEF TimesOut, RequestTimesOut, wires
<1>2. Writes(<<>>)
  BY <1>1, ForgettingWrites DEF Runs, WiresHold
<1> QED
  BY <1>1, <1>2, Waits

\* A job that goes on: its promise is rejected, or the head answers it.
LEMMA ResumesHow ==
  ASSUME Runs, NEW j \in Slots, NEW op, NEW at, Resumes(j, op, at)
  PROVE  \/ fromPi' = fromPi /\ Result(j) = "lost"
         \/ /\ fromPi # <<>> /\ fromPi' = Tail(fromPi) /\ Answers(Head(fromPi), at)
            /\ Head(fromPi) \in Elements(fromPi)
            /\ Result(j) = IF Head(fromPi).ok THEN "ok" ELSE "refused"
<1>1. CASE j \in Rejected /\ UNCHANGED fromPi
  BY <1>1 DEF Result
<1>2. CASE /\ Quiescent /\ fromPi # <<>>
           /\ Head(fromPi).type = "response" /\ pending[Head(fromPi).id] = j
           /\ fromPi' = Tail(fromPi)
  <2> DEFINE h == Head(fromPi)
  <2>1. h \in Elements(fromPi)
    BY <1>2, RestLines DEF Runs
  <2>2. h.id \in Ids /\ Owned(h.id, h.command)
    BY <1>2, <2>1 DEF Runs, WiresHold
  <2>3. jobs[j].at = h.command
    BY <1>2, <2>2, NilIsNobody DEF Owned
  <2>4. j \notin Rejected
    BY <1>2 DEF Quiescent
  <2>5. Answers(h, at)
    BY <1>2, <2>3 DEF Resumes, Answers
  <2> QED
    BY <1>2, <2>1, <2>4, <2>5 DEF Result
<1> QED
  BY <1>1, <1>2 DEF Resumes

LEMMA JobIsFiled ==
  ASSUME Runs, NEW j \in Slots
  PROVE  /\ IsJob(jobs[j])
         /\ \A op : IsJob([jobs[j] EXCEPT !.op = op])
         /\ \A op, was : IsJob([jobs[j] EXCEPT !.op = op, !.was = was])
<1>1. IsJob(jobs[j])
  BY DEF Runs, JobsAreFiled
<1> QED
  BY <1>1, JobChanges

\* What a job writes as it goes on, or ends.
LEMMA GoesWrites ==
  ASSUME Runs, NEW j \in Slots, fromPi' = fromPi \/ (fromPi # <<>> /\ fromPi' = Tail(fromPi))
  PROVE  /\ Release(j) => Writes(<<>>)
         /\ \A work, command, entry :
              IsJob(work) /\ Call(j, work, command, entry, <<>>) /\ (command = "get_entries" => entry = copy.upTo) =>
                \E t : Writes(t) /\ (command = "get_entries" => Asks(t))
<1>1. Pipe(fromPi')
  BY RestPipe DEF Runs
<1>2. /\ ~session.closed /\ agent.state = "up" /\ JobsAreFiled
      /\ pending \in [Ids -> Slots \cup {Nil}] /\ Pipe(toPi)
  BY DEF Runs, WiresHold
<1>3. ASSUME NEW work, NEW command, NEW entry, IsJob(work), Call(j, work, command, entry, <<>>),
             command = "get_entries" => entry = copy.upTo
      PROVE  \E t : Writes(t) /\ (command = "get_entries" => Asks(t))
  BY <1>1, <1>2, <1>3, EmptyLines, CallWrites
<1>4. Release(j) => Writes(<<>>)
  BY <1>2, ReleaseWrites
<1> QED
  BY <1>3, <1>4

\* A line of no weight for the file.
LEMMA PlainLines ==
  ASSUME NEW l
  PROVE  /\ Answers(l, "get_entries") => ~IsModel(l) /\ ~IsMove(l) /\ ~Ends(l)
         /\ \A command \in {"prompt", "clear_queue", "compact", "tune"} :
              Answers(l, command) => ~IsRead(l) /\ ~IsModel(l) /\ ~IsMove(l) /\ ~Ends(l)
         /\ Answers(l, "set_model") => ~IsRead(l) /\ ~IsMove(l) /\ ~Ends(l)
         /\ Answers(l, "abort") => ~IsRead(l) /\ ~IsModel(l) /\ ~IsMove(l) /\ (Ends(l) <=> l.last # 0)
         /\ Answers(l, "navigate") => ~IsRead(l) /\ ~IsModel(l) /\ ~Ends(l)
         /\ l.type # "response" => ~IsRead(l) /\ ~IsModel(l) /\ ~IsMove(l) /\ (Ends(l) <=> l.type = "settled")
BY DEF Answers, IsRead, IsModel, IsMove, Ends, IsSilent

\* The head is handled, or a rejected promise found.
LEMMA Moves ==
  ASSUME Runs, NEW t, Writes(t), UNCHANGED piVars, session'.closed = session.closed,
         \/ fromPi' = fromPi /\ copy' = copy /\ (drift => drift') /\ ledger'.shown = ledger.shown
         \/ fromPi # <<>> /\ fromPi' = Tail(fromPi) /\ Handles(Head(fromPi), t)
  PROVE  CoreMoves(t)
BY DEF CoreMoves

LEMMA HandlesPlain ==
  ASSUME NEW l, NEW t, copy' = copy, drift => drift', ledger'.shown = ledger.shown,
         drift' \/ (~IsRead(l) /\ ~IsModel(l) /\ (IsMove(l) \/ Ends(l) => Asks(t)))
  PROVE  Handles(l, t)
BY DEF Handles

\* What the steps of Core show of their ledger.
LEMMA ShownStays ==
  ASSUME Runs
  PROVE  /\ NotBusy.shown = ledger.shown /\ Finished(ledger).shown = ledger.shown
         /\ Finished(NotBusy).shown = ledger.shown
         /\ \A line, busy : [Reconciled(line) EXCEPT !.busy = busy].shown = Reconciled(line).shown
<1>1. IsLedger(ledger) /\ IsLedger(NotBusy) /\ \A line : IsLedger(Reconciled(line))
  BY LedgersAre DEF Runs
<1>2. NotBusy.shown = ledger.shown
  BY <1>1 DEF NotBusy, IsLedger
<1>3. ASSUME NEW l, IsLedger(l) PROVE Finished(l).shown = l.shown
  BY <1>3 DEF Finished, IsLedger
<1>4. ASSUME NEW line, NEW busy PROVE [Reconciled(line) EXCEPT !.busy = busy].shown = Reconciled(line).shown
  <2> DEFINE l == Reconciled(line)
  <2>1. IsLedger(l)
    BY <1>1
  <2> HIDE DEF l
  <2>2. [l EXCEPT !.busy = busy].shown = l.shown
    BY <2>1 DEF IsLedger
  <2> QED
    BY <2>2 DEF l
<1>5. Finished(ledger).shown = ledger.shown /\ Finished(NotBusy).shown = ledger.shown
  BY <1>1, <1>2, <1>3
<1>6. \A line, busy : [Reconciled(line) EXCEPT !.busy = busy].shown = Reconciled(line).shown
  BY <1>4, Zenon
<1> QED
  BY <1>2, <1>5, <1>6, Zenon

LEMMA PlainJobsMove ==
  ASSUME Runs, NEW j \in Slots, PromptEnds(j) \/ SimpleEnds(j) \/ ModelEnds(j) \/ ReconcileEnds(j)
  PROVE  \E t : CoreMoves(t)
<1>0. /\ NotBusy.shown = ledger.shown /\ Finished(ledger).shown = ledger.shown
      /\ \A l : IsRead(l) /\ l \in Elements(fromPi) => l.ok
  BY ShownStays DEF Runs, LinesHold, ReadHolds
<1>1. CASE PromptEnds(j)
  <2>1. /\ Resumes(j, "prompt", "prompt") /\ Release(j) /\ UNCHANGED <<piVars, copy, session, drift>>
        /\ ledger'.shown = ledger.shown
    BY <1>0, <1>1 DEF PromptEnds
  <2>2. \/ fromPi' = fromPi
        \/ fromPi # <<>> /\ fromPi' = Tail(fromPi) /\ Answers(Head(fromPi), "prompt")
    BY <2>1, ResumesHow
  <2>3. Writes(<<>>)
    BY <2>1, <2>2, GoesWrites
  <2>4. Answers(Head(fromPi), "prompt") => Handles(Head(fromPi), <<>>)
    BY <2>1, PlainLines, HandlesPlain
  <2> QED
    BY <2>1, <2>2, <2>3, <2>4, Moves
<1>2. CASE SimpleEnds(j)
  <2>1. /\ \E at \in {"clear_queue", "tune"} : \E op : Resumes(j, op, at)
        /\ Release(j) /\ UNCHANGED <<piVars, copy, session, drift, ledger>>
    BY <1>2 DEF SimpleEnds
  <2>2. \/ fromPi' = fromPi
        \/ /\ fromPi # <<>> /\ fromPi' = Tail(fromPi)
           /\ \E at \in {"clear_queue", "tune"} : Answers(Head(fromPi), at)
    BY <2>1, ResumesHow
  <2>3. Writes(<<>>)
    BY <2>1, <2>2, GoesWrites
  <2>4. (\E at \in {"clear_queue", "tune"} : Answers(Head(fromPi), at)) => Handles(Head(fromPi), <<>>)
    BY <2>1, PlainLines, HandlesPlain
  <2> QED
    BY <2>1, <2>2, <2>3, <2>4, Moves
<1>3. CASE ModelEnds(j)
  <2>1. /\ Resumes(j, "model", "set_model") /\ Release(j) /\ UNCHANGED <<piVars, copy, session, drift>>
    BY <1>3 DEF ModelEnds
  <2>2. ledger'.shown = IF Result(j) = "ok" THEN Append(ledger.shown, Message(Head(fromPi).last, TRUE))
                                            ELSE ledger.shown
    <3>1. CASE Result(j) = "ok"
      <4>1. ledger' = [ledger EXCEPT !.shown = Append(@, Message(Head(fromPi).last, TRUE))]
        BY <1>3, <3>1 DEF ModelEnds
      <4> QED
        BY <3>1, <4>1 DEF Runs, IsLedger
    <3>2. CASE Result(j) # "ok"
      BY <1>3, <3>2 DEF ModelEnds
    <3> QED
      BY <3>1, <3>2
  <2>3. \/ fromPi' = fromPi /\ Result(j) = "lost"
        \/ /\ fromPi # <<>> /\ fromPi' = Tail(fromPi) /\ Answers(Head(fromPi), "set_model")
           /\ Result(j) = IF Head(fromPi).ok THEN "ok" ELSE "refused"
    BY <2>1, ResumesHow
  <2>4. Writes(<<>>)
    BY <2>1, <2>3, GoesWrites
  <2>5. ASSUME Answers(Head(fromPi), "set_model"), Result(j) = IF Head(fromPi).ok THEN "ok" ELSE "refused"
        PROVE  Handles(Head(fromPi), <<>>)
    <3>1. CASE Head(fromPi).ok
      BY <2>1, <2>2, <2>5, <3>1 DEF Handles, IsModel
    <3>2. CASE ~Head(fromPi).ok
      <4>1. ~IsModel(Head(fromPi)) /\ ledger'.shown = ledger.shown
        BY <2>2, <2>5, <3>2 DEF IsModel
      <4> QED
        BY <2>1, <2>5, <4>1, PlainLines, HandlesPlain
    <3> QED
      BY <3>1, <3>2
  <2>6. Result(j) = "lost" => ledger'.shown = ledger.shown
    BY <2>2
  <2> QED
    BY <2>1, <2>3, <2>4, <2>5, <2>6, Moves
<1>4. CASE ReconcileEnds(j)
  <2>1. /\ \E op : Resumes(j, op, "get_entries")
        /\ Release(j) /\ UNCHANGED <<piVars, session>>
    BY <1>4 DEF ReconcileEnds
  <2>2. \/ fromPi' = fromPi /\ Result(j) = "lost"
        \/ /\ fromPi # <<>> /\ fromPi' = Tail(fromPi) /\ Answers(Head(fromPi), "get_entries")
           /\ Head(fromPi) \in Elements(fromPi)
           /\ Result(j) = IF Head(fromPi).ok THEN "ok" ELSE "refused"
    BY <2>1, ResumesHow
  <2>3. Writes(<<>>)
    BY <2>1, <2>2, GoesWrites
  <2>4. CASE fromPi' = fromPi /\ Result(j) = "lost"
    <3>1. ledger'.shown = ledger.shown /\ UNCHANGED <<copy, drift>>
      BY <1>0, <1>4, <2>4 DEF ReconcileEnds
    <3> QED
      BY <2>1, <2>3, <2>4, <3>1, Moves
  <2>5. CASE /\ fromPi # <<>> /\ fromPi' = Tail(fromPi) /\ Answers(Head(fromPi), "get_entries")
             /\ Head(fromPi) \in Elements(fromPi)
             /\ Result(j) = IF Head(fromPi).ok THEN "ok" ELSE "refused"
    <3>1. IsRead(Head(fromPi)) /\ Result(j) = "ok"
      BY <1>0, <2>5 DEF IsRead
    <3>2. copy' = Absorbed(Head(fromPi)) /\ ledger' = Reconciled(Head(fromPi))
      BY <1>4, <3>1 DEF ReconcileEnds, TakesFile
    <3>3. Handles(Head(fromPi), <<>>)
      BY <3>1, <3>2 DEF Handles
    <3> QED
      BY <2>1, <2>3, <2>5, <3>3, Moves
  <2> QED
    BY <2>2, <2>4, <2>5
<1> QED
  BY <1>1, <1>2, <1>3, <1>4

LEMMA StopsMove ==
  ASSUME Runs, NEW j \in Slots, AbortGoesOn(j) \/ AbortEnds(j) \/ CompactGoesOn(j)
  PROVE  \E t : CoreMoves(t)
<1>0. /\ IsSession(session) /\ IsJob(jobs[j])
      /\ \A l : IsSilent(l) /\ l \in Elements(fromPi) => l.ok
  BY JobIsFiled DEF Runs, LinesHold
<1>1. CASE AbortGoesOn(j)
  <2>1. /\ Resumes(j, "abort", "clear_queue") /\ Call(j, jobs[j], "abort", 0, <<>>)
        /\ UNCHANGED <<piVars, ledger, copy, session, drift>>
    BY <1>1 DEF AbortGoesOn
  <2>2. \/ fromPi' = fromPi
        \/ fromPi # <<>> /\ fromPi' = Tail(fromPi) /\ Answers(Head(fromPi), "clear_queue")
    BY <2>1, ResumesHow
  <2>3. PICK t : Writes(t)
    BY <1>0, <2>1, <2>2, GoesWrites
  <2>4. Answers(Head(fromPi), "clear_queue") => Handles(Head(fromPi), t)
    BY <2>1, PlainLines, HandlesPlain
  <2> QED
    BY <2>1, <2>2, <2>3, <2>4, Moves
<1>2. CASE AbortEnds(j)
  <2>1. /\ Resumes(j, "abort", "abort") /\ Release(j) /\ UNCHANGED <<piVars, copy>>
        /\ session'.closed = session.closed
        /\ drift' = (drift \/ (Result(j) = "ok" /\ Silent))
    BY <1>0, <1>2 DEF AbortEnds, IsSession
  <2>2. ledger'.shown = ledger.shown
    <3>1. ledger' \in {Finished(NotBusy), NotBusy, ledger}
      BY <1>2 DEF AbortEnds
    <3> QED
      BY <3>1, ShownStays
  <2>3. \/ fromPi' = fromPi
        \/ /\ fromPi # <<>> /\ fromPi' = Tail(fromPi) /\ Answers(Head(fromPi), "abort")
           /\ Head(fromPi) \in Elements(fromPi)
           /\ Result(j) = IF Head(fromPi).ok THEN "ok" ELSE "refused"
    BY <2>1, ResumesHow
  <2>4. Writes(<<>>)
    BY <2>1, <2>3, GoesWrites
  <2>5. ASSUME Answers(Head(fromPi), "abort"), Head(fromPi) \in Elements(fromPi),
               Result(j) = IF Head(fromPi).ok THEN "ok" ELSE "refused"
        PROVE  Handles(Head(fromPi), <<>>)
    <3>1. CASE Head(fromPi).last # 0
      <4>1. Silent /\ IsSilent(Head(fromPi))
        BY <2>5, <3>1 DEF Silent, IsSilent, Answers
      <4>2. drift'
        BY <1>0, <2>1, <2>5, <4>1
      <4> QED
        BY <2>1, <2>2, <4>2, HandlesPlain
    <3>2. CASE Head(fromPi).last = 0
      BY <2>1, <2>2, <2>5, <3>2, PlainLines, HandlesPlain
    <3> QED
      BY <3>1, <3>2
  <2> QED
    BY <2>1, <2>2, <2>3, <2>4, <2>5, Moves
<1>3. CASE CompactGoesOn(j)
  <2>1. /\ Resumes(j, "compact", "compact") /\ UNCHANGED <<piVars, copy, session, drift>>
        /\ Release(j) \/ Call(j, jobs[j], "get_entries", copy.upTo, <<>>)
    BY <1>3 DEF CompactGoesOn
  <2>2. ledger'.shown = ledger.shown
    <3>1. ledger' \in {Finished(ledger), ledger}
      BY <1>3 DEF CompactGoesOn
    <3> QED
      BY <3>1, ShownStays
  <2>3. \/ fromPi' = fromPi
        \/ fromPi # <<>> /\ fromPi' = Tail(fromPi) /\ Answers(Head(fromPi), "compact")
    BY <2>1, ResumesHow
  <2>4. PICK t : Writes(t)
    BY <1>0, <2>1, <2>3, GoesWrites
  <2>5. Answers(Head(fromPi), "compact") => Handles(Head(fromPi), t)
    BY <2>1, <2>2, PlainLines, HandlesPlain
  <2> QED
    BY <2>1, <2>2, <2>3, <2>4, <2>5, Moves
<1> QED
  BY <1>1, <1>2, <1>3

LEMMA EditFailsPlainly ==
  ASSUME Runs, NEW j \in Slots, EditFails(j)
  PROVE  Release(j) /\ UNCHANGED <<copy, drift>> /\ ledger'.shown = ledger.shown
BY ShownStays DEF EditFails

\* A read that an edit awaited.
LEMMA EditReadsFile ==
  ASSUME Runs, NEW j \in Slots, EditReads(j) \/ EditResends(j)
  PROVE  \E t : CoreMoves(t)
<1>1. /\ \E op : Resumes(j, op, "get_entries")
      /\ UNCHANGED <<piVars, session>>
  BY DEF EditReads, EditResends
<1>2. \/ fromPi' = fromPi /\ Result(j) = "lost"
      \/ /\ fromPi # <<>> /\ fromPi' = Tail(fromPi) /\ Answers(Head(fromPi), "get_entries")
         /\ Result(j) = IF Head(fromPi).ok THEN "ok" ELSE "refused"
  BY <1>1, ResumesHow
<1>3. CASE fromPi' = fromPi /\ Result(j) = "lost"
  <2>1. Release(j) /\ UNCHANGED <<copy, drift>> /\ ledger'.shown = ledger.shown
    BY <1>3, EditFailsPlainly DEF EditReads, EditResends
  <2>2. Writes(<<>>)
    BY <1>3, <2>1, GoesWrites
  <2> QED
    BY <1>1, <1>3, <2>1, <2>2, Moves
<1>4. CASE /\ fromPi # <<>> /\ fromPi' = Tail(fromPi) /\ Answers(Head(fromPi), "get_entries")
           /\ Result(j) = IF Head(fromPi).ok THEN "ok" ELSE "refused"
  <2>1. Result(j) # "lost"
    BY <1>4
  <2>2. copy' = Absorbed(Head(fromPi))
    BY <2>1 DEF EditReads, EditResends
  <2>3. /\ Release(j) \/ \E work, command : IsJob(work) /\ command # "get_entries" /\ Call(j, work, command, IF command = "navigate" THEN jobs[j].target ELSE 0, <<>>)
        /\ \/ ledger' = Reconciled(Head(fromPi))
           \/ \E busy : ledger' = [Reconciled(Head(fromPi)) EXCEPT !.busy = busy]
    <3>1. CASE EditReads(j)
      <4>1. \/ /\ Call(j, jobs[j], "navigate", jobs[j].target, <<>>)
               /\ ledger' = Reconciled(Head(fromPi))
            \/ Release(j) /\ ledger' = [Reconciled(Head(fromPi)) EXCEPT !.busy = FALSE]
        BY <2>1, <3>1 DEF EditReads
      <4> QED
        BY <4>1, JobIsFiled
    <3>2. CASE EditResends(j)
      <4> DEFINE now == Reconciled(Head(fromPi))
      <4>1. \/ Release(j) /\ ledger' = [now EXCEPT !.busy = FALSE]
            \/ /\ ledger' = [now EXCEPT !.busy = TRUE]
               /\ Call(j, [jobs[j] EXCEPT !.op = "prompt", !.was = now.busy], "prompt", 0, <<>>)
            \/ Release(j) /\ ledger' = now
        BY <2>1, <3>2 DEF EditResends
      <4> HIDE DEF now
      <4>2. IsJob([jobs[j] EXCEPT !.op = "prompt", !.was = now.busy])
        BY JobIsFiled
      <4> QED
        BY <4>1, <4>2 DEF now
    <3> QED
      BY <3>1, <3>2
  <2>4. PICK t : Writes(t)
    BY <1>4, <2>3, GoesWrites
  <2>5. ledger'.shown = Reconciled(Head(fromPi)).shown
    BY <2>3, ShownStays
  <2>6. Handles(Head(fromPi), t)
    BY <1>4, <2>2, <2>5 DEF Handles, IsRead
  <2> QED
    BY <1>1, <1>4, <2>4, <2>6, Moves
<1> QED
  BY <1>2, <1>3, <1>4

LEMMA EditsMove ==
  ASSUME Runs, NEW j \in Slots, EditStopped(j) \/ EditMoves(j)
  PROVE  \E t : CoreMoves(t)
<1>1. CASE EditStopped(j)
  <2>1. Resumes(j, "edit", "abort") /\ UNCHANGED <<piVars, session>>
    BY <1>1 DEF EditStopped
  <2>2. \/ fromPi' = fromPi /\ Result(j) = "lost"
        \/ /\ fromPi # <<>> /\ fromPi' = Tail(fromPi) /\ Answers(Head(fromPi), "abort")
           /\ Result(j) = IF Head(fromPi).ok THEN "ok" ELSE "refused"
    BY <2>1, ResumesHow
  <2>3. CASE fromPi' = fromPi /\ Result(j) = "lost"
    <3>1. Release(j) /\ UNCHANGED <<copy, drift>> /\ ledger'.shown = ledger.shown
      BY <1>1, <2>3, EditFailsPlainly DEF EditStopped
    <3>2. Writes(<<>>)
      BY <2>3, <3>1, GoesWrites
    <3> QED
      BY <2>1, <2>3, <3>1, <3>2, Moves
  <2>4. CASE /\ fromPi # <<>> /\ fromPi' = Tail(fromPi) /\ Answers(Head(fromPi), "abort")
             /\ Result(j) = IF Head(fromPi).ok THEN "ok" ELSE "refused"
    <3>1. Result(j) # "lost"
      BY <2>4
    <3>2. /\ Call(j, jobs[j], "get_entries", copy.upTo, <<>>)
          /\ drift' = (drift \/ Silent) /\ UNCHANGED <<ledger, copy>>
      BY <1>1, <3>1 DEF EditStopped
    <3>3. PICK t : Writes(t) /\ Asks(t)
      BY <2>4, <3>2, JobIsFiled, GoesWrites
    <3>4. Handles(Head(fromPi), t)
      BY <2>4, <3>2, <3>3, PlainLines, HandlesPlain
    <3> QED
      BY <2>1, <2>4, <3>3, <3>4, Moves
  <2> QED
    BY <2>2, <2>3, <2>4
<1>2. CASE EditMoves(j)
  <2>1. Resumes(j, "edit", "navigate") /\ UNCHANGED <<piVars, session>>
    BY <1>2 DEF EditMoves
  <2>2. \/ fromPi' = fromPi /\ Result(j) = "lost"
        \/ /\ fromPi # <<>> /\ fromPi' = Tail(fromPi) /\ Answers(Head(fromPi), "navigate")
           /\ Result(j) = IF Head(fromPi).ok THEN "ok" ELSE "refused"
    BY <2>1, ResumesHow
  <2>3. CASE Result(j) # "ok"
    <3>1. Release(j) /\ UNCHANGED <<copy, drift>> /\ ledger'.shown = ledger.shown
      BY <1>2, <2>3, EditFailsPlainly DEF EditMoves
    <3>2. Writes(<<>>)
      BY <2>2, <3>1, GoesWrites
    <3>3. Answers(Head(fromPi), "navigate") /\ ~Head(fromPi).ok => Handles(Head(fromPi), <<>>)
      <4>1. ~Head(fromPi).ok => ~IsMove(Head(fromPi))
        BY DEF IsMove
      <4> QED
        BY <3>1, <4>1, PlainLines, HandlesPlain
    <3> QED
      BY <2>1, <2>2, <2>3, <3>1, <3>2, <3>3, Moves
  <2>4. CASE Result(j) = "ok"
    <3>1. /\ Call(j, [jobs[j] EXCEPT !.op = "resend"], "get_entries", copy.upTo, <<>>)
          /\ UNCHANGED <<ledger, copy, drift>>
      BY <1>2, <2>4 DEF EditMoves
    <3>2. IsJob([jobs[j] EXCEPT !.op = "resend"])
      BY JobIsFiled
    <3>3. PICK t : Writes(t) /\ Asks(t)
      BY <2>2, <3>1, <3>2, GoesWrites
    <3>4. Answers(Head(fromPi), "navigate") => Handles(Head(fromPi), t)
      BY <3>1, <3>3, PlainLines, HandlesPlain
    <3> QED
      BY <2>1, <2>2, <2>4, <3>1, <3>3, <3>4, Moves
  <2> QED
    BY <2>3, <2>4
<1> QED
  BY <1>1, <1>2

\* What Core hears of a turn is again a transcript.
LEMMA CompletedIs ==
  ASSUME NEW shown, Transcript(shown), NEW entry
  PROVE  /\ Transcript(Completed(shown, entry)) /\ Len(Completed(shown, entry)) = Len(shown)
         /\ \A i \in 1..Len(shown) : \/ Completed(shown, entry)[i] = shown[i]
                                     \/ /\ Completed(shown, entry)[i] = Message(entry, FALSE)
                                        /\ shown[i].entry = Partial
<1> DEFINE open == {i \in 1..Len(shown) : shown[i].entry = Partial}
           now(i) == IF i \in open /\ \A k \in open : k <= i THEN Message(entry, FALSE) ELSE shown[i]
           c == [i \in 1..Len(shown) |-> now(i)]
           S == Elements(shown) \cup {Message(entry, FALSE)}
<1>1. Completed(shown, entry) = c
  BY DEF Completed
<1>2. Len(shown) \in Nat
  BY PipeIs DEF Transcript, Pipe
<1>3. \A i \in 1..Len(shown) : now(i) \in S
  BY DEF Elements
<1> HIDE DEF now, S
<1>4. c \in [1..Len(shown) -> S]
  BY <1>3
<1>5. c \in Seq(S) /\ Len(c) = Len(shown)
  <2> HIDE DEF c
  <2> QED
    BY <1>2, <1>4, FunctionIsSeq
<1>6. \A i \in 1..Len(shown) : c[i] = shown[i] \/ (c[i] = Message(entry, FALSE) /\ shown[i].entry = Partial)
  BY DEF now
<1> HIDE DEF c
<1>7. ASSUME NEW i \in 1..Len(shown)
      PROVE  c[i] = Message(c[i].entry, c[i].stable) /\ c[i].stable \in BOOLEAN
  <2>1. CASE c[i] = shown[i]
    BY <2>1 DEF Transcript
  <2>2. CASE c[i] = Message(entry, FALSE)
    <3>1. c[i] = [entry |-> entry, stable |-> FALSE]
      BY <2>2 DEF Message
    <3> QED
      BY <3>1 DEF Message
  <2> QED
    BY <1>6, <2>1, <2>2
<1>8. Transcript(c)
  BY <1>5, <1>7, PipeIs DEF Transcript
<1> QED
  BY <1>1, <1>5, <1>6, <1>8

LEMMA HearsHow ==
  ASSUME Runs, NEW type, Hears(type)
  PROVE  /\ fromPi # <<>> /\ fromPi' = Tail(fromPi) /\ Head(fromPi).type = type
         /\ Head(fromPi) \in Elements(fromPi) /\ Pipe(fromPi')
BY RestLines, RestPipe DEF Hears, Runs

LEMMA TurnsMove ==
  ASSUME Runs, TurnStarts \/ MessageEnds
  PROVE  \E t : CoreMoves(t)
<1>1. UNCHANGED <<piVars, toPi, copy, pending, jobs, session, drift>>
  BY DEF TurnStarts, MessageEnds
<1>2. fromPi # <<>> /\ fromPi' = Tail(fromPi) /\ TurnLine(Head(fromPi))
  BY HearsHow DEF TurnStarts, MessageEnds, TurnLine
<1>3. Writes(<<>>)
  BY <1>1, NothingWrites DEF Runs, WiresHold
<1>4. Transcript(ledger'.shown)
  <2>0. Transcript(ledger.shown) /\ IsLedger(ledger)
    BY DEF Runs
  <2>1. CASE TurnStarts
    <3> DEFINE user == Message(Head(fromPi).last, FALSE)
               answer == Message(Partial, FALSE)
               now == ledger.shown \o <<user, answer>>
    <3>1. ledger'.shown = now
      <4>1. ledger' = [ledger EXCEPT !.busy = TRUE, !.shown = @ \o <<user, answer>>]
        BY <2>1 DEF TurnStarts
      <4> QED
        BY <2>0, <4>1 DEF IsLedger
    <3>2. now = Append(Append(ledger.shown, user), answer)
      <4> HIDE DEF user, answer
      <4>1. ledger.shown \in Seq(Elements(ledger.shown) \cup {user, answer})
        <5>1. ledger.shown \in Seq(Elements(ledger.shown))
          BY <2>0 DEF Transcript, Pipe
        <5> QED
          BY <5>1
      <4> QED
        BY <4>1
    <3> HIDE DEF now
    <3>3. Transcript(Append(ledger.shown, user))
      BY <2>0, OneMessageMore
    <3>4. Transcript(Append(Append(ledger.shown, user), answer))
      BY <3>3, OneMessageMore
    <3> QED
      BY <3>1, <3>2, <3>4
  <2>2. CASE MessageEnds
    <3>1. ledger' = [ledger EXCEPT !.shown = Completed(@, Head(fromPi).last), !.card = Nil]
      BY <2>2 DEF MessageEnds
    <3>2. ledger'.shown = Completed(ledger.shown, Head(fromPi).last)
      BY <2>0, <3>1 DEF IsLedger
    <3> QED
      BY <2>0, <3>2, CompletedIs
  <2> QED
    BY <2>1, <2>2
<1>5. Handles(Head(fromPi), <<>>)
  BY <1>1, <1>2, <1>4 DEF Handles
<1> QED
  BY <1>1, <1>2, <1>3, <1>5, Moves

LEMMA HeardMoves ==
  ASSUME Runs, LateAnswer \/ CompactionChanges \/ OnUiRequest
  PROVE  \E t : CoreMoves(t)
<1>0. pending \in [Ids -> Slots \cup {Nil}] /\ Pipe(toPi) /\ IsLedger(ledger)
  BY DEF Runs, WiresHold
<1>1. CASE LateAnswer
  <2>1. /\ UNCHANGED <<piVars, toPi, ledger, copy, pending, jobs, session>> /\ Hears("response")
        /\ drift' = (drift \/ Silent \/ Head(fromPi).command \in {"get_entries", "set_model", "navigate"})
    BY <1>1 DEF LateAnswer
  <2>2. Writes(<<>>)
    BY <1>0, <2>1, NothingWrites
  <2>3. fromPi # <<>> /\ fromPi' = Tail(fromPi) /\ Head(fromPi).type = "response"
    BY <2>1, HearsHow
  <2>4. drift' \/ (~IsRead(Head(fromPi)) /\ ~IsModel(Head(fromPi)) /\ ~IsMove(Head(fromPi)) /\ ~Ends(Head(fromPi)))
    BY <2>1, <2>3 DEF IsRead, IsModel, IsMove, Ends, IsSilent, Silent, Answers
  <2>5. Handles(Head(fromPi), <<>>)
    BY <2>1, <2>4, HandlesPlain
  <2> QED
    BY <2>1, <2>2, <2>3, <2>5, Moves
<1>2. CASE CompactionChanges
  <2>1. UNCHANGED <<piVars, toPi, copy, pending, jobs, session, drift>> /\ Hears("compaction")
        /\ ledger'.shown = ledger.shown
    BY <1>0, <1>2 DEF CompactionChanges, IsLedger
  <2>2. Writes(<<>>)
    BY <1>0, <2>1, NothingWrites
  <2>3. fromPi # <<>> /\ fromPi' = Tail(fromPi) /\ Head(fromPi).type = "compaction"
    BY <2>1, HearsHow
  <2>4. Handles(Head(fromPi), <<>>)
    BY <2>1, <2>3, PlainLines, HandlesPlain
  <2> QED
    BY <2>1, <2>2, <2>3, <2>4, Moves
<1>3. CASE OnUiRequest
  <2> DEFINE r == Head(fromPi).id
  <2>1. UNCHANGED <<piVars, copy, pending, jobs, session, drift>> /\ Hears("ask")
        /\ (toPi' = toPi \/ toPi' = Sent(<<Reply(r, FALSE)>>))
    BY <1>3 DEF OnUiRequest
  <2>2. ledger'.shown = ledger.shown
    BY <1>0, <1>3 DEF OnUiRequest, IsLedger
  <2>3. toPi' = toPi \/ toPi' = toPi \o <<Reply(r, FALSE)>>
    BY <2>1 DEF Sent, Runs
  <2>4. PICK t : Writes(t)
    BY <1>0, <2>1, <2>3, ReplyLines, SilenceWrites, NothingWrites
  <2>5. fromPi # <<>> /\ fromPi' = Tail(fromPi) /\ Head(fromPi).type = "ask"
    BY <2>1, HearsHow
  <2>6. Handles(Head(fromPi), t)
    BY <2>1, <2>2, <2>5, PlainLines, HandlesPlain
  <2> QED
    BY <2>1, <2>4, <2>5, <2>6, Moves
<1> QED
  BY <1>1, <1>2, <1>3

LEMMA AgentSettlesMoves ==
  ASSUME Runs, NEW j \in Slots, AgentSettles(j)
  PROVE  \E t : CoreMoves(t)
<1> DEFINE work == [Idle EXCEPT !.op = "reconcile"]
<1>1. /\ Hears("settled") /\ ledger' = NotBusy
      /\ Call(j, work, "get_entries", copy.upTo, <<>>)
      /\ UNCHANGED <<piVars, copy, session, drift>>
  BY DEF AgentSettles
<1>2. IsJob(work)
  BY IdleIsJob, JobChanges
<1> HIDE DEF work
<1>3. fromPi # <<>> /\ fromPi' = Tail(fromPi) /\ Head(fromPi).type = "settled"
  BY <1>1, HearsHow
<1>4. PICK t : Writes(t) /\ Asks(t)
  BY <1>1, <1>2, <1>3, GoesWrites
<1>5. Handles(Head(fromPi), t)
  BY <1>1, <1>3, <1>4, ShownStays, PlainLines, HandlesPlain
<1> QED
  BY <1>1, <1>3, <1>4, <1>5, Moves

LEMMA CoresStepMoves ==
  ASSUME Runs, Core, ~Stop
  PROVE  \E t : CoreMoves(t)
BY CommandsMove, ViewersMove DEF Core

LEMMA ContinuesMoves ==
  ASSUME Runs, Continues
  PROVE  \E t : CoreMoves(t)
<1>1. ~PiClosed
  BY DEF Runs, PiClosed
<1> QED
  BY <1>1, PlainJobsMove, StopsMove, EditsMove, EditReadsFile, AgentSettlesMoves, HeardMoves, TurnsMove DEF Continues

\* No step of Core but stop moves Pi.
LEMMA PiStays ==
  ASSUME Core \/ Continues \/ TimesOut
  PROVE  agent' = agent \/ Stop
<1>1. ASSUME NEW j \in Slots,
             \/ SendPrompt(j) \/ ClearQueue(j) \/ Abort(j) \/ Compact(j) \/ EditMessage(j)
             \/ SetModel(j) \/ SetThinking(j) \/ Ask(j)
      PROVE  agent' = agent
  <2>1. \A op, was, target, command, entry, first :
          Command(j, op, was, target, command, entry, first) => UNCHANGED piVars
    BY DEF Command
  <2>2. UNCHANGED piVars
    <3>1. CASE EditMessage(j)
      BY <2>1, <3>1, Zenon DEF EditMessage
    <3> QED
      BY <1>1, <2>1, <3>1, Zenon DEF SendPrompt, ClearQueue, Abort, Compact, SetModel, SetThinking, Ask
  <2> QED
    BY <2>2 DEF piVars
<1>2. ASSUME \/ ViewersLeave \/ ViewerComes \/ TimesOut
             \/ \E r \in Questions : ConfirmationTimesOut(r) \/ \E yes \in BOOLEAN : RespondToConfirmation(r, yes)
      PROVE  agent' = agent
  BY <1>2 DEF ViewersLeave, ViewerComes, TimesOut, RequestTimesOut, ConfirmationTimesOut, RespondToConfirmation,
              piVars
<1>3. ASSUME NEW j \in Slots,
             \/ PromptEnds(j) \/ SimpleEnds(j) \/ ModelEnds(j) \/ AbortGoesOn(j) \/ AbortEnds(j)
             \/ CompactGoesOn(j) \/ ReconcileEnds(j) \/ EditStopped(j) \/ EditReads(j) \/ EditMoves(j)
             \/ EditResends(j) \/ AgentSettles(j)
      PROVE  agent' = agent
  <2>1. UNCHANGED piVars
    BY <1>3, Zenon DEF PromptEnds, SimpleEnds, ModelEnds, AbortGoesOn, AbortEnds, CompactGoesOn, ReconcileEnds,
       EditStopped, EditReads, EditMoves, EditResends, AgentSettles
  <2> QED
    BY <2>1 DEF piVars
<1>4. ASSUME LateAnswer \/ TurnStarts \/ MessageEnds \/ CompactionChanges \/ OnUiRequest \/ PiClosed
      PROVE  agent' = agent
  BY <1>4 DEF LateAnswer, TurnStarts, MessageEnds, CompactionChanges, OnUiRequest, PiClosed, piVars
<1> QED
  BY <1>1, <1>2, <1>3, <1>4 DEF Core, Continues

\* While Pi runs, Core keeps what it knows of the file.
LEMMA CoreKeepsFile ==
  ASSUME QInv, EInv, FInv, LInv, Core \/ Continues \/ TimesOut
  PROVE  FInv' /\ LInv'
<1>1. CASE Stop
  <2>1. agent'.state # "up"
    BY <1>1 DEF Stop, QInv, AgentIs
  <2> QED
    BY <2>1 DEF FInv, LInv
<1>2. CASE ~Stop /\ agent.state = "up"
  <2>1. Runs
    BY <1>2, RunsIs
  <2>2. PICK t : CoreMoves(t)
    BY <1>2, <2>1, CoresStepMoves, ContinuesMoves, TimesOutMoves
  <2>3. IsLedger(ledger) /\ Pipe(toPi) /\ Pipe(fromPi)
    BY <2>1 DEF Runs
  <2> QED
    BY <1>2, <2>2, <2>3, CoreKeepsLines, CoreKeepsTruth
<1>3. CASE ~Stop /\ agent.state # "up"
  <2>1. agent'.state # "up"
    BY <1>3, PiStays
  <2> QED
    BY <2>1 DEF FInv, LInv
<1> QED
  BY <1>1, <1>2, <1>3

-----------------------------------------------------------------------------
(* SessionTurn: what Pi says of its file *)

LEMMA PiKeepsWires ==
  ASSUME Runs, NEW t, PiSays(t)
  PROVE  WiresHold'
<1>1. /\ UNCHANGED <<pending, jobs>> /\ WiresHold /\ Elements(fromPi') = Elements(fromPi) \cup Elements(t)
  BY JoinedLines DEF PiSays, PiSteps, Runs
<1>2. \A id, at : Owned(id, at)' <=> Owned(id, at)
  BY <1>1 DEF Owned
<1>3. ASSUME NEW l \in Elements(fromPi'), l.type = "response" PROVE l.id \in Ids /\ Owned(l.id, l.command)
  BY <1>1, <1>3 DEF WiresHold, PiSays, Fits
<1>4. ASSUME NEW l \in Elements(toPi'), l.type # "reply" PROVE l.id \in Ids /\ Owned(l.id, l.type)
  BY <1>1, <1>4 DEF WiresHold, PiSays
<1> DEFINE p == agent'.packing
<1>5. ASSUME p # Nil PROVE p \in Ids /\ Owned(p, "compact")
  <2>1. CASE p = agent.packing
    BY <1>1, <1>5, <2>1 DEF WiresHold
  <2>2. CASE \E l \in Elements(toPi) : l.type = "compact" /\ p = l.id
    BY <1>1, <2>2 DEF WiresHold
  <2> QED
    BY <1>5, <2>1, <2>2 DEF PiSays
<1>6. agent'.packing # Nil => agent'.packing \in Ids /\ (pending[p] # Nil => jobs[pending[p]].at = "compact")
  BY <1>5 DEF Owned
<1>7. pending' \in [Ids -> Slots \cup {Nil}]
  BY <1>1 DEF WiresHold
<1> QED
  BY <1>1, <1>2, <1>3, <1>4, <1>6, <1>7 DEF WiresHold, Owned

LEMMA PiKeepsLines ==
  ASSUME Runs, NEW t, PiSays(t)
  PROVE  LinesHold'
<1>1. /\ LinesHold /\ copy' = copy /\ Pipe(fromPi) /\ Pipe(t) /\ fromPi' = fromPi \o t
      /\ Elements(fromPi') = Elements(fromPi) \cup Elements(t)
      /\ Begins(tree, tree') /\ Elements(toPi') \subseteq Elements(toPi)
      /\ copy.upTo \in 0..Len(tree) /\ Len(tree) \in Nat /\ Len(tree') \in Nat /\ Len(tree) <= Len(tree')
  BY JoinedLines DEF PiSays, PiSteps, Runs, CopyHolds, FileHolds, Rooted, Begins
<1>2. ASSUME NEW l \in Elements(fromPi')
      PROVE  /\ IsRead(l) => ReadHolds(l)'
             /\ IsModel(l) => l.last \in 1..Len(tree') /\ tree'[l.last].kind = "model"
             /\ IsSilent(l) => l.ok
  <2>1. CASE l \in Elements(fromPi)
    <3>1. IsRead(l) => ReadHolds(l)'
      BY <1>1, <2>1 DEF LinesHold, ReadHolds
    <3>2. IsModel(l) => l.last \in 1..Len(tree') /\ tree'[l.last].kind = "model"
      BY <1>1, <2>1 DEF LinesHold, Begins
    <3>3. IsSilent(l) => l.ok
      BY <1>1, <2>1 DEF LinesHold
    <3> QED
      BY <3>1, <3>2, <3>3
  <2>2. CASE l \in Elements(t)
    <3>1. Fits(l)
      BY <2>2 DEF PiSays
    <3> QED
      BY <1>1, <3>1 DEF Fits, ReadHolds
  <2> QED
    BY <1>1, <2>1, <2>2
<1>3. \A l \in Elements(toPi') : l.type = "get_entries" => l.entry \in 0..copy'.upTo
  BY <1>1 DEF LinesHold
<1>4. Ordered(fromPi')
  <2>1. \A l \in Elements(t) : IsRead(l) => l.last = Len(tree')
    BY DEF PiSays, Fits
  <2>2. Ordered(t)
    <3> SUFFICES ASSUME NEW q \in 1..Len(t), NEW r \in 1..Len(t), IsRead(t[q]), IsRead(t[r])
                 PROVE  t[q].last <= t[r].last
      BY DEF Ordered
    <3>1. t[q].last = Len(tree') /\ t[r].last = Len(tree')
      BY <2>1 DEF Elements
    <3> QED
      BY <1>1, <3>1
  <2>3. \A l \in Elements(fromPi), k \in Elements(t) : IsRead(l) /\ IsRead(k) => l.last <= k.last
    BY <1>1, <2>1 DEF LinesHold, ReadHolds
  <2>4. Ordered(fromPi)
    BY <1>1 DEF LinesHold
  <2> QED
    BY <1>1, <2>2, <2>3, <2>4, JoinedOrdered
<1>5. Followed(fromPi', agent'.turn)
  <2>1. Followed(fromPi, agent.turn)
    BY <1>1 DEF LinesHold
  <2>2. \/ agent'.turn
        \/ agent.turn = agent'.turn /\ \A q \in 1..Len(t) : ~TurnLine(t[q])
        \/ \E e \in 1..Len(t) : Ends(t[e]) /\ \A q \in 1..Len(t) : q >= e => ~TurnLine(t[q])
    BY DEF PiSays, Tells, Elements
  <2> DEFINE now == agent'.turn
  <2>3. \/ now
        \/ (agent.turn => now) /\ Followed(fromPi, agent.turn) /\ \A q \in 1..Len(t) : ~TurnLine(t[q])
        \/ \E e \in 1..Len(t) : Ends(t[e]) /\ \A q \in 1..Len(t) : q >= e => ~TurnLine(t[q])
    BY <2>1, <2>2
  <2> HIDE DEF now
  <2>4. Followed(fromPi \o t, now)
    BY <1>1, <2>3, JoinedFollowed
  <2> QED
    BY <1>1, <2>4 DEF now
<1> QED
  BY <1>2, <1>3, <1>4, <1>5 DEF LinesHold

LEMMA PiKeepsFile ==
  ASSUME Runs, NEW t, PiSays(t)
  PROVE  FInv'
<1>1. FileHolds' /\ WiresHold' /\ LinesHold'
  BY PiKeepsWires, PiKeepsLines DEF PiSays, FileHolds
<1>2. CopyHolds'
  <2>1. copy' = copy /\ Len(tree) \in Nat /\ Len(tree') \in Nat /\ Len(tree) <= Len(tree')
    BY DEF PiSays, PiSteps, Begins, Runs, FileHolds, Rooted
  <2> QED
    BY <2>1 DEF Runs, CopyHolds
<1>3. ~session'.closed /\ Transcript(ledger'.shown)
  BY DEF PiSays, PiSteps, Runs
<1> QED
  BY <1>1, <1>2, <1>3 DEF FInv

LEMMA PiKeepsTruth ==
  ASSUME Runs, LInv, NEW t, PiSays(t)
  PROVE  LInv'
<1> DEFINE now == agent'.turn
           file == tree'
           to == leaf'
           s == fromPi
           st == fromPi'
<1>1. /\ ReadsAreTrue(s, agent.turn, tree, leaf) /\ LedgerIsTrue /\ Pipe(s) /\ Pipe(t) /\ st = s \o t
      /\ UNCHANGED ledger /\ (drift => drift') /\ Len(s) \in Nat
      /\ Elements(st) = Elements(s) \cup Elements(t)
  BY JoinedLines, PipeIs DEF LInv, Runs, PiSays, PiSteps, Pipe
<1>2. /\ \A l \in Elements(s) : IsModel(l) => l.last \in 1..Len(tree)
      /\ Rooted(tree) /\ Rooted(file) /\ Begins(tree, file) /\ Len(tree) \in Nat /\ Len(tree) <= Len(file)
      /\ Len(file) \in Nat
  BY DEF Runs, LinesHold, FileHolds, PiSays, Rooted, Begins
<1>3. ASSUME ReadsAreTrue(st, now, file, to), LedgerIsTrue' PROVE LInv'
  BY <1>3 DEF LInv
<1>4. CASE now
  BY <1>3, <1>4 DEF ReadsAreTrue, LedgerIsTrue, DueAfter
<1>5. CASE \E l \in Elements(t) : Ends(l) \/ IsMove(l)
  <2>1. CASE \A l \in Elements(t) : ~IsRead(l)
    <3>1. ReadsAreTrue(s \o t, now, file, to)
      <4> HIDE DEF now, file, to
      <4> QED
        BY <1>1, <1>5, <2>1, JoinedReads
    <3>2. 0 \in 0..Len(s)
      BY <1>1
    <3>3. DueAfter(s \o t, now, 0)
      <4> HIDE DEF now, file, to
      <4> QED
        BY <1>1, <1>5, <3>2, JoinedDue
    <3>4. LedgerIsTrue'
      BY <1>1, <3>3 DEF LedgerIsTrue
    <3> QED
      BY <1>1, <1>3, <3>1, <3>4
  <2>2. CASE \E l \in Elements(t) : IsRead(l)
    \* Then it is a read alone.
    <3>1. now
      <4>1. CASE \E e : t = <<e>> /\ IsRead(e) /\ ~IsModel(e) /\ e.leaf = leaf
        <5>1. PICK e : t = <<e>> /\ IsRead(e)
          BY <4>1
        <5>2. Elements(t) = {e}
          BY <5>1, SingleLines
        <5>3. ~Ends(e) /\ ~IsMove(e)
          BY <5>1 DEF IsRead, Ends, IsMove, IsSilent, Answers
        <5> QED
          BY <1>5, <5>2, <5>3
      <4>2. CASE \E e : t = <<e>> /\ IsModel(e)
        <5>1. PICK e : t = <<e>> /\ IsModel(e)
          BY <4>2
        <5>2. Elements(t) = {e}
          BY <5>1, SingleLines
        <5>3. ~IsRead(e)
          BY <5>1 DEF IsRead, IsModel, Answers
        <5> QED
          BY <2>2, <5>2, <5>3
      <4> QED
        BY <2>2, <4>1, <4>2 DEF PiSays, Tells
    <3> QED
      BY <1>4, <3>1
  <2> QED
    BY <2>1, <2>2
<1>6. CASE /\ now = agent.turn /\ UNCHANGED <<tree, leaf>> /\ Awaits
           /\ \A l \in Elements(t) : ~IsRead(l) /\ ~IsModel(l)
  <2>1. ReadsAreTrue(s \o t, agent.turn, tree, leaf)
    BY <1>1, <1>6, JoinedReads
  <2>2. LedgerIsTrue'
    <3>1. CASE drift
      BY <1>1, <3>1 DEF LedgerIsTrue
    <3>2. CASE DueAfter(s, agent.turn, 0)
      <4>1. 0 \in 0..Len(s)
        BY <1>1
      <4>2. DueAfter(s \o t, agent.turn, 0)
        BY <1>1, <3>2, <4>1, JoinedDue
      <4> QED
        BY <1>1, <1>6, <4>2 DEF LedgerIsTrue
    <3>3. CASE \E l \in Elements(toPi) : l.type = "get_entries"
      BY <1>6, <3>3 DEF LedgerIsTrue, Awaits
    <3>4. CASE \E l \in Elements(s) : IsRead(l)
      BY <1>1, <3>4 DEF LedgerIsTrue
    <3>5. ASSUME NEW x \in 0..Len(tree), ledger.shown = Truth(tree, x), Leads(s, 0, x, tree, leaf)
          PROVE  LedgerIsTrue'
      <4>1. 0 \in 0..Len(s)
        BY <1>1
      <4>2. Leads(s \o t, 0, x, tree, leaf)
        BY <1>1, <1>6, <3>5, <4>1, LeadsPlain
      <4> QED
        BY <1>1, <1>6, <3>5, <4>2 DEF LedgerIsTrue
    <3> QED
      BY <1>1, <3>1, <3>2, <3>3, <3>4, <3>5 DEF LedgerIsTrue
  <2> QED
    BY <1>1, <1>3, <1>6, <2>1, <2>2
<1>7. CASE /\ now = agent.turn /\ UNCHANGED <<tree, leaf>>
           /\ \E e : t = <<e>> /\ IsRead(e) /\ ~IsModel(e) /\ e.leaf = leaf
  <2>1. PICK e : t = <<e>> /\ IsRead(e) /\ ~IsModel(e) /\ e.leaf = leaf
    BY <1>7
  <2>2. ReadsAreTrue(s \o <<e>>, agent.turn, tree, leaf)
    BY <1>1, <2>1, FreshRead
  <2>3. e \in Elements(st)
    BY <1>1, <2>1, SingleLines
  <2>4. LedgerIsTrue'
    BY <2>1, <2>3 DEF LedgerIsTrue
  <2> QED
    BY <1>1, <1>3, <1>7, <2>1, <2>2, <2>4
<1>8. CASE /\ now = agent.turn /\ Awaits
           /\ \E e : t = <<e>> /\ IsModel(e) /\ tree'[e.last].parent = leaf /\ leaf' = e.last
  <2>1. PICK e : t = <<e>> /\ IsModel(e) /\ tree'[e.last].parent = leaf /\ leaf' = e.last
    BY <1>8
  <2>2. /\ ReadsAreTrue(s \o <<e>>, agent.turn, file, e.last)
        /\ \A x : Leads(s, 0, x, tree, leaf) => Leads(s \o <<e>>, 0, x, file, e.last)
    <3> HIDE DEF file
    <3>1. file[e.last].parent = leaf
      BY <2>1 DEF file
    <3> QED
      BY <1>1, <1>2, <2>1, <3>1, OneModelMore
  <2>3. LedgerIsTrue'
    <3>1. CASE drift
      BY <1>1, <3>1 DEF LedgerIsTrue
    <3>2. CASE DueAfter(s, agent.turn, 0)
      <4>1. 0 \in 0..Len(s)
        BY <1>1
      <4>2. DueAfter(s \o t, agent.turn, 0)
        BY <1>1, <3>2, <4>1, JoinedDue
      <4> QED
        BY <1>1, <1>8, <4>2 DEF LedgerIsTrue
    <3>3. CASE \E l \in Elements(toPi) : l.type = "get_entries"
      BY <1>8, <3>3 DEF LedgerIsTrue, Awaits
    <3>4. CASE \E l \in Elements(s) : IsRead(l)
      BY <1>1, <3>4 DEF LedgerIsTrue
    <3>5. ASSUME NEW x \in 0..Len(tree), ledger.shown = Truth(tree, x), Leads(s, 0, x, tree, leaf)
          PROVE  LedgerIsTrue'
      <4>1. Truth(file, x) = Truth(tree, x) /\ x \in 0..Len(file)
        <5> HIDE DEF file
        <5> QED
          BY <1>2, <3>5, BranchGrows
      <4>2. Leads(st, 0, x, file, to)
        BY <1>1, <2>1, <2>2, <3>5
      <4> QED
        BY <1>1, <3>5, <4>1, <4>2 DEF LedgerIsTrue
    <3> QED
      BY <1>1, <3>1, <3>2, <3>3, <3>4, <3>5 DEF LedgerIsTrue
  <2> QED
    BY <1>1, <1>3, <1>8, <2>1, <2>2, <2>3
<1>9. (\E e \in 1..Len(t) : Ends(t[e])) => \E l \in Elements(t) : Ends(l)
  BY DEF Elements
<1> HIDE DEF file, to, s, st
<1> QED
  BY <1>4, <1>5, <1>6, <1>7, <1>8, <1>9 DEF PiSays, Tells

-----------------------------------------------------------------------------
(* SessionTurn: every step of Pi says what it does to the file *)

LEMMA TwoLines ==
  ASSUME NEW d, NEW e
  PROVE  /\ Pipe(<<d, e>>) /\ Len(<<d, e>>) = 2 /\ Elements(<<d, e>>) = {d, e}
         /\ <<d, e>>[1] = d /\ <<d, e>>[2] = e
<1> DEFINE t == <<d, e>>
<1>1. t \in Seq({d, e}) /\ Len(t) = 2 /\ t[1] = d /\ t[2] = e
  OBVIOUS
<1> HIDE DEF t
<1>2. Pipe(t) /\ Elements(t) = {d, e}
  <2>1. 1..Len(t) = {1, 2}
    BY <1>1
  <2> QED
    BY <1>1, <2>1, PipeIs DEF Elements
<1> QED
  BY <1>1, <1>2 DEF t

LEMMA ThreeLines ==
  ASSUME NEW c, NEW d, NEW e
  PROVE  /\ Pipe(<<c, d, e>>) /\ Len(<<c, d, e>>) = 3 /\ Elements(<<c, d, e>>) = {c, d, e}
         /\ <<c, d, e>>[1] = c /\ <<c, d, e>>[2] = d /\ <<c, d, e>>[3] = e
<1> DEFINE t == <<c, d, e>>
<1>1. t \in Seq({c, d, e}) /\ Len(t) = 3 /\ t[1] = c /\ t[2] = d /\ t[3] = e
  OBVIOUS
<1> HIDE DEF t
<1>2. Pipe(t) /\ Elements(t) = {c, d, e}
  <2>1. 1..Len(t) = {1, 2, 3}
    BY <1>1
  <2> QED
    BY <1>1, <2>1, PipeIs DEF Elements
<1> QED
  BY <1>1, <1>2 DEF t

\* Pi stores an entry after one that is there.
LEMMA OneEntryMore ==
  ASSUME NEW file, Pipe(file), Rooted(file), NEW e, e.parent \in 0..Len(file)
  PROVE  LET other == Append(file, e)
         IN  /\ Pipe(other) /\ Rooted(other) /\ Begins(file, other)
             /\ Len(other) = Len(file) + 1 /\ Len(other) \in 1..Len(other) /\ other[Len(other)] = e
<1> DEFINE other == Append(file, e)
<1>1. other = file \o <<e>>
  BY AppendedPipe
<1> HIDE DEF other
<1>2. /\ Pipe(other) /\ Len(file) \in Nat /\ Len(other) = Len(file) + 1 /\ Len(other) \in 1..Len(other)
      /\ other[Len(other)] = e
      /\ \A q \in 1..Len(file) : q \in 1..Len(other) /\ other[q] = file[q]
      /\ \A q \in 1..Len(other) : (q \in 1..Len(file) /\ other[q] = file[q]) \/ q = Len(other)
  BY <1>1, OnePlace
<1>3. Rooted(other)
  <2> SUFFICES ASSUME NEW n \in 1..Len(other) PROVE other[n].parent \in 0..(n - 1)
    BY <1>2 DEF Rooted
  <2>1. CASE n = Len(other)
    BY <1>2, <2>1
  <2>2. CASE n \in 1..Len(file) /\ other[n] = file[n]
    BY <2>2 DEF Rooted
  <2> QED
    BY <1>2, <2>1, <2>2
<1>4. Begins(file, other)
  BY <1>2 DEF Begins
<1> QED
  BY <1>2, <1>3, <1>4 DEF other

\* Pi's answer to a line.
LEMMA ResponseIs ==
  ASSUME NEW l, NEW ok
  PROVE  LET k == Response(l, ok)
         IN  /\ k.type = "response" /\ k.id = l.id /\ k.command = l.type /\ k.last = 0 /\ k.leaf = 0
             /\ k.ok = ok
BY DEF Response, Line

LEMMA AnswerFits ==
  ASSUME WiresHold, NEW l \in Elements(toPi), l.type \notin {"reply", "get_entries"}, NEW ok,
         l.type # "set_model" \/ ~ok, NEW k, k = Response(l, ok)
  PROVE  /\ Fits(k) /\ ~IsRead(k) /\ ~IsModel(k) /\ ~TurnLine(k) /\ ~Ends(k)
         /\ (l.type = "navigate" /\ ok) => IsMove(k)
<1>1. /\ k.type = "response" /\ k.id = l.id /\ k.command = l.type /\ k.last = 0 /\ k.ok = ok
  BY ResponseIs
<1>2. l.id \in Ids /\ Owned(l.id, l.type)
  BY DEF WiresHold
<1> QED
  BY <1>1, <1>2 DEF Fits, IsRead, IsModel, IsMove, IsSilent, TurnLine, Ends, Answers

LEMMA OtherFits ==
  ASSUME NEW k, k.type \notin {"response"}
  PROVE  /\ Fits(k) /\ ~IsRead(k) /\ ~IsModel(k) /\ ~IsMove(k)
         /\ k.type \notin {"turn", "answer"} => ~TurnLine(k)
         /\ Ends(k) <=> k.type = "settled"
BY DEF Fits, IsRead, IsModel, IsMove, IsSilent, TurnLine, Ends, Answers

\* Pi handles a line of Core's.
LEMMA ReadIs ==
  ASSUME Runs, NEW type, PiReads(type)
  PROVE  /\ Head(toPi) \in Elements(toPi) /\ Head(toPi).type = type
         /\ Elements(toPi') \subseteq Elements(toPi)
         /\ type # "get_entries" => Awaits
<1>1. Pipe(toPi) /\ toPi # <<>> /\ toPi' = Tail(toPi) /\ Head(toPi).type = type
  BY DEF Runs, PiReads
<1>2. Elements(toPi) = {Head(toPi)} \cup Elements(toPi')
  BY <1>1, HeadAndRest
<1> QED
  BY <1>1, <1>2 DEF Awaits

\* It says nothing of the file, or of a turn.
LEMMA PlainSays ==
  ASSUME Runs, PiSteps, UNCHANGED <<tree, leaf, drift>>, NEW t, Pipe(t), fromPi' = fromPi \o t,
         agent'.turn = agent.turn, Awaits, Elements(toPi') \subseteq Elements(toPi),
         \/ agent'.packing \in {agent.packing, Nil}
         \/ \E l \in Elements(toPi) : l.type = "compact" /\ agent'.packing = l.id,
         \A l \in Elements(t) : Fits(l) /\ ~IsRead(l) /\ ~IsModel(l) /\ ~TurnLine(l)
  PROVE  PiSays(t)
<1>1. Pipe(tree') /\ Rooted(tree') /\ leaf' \in 0..Len(tree') /\ Begins(tree, tree')
  BY DEF Runs, FileHolds, Begins, Rooted
<1>2. Tells(t)
  BY DEF Tells
<1> QED
  BY <1>1, <1>2 DEF PiSays

\* It answers a line, and that is all.
LEMMA PlainAnswerSays ==
  ASSUME Runs, NEW type, PiReads(type), type \notin {"reply", "get_entries"}, PiSteps,
         UNCHANGED <<tree, leaf, drift>>, agent'.turn = agent.turn, agent'.packing \in {agent.packing, Nil},
         NEW ok, type # "set_model" \/ ~ok, fromPi' = Append(fromPi, Response(Head(toPi), ok))
  PROVE  \E t : PiSays(t)
<1> DEFINE k == Response(Head(toPi), ok)
<1>1. Head(toPi) \in Elements(toPi) /\ Head(toPi).type = type /\ Elements(toPi') \subseteq Elements(toPi) /\ Awaits
  BY ReadIs
<1>2. Fits(k) /\ ~IsRead(k) /\ ~IsModel(k) /\ ~TurnLine(k)
  BY <1>1, AnswerFits DEF Runs
<1>3. fromPi' = fromPi \o <<k>>
  BY AppendedPipe DEF Runs
<1> HIDE DEF k
<1>4. Pipe(<<k>>) /\ Elements(<<k>>) = {k}
  BY SinglePipe, SingleLines
<1> QED
  BY <1>1, <1>2, <1>3, <1>4, PlainSays

\* It is in a turn then.
LEMMA TurnSays ==
  ASSUME Runs, PiSteps, drift' = drift, NEW t, Pipe(t), fromPi' = fromPi \o t, agent'.turn,
         agent'.packing = agent.packing, Elements(toPi') \subseteq Elements(toPi),
         \A l \in Elements(t) : Fits(l),
         Pipe(tree'), Rooted(tree'), leaf' \in 0..Len(tree'), Begins(tree, tree')
  PROVE  PiSays(t)
BY DEF PiSays, Tells

LEMMA StoredIs ==
  ASSUME Runs, NEW kind, Stored(kind)
  PROVE  /\ Pipe(tree') /\ Rooted(tree') /\ leaf' \in 0..Len(tree') /\ Begins(tree, tree')
         /\ Len(tree') = Len(tree) + 1 /\ Len(tree') \in 1..Len(tree') /\ leaf' = Len(tree')
         /\ tree'[Len(tree')].kind = kind /\ tree'[Len(tree')].parent = leaf
<1> DEFINE e == Entry(kind)
<1>1. Pipe(tree) /\ Rooted(tree) /\ leaf \in 0..Len(tree) /\ e.parent = leaf /\ e.kind = kind
  BY DEF Runs, FileHolds, Entry
<1>2. tree' = Append(tree, e) /\ leaf' = Len(tree')
  BY DEF Stored
<1> HIDE DEF e
<1>3. /\ Pipe(tree') /\ Rooted(tree') /\ Begins(tree, tree')
      /\ Len(tree') = Len(tree) + 1 /\ Len(tree') \in 1..Len(tree') /\ tree'[Len(tree')] = e
  BY <1>1, <1>2, OneEntryMore
<1> QED
  BY <1>1, <1>2, <1>3

LEMMA PiPromptSays ==
  ASSUME QInv, Runs, PiPrompt
  PROVE  \E t : PiSays(t)
<1>1. /\ PiReads("prompt") /\ PiSteps /\ drift' = drift /\ AgentIs
      /\ Head(toPi) \in Elements(toPi) /\ Head(toPi).type = "prompt"
      /\ Elements(toPi') \subseteq Elements(toPi) /\ Pipe(fromPi) /\ WiresHold /\ FileHolds
  BY ReadIs DEF PiPrompt, QInv, Runs
<1>2. CASE fromPi' = Append(fromPi, Response(Head(toPi), FALSE)) /\ UNCHANGED piVars
  BY <1>1, <1>2, PlainAnswerSays DEF piVars
<1>3. CASE /\ Stored("user") /\ agent' = [agent EXCEPT !.turn = TRUE]
           /\ fromPi' = fromPi \o <<Newest("turn"), Response(Head(toPi), TRUE)>>
  <2> DEFINE d == Newest("turn")
             e == Response(Head(toPi), TRUE)
  <2>1. Fits(d) /\ Fits(e)
    <3>1. d.type = "turn"
      BY LineTypes
    <3> HIDE DEF d
    <3> QED
      BY <1>1, <3>1, AnswerFits, OtherFits
  <2>2. fromPi' = fromPi \o <<d, e>>
    BY <1>3
  <2>3. agent'.turn /\ agent'.packing = agent.packing
    BY <1>1, <1>3 DEF AgentIs
  <2>4. Pipe(tree') /\ Rooted(tree') /\ leaf' \in 0..Len(tree') /\ Begins(tree, tree')
    BY <1>3, StoredIs
  <2> HIDE DEF d, e
  <2>5. Pipe(<<d, e>>) /\ Elements(<<d, e>>) = {d, e}
    BY TwoLines
  <2> QED
    BY <1>1, <2>1, <2>2, <2>3, <2>4, <2>5, TurnSays
<1>4. CASE /\ agent' = [agent EXCEPT !.queued = 1]
           /\ fromPi' = Append(fromPi, Response(Head(toPi), TRUE)) /\ UNCHANGED <<tree, leaf>>
  <2>1. agent'.turn = agent.turn /\ agent'.packing = agent.packing
    BY <1>1, <1>4 DEF AgentIs
  <2> QED
    BY <1>1, <1>4, <2>1, PlainAnswerSays
<1> QED
  BY <1>2, <1>3, <1>4 DEF PiPrompt

LEMMA PiClearQueueSays ==
  ASSUME QInv, Runs, PiClearQueue
  PROVE  \E t : PiSays(t)
<1>1. /\ PiReads("clear_queue") /\ PiSteps /\ UNCHANGED <<tree, leaf, drift>>
      /\ agent' = [agent EXCEPT !.queued = 0]
      /\ \E ok \in BOOLEAN : fromPi' = Append(fromPi, Response(Head(toPi), ok))
  BY DEF PiClearQueue
<1>2. agent'.turn = agent.turn /\ agent'.packing = agent.packing
  BY <1>1 DEF QInv, AgentIs
<1> QED
  BY <1>1, <1>2, PlainAnswerSays

LEMMA PiTuneSays ==
  ASSUME QInv, Runs, PiTune
  PROVE  \E t : PiSays(t)
<1>1. /\ PiReads("tune") /\ PiSteps /\ UNCHANGED <<tree, leaf, drift>> /\ agent' = agent
      /\ \E ok \in BOOLEAN : fromPi' = Append(fromPi, Response(Head(toPi), ok))
  BY DEF PiTune, piVars
<1> QED
  BY <1>1, PlainAnswerSays

LEMMA PiHearsReplySays ==
  ASSUME QInv, Runs, PiHearsReply
  PROVE  \E t : PiSays(t)
<1>1. /\ PiReads("reply") /\ PiSteps /\ UNCHANGED <<tree, leaf, drift>> /\ fromPi' = fromPi
      /\ agent'.turn = agent.turn /\ agent'.packing = agent.packing
  BY DEF PiHearsReply, QInv, AgentIs
<1>2. Awaits /\ Elements(toPi') \subseteq Elements(toPi)
  BY <1>1, ReadIs
<1>3. Pipe(<<>>) /\ fromPi' = fromPi \o <<>> /\ Elements(<<>>) = {}
  BY <1>1, EmptyPipe, SingleLines, ConcatEmptySeq DEF Runs, Pipe
<1> QED
  BY <1>1, <1>2, <1>3, PlainSays

LEMMA PiAsksSays ==
  ASSUME QInv, Runs, NEW r, PiAsks(r)
  PROVE  \E t : PiSays(t)
<1> DEFINE k == Line("ask", r)
<1>1. /\ PiSteps /\ UNCHANGED <<tree, leaf, drift, toPi>> /\ fromPi' = Append(fromPi, k)
      /\ agent'.turn = agent.turn /\ agent'.packing = agent.packing
  BY DEF PiAsks, QInv, AgentIs
<1>2. k.type = "ask"
  BY LineTypes
<1> HIDE DEF k
<1>3. fromPi' = fromPi \o <<k>> /\ Pipe(<<k>>) /\ Elements(<<k>>) = {k}
  BY <1>1, AppendedPipe, SinglePipe, SingleLines DEF Runs
<1>4. Fits(k) /\ ~IsRead(k) /\ ~IsModel(k) /\ ~TurnLine(k)
  BY <1>2, OtherFits
<1>5. Awaits /\ Elements(toPi') \subseteq Elements(toPi)
  BY <1>1 DEF Awaits
<1> QED
  BY <1>1, <1>3, <1>4, <1>5, PlainSays

LEMMA PiCompactSays ==
  ASSUME QInv, Runs, PiCompact
  PROVE  \E t : PiSays(t)
<1>1. /\ PiReads("compact") /\ PiSteps /\ UNCHANGED <<tree, leaf, drift>>
      /\ Head(toPi) \in Elements(toPi) /\ Head(toPi).type = "compact"
      /\ Elements(toPi') \subseteq Elements(toPi) /\ Awaits
  BY ReadIs DEF PiCompact
<1>2. CASE /\ agent' = [agent EXCEPT !.packing = Head(toPi).id]
           /\ fromPi' = Append(fromPi, Line("compaction", Nil))
  <2> DEFINE k == Line("compaction", Nil)
  <2>1. k.type = "compaction" /\ fromPi' = Append(fromPi, k)
    BY <1>2, LineTypes
  <2>2. agent'.turn = agent.turn /\ agent'.packing = Head(toPi).id
    BY <1>2 DEF QInv, AgentIs
  <2> HIDE DEF k
  <2>3. fromPi' = fromPi \o <<k>> /\ Pipe(<<k>>) /\ Elements(<<k>>) = {k}
    BY <2>1, AppendedPipe, SinglePipe, SingleLines DEF Runs
  <2>4. Fits(k) /\ ~IsRead(k) /\ ~IsModel(k) /\ ~TurnLine(k)
    BY <2>1, OtherFits
  <2> QED
    BY <1>1, <2>2, <2>3, <2>4, PlainSays
<1>3. CASE agent' = agent /\ fromPi' = Append(fromPi, Response(Head(toPi), FALSE))
  BY <1>1, <1>3, PlainAnswerSays
<1> QED
  BY <1>2, <1>3 DEF PiCompact

LEMMA PiEntriesSays ==
  ASSUME QInv, Runs, PiEntries
  PROVE  \E t : PiSays(t)
<1> DEFINE k == [Response(Head(toPi), TRUE) EXCEPT !.entry = Head(toPi).entry, !.last = Len(tree), !.leaf = leaf]
<1>1. /\ PiReads("get_entries") /\ PiSteps /\ UNCHANGED <<tree, leaf, agent, drift>>
      /\ Head(toPi) \in Elements(toPi) /\ Head(toPi).type = "get_entries"
      /\ Elements(toPi') \subseteq Elements(toPi) /\ fromPi' = Append(fromPi, k)
  BY ReadIs DEF PiEntries, piVars
<1>2. /\ k.type = "response" /\ k.id = Head(toPi).id /\ k.command = Head(toPi).type /\ k.ok
      /\ k.entry = Head(toPi).entry /\ k.last = Len(tree) /\ k.leaf = leaf
  BY DEF Response, Line
<1> HIDE DEF k
<1>3. fromPi' = fromPi \o <<k>> /\ Pipe(<<k>>) /\ Elements(<<k>>) = {k} /\ Len(<<k>>) = 1 /\ <<k>>[1] = k
  BY <1>1, AppendedPipe, SinglePipe, SingleLines DEF Runs
<1>4. Fits(k) /\ IsRead(k) /\ ~IsModel(k) /\ ~TurnLine(k)
  <2>1. /\ Head(toPi).id \in Ids /\ Owned(Head(toPi).id, "get_entries") /\ Head(toPi).entry \in 0..copy.upTo
        /\ leaf \in 0..Len(tree)
    BY <1>1 DEF Runs, WiresHold, LinesHold, FileHolds
  <2> QED
    BY <1>1, <1>2, <2>1 DEF Fits, IsRead, IsModel, IsSilent, TurnLine, Answers
<1>5. Tells(<<k>>)
  BY <1>1, <1>2, <1>3, <1>4 DEF Tells
<1>6. Pipe(tree') /\ Rooted(tree') /\ leaf' \in 0..Len(tree') /\ Begins(tree, tree')
  BY <1>1 DEF Runs, FileHolds, Begins, Rooted
<1> QED
  BY <1>1, <1>3, <1>4, <1>5, <1>6 DEF PiSays

LEMMA PiSetModelSays ==
  ASSUME QInv, Runs, PiSetModel
  PROVE  \E t : PiSays(t)
<1> DEFINE k == [Response(Head(toPi), TRUE) EXCEPT !.last = Len(tree')]
<1>1. /\ PiReads("set_model") /\ PiSteps /\ UNCHANGED <<agent, drift>>
      /\ Head(toPi) \in Elements(toPi) /\ Head(toPi).type = "set_model"
      /\ Elements(toPi') \subseteq Elements(toPi) /\ Awaits
  BY ReadIs DEF PiSetModel
<1>2. CASE Stored("model") /\ fromPi' = Append(fromPi, k)
  <2>1. /\ k.type = "response" /\ k.id = Head(toPi).id /\ k.command = Head(toPi).type /\ k.ok
        /\ k.last = Len(tree')
    BY DEF Response, Line
  <2>2. fromPi' = Append(fromPi, k)
    BY <1>2
  <2> HIDE DEF k
  <2>3. fromPi' = fromPi \o <<k>> /\ Pipe(<<k>>) /\ Elements(<<k>>) = {k} /\ Len(<<k>>) = 1 /\ <<k>>[1] = k
    BY <2>2, AppendedPipe, SinglePipe, SingleLines DEF Runs
  <2>4. /\ Pipe(tree') /\ Rooted(tree') /\ leaf' \in 0..Len(tree') /\ Begins(tree, tree')
        /\ Len(tree') \in 1..Len(tree') /\ leaf' = Len(tree')
        /\ tree'[Len(tree')].kind = "model" /\ tree'[Len(tree')].parent = leaf
    BY <1>2, StoredIs
  <2>5. Fits(k) /\ ~IsRead(k) /\ IsModel(k) /\ ~TurnLine(k)
    <3>1. Head(toPi).id \in Ids /\ Owned(Head(toPi).id, "set_model")
      BY <1>1 DEF Runs, WiresHold
    <3> QED
      BY <1>1, <2>1, <2>4, <3>1 DEF Fits, IsRead, IsModel, IsSilent, TurnLine, Answers
  <2>6. Tells(<<k>>)
    BY <1>1, <2>1, <2>3, <2>4, <2>5 DEF Tells
  <2> QED
    BY <1>1, <2>3, <2>4, <2>5, <2>6 DEF PiSays
<1>3. CASE UNCHANGED <<tree, leaf>> /\ fromPi' = Append(fromPi, Response(Head(toPi), FALSE))
  BY <1>1, <1>3, PlainAnswerSays
<1> QED
  BY <1>2, <1>3 DEF PiSetModel

LEMMA PiNavigateSays ==
  ASSUME QInv, Runs, PiNavigate
  PROVE  \E t : PiSays(t)
<1> DEFINE l == Head(toPi)
           found == l.entry \in Range(Branch(1..Len(tree), leaf)) /\ ~agent.turn
           k == Response(l, found)
<1>1. /\ PiReads("navigate") /\ PiSteps /\ UNCHANGED <<agent, tree, drift>>
      /\ l \in Elements(toPi) /\ l.type = "navigate" /\ Elements(toPi') \subseteq Elements(toPi)
  BY ReadIs DEF PiNavigate
<1>2. leaf' = (IF found THEN tree[l.entry].parent ELSE leaf) /\ fromPi' = Append(fromPi, k)
  BY DEF PiNavigate
<1>3. CASE found
  <2>1. OnPath(tree, l.entry, leaf)
    BY <1>3 DEF Branch, BranchOf, OnPath
  <2>2. FileHolds /\ Rooted(tree) /\ leaf \in 0..Len(tree) /\ Len(tree) \in Nat
    BY DEF Runs, FileHolds, Rooted
  <2>3. l.entry \in 1..leaf
    BY <2>1, <2>2, PathBelow
  <2>4. tree[l.entry].parent \in 0..Len(tree)
    <3> DEFINE n == l.entry
    <3>1. n \in 1..Len(tree)
      BY <2>2, <2>3
    <3> HIDE DEF n
    <3>2. tree[n].parent \in 0..(n - 1)
      BY <2>2, <3>1 DEF Rooted
    <3>3. tree[n].parent \in 0..Len(tree)
      BY <2>2, <3>1, <3>2
    <3> QED
      BY <3>3 DEF n
  <2>5. Pipe(tree') /\ Rooted(tree') /\ leaf' \in 0..Len(tree') /\ Begins(tree, tree')
    <3>1. tree' = tree /\ leaf' = tree[l.entry].parent
      BY <1>1, <1>2, <1>3
    <3> HIDE DEF l
    <3> QED
      BY <2>2, <2>4, <3>1 DEF FileHolds, Begins
  <2>6. Fits(k) /\ ~IsRead(k) /\ ~TurnLine(k) /\ IsMove(k)
    <3>1. WiresHold
      BY DEF Runs
    <3> HIDE DEF found
    <3> QED
      BY <1>1, <1>3, <3>1, AnswerFits
  <2> HIDE DEF k
  <2>7. fromPi' = fromPi \o <<k>> /\ Pipe(<<k>>) /\ Elements(<<k>>) = {k}
    BY <1>2, AppendedPipe, SinglePipe, SingleLines DEF Runs
  <2>8. Tells(<<k>>)
    BY <1>1, <2>6, <2>7 DEF Tells
  <2> QED
    BY <1>1, <2>5, <2>6, <2>7, <2>8 DEF PiSays
<1>4. CASE ~found
  <2>1. leaf' = leaf
    BY <1>2, <1>4
  <2> HIDE DEF found
  <2> QED
    BY <1>1, <1>2, <2>1, PlainAnswerSays
<1> QED
  BY <1>3, <1>4

LEMMA PiAnswersSays ==
  ASSUME QInv, Runs, PiAnswers
  PROVE  \E t : PiSays(t)
<1>1. PiSteps /\ UNCHANGED <<toPi, drift>> /\ agent.turn
  BY DEF PiAnswers
<1>2. CASE /\ tree' = tree \o <<Entry("answer"), [kind |-> "user", parent |-> Len(tree) + 1]>>
           /\ leaf' = Len(tree') /\ agent' = [agent EXCEPT !.queued = 0]
           /\ fromPi' = fromPi \o <<[Line("answer", Nil) EXCEPT !.last = Len(tree) + 1], Newest("turn")>>
  <2> DEFINE a == Entry("answer")
             b == [kind |-> "user", parent |-> Len(tree) + 1]
             d == [Line("answer", Nil) EXCEPT !.last = Len(tree) + 1]
             e == Newest("turn")
  <2>1. d.type = "answer" /\ e.type = "turn" /\ a.parent = leaf /\ b.parent = Len(tree) + 1
    BY DEF Line, Newest, Entry
  <2>2. tree' = tree \o <<a, b>> /\ leaf' = Len(tree') /\ fromPi' = fromPi \o <<d, e>>
    BY <1>2
  <2>3. agent'.turn /\ agent'.packing = agent.packing
    BY <1>1, <1>2 DEF QInv, AgentIs
  <2> HIDE DEF a, b, d, e
  <2>4. Pipe(tree') /\ Rooted(tree') /\ leaf' \in 0..Len(tree') /\ Begins(tree, tree')
    <3> DEFINE file == Append(tree, a)
    <3>1. Pipe(tree) /\ Rooted(tree) /\ leaf \in 0..Len(tree) /\ Len(tree) \in Nat
      BY DEF Runs, FileHolds, Rooted
    <3>2. Pipe(file) /\ Rooted(file) /\ Begins(tree, file) /\ Len(file) = Len(tree) + 1
      BY <2>1, <3>1, OneEntryMore
    <3>3. tree' = Append(file, b)
      <4>1. tree \in Seq(Elements(tree) \cup {a, b})
        BY <3>1, SeqMonotonic DEF Pipe
      <4> QED
        BY <2>2, <4>1
    <3> HIDE DEF file
    <3>4. b.parent \in 0..Len(file)
      BY <2>1, <3>1, <3>2
    <3>5. Pipe(tree') /\ Rooted(tree') /\ Begins(file, tree') /\ Len(tree') \in 1..Len(tree')
      BY <3>2, <3>3, <3>4, OneEntryMore
    <3>6. Begins(tree, tree')
      BY <3>1, <3>2, <3>5 DEF Begins, Rooted
    <3> QED
      BY <2>2, <3>5, <3>6
  <2>5. Pipe(<<d, e>>) /\ Elements(<<d, e>>) = {d, e} /\ Fits(d) /\ Fits(e)
    BY <2>1, TwoLines, OtherFits
  <2> QED
    BY <1>1, <2>2, <2>3, <2>4, <2>5, TurnSays
<1>3. CASE /\ Stored("answer") /\ agent' = [agent EXCEPT !.turn = FALSE, !.queued = 0]
           /\ fromPi' = fromPi \o <<Newest("answer"), Line("settled", Nil)>>
  <2> DEFINE d == Newest("answer")
             e == Line("settled", Nil)
             t == <<d, e>>
  <2>1. d.type = "answer" /\ e.type = "settled"
    BY LineTypes
  <2>2. fromPi' = fromPi \o t
    BY <1>3
  <2>3. agent'.packing = agent.packing
    BY <1>3 DEF QInv, AgentIs
  <2>4. Pipe(tree') /\ Rooted(tree') /\ leaf' \in 0..Len(tree') /\ Begins(tree, tree')
    BY <1>3, StoredIs
  <2> HIDE DEF d, e
  <2>5. Pipe(t) /\ Elements(t) = {d, e} /\ Len(t) = 2 /\ t[2] = e
    BY TwoLines
  <2>6. Fits(d) /\ Fits(e) /\ ~IsRead(d) /\ ~IsRead(e) /\ Ends(e) /\ ~TurnLine(e)
    BY <2>1, OtherFits
  <2> HIDE DEF t
  <2>7. Tells(t)
    <3>1. 2 \in 1..Len(t) /\ Ends(t[2]) /\ \A q \in 1..Len(t) : q >= 2 => ~TurnLine(t[q])
      <4>1. \A q \in 1..Len(t) : q >= 2 => q = 2
        BY <2>5
      <4> QED
        BY <2>5, <2>6, <4>1
    <3> QED
      BY <2>5, <2>6, <3>1 DEF Tells
  <2> QED
    BY <1>1, <2>2, <2>3, <2>4, <2>5, <2>6, <2>7 DEF PiSays
<1> QED
  BY <1>2, <1>3 DEF PiAnswers

LEMMA PiCompactedSays ==
  ASSUME QInv, Runs, PiCompacted
  PROVE  \E t : PiSays(t)
<1> DEFINE off == [Line("compaction", Nil) EXCEPT !.ok = FALSE]
<1>1. /\ PiSteps /\ UNCHANGED <<tree, leaf, toPi, drift>> /\ agent.packing # Nil
      /\ \E ok \in BOOLEAN : fromPi' = fromPi \o <<off, Response(Line("compact", agent.packing), ok)>>
  BY DEF PiCompacted
<1>2. agent'.turn = agent.turn /\ agent'.packing = Nil
  BY DEF PiCompacted, QInv, AgentIs
<1>3. PICK ok \in BOOLEAN : fromPi' = fromPi \o <<off, Response(Line("compact", agent.packing), ok)>>
  BY <1>1
<1> DEFINE done == Response(Line("compact", agent.packing), ok)
<1>4. /\ off.type = "compaction" /\ done.type = "response" /\ done.id = agent.packing
      /\ done.command = "compact" /\ done.last = 0
  BY DEF Line, Response
<1>5. fromPi' = fromPi \o <<off, done>>
  BY <1>3
<1> HIDE DEF off, done
<1>6. Pipe(<<off, done>>) /\ Elements(<<off, done>>) = {off, done}
  BY TwoLines
<1>7. Fits(off) /\ ~IsRead(off) /\ ~IsModel(off) /\ ~TurnLine(off)
  BY <1>4, OtherFits
<1>8. Fits(done) /\ ~IsRead(done) /\ ~IsModel(done) /\ ~TurnLine(done)
  <2>1. agent.packing \in Ids /\ Owned(agent.packing, "compact")
    BY <1>1 DEF Runs, WiresHold
  <2> QED
    BY <1>4, <2>1 DEF Fits, IsRead, IsModel, IsSilent, TurnLine, Answers
<1>9. Awaits /\ Elements(toPi') \subseteq Elements(toPi)
  BY <1>1 DEF Awaits
<1> QED
  BY <1>1, <1>2, <1>5, <1>6, <1>7, <1>8, <1>9, PlainSays

LEMMA PiAbortSays ==
  ASSUME QInv, Runs, PiAbort
  PROVE  \E t : PiSays(t)
<1> DEFINE off == [Line("compaction", Nil) EXCEPT !.ok = FALSE]
           undone == Response(Line("compact", agent.packing), FALSE)
           done == Response(Head(toPi), TRUE)
           told == [done EXCEPT !.last = Len(tree')]
           now == Newest("answer")
           over == Line("settled", Nil)
<1>1. /\ off.type = "compaction" /\ undone.type = "response" /\ undone.command = "compact"
      /\ undone.id = agent.packing /\ undone.last = 0
      /\ told.type = "response" /\ told.command = Head(toPi).type /\ told.id = Head(toPi).id /\ told.ok
      /\ told.last = Len(tree') /\ now.type = "answer" /\ over.type = "settled"
  BY DEF Line, Response, Newest
<1>2. /\ PiReads("abort") /\ PiSteps /\ drift' = drift
      /\ Head(toPi) \in Elements(toPi) /\ Head(toPi).type = "abort"
      /\ Elements(toPi') \subseteq Elements(toPi) /\ Awaits /\ Pipe(fromPi)
  BY ReadIs DEF PiAbort, Runs
<1>3. \/ /\ UNCHANGED <<tree, leaf>> /\ agent'.turn = agent.turn /\ agent'.packing = Nil
         /\ fromPi' = fromPi \o (IF agent.packing = Nil THEN <<>> ELSE <<off, undone>>) \o <<done>>
      \/ /\ Stored("answer") /\ agent'.packing = agent.packing /\ fromPi' = Append(fromPi, told)
      \/ /\ Stored("answer") /\ agent'.packing = agent.packing /\ fromPi' = fromPi \o <<now, over, done>>
  BY DEF PiAbort, QInv, AgentIs
<1>4. Fits(done) /\ ~IsRead(done) /\ ~IsModel(done) /\ ~TurnLine(done)
  BY <1>2, AnswerFits DEF Runs
<1> HIDE DEF off, undone, done, told, now, over
<1>5. Pipe(<<done>>) /\ Elements(<<done>>) = {done}
  BY SinglePipe, SingleLines
<1>6. CASE /\ UNCHANGED <<tree, leaf>> /\ agent'.turn = agent.turn /\ agent'.packing = Nil
           /\ fromPi' = fromPi \o <<>> \o <<done>>
  <2>1. fromPi' = fromPi \o <<done>>
    BY <1>2, <1>6, ConcatEmptySeq DEF Pipe
  <2> QED
    BY <1>2, <1>4, <1>5, <1>6, <2>1, PlainSays
<1>7. CASE /\ UNCHANGED <<tree, leaf>> /\ agent'.turn = agent.turn /\ agent'.packing = Nil /\ agent.packing # Nil
           /\ fromPi' = fromPi \o <<off, undone>> \o <<done>>
  <2> DEFINE s == <<off, undone>>
             t == s \o <<done>>
  <2>1. Pipe(s) /\ Elements(s) = {off, undone}
    BY TwoLines
  <2> HIDE DEF s
  <2>2. Pipe(t) /\ Elements(t) = {off, undone, done}
    <3>1. Pipe(t) /\ Elements(t) = Elements(s) \cup Elements(<<done>>)
      BY <1>5, <2>1, JoinedPipe, JoinedLines
    <3> QED
      BY <1>5, <2>1, <3>1
  <2>3. fromPi' = fromPi \o t
    <3> DEFINE S == Elements(fromPi) \cup Elements(s) \cup {done}
    <3>1. fromPi \in Seq(S) /\ s \in Seq(S) /\ <<done>> \in Seq(S)
      BY <1>2, <1>5, <2>1, SeqMonotonic DEF Pipe
    <3>2. fromPi' = (fromPi \o s) \o <<done>>
      BY <1>7 DEF s
    <3> HIDE DEF S
    <3> QED
      BY <3>1, <3>2, ConcatAssociative
  <2> HIDE DEF t
  <2>4. Fits(off) /\ ~IsRead(off) /\ ~IsModel(off) /\ ~TurnLine(off)
    BY <1>1, OtherFits
  <2>5. Fits(undone) /\ ~IsRead(undone) /\ ~IsModel(undone) /\ ~TurnLine(undone)
    <3>1. agent.packing \in Ids /\ Owned(agent.packing, "compact")
      BY <1>7 DEF Runs, WiresHold
    <3> QED
      BY <1>1, <3>1 DEF Fits, IsRead, IsModel, IsSilent, TurnLine, Answers
  <2> QED
    BY <1>2, <1>4, <1>7, <2>2, <2>3, <2>4, <2>5, PlainSays
<1>8. ASSUME Stored("answer")
      PROVE  /\ Pipe(tree') /\ Rooted(tree') /\ leaf' \in 0..Len(tree') /\ Begins(tree, tree')
             /\ Len(tree') \in 1..Len(tree')
  BY <1>8, StoredIs
<1>9. CASE Stored("answer") /\ agent'.packing = agent.packing /\ fromPi' = Append(fromPi, told)
  <2>1. fromPi' = fromPi \o <<told>> /\ Pipe(<<told>>) /\ Elements(<<told>>) = {told} /\ Len(<<told>>) = 1 /\ <<told>>[1] = told
    BY <1>2, <1>9, AppendedPipe, SinglePipe, SingleLines
  <2>2. Fits(told) /\ ~IsRead(told) /\ Ends(told) /\ ~TurnLine(told)
    <3>1. Head(toPi).id \in Ids /\ Owned(Head(toPi).id, "abort")
      BY <1>2 DEF Runs, WiresHold
    <3>2. Len(tree') # 0
      BY <1>8, <1>9
    <3> QED
      BY <1>1, <1>2, <3>1, <3>2 DEF Fits, IsRead, IsModel, IsSilent, TurnLine, Ends, Answers
  <2>3. Tells(<<told>>)
    <3> DEFINE t == <<told>>
    <3>1. Len(t) = 1 /\ t[1] = told /\ Elements(t) = {told}
      BY <2>1
    <3> HIDE DEF t
    <3>2. 1 \in 1..Len(t) /\ Ends(t[1]) /\ \A q \in 1..Len(t) : q >= 1 => ~TurnLine(t[q])
      <4>1. \A q \in 1..Len(t) : q = 1
        BY <3>1
      <4> QED
        BY <2>2, <3>1, <4>1
    <3>3. Tells(t)
      BY <2>2, <3>1, <3>2 DEF Tells
    <3> QED
      BY <3>3 DEF t
  <2> QED
    BY <1>2, <1>8, <1>9, <2>1, <2>2, <2>3 DEF PiSays
<1>10. CASE Stored("answer") /\ agent'.packing = agent.packing /\ fromPi' = fromPi \o <<now, over, done>>
  <2> DEFINE t == <<now, over, done>>
  <2>1. Pipe(t) /\ Elements(t) = {now, over, done} /\ Len(t) = 3 /\ t[2] = over /\ t[3] = done
    BY ThreeLines
  <2>2. fromPi' = fromPi \o t
    BY <1>10
  <2> HIDE DEF t
  <2>3. Fits(now) /\ Fits(over) /\ ~IsRead(now) /\ ~IsRead(over) /\ Ends(over) /\ ~TurnLine(over)
    BY <1>1, OtherFits
  <2>4. 2 \in 1..Len(t) /\ Ends(t[2]) /\ \A q \in 1..Len(t) : q >= 2 => ~TurnLine(t[q])
    <3>1. \A q \in 1..Len(t) : q >= 2 => q \in {2, 3}
      BY <2>1
    <3> QED
      BY <1>4, <2>1, <2>3, <3>1
  <2>5. Tells(t)
    BY <1>4, <2>1, <2>3, <2>4 DEF Tells
  <2> QED
    BY <1>2, <1>4, <1>8, <1>10, <2>1, <2>2, <2>3, <2>5 DEF PiSays
<1> QED
  BY <1>3, <1>6, <1>7, <1>9, <1>10

LEMMA PiStepSays ==
  ASSUME QInv, Runs, Pi, ~PiExits
  PROVE  \E t : PiSays(t)
BY PiPromptSays, PiClearQueueSays, PiAbortSays, PiCompactSays, PiCompactedSays, PiEntriesSays, PiNavigateSays,
   PiSetModelSays, PiTuneSays, PiHearsReplySays, PiAnswersSays, PiAsksSays DEF Pi

LEMMA PiStepKeepsFile ==
  ASSUME QInv, EInv, FInv, LInv, Pi
  PROVE  FInv' /\ LInv'
<1>1. CASE PiExits
  <2>1. agent'.state # "up"
    BY <1>1 DEF PiExits, QInv, AgentIs
  <2> QED
    BY <2>1 DEF FInv, LInv
<1>2. CASE ~PiExits /\ agent.state = "up"
  <2>1. Runs
    BY <1>2, RunsIs
  <2>2. PICK t : PiSays(t)
    BY <1>2, <2>1, PiStepSays
  <2> QED
    BY <2>1, <2>2, PiKeepsFile, PiKeepsTruth
<1>3. CASE ~PiExits /\ agent.state # "up"
  <2>1. agent'.state = agent.state
    BY <1>3 DEF Pi, PiPrompt, PiClearQueue, PiAbort, PiCompact, PiCompacted, PiEntries, PiNavigate, PiSetModel,
                PiTune, PiHearsReply, PiAnswers, PiAsks, piVars, QInv, AgentIs
  <2> QED
    BY <1>3, <2>1 DEF FInv, LInv
<1> QED
  BY <1>1, <1>2, <1>3

LEMMA FileStaysPut ==
  ASSUME FInv, LInv, UNCHANGED turnVars
  PROVE  FInv' /\ LInv'
<1>1. UNCHANGED <<agent, tree, leaf, toPi, fromPi, ledger, copy, pending, jobs, session, drift>>
  BY DEF turnVars
<1>2. FInv'
  BY <1>1 DEF FInv, FileHolds, CopyHolds, WiresHold, Owned, LinesHold, ReadHolds
<1>3. LInv'
  BY <1>1 DEF LInv, LedgerIsTrue
<1> QED
  BY <1>2, <1>3

LEMMA NextFile == QInv /\ EInv /\ FInv /\ LInv /\ [TurnNext]_turnVars => FInv' /\ LInv'
BY CoreKeepsFile, PiStepKeepsFile, FileStaysPut DEF TurnNext

\* What open() shows is what it read.
LEMMA InitShows ==
  ASSUME TurnInit
  PROVE  Pipe(tree) /\ Rooted(tree) /\ leaf = Len(tree) /\ ledger.shown = Truth(tree, leaf)
<1> DEFINE b == BranchOf(tree, 1..Len(tree), leaf)
<1>1. leaf = Len(tree) /\ tree \in {<<>>, OneTurn}
      /\ ledger.shown = [n \in 1..Len(tree) |-> [entry |-> n, stable |-> TRUE]]
  BY DEF TurnInit
<1>2. Pipe(tree) /\ Rooted(tree) /\ Len(b) = Len(tree) /\ \A i \in 1..Len(tree) : b[i] = i
  <2>1. CASE tree = <<>>
    <3>1. Pipe(tree) /\ Len(tree) = 0
      BY <2>1, EmptyPipe
    <3>2. Rooted(tree)
      BY <3>1 DEF Rooted
    <3>3. b = <<>>
      <4>1. leaf \in 0..Len(tree) /\ leaf = 0
        BY <1>1, <3>1
      <4> QED
        BY <3>2, <4>1, BranchUnrolls
    <3> HIDE DEF b
    <3> QED
      BY <2>1, <3>1, <3>2, <3>3
  <2>2. CASE tree = OneTurn
    <3>1. Pipe(tree) /\ Len(tree) = 2 /\ tree[1].parent = 0 /\ tree[2].parent = 1
      <4>1. Pipe(OneTurn) /\ Len(OneTurn) = 2 /\ OneTurn[1].parent = 0 /\ OneTurn[2].parent = 1
        BY TwoLines DEF OneTurn
      <4> QED
        BY <2>2, <4>1
    <3>2. Rooted(tree)
      BY <3>1 DEF Rooted
    <3>3. /\ BranchOf(tree, 1..Len(tree), 0) = <<>>
          /\ BranchOf(tree, 1..Len(tree), 1) = Append(BranchOf(tree, 1..Len(tree), 0), 1)
          /\ BranchOf(tree, 1..Len(tree), 2) = Append(BranchOf(tree, 1..Len(tree), 1), 2)
      <4>1. 0 \in 0..Len(tree) /\ 1 \in 0..Len(tree) /\ 2 \in 0..Len(tree) /\ 1 \in 1..Len(tree) /\ 2 \in 1..Len(tree)
        BY <3>1
      <4>2. 1 # 0 /\ 2 # 0
        OBVIOUS
      <4> QED
        BY <3>1, <3>2, <4>1, <4>2, BranchUnrolls
    <3>4. b = Append(Append(<<>>, 1), 2)
      BY <1>1, <3>1, <3>3
    <3>5. Len(b) = 2 /\ b[1] = 1 /\ b[2] = 2
      <4> HIDE DEF b
      <4> QED
        BY <3>4
    <3>6. \A i \in 1..Len(tree) : i = 1 \/ i = 2
      BY <3>1
    <3> HIDE DEF b
    <3> QED
      BY <3>1, <3>2, <3>5, <3>6
  <2> QED
    BY <1>1, <2>1, <2>2
<1> HIDE DEF b
<1>3. FoldEntries(b) = [n \in 1..Len(tree) |-> [entry |-> n, stable |-> TRUE]]
  BY <1>2 DEF FoldEntries, Message
<1>4. Truth(tree, leaf) = FoldEntries(b)
  BY DEF Truth, b
<1> QED
  BY <1>1, <1>2, <1>3, <1>4

LEMMA InitFile == TurnInit => FInv /\ LInv
<1> SUFFICES ASSUME TurnInit PROVE FInv /\ LInv
  OBVIOUS
<1>1. Pipe(tree) /\ Rooted(tree) /\ leaf = Len(tree) /\ ledger.shown = Truth(tree, leaf)
  BY InitShows
<1>2. Len(tree) \in Nat /\ leaf \in 0..Len(tree)
  BY <1>1 DEF Rooted
<1>3. FileHolds /\ Transcript(ledger.shown)
  BY <1>1, <1>2, TruthIsTranscript DEF FileHolds
<1>4. CopyHolds
  BY <1>2 DEF TurnInit, CopyHolds
<1>5. toPi = <<>> /\ fromPi = <<>> /\ Elements(<<>>) = {} /\ Len(<<>>) = 0 /\ Pipe(<<>>)
  BY EmptyPipe, SingleLines DEF TurnInit
<1>6. WiresHold
  BY <1>5 DEF TurnInit, WiresHold
<1>7. LinesHold
  BY <1>5 DEF LinesHold, Ordered, Followed
<1>8. ~session.closed
  BY DEF TurnInit
<1>9. ReadsAreTrue(fromPi, agent.turn, tree, leaf)
  BY <1>5 DEF ReadsAreTrue
<1>10. LedgerIsTrue
  <2>1. Leads(fromPi, 0, leaf, tree, leaf)
    BY <1>5, LeadsNowhere
  <2> QED
    BY <1>1, <1>2, <2>1 DEF LedgerIsTrue
<1> QED
  BY <1>3, <1>4, <1>6, <1>7, <1>8, <1>9, <1>10 DEF FInv, LInv

LEMMA RestShowsFile == FInv /\ LInv => LedgerShowsFile
<1> SUFFICES ASSUME FInv, LInv, AtRest, ~drift
             PROVE  ledger.shown = FoldEntries(Branch(1..Len(tree), leaf))
  BY DEF LedgerShowsFile
<1>1. /\ agent.state = "up" /\ ~agent.turn /\ toPi = <<>> /\ fromPi = <<>> /\ LedgerIsTrue
      /\ Elements(<<>>) = {} /\ Len(<<>>) = 0
  BY EmptyPipe, SingleLines DEF AtRest, LInv
<1>2. ~DueAfter(fromPi, agent.turn, 0)
  BY <1>1 DEF DueAfter
<1>3. PICK x \in 0..Len(tree) : ledger.shown = Truth(tree, x) /\ Leads(fromPi, 0, x, tree, leaf)
  BY <1>1, <1>2 DEF LedgerIsTrue
<1>4. x = leaf
  BY <1>1, <1>3 DEF Leads
<1>5. Branch(1..Len(tree), leaf) = BranchOf(tree, 1..Len(tree), leaf)
  BY DEF Branch, BranchOf
<1> QED
  BY <1>3, <1>4, <1>5 DEF Truth

\* What Core shows of a conversation at rest is what its session file says, after any
\* overlap of turns, stops, edits, models and compactions, with answers that are
\* refused, late or lost: the reads it asks for, and the models and moves it hears
\* of, never leave it behind (LedgerShowsFile).
THEOREM LedgerIsTheFile == TurnSpec => []LedgerShowsFile
<1>1. TurnSpec => [](QInv /\ EInv)
  BY InitQInv, NextQInv, InitEInv, NextEInv, PTL DEF TurnSpec
<1>2. TurnSpec => [](FInv /\ LInv)
  BY <1>1, InitFile, NextFile, PTL DEF TurnSpec
<1> QED
  BY <1>2, RestShowsFile, PTL

-----------------------------------------------------------------------------
(* SessionTurn: who owes the end of a busy conversation *)

LEMMA HandledLines ==
  ASSUME Runs, Handled
  PROVE  Pipe(fromPi') /\ Elements(fromPi') \subseteq Elements(fromPi)
BY RestPipe, RestLines DEF Runs, Handled

LEMMA CallGoes ==
  ASSUME Runs, NEW j \in Slots, Handled, NEW work, IsJob(work), NEW command, NEW entry, NEW first,
         Pipe(first), \A l \in Elements(first) : l.type = "reply",
         Call(j, work, command, entry, first), command = "get_entries" => entry = copy.upTo
  PROVE  \E t : /\ TouchesOne(j, t) /\ \A l \in Elements(t) : l.type \in {"reply", command}
                /\ jobs'[j].op = work.op /\ jobs'[j].was = work.was /\ jobs'[j].target = work.target
                /\ jobs'[j].at = command
<1>1. /\ ~session.closed /\ agent.state = "up" /\ JobsAreFiled
      /\ pending \in [Ids -> Slots \cup {Nil}] /\ Pipe(toPi) /\ Pipe(fromPi')
  BY HandledLines DEF Runs, WiresHold
<1>2. PICK t : Writes(t) /\ \A l \in Elements(t) : l.type \in {"reply", command}
  BY <1>1, CallWrites
<1> DEFINE w == [work EXCEPT !.at = command]
<1>3. jobs' = [jobs EXCEPT ![j] = w]
  BY DEF Call
<1>4. w.op = work.op /\ w.was = work.was /\ w.target = work.target /\ w.at = command
  BY DEF IsJob
<1> HIDE DEF w
<1>5. jobs'[j] = w /\ \A k \in Slots : k # j => jobs'[k] = jobs[k]
  BY <1>1, <1>3 DEF JobsAreFiled
<1> QED
  BY <1>2, <1>4, <1>5 DEF TouchesOne

LEMMA ReleaseGoes ==
  ASSUME Runs, NEW j \in Slots, Release(j)
  PROVE  TouchesOne(j, <<>>) /\ jobs'[j] = Idle /\ jobs'[j].op = "none"
<1>1. Writes(<<>>) /\ JobsAreFiled /\ jobs' = [jobs EXCEPT ![j] = Idle]
  BY ReleaseWrites DEF Runs, WiresHold, Release
<1>2. jobs'[j] = Idle /\ \A k \in Slots : k # j => jobs'[k] = jobs[k]
  BY <1>1 DEF JobsAreFiled
<1> QED
  BY <1>1, <1>2 DEF TouchesOne, Idle

\* A line that was written before has the job it had, if any.
LEMMA OldLines ==
  ASSUME Runs, NEW t, Writes(t), Handled, NEW j \in Slots
  PROVE  /\ \A l \in Elements(fromPi') : l.type = "response" /\ pending'[l.id] = j => pending[l.id] = j /\ jobs'[j] = jobs[j]
         /\ \A l \in Elements(toPi) : l.type # "reply" /\ pending'[l.id] = j => pending[l.id] = j /\ jobs'[j] = jobs[j]
<1>1. Elements(fromPi') \subseteq Elements(fromPi) /\ WiresHold
  BY HandledLines DEF Runs
<1>2. ASSUME NEW l \in Elements(toPi) \cup Elements(fromPi'), l.id \in Ids, pending'[l.id] = j
      PROVE  pending[l.id] = j /\ jobs'[j] = jobs[j]
  <2>1. Traced(l.id)
    BY <1>2 DEF Traced
  <2>2. pending'[l.id] # Nil
    BY <1>2, NilIsNobody
  <2> QED
    BY <1>2, <2>1, <2>2 DEF Writes
<1> QED
  BY <1>1, <1>2 DEF WiresHold

\* A prompt whose job is as it was.
LEMMA PromptsStay ==
  ASSUME Runs, NEW t, Writes(t), Handled, NEW j \in Slots, jobs'[j] = jobs[j]
  PROVE  /\ PromptOwns(j) => PromptOwns(j)'
         /\ \A k \in 1..Len(toPi) : PromptFollows(j, k) => PromptFollows(j, k)'
<1>1. Elements(fromPi') \subseteq Elements(fromPi)
  BY HandledLines
<1>2. PromptOwns(j) => PromptOwns(j)'
  BY <1>1, OldLines DEF PromptOwns
<1>3. /\ Len(toPi) \in Nat
      /\ \A q \in 1..Len(toPi) : toPi'[q] = toPi[q] /\ toPi[q] \in Elements(toPi)
  <2>1. toPi' = toPi \o t /\ Pipe(toPi) /\ Pipe(t)
    BY DEF Writes, Runs
  <2>2. Len(toPi) \in Nat /\ \A q \in 1..Len(toPi) : (toPi \o t)[q] = toPi[q]
    BY <2>1, JoinedPipe
  <2> QED
    BY <2>1, <2>2 DEF Elements
<1>4. ASSUME NEW k \in 1..Len(toPi), PromptFollows(j, k) PROVE PromptFollows(j, k)'
  <2>1. \A l \in Elements(fromPi') : l.type = "response" => pending'[l.id] # j
    BY <1>1, <1>4, OldLines DEF PromptFollows
  <2>2. ASSUME NEW i \in 1..k, toPi'[i].type # "reply" PROVE pending'[toPi'[i].id] # j
    <3>1. i \in 1..Len(toPi)
      BY <1>3
    <3>2. toPi'[i] = toPi[i] /\ toPi[i] \in Elements(toPi)
      BY <1>3, <3>1
    <3>3. pending[toPi[i].id] # j
      BY <1>4, <2>2, <3>2 DEF PromptFollows
    <3> QED
      BY <2>2, <3>2, <3>3, OldLines
  <2> QED
    BY <1>4, <2>1, <2>2 DEF PromptFollows
<1> QED
  BY <1>2, <1>4

\* A prompt that this step sends.
LEMMA PromptIsNew ==
  ASSUME Runs, NEW t, Writes(t), Handled, NEW j \in Slots, jobs'[j] # jobs[j],
         jobs'[j].op = "prompt", jobs'[j].at = "prompt", ~jobs'[j].was
  PROVE  PromptOwns(j)' /\ \A k \in 1..Len(toPi) : PromptFollows(j, k)'
<1>1. \A l \in Elements(fromPi') : l.type = "response" => pending'[l.id] # j
  BY OldLines
<1>2. /\ Len(toPi) \in Nat
      /\ \A q \in 1..Len(toPi) : toPi'[q] = toPi[q] /\ toPi[q] \in Elements(toPi)
  <2>1. toPi' = toPi \o t /\ Pipe(toPi) /\ Pipe(t)
    BY DEF Writes, Runs
  <2>2. Len(toPi) \in Nat /\ \A q \in 1..Len(toPi) : (toPi \o t)[q] = toPi[q]
    BY <2>1, JoinedPipe
  <2> QED
    BY <2>1, <2>2 DEF Elements
<1>3. ASSUME NEW k \in 1..Len(toPi), NEW i \in 1..k, toPi'[i].type # "reply" PROVE pending'[toPi'[i].id] # j
  <2>1. i \in 1..Len(toPi)
    BY <1>2
  <2>2. toPi'[i] = toPi[i] /\ toPi[i] \in Elements(toPi)
    BY <1>2, <2>1
  <2> QED
    BY <1>3, <2>2, OldLines
<1> QED
  BY <1>1, <1>3 DEF PromptOwns, PromptFollows

\* An unread answer, as Core handles the pipe.
LEMMA UnreadStays ==
  ASSUME Runs, UNCHANGED <<tree, leaf>>, NEW n, NEW p \in 0..Len(fromPi), Unread(n, p)
  PROVE  /\ fromPi' = fromPi /\ copy' = copy => Unread(n, p)'
         /\ fromPi # <<>> /\ fromPi' = Tail(fromPi) /\ copy' = copy => Unread(n, IF p = 0 THEN 0 ELSE p - 1)'
         /\ p # 0 /\ fromPi # <<>> /\ fromPi' = Tail(fromPi) /\ IsRead(Head(fromPi)) /\ copy'.upTo = Head(fromPi).last
              => Unread(n, p - 1)'
<1>1. fromPi' = fromPi /\ copy' = copy => Unread(n, p)'
  BY DEF Unread
<1>2. ASSUME fromPi # <<>>, fromPi' = Tail(fromPi), NEW r, r = IF p = 0 THEN 0 ELSE p - 1, n > copy'.upTo
      PROVE  Unread(n, r)'
  <2>1. /\ Len(fromPi) \in Nat /\ Len(fromPi') \in Nat
        /\ \A q \in 1..Len(fromPi') : q + 1 \in 1..Len(fromPi) /\ fromPi'[q] = fromPi[q + 1]
    BY <1>2, RestPlaces DEF Runs
  <2>2. ASSUME NEW q \in 1..Len(fromPi'), IsRead(fromPi'[q])
        PROVE  IF q > r THEN n <= fromPi'[q].last /\ OnPath(tree, n, fromPi'[q].leaf) ELSE fromPi'[q].last < n
    <3>1. q + 1 \in 1..Len(fromPi) /\ fromPi'[q] = fromPi[q + 1] /\ IsRead(fromPi[q + 1])
      BY <2>1, <2>2
    <3>2. IF q + 1 > p THEN n <= fromPi[q + 1].last /\ OnPath(tree, n, fromPi[q + 1].leaf)
                       ELSE fromPi[q + 1].last < n
      BY <3>1 DEF Unread
    <3>3. q > r <=> q + 1 > p
      BY <1>2, <2>1
    <3> QED
      BY <3>1, <3>2, <3>3
  <2> QED
    BY <1>2, <2>2 DEF Unread
<1>3. ASSUME fromPi # <<>>, fromPi' = Tail(fromPi), copy' = copy
      PROVE  Unread(n, IF p = 0 THEN 0 ELSE p - 1)'
  <2>1. n > copy'.upTo
    BY <1>3 DEF Unread
  <2> DEFINE r == IF p = 0 THEN 0 ELSE p - 1
  <2>2. r = IF p = 0 THEN 0 ELSE p - 1
    OBVIOUS
  <2> HIDE DEF r
  <2>3. Unread(n, r)'
    BY <1>2, <1>3, <2>1, <2>2
  <2> QED
    BY <2>3 DEF r
<1>4. ASSUME p # 0, fromPi # <<>>, fromPi' = Tail(fromPi), IsRead(Head(fromPi)), copy'.upTo = Head(fromPi).last
      PROVE  Unread(n, p - 1)'
  <2>1. Head(fromPi) = fromPi[1] /\ 1 \in 1..Len(fromPi)
    BY <1>4, RestPlaces DEF Runs
  <2>2. copy.upTo \in Nat /\ Len(tree) \in Nat /\ fromPi[1].last < n
    <3>1. ~(1 > p)
      BY <1>4
    <3> QED
      BY <1>4, <2>1, <3>1 DEF Unread, Runs, CopyHolds, FileHolds, Rooted
  <2>3. n > copy'.upTo
    <3>1. Head(fromPi).last \in Nat /\ n \in Nat
      BY <1>4, RestLines DEF Runs, LinesHold, ReadHolds, CopyHolds, FileHolds, Rooted, Unread
    <3> QED
      BY <1>4, <2>1, <2>2, <3>1
  <2> DEFINE r == p - 1
  <2>4. r = IF p = 0 THEN 0 ELSE p - 1
    BY <1>4
  <2> HIDE DEF r
  <2>5. Unread(n, r)'
    BY <1>2, <1>4, <2>3, <2>4
  <2> QED
    BY <2>5 DEF r
<1> QED
  BY <1>1, <1>3, <1>4

\* What a branch shows, entry by entry.
LEMMA TruthShows ==
  ASSUME NEW file, Rooted(file), NEW x \in 0..Len(file)
  PROVE  /\ \A i \in 1..Len(Truth(file, x)) : /\ Truth(file, x)[i].stable /\ Truth(file, x)[i].entry \in 1..x
                                               /\ OnPath(file, Truth(file, x)[i].entry, x)
         /\ \A n : OnPath(file, n, x) => \E i \in 1..Len(Truth(file, x)) : Truth(file, x)[i].entry = n
<1> DEFINE b == BranchOf(file, 1..Len(file), x)
           s == [i \in 1..Len(b) |-> [entry |-> b[i], stable |-> TRUE]]
<1>1. Truth(file, x) = s
  BY DEF Truth, FoldEntries, Message
<1>2. b \in Seq(1..x)
  BY BranchIs
<1>3. \A n : OnPath(file, n, x) <=> n \in Range(b)
  BY DEF OnPath
<1> HIDE DEF b
<1>4. Len(b) \in Nat /\ DOMAIN b = 1..Len(b) /\ \A i \in 1..Len(b) : b[i] \in 1..x
  BY <1>2
<1>5. Len(s) = Len(b)
  <2>1. s \in [1..Len(b) -> [entry : 1..x, stable : BOOLEAN]]
    BY <1>4
  <2> HIDE DEF s
  <2>2. s \in Seq([entry : 1..x, stable : BOOLEAN]) /\ Len(s) = Len(b)
    BY <1>4, <2>1, FunctionIsSeq
  <2> QED
    BY <2>2
<1>6. \A i \in 1..Len(b) : s[i].entry = b[i] /\ s[i].stable
  OBVIOUS
<1> HIDE DEF s
<1>7. \A n : n \in Range(b) <=> \E i \in 1..Len(b) : b[i] = n
  BY <1>4 DEF Range
<1>8. ASSUME NEW i \in 1..Len(s)
      PROVE  s[i].stable /\ s[i].entry \in 1..x /\ OnPath(file, s[i].entry, x)
  <2>1. i \in 1..Len(b)
    BY <1>5
  <2>2. b[i] \in Range(b)
    BY <1>7, <2>1
  <2> QED
    BY <1>3, <1>4, <1>6, <2>1, <2>2
<1>9. ASSUME NEW n, OnPath(file, n, x) PROVE \E i \in 1..Len(s) : s[i].entry = n
  <2>1. PICK i \in 1..Len(b) : b[i] = n
    BY <1>3, <1>7, <1>9
  <2> QED
    BY <1>5, <1>6, <2>1
<1> QED
  BY <1>1, <1>8, <1>9

\* A read that leaves the conversation busy says what is shown.
LEMMA BusyReadIs ==
  ASSUME Runs, ShownIsKnown, fromPi # <<>>, IsRead(Head(fromPi)), Reconciled(Head(fromPi)).busy
  PROVE  /\ Reconciled(Head(fromPi)) = ledger /\ ~Unstable
         /\ \A n : Shows(n) <=> OnPath(tree, n, Head(fromPi).leaf)
         /\ \A n : ~Unread(n, 0)
<1> DEFINE l == Head(fromPi)
<1>1. l \in Elements(fromPi) /\ l = fromPi[1] /\ 1 \in 1..Len(fromPi)
  BY RestLines, RestPlaces DEF Runs
<1>2. /\ ReadHolds(l) /\ FileHolds /\ CopyHolds /\ Transcript(ledger.shown) /\ IsLedger(ledger) /\ Rooted(tree)
      /\ Len(tree) \in Nat /\ l.leaf \in 0..Len(tree)
  BY <1>1 DEF Runs, LinesHold, ReadHolds, FileHolds, Rooted, CopyHolds
<1> HIDE DEF l
<1>3. Reconciled(l) = ledger /\ ledger.shown = Truth(tree, l.leaf)
  BY <1>2, ReconciledIs DEF l
<1>5. /\ \A i \in 1..Len(ledger.shown) : ledger.shown[i].stable /\ OnPath(tree, ledger.shown[i].entry, l.leaf)
      /\ \A n : OnPath(tree, n, l.leaf) => \E i \in 1..Len(ledger.shown) : ledger.shown[i].entry = n
  <2>1. ASSUME NEW x, x = l.leaf
        PROVE  /\ \A i \in 1..Len(ledger.shown) : ledger.shown[i].stable /\ OnPath(tree, ledger.shown[i].entry, x)
               /\ \A n : OnPath(tree, n, x) => \E i \in 1..Len(ledger.shown) : ledger.shown[i].entry = n
    <3>1. x \in 0..Len(tree) /\ Rooted(tree) /\ ledger.shown = Truth(tree, x)
      BY <1>2, <1>3, <2>1
    <3>2. \A n : OnPath(tree, n, x) => \E i \in 1..Len(Truth(tree, x)) : Truth(tree, x)[i].entry = n
      BY <3>1, TruthShows
    <3>3. \A i \in 1..Len(Truth(tree, x)) : Truth(tree, x)[i].stable /\ OnPath(tree, Truth(tree, x)[i].entry, x)
      BY <3>1, TruthShows
    <3> QED
      BY <3>1, <3>2, <3>3
  <2> QED
    BY <2>1
<1>6. ~Unstable
  BY <1>5 DEF Unstable
<1>7. \A n : Shows(n) <=> OnPath(tree, n, l.leaf)
  BY <1>5 DEF Shows
<1>8. ASSUME NEW n, Unread(n, 0) PROVE FALSE
  <2>1. OnPath(tree, n, l.leaf)
    BY <1>1, <1>8 DEF Unread, l
  <2>2. PICK i \in 1..Len(ledger.shown) : ledger.shown[i].entry = n /\ ledger.shown[i].stable
    BY <1>5, <1>7, <2>1 DEF Shows
  <2> QED
    BY <1>8, <2>2 DEF ShownIsKnown, Unread
<1> QED
  BY <1>3, <1>6, <1>7, <1>8 DEF l

\* Busy stays as it was, and so do those who owe its end.
LEMMA BusyStays ==
  ASSUME Runs, TargetsAreStored, BusyIsOwned, MovesAreOwned, NEW t, Writes(t), UNCHANGED piVars,
         \/ fromPi' = fromPi /\ copy' = copy /\ (drift => drift')
         \/ /\ fromPi # <<>> /\ fromPi' = Tail(fromPi) /\ Head(fromPi).type # "settled"
            /\ IsSilent(Head(fromPi)) => drift'
            /\ \/ copy' = copy /\ (drift => drift')
               \/ /\ IsRead(Head(fromPi)) /\ copy'.upTo = Head(fromPi).last
                  /\ ~Unstable /\ \A n : ~Unread(n, 0),
         ledger'.busy => ledger.busy, Unstable => Unstable',
         \A n \in 1..Len(tree) : Shows(n) => Shows(n)',
         \A j \in Slots : jobs'[j] = jobs[j] \/ ~(EditOwns(j) \/ PromptOwns(j)),
         \A l \in Elements(t) : l.type # "navigate"
  PROVE  BusyIsOwned' /\ MovesAreOwned'
<1>0. UNCHANGED <<agent, tree, leaf>> /\ Handled
  BY DEF piVars, Handled
<1>1. ASSUME NEW j \in Slots, EditOwns(j) PROVE EditOwns(j)'
  <2>1. jobs'[j] = jobs[j] /\ (jobs[j].target \in 1..Len(tree))
    BY <1>1 DEF TargetsAreStored, EditOwns
  <2> QED
    BY <1>1, <2>1 DEF EditOwns
<1>2. ASSUME NEW j \in Slots, PromptOwns(j) PROVE jobs'[j] = jobs[j] /\ PromptOwns(j)'
  BY <1>0, <1>2, PromptsStay
<1>3. ASSUME NEW j \in Slots, NEW k \in 1..Len(toPi), PromptFollows(j, k) PROVE PromptFollows(j, k)'
  <2>1. PromptOwns(j)
    BY <1>3 DEF PromptFollows, PromptOwns
  <2> QED
    BY <1>0, <1>2, <1>3, <2>1, PromptsStay
<1>4. ASSUME NEW p \in 0..Len(fromPi), Missed(p), Unstable \/ \E n : Unread(n, p)
      PROVE  \E r \in 0..Len(fromPi') : Missed(r)' /\ (Unstable' \/ \E n : Unread(n, r)')
  <2>1. CASE fromPi' = fromPi /\ copy' = copy /\ (drift => drift')
    <3>1. Missed(p)'
      BY <1>4, <2>1 DEF Missed
    <3>2. Unstable' \/ \E n : Unread(n, p)'
      BY <1>0, <1>4, <2>1, UnreadStays
    <3> QED
      BY <2>1, <3>1, <3>2
  <2>2. CASE /\ fromPi # <<>> /\ fromPi' = Tail(fromPi)
             /\ IsSilent(Head(fromPi)) => drift'
             /\ \/ copy' = copy /\ (drift => drift')
                \/ /\ IsRead(Head(fromPi)) /\ copy'.upTo = Head(fromPi).last
                   /\ ~Unstable /\ \A n : ~Unread(n, 0)
    <3> DEFINE r == IF p = 0 THEN 0 ELSE p - 1
    <3>0. fromPi # <<>> /\ fromPi' = Tail(fromPi) /\ Pipe(fromPi)
      BY <2>2 DEF Runs
    <3>1. /\ Len(fromPi) \in Nat /\ Len(fromPi') \in Nat /\ Len(fromPi) = Len(fromPi') + 1 /\ Head(fromPi) = fromPi[1]
          /\ \A q \in 1..Len(fromPi) : q # 1 => q - 1 \in 1..Len(fromPi') /\ fromPi[q] = fromPi'[q - 1]
      <4> DEFINE s == fromPi
      <4>1. /\ Len(s) \in Nat \ {0} /\ Len(Tail(s)) \in Nat /\ Len(s) = Len(Tail(s)) + 1 /\ Head(s) = s[1]
            /\ \A q \in 1..Len(s) : q # 1 => q - 1 \in 1..Len(Tail(s)) /\ s[q] = Tail(s)[q - 1]
        BY <3>0, RestPlaces
      <4> QED
        BY <3>0, <4>1
    <3>2. r \in 0..Len(fromPi')
      BY <3>1
    <3>3. Missed(r)'
      <4>1. CASE p = 0
        <5>1. drift'
          BY <1>4, <2>2, <4>1 DEF Missed
        <5> QED
          BY <4>1, <5>1 DEF Missed
      <4>2. CASE p = 1
        <5>1. drift'
          BY <1>4, <2>2, <3>1, <4>2 DEF Missed
        <5> QED
          BY <4>2, <5>1 DEF Missed
      <4>3. CASE p \notin {0, 1}
        <5>1. p \in 1..Len(fromPi) /\ p # 1 /\ r = p - 1 /\ r # 0
          BY <3>1, <4>3
        <5>2. fromPi'[r] = fromPi[p]
          BY <3>1, <5>1
        <5> QED
          BY <1>4, <4>3, <5>1, <5>2 DEF Missed
      <4> QED
        BY <4>1, <4>2, <4>3
    <3>4. Unstable' \/ \E n : Unread(n, r)'
      <4>1. CASE copy' = copy
        BY <1>0, <1>4, <2>2, <4>1, UnreadStays
      <4>2. CASE IsRead(Head(fromPi)) /\ copy'.upTo = Head(fromPi).last /\ ~Unstable /\ \A n : ~Unread(n, 0)
        <5>1. p # 0 /\ r = p - 1
          BY <1>4, <4>2
        <5> QED
          BY <1>0, <1>4, <2>2, <4>2, <5>1, UnreadStays
      <4> QED
        BY <2>2, <4>1, <4>2
    <3> HIDE DEF r
    <3> QED
      BY <3>2, <3>3, <3>4
  <2> QED
    BY <2>1, <2>2
<1>5. ASSUME NEW l \in Elements(fromPi), l.type = "settled" PROVE l \in Elements(fromPi')
  <2>1. CASE fromPi' = fromPi
    BY <1>5, <2>1
  <2>2. CASE fromPi # <<>> /\ fromPi' = Tail(fromPi) /\ Head(fromPi).type # "settled"
    BY <1>5, <2>2, HeadAndRest DEF Runs
  <2> QED
    BY <2>1, <2>2
<1>6. BusyIsOwned'
  <2> SUFFICES ASSUME ledger'.busy
               PROVE  \/ agent'.turn \/ \E l \in Elements(fromPi') : l.type = "settled"
                      \/ \E p \in 0..Len(fromPi') : Missed(p)' /\ (Unstable' \/ \E n : Unread(n, p)')
                      \/ \E j \in Slots : EditOwns(j)' \/ PromptOwns(j)'
    BY DEF BusyIsOwned
  <2>1. \/ agent.turn \/ \E l \in Elements(fromPi) : l.type = "settled"
        \/ \E p \in 0..Len(fromPi) : Missed(p) /\ (Unstable \/ \E n : Unread(n, p))
        \/ \E j \in Slots : EditOwns(j) \/ PromptOwns(j)
    BY DEF BusyIsOwned
  <2> QED
    BY <1>0, <1>1, <1>2, <1>4, <1>5, <2>1
<1>7. MovesAreOwned'
  <2> SUFFICES ASSUME NEW k \in 1..Len(toPi'), toPi'[k].type = "navigate", ledger'.busy
               PROVE  Unstable' \/ \E j \in Slots : EditOwns(j)' \/ PromptFollows(j, k)'
    BY DEF MovesAreOwned
  <2>1. k \in 1..Len(toPi) /\ toPi'[k] = toPi[k]
    <3>1. toPi' = toPi \o t /\ Pipe(toPi) /\ Pipe(t)
      BY DEF Writes, Runs
    <3>2. \/ k \in 1..Len(toPi) /\ toPi'[k] = toPi[k]
          \/ k - Len(toPi) \in 1..Len(t) /\ toPi'[k] = t[k - Len(toPi)]
      BY <3>1, JoinedPlaces
    <3> QED
      BY <3>2 DEF Elements
  <2>2. Unstable \/ \E j \in Slots : EditOwns(j) \/ PromptFollows(j, k)
    BY <2>1 DEF MovesAreOwned
  <2> QED
    BY <1>1, <1>3, <2>1, <2>2
<1> QED
  BY <1>6, <1>7

LEMMA SameShown ==
  ASSUME UNCHANGED tree, ledger'.shown = ledger.shown
  PROVE  /\ Unstable' <=> Unstable
         /\ \A n : Shows(n)' <=> Shows(n)
         /\ copy' = copy /\ ShownIsKnown => ShownIsKnown'
<1>1. Unstable' <=> Unstable
  BY DEF Unstable
<1>2. ASSUME NEW n PROVE Shows(n)' <=> Shows(n)
  BY DEF Shows
<1>3. copy' = copy /\ ShownIsKnown => ShownIsKnown'
  BY DEF ShownIsKnown
<1> QED
  BY <1>1, <1>2, <1>3

\* Nothing new is shown, or read.
LEMMA PlainStays ==
  ASSUME Runs, BusyHolds, NEW t, Writes(t), \A l \in Elements(t) : l.type # "navigate",
         UNCHANGED <<piVars, copy>>, drift => drift', ledger'.shown = ledger.shown, ledger'.busy => ledger.busy,
         \A j \in Slots : Passes(j),
         \/ fromPi' = fromPi
         \/ /\ fromPi # <<>> /\ fromPi' = Tail(fromPi) /\ Head(fromPi).type # "settled"
            /\ IsSilent(Head(fromPi)) => drift'
  PROVE  BusyHolds'
<1>1. tree' = tree
  BY DEF piVars
<1>2. /\ ShownIsKnown' /\ (Unstable => Unstable')
      /\ \A n \in 1..Len(tree) : Shows(n) => Shows(n)'
  BY <1>1, SameShown DEF BusyHolds
<1>3. TargetsAreStored'
  BY <1>1 DEF BusyHolds, TargetsAreStored, Passes
<1>4. \A j \in Slots : jobs'[j] = jobs[j] \/ ~(EditOwns(j) \/ PromptOwns(j))
  BY DEF Passes
<1>5. BusyIsOwned' /\ MovesAreOwned'
  BY <1>2, <1>4, BusyStays DEF BusyHolds
<1> QED
  BY <1>2, <1>3, <1>5 DEF BusyHolds

\* A line about the transcript.
LEMMA ShownStaysPlain ==
  ASSUME Runs, BusyHolds, NEW t, Writes(t), \A l \in Elements(t) : l.type # "navigate",
         UNCHANGED <<piVars, copy>>, drift => drift', ledger'.busy => ledger.busy,
         \A j \in Slots : Passes(j),
         fromPi # <<>>, fromPi' = Tail(fromPi), Head(fromPi).type # "settled", ~IsSilent(Head(fromPi)),
         Unstable => Unstable', \A n \in 1..Len(tree) : Shows(n) => Shows(n)', ShownIsKnown'
  PROVE  BusyHolds'
<1>1. tree' = tree
  BY DEF piVars
<1>3. TargetsAreStored'
  BY <1>1 DEF BusyHolds, TargetsAreStored, Passes
<1>4. \A j \in Slots : jobs'[j] = jobs[j] \/ ~(EditOwns(j) \/ PromptOwns(j))
  BY DEF Passes
<1>5. BusyIsOwned' /\ MovesAreOwned'
  BY <1>4, BusyStays DEF BusyHolds
<1> QED
  BY <1>3, <1>5 DEF BusyHolds

\* The step ends busy, or it knows who owes its end.
LEMMA BusyEnds ==
  ASSUME ShownIsKnown', TargetsAreStored', ~ledger'.busy
  PROVE  BusyHolds'
BY DEF BusyHolds, BusyIsOwned, MovesAreOwned

LEMMA EditTakesOver ==
  ASSUME ShownIsKnown', TargetsAreStored', NEW j \in Slots, EditOwns(j)'
  PROVE  BusyHolds'
<1>1. BusyIsOwned'
  BY DEF BusyIsOwned
<1>2. MovesAreOwned'
  BY DEF MovesAreOwned
<1> QED
  BY <1>1, <1>2 DEF BusyHolds

LEMMA PromptTakesOver ==
  ASSUME ShownIsKnown', TargetsAreStored', Runs, NEW t, Writes(t), Handled, NEW j \in Slots, jobs'[j] # jobs[j],
         jobs'[j].op = "prompt", jobs'[j].at = "prompt", ~jobs'[j].was, \A l \in Elements(t) : l.type # "navigate"
  PROVE  BusyHolds'
<1>1. PromptOwns(j)' /\ \A k \in 1..Len(toPi) : PromptFollows(j, k)'
  BY PromptIsNew
<1>2. BusyIsOwned'
  BY <1>1 DEF BusyIsOwned
<1>3. ASSUME NEW k \in 1..Len(toPi'), toPi'[k].type = "navigate"
      PROVE  k \in 1..Len(toPi)
  <2>1. toPi' = toPi \o t /\ Pipe(toPi) /\ Pipe(t)
    BY DEF Writes, Runs
  <2>2. \/ k \in 1..Len(toPi) /\ toPi'[k] = toPi[k]
        \/ k - Len(toPi) \in 1..Len(t) /\ toPi'[k] = t[k - Len(toPi)]
    BY <2>1, JoinedPlaces
  <2> QED
    BY <1>3, <2>2 DEF Elements
<1>4. MovesAreOwned'
  BY <1>1, <1>3 DEF MovesAreOwned
<1> QED
  BY <1>2, <1>4 DEF BusyHolds

\* A read that is due, and what Core knows once it has taken it.
LEMMA ReadFits ==
  ASSUME Runs, fromPi # <<>>, IsRead(Head(fromPi))
  PROVE  /\ ReadHolds(Head(fromPi)) /\ FileHolds /\ CopyHolds /\ Rooted(tree) /\ Len(tree) \in Nat
         /\ Head(fromPi).last \in 0..Len(tree) /\ Head(fromPi).leaf \in 0..Head(fromPi).last
         /\ Absorbed(Head(fromPi)).upTo = Head(fromPi).last /\ Absorbed(Head(fromPi)).leaf = Head(fromPi).leaf
         /\ Reconciled(Head(fromPi)).shown = Truth(tree, Head(fromPi).leaf)
         /\ Reconciled(Head(fromPi)).busy => Reconciled(Head(fromPi)) = ledger
         /\ Branch(Absorbed(Head(fromPi)).stored, Head(fromPi).leaf) = BranchOf(tree, 1..Len(tree), Head(fromPi).leaf)
<1> DEFINE l == Head(fromPi)
<1>1. l \in Elements(fromPi)
  BY RestLines DEF Runs
<1>2. ReadHolds(l)
  BY <1>1 DEF Runs, LinesHold
<1>3. FileHolds /\ CopyHolds /\ Transcript(ledger.shown) /\ IsLedger(ledger)
  BY DEF Runs
<1> HIDE DEF l
<1>4. /\ Absorbed(l).upTo = l.last /\ Absorbed(l).leaf = l.leaf
      /\ Reconciled(l).shown = Truth(tree, l.leaf)
      /\ Reconciled(l).busy => Reconciled(l) = ledger
      /\ Branch(Absorbed(l).stored, l.leaf) = BranchOf(tree, 1..Len(tree), l.leaf)
  BY <1>2, <1>3, ReconciledIs
<1>5. Rooted(tree) /\ Len(tree) \in Nat /\ l.last \in 0..Len(tree) /\ l.leaf \in 0..l.last
  BY <1>2, <1>3 DEF ReadHolds, FileHolds, CopyHolds, Rooted
<1> QED
  BY <1>2, <1>3, <1>4, <1>5 DEF l

LEMMA ReadShows ==
  ASSUME Runs, UNCHANGED tree, fromPi # <<>>, IsRead(Head(fromPi)), copy' = Absorbed(Head(fromPi)),
         ledger'.shown = Reconciled(Head(fromPi)).shown
  PROVE  ShownIsKnown'
<1>1. PICK x, m : /\ x \in 0..m /\ m \in 0..Len(tree) /\ Rooted(tree) /\ Len(tree) \in Nat /\ copy'.upTo = m
                  /\ ledger'.shown = Truth(tree, x)
  BY ReadFits
<1>2. x \in 0..Len(tree)
  BY <1>1
<1>3. \A i \in 1..Len(Truth(tree, x)) : Truth(tree, x)[i].entry \in 1..x
  BY <1>1, <1>2, TruthShows
<1>4. \A i \in 1..Len(ledger'.shown) :
        ledger'.shown[i].entry \in 1..Len(tree) /\ ~(ledger'.shown[i].entry > copy'.upTo)
  BY <1>1, <1>3
<1> QED
  BY <1>4 DEF ShownIsKnown

LEMMA ModelShows ==
  ASSUME Runs, ShownIsKnown, UNCHANGED <<tree, copy>>, fromPi # <<>>, IsModel(Head(fromPi)),
         ledger'.shown = Append(ledger.shown, Message(Head(fromPi).last, TRUE))
  PROVE  ShownIsKnown' /\ (Unstable => Unstable') /\ \A n \in 1..Len(tree) : Shows(n) => Shows(n)'
<1> DEFINE s == ledger.shown
           e == [entry |-> Head(fromPi).last, stable |-> TRUE]
<1>1. Pipe(s) /\ ledger'.shown = Append(s, e)
  BY DEF Runs, Transcript, Message
<1>2. Head(fromPi).last \in 1..Len(tree) /\ tree[Head(fromPi).last].kind = "model"
  BY RestLines DEF Runs, LinesHold
<1>3. e.stable /\ e.entry = Head(fromPi).last
  OBVIOUS
<1> HIDE DEF e
<1>4. /\ Len(s) \in Nat /\ Len(Append(s, e)) = Len(s) + 1
      /\ \A i \in 1..Len(s) : Append(s, e)[i] = s[i]
      /\ Append(s, e)[Len(s) + 1] = e
  BY <1>1 DEF Pipe
<1>5. /\ Len(s) \in Nat /\ Len(ledger'.shown) = Len(s) + 1
      /\ \A i \in 1..Len(s) : i \in 1..Len(ledger'.shown) /\ ledger'.shown[i] = s[i]
      /\ \A i \in 1..Len(ledger'.shown) : i \notin 1..Len(s) => ledger'.shown[i] = e
  <2>1. \A i \in 1..(Len(s) + 1) : i \notin 1..Len(s) => i = Len(s) + 1
    BY <1>4
  <2> HIDE DEF s
  <2>2. PICK r : r = Append(s, e)
    OBVIOUS
  <2>3. /\ Len(r) = Len(s) + 1
        /\ \A i \in 1..Len(s) : i \in 1..Len(r) /\ r[i] = s[i]
        /\ \A i \in 1..Len(r) : i \notin 1..Len(s) => r[i] = e
    BY <1>4, <2>1, <2>2
  <2> QED
    BY <1>1, <1>4, <2>2, <2>3
<1> HIDE DEF s
<1>6. Unstable => Unstable'
  BY <1>5 DEF Unstable, s
<1>7. \A n : Shows(n) => Shows(n)'
  BY <1>5 DEF Shows, s
<1>8. ShownIsKnown'
  <2> SUFFICES ASSUME NEW i \in 1..Len(ledger'.shown), ledger'.shown[i].stable
               PROVE  /\ ledger'.shown[i].entry \in 1..Len(tree')
                      /\ ledger'.shown[i].entry > copy'.upTo => tree'[ledger'.shown[i].entry].kind = "model"
    BY DEF ShownIsKnown
  <2>1. CASE i \in 1..Len(s)
    BY <1>5, <2>1 DEF ShownIsKnown, s
  <2>2. CASE i \notin 1..Len(s)
    BY <1>2, <1>3, <1>5, <2>2
  <2> QED
    BY <2>1, <2>2
<1> QED
  BY <1>6, <1>7, <1>8

\* Some messages are replaced by others that are not stable.
LEMMA LooseShows ==
  ASSUME Runs, ShownIsKnown, UNCHANGED <<tree, copy>>, Len(ledger.shown) \in Nat, Len(ledger'.shown) \in Nat,
         Len(ledger'.shown) >= Len(ledger.shown),
         \A i \in 1..Len(ledger.shown) :
            \/ ledger'.shown[i] = ledger.shown[i]
            \/ ~ledger'.shown[i].stable /\ ledger.shown[i].entry = 0,
         \A i \in 1..Len(ledger'.shown) : i \notin 1..Len(ledger.shown) => ~ledger'.shown[i].stable
  PROVE  ShownIsKnown' /\ (Unstable => Unstable') /\ \A n \in 1..Len(tree) : Shows(n) => Shows(n)'
<1>1. \A i \in 1..Len(ledger.shown) : i \in 1..Len(ledger'.shown)
  OBVIOUS
<1>2. Unstable => Unstable'
  BY <1>1 DEF Unstable
<1>3. ASSUME NEW n \in 1..Len(tree), Shows(n) PROVE Shows(n)'
  <2>1. PICK i \in 1..Len(ledger.shown) : ledger.shown[i].entry = n
    BY <1>3 DEF Shows
  <2>2. n # 0
    OBVIOUS
  <2> QED
    BY <1>1, <2>1, <2>2 DEF Shows
<1>4. ShownIsKnown'
  BY DEF ShownIsKnown
<1> QED
  BY <1>2, <1>3, <1>4

LEMMA CommandIs ==
  ASSUME Runs, NEW j \in Slots, NEW op, NEW was, NEW target, NEW command, NEW entry, NEW first,
         Command(j, op, was, target, command, entry, first), Pipe(first),
         \A l \in Elements(first) : l.type = "reply", command = "get_entries" => entry = copy.upTo
  PROVE  /\ UNCHANGED <<piVars, fromPi, copy, drift>> /\ jobs[j].op = "none"
         /\ \E t : /\ TouchesOne(j, t) /\ \A l \in Elements(t) : l.type \in {"reply", command}
                   /\ jobs'[j].op = op /\ jobs'[j].was = was /\ jobs'[j].target = target /\ jobs'[j].at = command
<1> DEFINE w == [op |-> op, at |-> command, was |-> was, target |-> target]
<1>1. /\ UNCHANGED <<piVars, fromPi, copy, drift>> /\ jobs[j].op = "none"
      /\ Call(j, w, command, entry, first) /\ Handled
  BY DEF Command, Handled
<1>2. IsJob(w) /\ w.op = op /\ w.was = was /\ w.target = target
  BY DEF IsJob
<1> HIDE DEF w
<1>3. \E t : /\ TouchesOne(j, t) /\ \A l \in Elements(t) : l.type \in {"reply", command}
             /\ jobs'[j].op = w.op /\ jobs'[j].was = w.was /\ jobs'[j].target = w.target /\ jobs'[j].at = command
  BY <1>1, <1>2, CallGoes
<1> QED
  BY <1>1, <1>2, <1>3

\* A job that was idle, and the others.
LEMMA CommandPasses ==
  ASSUME NEW j \in Slots, NEW t, TouchesOne(j, t), jobs[j].op = "none",
         jobs'[j].op \in {"edit", "resend"} => jobs'[j].target \in 1..Len(tree)
  PROVE  \A k \in Slots : Passes(k)
BY DEF Passes, TouchesOne, EditOwns, PromptOwns

LEMMA TargetsStay ==
  ASSUME TargetsAreStored, UNCHANGED tree, NEW j \in Slots, NEW t, TouchesOne(j, t),
         jobs'[j].op \in {"edit", "resend"} => jobs'[j].target \in 1..Len(tree)
  PROVE  TargetsAreStored'
BY DEF TargetsAreStored, TouchesOne

LEMMA CommandStays ==
  ASSUME Runs, BusyHolds, NEW j \in Slots, NEW op, NEW was, NEW target, NEW command, NEW entry, NEW first,
         Command(j, op, was, target, command, entry, first), Pipe(first),
         \A l \in Elements(first) : l.type = "reply", command = "get_entries" => entry = copy.upTo,
         command # "navigate", op \notin {"edit", "resend"},
         ledger'.shown = ledger.shown, ledger'.busy => ledger.busy
  PROVE  BusyHolds'
<1>1. UNCHANGED <<piVars, fromPi, copy, drift>> /\ jobs[j].op = "none"
  BY CommandIs
<1>2. PICK t : TouchesOne(j, t) /\ (\A l \in Elements(t) : l.type \in {"reply", command}) /\ jobs'[j].op = op
  BY CommandIs
<1>3. Writes(t) /\ \A l \in Elements(t) : l.type # "navigate"
  BY <1>2 DEF TouchesOne
<1>4. \A k \in Slots : Passes(k)
  BY <1>1, <1>2, CommandPasses
<1> QED
  BY <1>1, <1>3, <1>4, PlainStays

LEMMA SendPromptStays ==
  ASSUME Runs, BusyHolds, NEW j \in Slots, SendPrompt(j)
  PROVE  BusyHolds'
<1>1. /\ Command(j, "prompt", ledger.busy, 0, "prompt", 0, <<>>)
      /\ ledger'.shown = ledger.shown
  BY DEF SendPrompt, Runs, IsLedger
<1>2. CASE ledger.busy
  <2>1. PICK was : Command(j, "prompt", was, 0, "prompt", 0, <<>>)
    BY <1>1
  <2> QED
    BY <1>1, <1>2, <2>1, CommandStays, EmptyLines
<1>3. CASE ~ledger.busy
  <2>1. UNCHANGED <<piVars, fromPi, copy, drift>> /\ jobs[j].op = "none"
    BY <1>1, CommandIs, EmptyLines
  <2>2. PICK t : /\ TouchesOne(j, t) /\ (\A l \in Elements(t) : l.type \in {"reply", "prompt"})
                 /\ jobs'[j].op = "prompt" /\ jobs'[j].was = ledger.busy /\ jobs'[j].at = "prompt"
    BY <1>1, CommandIs, EmptyLines
  <2>3. tree' = tree /\ Handled /\ Writes(t) /\ \A l \in Elements(t) : l.type # "navigate"
    BY <2>1, <2>2 DEF piVars, Handled, TouchesOne
  <2>4. ShownIsKnown' /\ TargetsAreStored'
    BY <1>1, <2>1, <2>2, <2>3, SameShown, TargetsStay DEF BusyHolds
  <2>5. jobs'[j] # jobs[j] /\ ~jobs'[j].was
    BY <1>3, <2>1, <2>2
  <2> QED
    BY <2>2, <2>3, <2>4, <2>5, PromptTakesOver
<1> QED
  BY <1>2, <1>3

LEMMA EditMessageStays ==
  ASSUME Runs, BusyHolds, NEW j \in Slots, EditMessage(j)
  PROVE  BusyHolds'
<1>1. PICK i \in 1..Len(ledger.shown) :
        /\ ledger.shown[i].stable
        /\ IF ledger.busy
           THEN Command(j, "edit", TRUE, ledger.shown[i].entry, "abort", 0, DenyAll)
           ELSE Command(j, "edit", FALSE, ledger.shown[i].entry, "get_entries", copy.upTo, DenyAll)
  BY DEF EditMessage
<1>2. ledger'.shown = ledger.shown
  BY DEF EditMessage, Runs, IsLedger
<1> DEFINE target == ledger.shown[i].entry
<1>3. target \in 1..Len(tree)
  BY <1>1 DEF BusyHolds, ShownIsKnown
<1>4. Pipe(DenyAll) /\ \A l \in Elements(DenyAll) : l.type = "reply"
  BY DenyAllLines DEF Runs
<1> HIDE DEF target
<1>5. PICK was, command, entry : /\ Command(j, "edit", was, target, command, entry, DenyAll)
                                 /\ command \in {"abort", "get_entries"} /\ (command = "get_entries" => entry = copy.upTo)
  <2>1. CASE ledger.busy
    <3>1. Command(j, "edit", TRUE, target, "abort", 0, DenyAll)
      BY <1>1, <2>1 DEF target
    <3>2. PICK was : was = TRUE
      OBVIOUS
    <3>3. Command(j, "edit", was, target, "abort", 0, DenyAll)
      BY <3>1, <3>2, Zenon
    <3> QED
      BY <3>3
  <2>2. CASE ~ledger.busy
    <3>1. Command(j, "edit", FALSE, target, "get_entries", copy.upTo, DenyAll)
      BY <1>1, <2>2 DEF target
    <3>2. PICK was : was = FALSE
      OBVIOUS
    <3>3. Command(j, "edit", was, target, "get_entries", copy.upTo, DenyAll)
      BY <3>1, <3>2, Zenon
    <3> QED
      BY <3>3
  <2> QED
    BY <2>1, <2>2
<1>6. UNCHANGED <<piVars, fromPi, copy, drift>> /\ jobs[j].op = "none"
  BY <1>4, <1>5, CommandIs
<1>7. PICK t : TouchesOne(j, t) /\ jobs'[j].op = "edit" /\ jobs'[j].target = target /\ jobs'[j].at = command
  BY <1>4, <1>5, CommandIs
<1>8. tree' = tree
  BY <1>6 DEF piVars
<1>9. ShownIsKnown' /\ TargetsAreStored'
  BY <1>2, <1>3, <1>6, <1>7, <1>8, SameShown, TargetsStay DEF BusyHolds
<1>10. EditOwns(j)'
  BY <1>5, <1>7 DEF EditOwns
<1> QED
  BY <1>9, <1>10, EditTakesOver

LEMMA CommandsStay ==
  ASSUME Runs, BusyHolds, NEW j \in Slots,
         \/ SendPrompt(j) \/ ClearQueue(j) \/ Abort(j) \/ Compact(j) \/ EditMessage(j)
         \/ SetModel(j) \/ SetThinking(j) \/ Ask(j)
  PROVE  BusyHolds'
<1>1. IsLedger(ledger)
  BY DEF Runs
<1>2. ASSUME NEW was, NEW op \in {"clear", "abort", "compact", "model", "tune"},
             NEW command \in {"clear_queue", "compact", "set_model", "tune"}, Command(j, op, was, 0, command, 0, <<>>),
             ledger'.shown = ledger.shown, ledger'.busy = ledger.busy
      PROVE  BusyHolds'
  BY <1>2, CommandStays, EmptyLines
<1>3. CASE ClearQueue(j) \/ SetModel(j) \/ SetThinking(j) \/ Ask(j)
  <2>1. \E op \in {"clear", "model", "tune"}, command \in {"clear_queue", "set_model", "tune"} :
          Command(j, op, FALSE, 0, command, 0, <<>>)
    BY <1>3 DEF ClearQueue, SetModel, SetThinking, Ask
  <2>2. ledger' = ledger
    BY <1>3 DEF ClearQueue, SetModel, SetThinking, Ask
  <2> QED
    BY <1>2, <2>1, <2>2
<1>4. CASE Abort(j)
  <2>1. Command(j, "abort", ledger.compacting, 0, "clear_queue", 0, <<>>) /\ ledger' = ledger
    BY <1>4 DEF Abort
  <2> QED
    BY <1>2, <2>1
<1>5. CASE Compact(j)
  <2>1. Command(j, "compact", FALSE, 0, "compact", 0, <<>>)
    BY <1>5 DEF Compact
  <2>2. ledger'.shown = ledger.shown /\ ledger'.busy = ledger.busy
    BY <1>1, <1>5 DEF Compact, IsLedger
  <2> QED
    BY <1>2, <2>1, <2>2
<1> QED
  BY <1>3, <1>4, <1>5, SendPromptStays, EditMessageStays

LEMMA ViewersStay ==
  ASSUME Runs, BusyHolds,
         \/ ViewersLeave \/ ViewerComes
         \/ \E r \in Questions : ConfirmationTimesOut(r) \/ \E yes \in BOOLEAN : RespondToConfirmation(r, yes)
  PROVE  BusyHolds'
<1>1. PICK t : /\ Pipe(t) /\ (\A l \in Elements(t) : l.type = "reply") /\ toPi' = toPi \o t
               /\ UNCHANGED <<piVars, fromPi, copy, pending, jobs, drift>>
               /\ ledger'.shown = ledger.shown /\ ledger'.busy = ledger.busy
  <2>1. agent.state = "up" /\ Pipe(toPi) /\ IsLedger(ledger)
    BY DEF Runs
  <2>2. toPi = toPi \o <<>>
    BY <2>1 DEF Pipe
  <2>3. CASE ViewerComes
    BY <2>2, <2>3, EmptyLines DEF ViewerComes, wires
  <2>4. CASE ViewersLeave /\ ~session.managed
    BY <2>2, <2>4, EmptyLines DEF ViewersLeave, wires
  <2>5. CASE ViewersLeave /\ session.managed
    <3>1. Pipe(DenyAll) /\ \A l \in Elements(DenyAll) : l.type = "reply"
      BY DenyAllLines DEF Runs
    <3>2. toPi' = toPi \o DenyAll
      BY <2>1, <2>5 DEF ViewersLeave, Sent
    <3> QED
      BY <2>5, <3>1, <3>2 DEF ViewersLeave
  <2>6. ASSUME NEW r \in Questions, ConfirmationTimesOut(r) \/ \E yes \in BOOLEAN : RespondToConfirmation(r, yes)
        PROVE  \E yes : /\ toPi' = toPi \o <<Reply(r, yes)>> /\ UNCHANGED <<piVars, fromPi, copy, pending, jobs, drift>>
                        /\ ledger'.shown = ledger.shown /\ ledger'.busy = ledger.busy
    BY <2>1, <2>6 DEF ConfirmationTimesOut, RespondToConfirmation, Sent, IsLedger
  <2> QED
    BY <2>3, <2>4, <2>5, <2>6, ReplyLines
<1>2. Writes(t)
  BY <1>1, SilenceWrites DEF Runs, WiresHold
<1>3. (\A j \in Slots : Passes(j)) /\ \A l \in Elements(t) : l.type # "navigate"
  BY <1>1 DEF Passes
<1> QED
  BY <1>1, <1>2, <1>3, PlainStays

LEMMA TimesOutStays ==
  ASSUME Runs, BusyHolds, TimesOut
  PROVE  BusyHolds'
<1>1. PICK id \in Ids : RequestTimesOut(id)
  BY DEF TimesOut
<1>2. Writes(<<>>)
  BY <1>1, ForgettingWrites DEF RequestTimesOut, Runs, WiresHold, wires
<1>3. /\ UNCHANGED <<piVars, fromPi, copy>> /\ (drift => drift') /\ ledger'.shown = ledger.shown /\ ledger'.busy = ledger.busy
      /\ \A j \in Slots : Passes(j)
  BY <1>1 DEF RequestTimesOut, wires, Passes
<1> QED
  BY <1>2, <1>3, EmptyLines, PlainStays

\* How a job that resumes takes its answer from the pipe.
LEMMA ResumesTakes ==
  ASSUME Runs, NEW j \in Slots, NEW op, NEW at, Resumes(j, op, at)
  PROVE  /\ Handled /\ jobs[j].op = op /\ jobs[j].at = at
         /\ Result(j) # "lost" =>
              /\ fromPi # <<>> /\ fromPi' = Tail(fromPi) /\ Answers(Head(fromPi), at)
              /\ Head(fromPi) \in Elements(fromPi) /\ pending[Head(fromPi).id] = j
              /\ Result(j) = IF Head(fromPi).ok THEN "ok" ELSE "refused"
         /\ \/ fromPi' = fromPi /\ Result(j) = "lost"
            \/ /\ fromPi # <<>> /\ fromPi' = Tail(fromPi) /\ Head(fromPi).type # "settled"
               /\ Answers(Head(fromPi), at) /\ Result(j) # "lost"
<1>1. jobs[j].op = op /\ jobs[j].at = at
  BY DEF Resumes
<1>2. CASE j \in Rejected /\ fromPi' = fromPi
  BY <1>1, <1>2 DEF Handled, Result
<1>3. CASE j \notin Rejected \/ fromPi' # fromPi
  <2>1. /\ Quiescent /\ fromPi # <<>> /\ Head(fromPi).type = "response" /\ pending[Head(fromPi).id] = j
        /\ fromPi' = Tail(fromPi)
    BY <1>3 DEF Resumes
  <2>2. Head(fromPi) \in Elements(fromPi)
    BY <2>1, RestLines DEF Runs
  <2>3. Answers(Head(fromPi), at)
    BY <1>1, <2>1, <2>2, NilIsNobody DEF Runs, WiresHold, Owned, Answers
  <2>4. Result(j) = IF Head(fromPi).ok THEN "ok" ELSE "refused"
    BY <2>1 DEF Quiescent, Result
  <2> QED
    BY <1>1, <2>1, <2>2, <2>3, <2>4 DEF Handled, Answers
<1> QED
  BY <1>2, <1>3

LEMMA NotSilent ==
  ASSUME NEW l, NEW at, Answers(l, at), at # "abort"
  PROVE  ~IsSilent(l)
BY DEF Answers, IsSilent

LEMMA GoesPasses ==
  ASSUME NEW j \in Slots, NEW t, TouchesOne(j, t), ~EditOwns(j), ~PromptOwns(j),
         jobs'[j].op \in {"edit", "resend"} => jobs'[j].target \in 1..Len(tree)
  PROVE  \A k \in Slots : Passes(k)
BY DEF Passes, TouchesOne

\* A job that does not owe the end of busy ends, and shows nothing new.
LEMMA ReleaseStays ==
  ASSUME Runs, BusyHolds, NEW j \in Slots, NEW op, NEW at, Resumes(j, op, at), Release(j),
         ~EditOwns(j), ~PromptOwns(j), UNCHANGED <<piVars, copy>>, drift => drift',
         Result(j) # "lost" => (IsSilent(Head(fromPi)) => drift'),
         ledger'.shown = ledger.shown, ledger'.busy => ledger.busy
  PROVE  BusyHolds'
<1>1. TouchesOne(j, <<>>) /\ jobs'[j].op = "none"
  BY ReleaseGoes
<1>2. Writes(<<>>) /\ \A k \in Slots : Passes(k)
  BY <1>1, GoesPasses DEF TouchesOne
<1>3. \/ fromPi' = fromPi
      \/ /\ fromPi # <<>> /\ fromPi' = Tail(fromPi) /\ Head(fromPi).type # "settled"
         /\ IsSilent(Head(fromPi)) => drift'
  BY ResumesTakes
<1> QED
  BY <1>2, <1>3, EmptyLines, PlainStays

\* A job ends, and the conversation is not busy.
LEMMA ReleaseFrees ==
  ASSUME Runs, BusyHolds, NEW j \in Slots, Release(j), UNCHANGED tree, ShownIsKnown', ~ledger'.busy
  PROVE  BusyHolds'
<1>1. TouchesOne(j, <<>>) /\ jobs'[j].op = "none"
  BY ReleaseGoes
<1>2. TargetsAreStored'
  BY <1>1, TargetsStay DEF BusyHolds
<1> QED
  BY <1>2, BusyEnds

LEMMA PromptEndsStays ==
  ASSUME Runs, BusyHolds, session.managed, NEW j \in Slots, PromptEnds(j)
  PROVE  BusyHolds'
<1>1. /\ Resumes(j, "prompt", "prompt") /\ Release(j) /\ UNCHANGED <<piVars, copy, drift>>
      /\ ledger' = IF Result(j) # "ok" /\ session.managed /\ ~jobs[j].was THEN NotBusy ELSE ledger
  BY DEF PromptEnds
<1>2. tree' = tree /\ IsLedger(ledger)
  BY <1>1 DEF piVars, Runs
<1>3. CASE Result(j) # "ok" /\ ~jobs[j].was
  <2>1. ledger'.shown = ledger.shown /\ ~ledger'.busy
    BY <1>1, <1>2, <1>3 DEF NotBusy, IsLedger
  <2>2. ShownIsKnown'
    BY <1>1, <1>2, <2>1, SameShown DEF BusyHolds
  <2> QED
    BY <1>1, <1>2, <2>1, <2>2, ReleaseFrees
<1>4. CASE Result(j) = "ok" \/ jobs[j].was
  <2>1. ledger' = ledger
    BY <1>1, <1>4
  <2>2. ~PromptOwns(j)
    <3>1. CASE jobs[j].was
      BY <3>1 DEF PromptOwns
    <3>2. CASE Result(j) = "ok"
      <4>1. /\ Head(fromPi) \in Elements(fromPi) /\ pending[Head(fromPi).id] = j /\ Answers(Head(fromPi), "prompt")
            /\ Head(fromPi).ok
        BY <1>1, <3>2, ResumesTakes
      <4> QED
        BY <4>1 DEF PromptOwns, Answers
    <3> QED
      BY <1>4, <3>1, <3>2
  <2>3. ~EditOwns(j)
    BY <1>1 DEF Resumes, EditOwns
  <2>4. Result(j) # "lost" => ~IsSilent(Head(fromPi))
    <3>1. Result(j) # "lost" => Answers(Head(fromPi), "prompt")
      BY <1>1, ResumesTakes
    <3> QED
      BY <3>1, NotSilent
  <2> QED
    BY <1>1, <2>1, <2>2, <2>3, <2>4, ReleaseStays
<1> QED
  BY <1>3, <1>4

LEMMA SimpleEndsStays ==
  ASSUME Runs, BusyHolds, NEW j \in Slots, SimpleEnds(j)
  PROVE  BusyHolds'
<1>1. PICK op \in {"clear", "tune"}, at \in {"clear_queue", "tune"} : Resumes(j, op, at)
  BY DEF SimpleEnds
<1>2. ~EditOwns(j) /\ ~PromptOwns(j)
  BY <1>1 DEF Resumes, EditOwns, PromptOwns
<1>3. Result(j) # "lost" => ~IsSilent(Head(fromPi))
  <2>1. Result(j) # "lost" => Answers(Head(fromPi), at)
    BY <1>1, ResumesTakes
  <2> QED
    BY <2>1, NotSilent
<1>4. Release(j) /\ UNCHANGED <<piVars, copy, drift, ledger>>
  BY DEF SimpleEnds
<1> QED
  BY <1>1, <1>2, <1>3, <1>4, ReleaseStays

LEMMA ModelEndsStays ==
  ASSUME Runs, BusyHolds, NEW j \in Slots, ModelEnds(j)
  PROVE  BusyHolds'
<1>1. /\ Resumes(j, "model", "set_model") /\ Release(j) /\ UNCHANGED <<piVars, copy, drift>>
      /\ ledger' = IF Result(j) = "ok"
                   THEN [ledger EXCEPT !.shown = Append(@, Message(Head(fromPi).last, TRUE))] ELSE ledger
  BY DEF ModelEnds
<1>2. ~EditOwns(j) /\ ~PromptOwns(j)
  BY <1>1 DEF Resumes, EditOwns, PromptOwns
<1>3. Result(j) # "lost" =>
        /\ fromPi # <<>> /\ fromPi' = Tail(fromPi) /\ Answers(Head(fromPi), "set_model")
        /\ ~IsSilent(Head(fromPi)) /\ Head(fromPi).type # "settled" /\ (Result(j) = "ok" => IsModel(Head(fromPi)))
  <2>1. Result(j) # "lost" => /\ fromPi # <<>> /\ fromPi' = Tail(fromPi) /\ Answers(Head(fromPi), "set_model")
                              /\ Result(j) = IF Head(fromPi).ok THEN "ok" ELSE "refused"
    BY <1>1, ResumesTakes
  <2> QED
    BY <2>1, NotSilent DEF Answers, IsModel
<1>4. CASE Result(j) # "ok"
  <2>1. ledger' = ledger
    BY <1>1, <1>4
  <2> QED
    BY <1>1, <1>2, <1>3, <2>1, ReleaseStays
<1>5. CASE Result(j) = "ok"
  <2>1. ledger'.shown = Append(ledger.shown, Message(Head(fromPi).last, TRUE)) /\ ledger'.busy = ledger.busy
    BY <1>1, <1>5 DEF Runs, IsLedger
  <2>2. tree' = tree
    BY <1>1 DEF piVars
  <2>3. ShownIsKnown' /\ (Unstable => Unstable') /\ \A n \in 1..Len(tree) : Shows(n) => Shows(n)'
    BY <1>1, <1>3, <1>5, <2>1, <2>2, ModelShows DEF BusyHolds
  <2>4. TouchesOne(j, <<>>) /\ jobs'[j].op = "none"
    BY <1>1, ReleaseGoes
  <2>5. Writes(<<>>) /\ \A k \in Slots : Passes(k)
    BY <1>2, <2>4, GoesPasses DEF TouchesOne
  <2> QED
    BY <1>1, <1>3, <1>5, <2>1, <2>3, <2>5, EmptyLines, ShownStaysPlain
<1> QED
  BY <1>4, <1>5

\* The same for a job that calls again.
LEMMA CallStays ==
  ASSUME Runs, BusyHolds, NEW j \in Slots, NEW op, NEW at, Resumes(j, op, at),
         NEW work, IsJob(work), NEW command, NEW entry, Call(j, work, command, entry, <<>>),
         command = "get_entries" => entry = copy.upTo, command # "navigate",
         ~EditOwns(j), ~PromptOwns(j), work.op \in {"edit", "resend"} => work.target \in 1..Len(tree),
         UNCHANGED <<piVars, copy>>, drift => drift', Result(j) # "lost" => (IsSilent(Head(fromPi)) => drift'),
         ledger'.shown = ledger.shown, ledger'.busy => ledger.busy
  PROVE  BusyHolds'
<1>1. Handled
  BY ResumesTakes
<1>2. PICK t : /\ TouchesOne(j, t) /\ (\A l \in Elements(t) : l.type \in {"reply", command})
               /\ jobs'[j].op = work.op /\ jobs'[j].target = work.target
  BY <1>1, CallGoes, EmptyLines
<1>3. Writes(t) /\ (\A k \in Slots : Passes(k)) /\ \A l \in Elements(t) : l.type # "navigate"
  BY <1>2, GoesPasses DEF TouchesOne
<1>4. \/ fromPi' = fromPi
      \/ /\ fromPi # <<>> /\ fromPi' = Tail(fromPi) /\ Head(fromPi).type # "settled"
         /\ IsSilent(Head(fromPi)) => drift'
  BY ResumesTakes
<1> QED
  BY <1>3, <1>4, PlainStays

LEMMA AbortStays ==
  ASSUME Runs, BusyHolds, session.managed, NEW j \in Slots, AbortGoesOn(j) \/ AbortEnds(j)
  PROVE  BusyHolds'
<1>0. ~EditOwns(j) /\ ~PromptOwns(j) /\ jobs[j].op = "abort" /\ IsJob(jobs[j])
  <2>1. jobs[j].op = "abort"
    BY DEF AbortGoesOn, AbortEnds, Resumes
  <2> QED
    BY <2>1, JobIsFiled DEF EditOwns, PromptOwns
<1>1. CASE AbortGoesOn(j)
  <2>1. /\ Resumes(j, "abort", "clear_queue") /\ Call(j, jobs[j], "abort", 0, <<>>)
        /\ UNCHANGED <<piVars, ledger, copy, drift>>
    BY <1>1 DEF AbortGoesOn
  <2>2. Result(j) # "lost" => ~IsSilent(Head(fromPi))
    <3>1. Result(j) # "lost" => Answers(Head(fromPi), "clear_queue")
      BY <2>1, ResumesTakes
    <3> QED
      BY <3>1, NotSilent
  <2> QED
    BY <1>0, <2>1, <2>2, CallStays
<1>2. CASE AbortEnds(j)
  <2>1. /\ Resumes(j, "abort", "abort") /\ Release(j) /\ UNCHANGED <<piVars, copy>>
        /\ ledger' = IF Result(j) = "ok" THEN IF jobs[j].was THEN Finished(NotBusy) ELSE NotBusy ELSE ledger
        /\ drift' = (drift \/ (Result(j) = "ok" /\ Silent))
    BY <1>2 DEF AbortEnds
  <2>2. tree' = tree /\ IsLedger(ledger)
    BY <2>1 DEF piVars, Runs
  <2>3. CASE Result(j) = "ok"
    <3>1. ledger'.shown = ledger.shown /\ ~ledger'.busy
      BY <2>1, <2>2, <2>3 DEF NotBusy, Finished, IsLedger
    <3>2. ShownIsKnown'
      BY <2>1, <2>2, <3>1, SameShown DEF BusyHolds
    <3> QED
      BY <2>1, <2>2, <3>1, <3>2, ReleaseFrees
  <2>4. CASE Result(j) # "ok"
    <3>1. ledger' = ledger /\ (drift => drift')
      BY <2>1, <2>4
    <3>2. Result(j) # "lost" => ~IsSilent(Head(fromPi))
      <4>1. Result(j) # "lost" => Head(fromPi) \in Elements(fromPi) /\ ~Head(fromPi).ok
        BY <2>1, <2>4, ResumesTakes
      <4> QED
        BY <4>1 DEF Runs, LinesHold
    <3> QED
      BY <1>0, <2>1, <3>1, <3>2, ReleaseStays
  <2> QED
    BY <2>3, <2>4
<1> QED
  BY <1>1, <1>2

LEMMA CompactGoesOnStays ==
  ASSUME Runs, BusyHolds, NEW j \in Slots, CompactGoesOn(j)
  PROVE  BusyHolds'
<1>0. ~EditOwns(j) /\ ~PromptOwns(j) /\ jobs[j].op = "compact" /\ IsJob(jobs[j])
  <2>1. jobs[j].op = "compact"
    BY DEF CompactGoesOn, Resumes
  <2> QED
    BY <2>1, JobIsFiled DEF EditOwns, PromptOwns
<1>1. Resumes(j, "compact", "compact") /\ UNCHANGED <<piVars, copy, drift>>
  BY DEF CompactGoesOn
<1>2. ledger'.shown = ledger.shown /\ ledger'.busy = ledger.busy
  BY DEF CompactGoesOn, Finished, Runs, IsLedger
<1>3. Result(j) # "lost" => ~IsSilent(Head(fromPi))
  <2>1. Result(j) # "lost" => Answers(Head(fromPi), "compact")
    BY <1>1, ResumesTakes
  <2> QED
    BY <2>1, NotSilent
<1>4. CASE Release(j)
  BY <1>0, <1>1, <1>2, <1>3, <1>4, ReleaseStays
<1>5. CASE Call(j, jobs[j], "get_entries", copy.upTo, <<>>)
  BY <1>0, <1>1, <1>2, <1>3, <1>5, CallStays
<1> QED
  BY <1>4, <1>5 DEF CompactGoesOn

\* Core reads the file, and stays busy.
LEMMA BusyReadStays ==
  ASSUME Runs, BusyHolds, NEW t, Writes(t), \A l \in Elements(t) : l.type # "navigate", UNCHANGED piVars,
         fromPi # <<>>, fromPi' = Tail(fromPi), IsRead(Head(fromPi)), Reconciled(Head(fromPi)).busy,
         copy' = Absorbed(Head(fromPi)), ledger'.shown = Reconciled(Head(fromPi)).shown,
         \A j \in Slots : Passes(j)
  PROVE  BusyHolds'
<1>1. tree' = tree
  BY DEF piVars
<1>2. Reconciled(Head(fromPi)) = ledger /\ ~Unstable /\ \A n : ~Unread(n, 0)
  BY BusyReadIs DEF BusyHolds
<1>3. ledger'.shown = ledger.shown /\ ledger.busy /\ copy'.upTo = Head(fromPi).last
  BY <1>2, ReadFits
<1>4. (Unstable => Unstable') /\ \A n \in 1..Len(tree) : Shows(n) => Shows(n)'
  BY <1>1, <1>3, SameShown
<1>5. ShownIsKnown'
  BY <1>1, ReadShows
<1>6. TargetsAreStored'
  BY <1>1 DEF BusyHolds, TargetsAreStored, Passes
<1>7. \A j \in Slots : jobs'[j] = jobs[j] \/ ~(EditOwns(j) \/ PromptOwns(j))
  BY DEF Passes
<1>8. Head(fromPi).type # "settled" /\ ~IsSilent(Head(fromPi))
  BY NotSilent DEF IsRead, Answers
<1>9. BusyIsOwned' /\ MovesAreOwned'
  BY <1>2, <1>3, <1>4, <1>7, <1>8, BusyStays DEF BusyHolds
<1> QED
  BY <1>5, <1>6, <1>9 DEF BusyHolds

LEMMA ReconcileEndsStays ==
  ASSUME Runs, BusyHolds, NEW j \in Slots, ReconcileEnds(j)
  PROVE  BusyHolds'
<1>1. PICK op \in {"reconcile", "compact"} : Resumes(j, op, "get_entries")
  BY DEF ReconcileEnds
<1>2. ~EditOwns(j) /\ ~PromptOwns(j)
  BY <1>1 DEF Resumes, EditOwns, PromptOwns
<1>3. Release(j) /\ UNCHANGED piVars /\ tree' = tree
  BY DEF ReconcileEnds, piVars
<1>4. TouchesOne(j, <<>>) /\ jobs'[j].op = "none"
  BY <1>3, ReleaseGoes
<1>5. Writes(<<>>) /\ \A k \in Slots : Passes(k)
  BY <1>2, <1>4, GoesPasses DEF TouchesOne
<1>6. Result(j) # "lost" => fromPi # <<>> /\ fromPi' = Tail(fromPi) /\ IsRead(Head(fromPi)) /\ ~IsSilent(Head(fromPi))
  <2>1. Result(j) # "lost" => fromPi # <<>> /\ fromPi' = Tail(fromPi) /\ Answers(Head(fromPi), "get_entries")
    BY <1>1, ResumesTakes
  <2> QED
    BY <2>1, NotSilent DEF IsRead
<1>7. CASE Result(j) # "ok"
  <2>1. ledger'.shown = ledger.shown /\ ledger'.busy = ledger.busy /\ UNCHANGED <<copy, drift>>
    BY <1>7 DEF ReconcileEnds, Finished, Runs, IsLedger
  <2> QED
    BY <1>1, <1>2, <1>3, <1>6, <2>1, ReleaseStays
<1>8. CASE Result(j) = "ok"
  <2>1. ledger' = Reconciled(Head(fromPi)) /\ copy' = Absorbed(Head(fromPi))
    BY <1>8 DEF ReconcileEnds, TakesFile
  <2>2. CASE Reconciled(Head(fromPi)).busy
    BY <1>3, <1>5, <1>6, <1>8, <2>1, <2>2, BusyReadStays, EmptyLines
  <2>3. CASE ~Reconciled(Head(fromPi)).busy
    BY <1>3, <1>6, <1>8, <2>1, <2>3, ReadShows, ReleaseFrees
  <2> QED
    BY <2>2, <2>3
<1> QED
  BY <1>7, <1>8

LEMMA EditFailsFrees ==
  ASSUME Runs, BusyHolds, NEW j \in Slots, EditFails(j), UNCHANGED tree
  PROVE  BusyHolds'
<1>1. Release(j) /\ ledger'.shown = ledger.shown /\ ~ledger'.busy /\ copy' = copy
  BY DEF EditFails, NotBusy, Runs, IsLedger
<1>2. ShownIsKnown'
  BY <1>1, SameShown DEF BusyHolds
<1> QED
  BY <1>1, <1>2, ReleaseFrees

LEMMA EditStoppedStays ==
  ASSUME Runs, BusyHolds, NEW j \in Slots, EditStopped(j)
  PROVE  BusyHolds'
<1>1. Resumes(j, "edit", "abort") /\ tree' = tree
  BY DEF EditStopped, piVars
<1>2. CASE EditFails(j)
  BY <1>1, <1>2, EditFailsFrees
<1>3. CASE Call(j, jobs[j], "get_entries", copy.upTo, <<>>) /\ UNCHANGED <<ledger, copy>>
  <2>1. Handled /\ IsJob(jobs[j]) /\ jobs[j].op = "edit"
    BY <1>1, ResumesTakes, JobIsFiled
  <2>2. PICK t : TouchesOne(j, t) /\ jobs'[j].op = "edit" /\ jobs'[j].target = jobs[j].target /\ jobs'[j].at = "get_entries"
    BY <1>3, <2>1, CallGoes, EmptyLines
  <2>3. TargetsAreStored'
    BY <1>1, <2>1, <2>2, TargetsStay DEF BusyHolds, TargetsAreStored
  <2>4. ShownIsKnown'
    BY <1>1, <1>3, SameShown DEF BusyHolds
  <2>5. EditOwns(j)'
    BY <2>2 DEF EditOwns
  <2> QED
    BY <2>3, <2>4, <2>5, EditTakesOver
<1> QED
  BY <1>2, <1>3 DEF EditStopped

LEMMA EditMovesStays ==
  ASSUME Runs, BusyHolds, NEW j \in Slots, EditMoves(j)
  PROVE  BusyHolds'
<1>1. Resumes(j, "edit", "navigate") /\ tree' = tree /\ UNCHANGED piVars
  BY DEF EditMoves, piVars
<1>2. CASE EditFails(j)
  BY <1>1, <1>2, EditFailsFrees
<1>3. CASE Call(j, [jobs[j] EXCEPT !.op = "resend"], "get_entries", copy.upTo, <<>>) /\ UNCHANGED <<ledger, copy, drift>>
  <2> DEFINE work == [jobs[j] EXCEPT !.op = "resend"]
  <2>1. Handled /\ IsJob(work) /\ jobs[j].op = "edit" /\ jobs[j].at = "navigate"
    BY <1>1, ResumesTakes, JobIsFiled
  <2>2. work.op = "resend" /\ work.target = jobs[j].target /\ work.target \in 1..Len(tree)
    <3>1. IsJob(jobs[j])
      BY JobIsFiled
    <3> QED
      BY <2>1, <3>1 DEF IsJob, BusyHolds, TargetsAreStored
  <2> HIDE DEF work
  <2>3. Call(j, work, "get_entries", copy.upTo, <<>>)
    BY <1>3 DEF work
  <2>4. CASE Shows(jobs[j].target)
    <3>1. PICK t : TouchesOne(j, t) /\ jobs'[j].op = "resend" /\ jobs'[j].target = jobs[j].target
      BY <2>1, <2>2, <2>3, CallGoes, EmptyLines
    <3>2. TargetsAreStored'
      BY <1>1, <2>2, <3>1, TargetsStay DEF BusyHolds
    <3>3. ShownIsKnown' /\ \A n : Shows(n)' <=> Shows(n)
      BY <1>1, <1>3, SameShown DEF BusyHolds
    <3>4. EditOwns(j)'
      BY <2>4, <3>1, <3>3 DEF EditOwns
    <3> QED
      BY <3>2, <3>3, <3>4, EditTakesOver
  <2>5. CASE ~Shows(jobs[j].target)
    <3>1. ~EditOwns(j) /\ ~PromptOwns(j)
      BY <2>1, <2>5 DEF EditOwns, PromptOwns
    <3>2. Result(j) # "lost" => ~IsSilent(Head(fromPi))
      <4>1. Result(j) # "lost" => Answers(Head(fromPi), "navigate")
        BY <1>1, ResumesTakes
      <4> QED
        BY <4>1, NotSilent
    <3> QED
      BY <1>1, <1>3, <2>1, <2>2, <2>3, <3>1, <3>2, CallStays
  <2> QED
    BY <2>4, <2>5
<1> QED
  BY <1>2, <1>3 DEF EditMoves

LEMMA EditReadsStays ==
  ASSUME Runs, BusyHolds, NEW j \in Slots, EditReads(j)
  PROVE  BusyHolds'
<1>1. Resumes(j, "edit", "get_entries") /\ tree' = tree
  BY DEF EditReads, piVars
<1>2. CASE Result(j) = "lost"
  BY <1>1, <1>2, EditFailsFrees DEF EditReads
<1>3. CASE Result(j) # "lost"
  <2> DEFINE l == Head(fromPi)
  <2>1. fromPi # <<>> /\ IsRead(l) /\ Handled /\ jobs[j].op = "edit" /\ IsJob(jobs[j])
    BY <1>1, <1>3, ResumesTakes, JobIsFiled DEF IsRead
  <2>2. /\ copy' = Absorbed(l)
        /\ IF jobs[j].target \in Range(Branch(copy'.stored, copy'.leaf))
           THEN Call(j, jobs[j], "navigate", jobs[j].target, <<>>) /\ ledger' = Reconciled(l)
           ELSE Release(j) /\ ledger' = [Reconciled(l) EXCEPT !.busy = FALSE]
    BY <1>3 DEF EditReads
  <2>3. CASE jobs[j].target \notin Range(Branch(copy'.stored, copy'.leaf))
    <3>1. Release(j) /\ ledger' = [Reconciled(l) EXCEPT !.busy = FALSE]
      BY <2>2, <2>3
    <3>2. ledger'.shown = Reconciled(l).shown /\ ~ledger'.busy
      <4>1. ledger'.shown = Reconciled(l).shown
        BY <3>1, ShownStays
      <4>2. ~ledger'.busy
        BY <3>1 DEF Reconciled, Runs, IsLedger
      <4> QED
        BY <4>1, <4>2
    <3>3. ShownIsKnown'
      BY <1>1, <2>1, <2>2, <3>2, ReadShows
    <3> QED
      BY <1>1, <3>1, <3>2, <3>3, ReleaseFrees
  <2>4. CASE jobs[j].target \in Range(Branch(copy'.stored, copy'.leaf))
    <3>1. Call(j, jobs[j], "navigate", jobs[j].target, <<>>) /\ ledger' = Reconciled(l)
      BY <2>2, <2>4
    <3>2. ShownIsKnown'
      BY <1>1, <2>1, <2>2, <3>1, ReadShows
    <3>3. PICK t : TouchesOne(j, t) /\ jobs'[j].op = "edit" /\ jobs'[j].target = jobs[j].target
      BY <2>1, <3>1, CallGoes, EmptyLines
    <3>4. TargetsAreStored'
      BY <1>1, <2>1, <3>3, TargetsStay DEF BusyHolds, TargetsAreStored
    <3>5. CASE ~Reconciled(l).busy
      BY <3>1, <3>2, <3>4, <3>5, BusyEnds
    <3>6. CASE Reconciled(l).busy
      <4>1. Reconciled(l) = ledger /\ \A n : Shows(n) <=> OnPath(tree, n, l.leaf)
        BY <2>1, <3>6, BusyReadIs DEF BusyHolds
      <4>2. Branch(Absorbed(l).stored, l.leaf) = BranchOf(tree, 1..Len(tree), l.leaf) /\ Absorbed(l).leaf = l.leaf
        BY <2>1, ReadFits
      <4>3. OnPath(tree, jobs[j].target, l.leaf)
        BY <2>2, <2>4, <4>2 DEF OnPath
      <4>4. Shows(jobs[j].target)'
        <5>1. \A n : Shows(n)' <=> Shows(n)
          BY <1>1, <3>1, <4>1, SameShown
        <5> QED
          BY <3>3, <4>1, <4>3, <5>1
      <4>5. EditOwns(j)'
        BY <3>3, <4>4 DEF EditOwns
      <4> QED
        BY <3>2, <3>4, <4>5, EditTakesOver
    <3> QED
      BY <3>5, <3>6
  <2> QED
    BY <2>3, <2>4
<1> QED
  BY <1>2, <1>3

LEMMA EditResendsStays ==
  ASSUME Runs, BusyHolds, NEW j \in Slots, EditResends(j)
  PROVE  BusyHolds'
<1>1. Resumes(j, "resend", "get_entries") /\ UNCHANGED piVars /\ tree' = tree
  BY DEF EditResends, piVars
<1>2. CASE Result(j) = "lost"
  BY <1>1, <1>2, EditFailsFrees DEF EditResends
<1>3. CASE Result(j) # "lost"
  <2> DEFINE l == Head(fromPi)
             now == Reconciled(l)
             work == [jobs[j] EXCEPT !.op = "prompt", !.was = now.busy]
  <2>1. fromPi # <<>> /\ fromPi' = Tail(fromPi) /\ IsRead(l) /\ Handled /\ jobs[j].op = "resend"
    BY <1>1, <1>3, ResumesTakes DEF IsRead
  <2>2. /\ copy' = Absorbed(l)
        /\ IF copy'.leaf # tree[jobs[j].target].parent
           THEN Release(j) /\ ledger' = [now EXCEPT !.busy = FALSE]
           ELSE IF Sendable
           THEN ledger' = [now EXCEPT !.busy = TRUE] /\ Call(j, work, "prompt", 0, <<>>)
           ELSE Release(j) /\ ledger' = now
    BY <1>3 DEF EditResends
  <2>3. IsJob(work) /\ work.op = "prompt" /\ work.was = now.busy
    <3>1. IsJob(jobs[j])
      BY JobIsFiled
    <3>2. ASSUME NEW was, NEW w, w = [jobs[j] EXCEPT !.op = "prompt", !.was = was]
          PROVE  IsJob(w) /\ w.op = "prompt" /\ w.was = was
      <4>1. w = [op |-> "prompt", at |-> jobs[j].at, was |-> was, target |-> jobs[j].target]
        BY <3>1, <3>2 DEF IsJob
      <4> QED
        BY <4>1 DEF IsJob
    <3> HIDE DEF now
    <3>3. PICK was : was = now.busy
      OBVIOUS
    <3>4. work = [jobs[j] EXCEPT !.op = "prompt", !.was = was]
      BY <3>3
    <3> HIDE DEF work
    <3> QED
      BY <3>2, <3>3, <3>4
  <2>4. now = [busy |-> now.busy, compacting |-> now.compacting, card |-> now.card, shown |-> now.shown]
    BY DEF Reconciled, Runs, IsLedger
  <2> HIDE DEF work
  <2>5. ledger'.shown = now.shown
    <3> HIDE DEF now
    <3> QED
      BY <2>2, <2>4
  <2>6. ShownIsKnown'
    BY <1>1, <2>1, <2>2, <2>5, ReadShows
  <2>7. ASSUME now.busy PROVE copy'.leaf = tree[jobs[j].target].parent => ~EditOwns(j) /\ ~PromptOwns(j)
    <3>1. \A n : Shows(n) <=> OnPath(tree, n, l.leaf)
      BY <2>1, <2>7, BusyReadIs DEF BusyHolds
    <3>2. Rooted(tree) /\ Len(tree) \in Nat /\ l.leaf \in 0..Len(tree) /\ copy'.leaf = l.leaf
      BY <2>1, <2>2, ReadFits
    <3>3. jobs[j].target \in 1..Len(tree)
      BY <2>1 DEF BusyHolds, TargetsAreStored
    <3>4. ASSUME copy'.leaf = tree[jobs[j].target].parent PROVE ~OnPath(tree, jobs[j].target, l.leaf)
      <4>1. l.leaf \in 0..(jobs[j].target - 1)
        BY <3>2, <3>3, <3>4 DEF Rooted
      <4>2. OnPath(tree, jobs[j].target, l.leaf) => jobs[j].target \in 1..l.leaf
        BY <3>2, PathBelow
      <4> QED
        BY <3>2, <3>3, <4>1, <4>2
    <3> QED
      BY <2>1, <3>1, <3>4 DEF EditOwns, PromptOwns
  <2>8. CASE Release(j) /\ ~ledger'.busy
    BY <1>1, <2>6, <2>8, ReleaseFrees
  <2>9. CASE Release(j) /\ ledger' = now /\ now.busy /\ copy'.leaf = tree[jobs[j].target].parent
    <3>1. TouchesOne(j, <<>>) /\ jobs'[j].op = "none"
      BY <2>9, ReleaseGoes
    <3>2. Writes(<<>>) /\ \A k \in Slots : Passes(k)
      BY <2>7, <2>9, <3>1, GoesPasses DEF TouchesOne
    <3> QED
      BY <1>1, <2>1, <2>2, <2>9, <3>2, BusyReadStays, EmptyLines
  <2>10. CASE Call(j, work, "prompt", 0, <<>>) /\ copy'.leaf = tree[jobs[j].target].parent
    <3>1. PICK t : /\ TouchesOne(j, t) /\ (\A l0 \in Elements(t) : l0.type \in {"reply", "prompt"})
                   /\ jobs'[j].op = "prompt" /\ jobs'[j].was = now.busy /\ jobs'[j].at = "prompt"
      BY <2>1, <2>3, <2>10, CallGoes, EmptyLines
    <3>2. Writes(t) /\ \A l0 \in Elements(t) : l0.type # "navigate"
      BY <3>1 DEF TouchesOne
    <3>3. CASE now.busy
      <4>1. \A k \in Slots : Passes(k)
        BY <2>7, <2>10, <3>1, <3>3, GoesPasses
      <4> QED
        BY <1>1, <2>1, <2>2, <2>5, <3>2, <3>3, <4>1, BusyReadStays
    <3>4. CASE ~now.busy
      <4>1. TargetsAreStored'
        BY <1>1, <3>1, TargetsStay DEF BusyHolds
      <4>2. jobs'[j] # jobs[j] /\ ~jobs'[j].was
        BY <2>1, <3>1, <3>4
      <4> QED
        BY <2>1, <2>6, <3>1, <3>2, <4>1, <4>2, PromptTakesOver
    <3> QED
      BY <3>3, <3>4
  <2> HIDE DEF now, l
  <2> QED
    BY <2>2, <2>4, <2>8, <2>9, <2>10
<1> QED
  BY <1>2, <1>3

\* A line about the transcript that no job awaits.
LEMMA HeardWrites ==
  ASSUME Runs, UNCHANGED <<pending, jobs, toPi>>
  PROVE  Writes(<<>>) /\ (\A j \in Slots : Passes(j)) /\ \A l \in Elements(<<>>) : l.type # "navigate"
BY NothingWrites, EmptyLines DEF Runs, WiresHold, Passes

LEMMA TwoMore ==
  ASSUME NEW s, Pipe(s), NEW d, NEW e, NEW st, st = s \o <<d, e>>
  PROVE  /\ Len(s) \in Nat /\ Len(st) = Len(s) + 2
         /\ \A q \in 1..Len(s) : st[q] = s[q]
         /\ \A q \in 1..Len(st) : q \notin 1..Len(s) => st[q] \in {d, e}
<1>1. s \in Seq(Elements(s) \cup {d, e})
  <2>1. s \in Seq(Elements(s))
    BY DEF Pipe
  <2> QED
    BY <2>1
<1>2. st = Append(Append(s, d), e)
  BY <1>1
<1>3. /\ Len(s) \in Nat /\ Len(st) = Len(s) + 2 /\ st[Len(s) + 1] = d /\ st[Len(s) + 2] = e
      /\ \A q \in 1..Len(s) : st[q] = s[q]
  BY <1>1, <1>2
<1>4. \A q \in 1..(Len(s) + 2) : q \notin 1..Len(s) => q = Len(s) + 1 \/ q = Len(s) + 2
  BY <1>3
<1> QED
  BY <1>3, <1>4

LEMMA TurnStartsStays ==
  ASSUME Runs, BusyHolds, TurnStarts
  PROVE  BusyHolds'
<1>1. /\ UNCHANGED <<piVars, toPi, copy, pending, jobs, drift>> /\ fromPi # <<>> /\ fromPi' = Tail(fromPi)
      /\ Head(fromPi).type = "turn"
  BY DEF TurnStarts, Hears
<1> DEFINE e == Head(fromPi).last
           user == [entry |-> e, stable |-> FALSE]
           answer == [entry |-> Partial, stable |-> FALSE]
           s == ledger.shown
<1>2. ledger'.shown = s \o <<user, answer>>
  BY DEF TurnStarts, Runs, IsLedger, Message
<1>3. Pipe(s)
  BY DEF Runs, Transcript
<1>4. ~user.stable /\ ~answer.stable
  OBVIOUS
<1> HIDE DEF user, answer
<1> HIDE DEF s
<1>6. PICK st : st = s \o <<user, answer>>
  OBVIOUS
<1>7. /\ Len(s) \in Nat /\ Len(st) = Len(s) + 2
      /\ \A q \in 1..Len(s) : st[q] = s[q]
      /\ \A q \in 1..Len(st) : q \notin 1..Len(s) => st[q] \in {user, answer}
  BY <1>3, <1>6, TwoMore
<1>8. /\ Len(st) \in Nat /\ Len(st) >= Len(s) /\ \A q \in 1..Len(s) : st[q] = s[q]
      /\ \A q \in 1..Len(st) : q \notin 1..Len(s) => ~st[q].stable
      /\ Len(st) \in 1..Len(st) /\ Len(st) \notin 1..Len(s)
  BY <1>4, <1>7
<1>9. ledger'.shown = st
  BY <1>2, <1>6
<1>10. ShownIsKnown' /\ Unstable'
  <2>1. tree' = tree
    BY <1>1 DEF piVars
  <2>2. ShownIsKnown'
    BY <1>1, <1>7, <1>8, <1>9, <2>1, LooseShows DEF BusyHolds, s
  <2>3. Unstable'
    BY <1>8, <1>9 DEF Unstable
  <2> QED
    BY <2>2, <2>3
<1>11. TargetsAreStored'
  BY <1>1 DEF TargetsAreStored, BusyHolds, piVars
<1>12. MovesAreOwned'
  BY <1>10 DEF MovesAreOwned
<1>13. agent' = agent
  BY <1>1 DEF piVars
<1>14. BusyIsOwned'
  <2>1. PICK s0 : s0 = fromPi /\ Pipe(s0) /\ s0 # <<>> /\ fromPi' = Tail(s0)
    BY <1>1 DEF Runs
  <2>2. /\ Len(s0) \in Nat \ {0} /\ 1 \in 1..Len(s0) /\ Head(s0) = s0[1] /\ Len(Tail(s0)) \in Nat
        /\ \A q \in 1..Len(s0) : q # 1 => q - 1 \in 1..Len(Tail(s0)) /\ s0[q] = Tail(s0)[q - 1]
    BY <2>1, RestPlaces
  <2>3. agent.turn \/ \E r \in 1..Len(s0) : r > 1 /\ Ends(s0[r])
    <3>1. TurnLine(s0[1])
      BY <1>1, <2>1, <2>2 DEF TurnLine
    <3> QED
      BY <2>1, <2>2, <3>1 DEF Runs, LinesHold, Followed
  <2>4. CASE agent.turn
    BY <1>13, <2>4 DEF BusyIsOwned
  <2>5. ASSUME NEW r \in 1..Len(s0), r > 1, Ends(s0[r]) PROVE BusyIsOwned'
    <3>1. r - 1 \in 1..Len(Tail(s0)) /\ s0[r] = Tail(s0)[r - 1] /\ r - 1 # 0 /\ r - 1 \in 0..Len(Tail(s0))
      BY <2>2, <2>5
    <3>2. CASE s0[r].type = "settled"
      <4>1. Tail(s0)[r - 1] \in Elements(Tail(s0))
        BY <3>1 DEF Elements
      <4> QED
        BY <2>1, <3>1, <3>2, <4>1 DEF BusyIsOwned
    <3>3. CASE IsSilent(s0[r])
      <4>1. Missed(r - 1)'
        BY <2>1, <3>1, <3>3 DEF Missed
      <4> QED
        BY <1>10, <2>1, <3>1, <4>1 DEF BusyIsOwned
    <3> QED
      BY <2>5, <3>2, <3>3 DEF Ends
  <2> QED
    BY <2>3, <2>4, <2>5
<1> QED
  BY <1>10, <1>11, <1>12, <1>14 DEF BusyHolds

LEMMA MessageEndsStays ==
  ASSUME Runs, BusyHolds, MessageEnds
  PROVE  BusyHolds'
<1>1. /\ UNCHANGED <<piVars, toPi, copy, pending, jobs, drift>> /\ fromPi # <<>> /\ fromPi' = Tail(fromPi)
      /\ Head(fromPi).type = "answer"
  BY DEF MessageEnds, Hears
<1>2. ledger'.shown = Completed(ledger.shown, Head(fromPi).last) /\ ledger'.busy = ledger.busy
  BY DEF MessageEnds, Runs, IsLedger
<1>3. /\ Transcript(ledger.shown) /\ Len(ledger.shown) \in Nat
  BY PipeIs DEF Runs, Transcript, Pipe
<1>4. /\ Len(ledger'.shown) = Len(ledger.shown)
      /\ \A i \in 1..Len(ledger.shown) :
           \/ ledger'.shown[i] = ledger.shown[i]
           \/ ~ledger'.shown[i].stable /\ ledger.shown[i].entry = 0
  <2>1. ASSUME NEW s, Transcript(s), NEW e, NEW c, c = Completed(s, e)
        PROVE  /\ Len(c) = Len(s)
               /\ \A i \in 1..Len(s) : c[i] = s[i] \/ (~c[i].stable /\ s[i].entry = 0)
    <3>1. /\ Len(c) = Len(s)
          /\ \A i \in 1..Len(s) : \/ c[i] = s[i]
                                  \/ c[i] = [entry |-> e, stable |-> FALSE] /\ s[i].entry = Partial
      BY <2>1, CompletedIs DEF Message
    <3> QED
      BY <3>1 DEF Partial
  <2> QED
    BY <1>2, <1>3, <2>1
<1>5. tree' = tree
  BY <1>1 DEF piVars
<1>6. ShownIsKnown' /\ (Unstable => Unstable') /\ \A n \in 1..Len(tree) : Shows(n) => Shows(n)'
  BY <1>1, <1>3, <1>4, <1>5, LooseShows DEF BusyHolds
<1>7. Writes(<<>>) /\ (\A j \in Slots : Passes(j)) /\ \A l \in Elements(<<>>) : l.type # "navigate"
  BY <1>1, HeardWrites
<1>8. ~IsSilent(Head(fromPi))
  BY <1>1 DEF IsSilent, Answers
<1> QED
  BY <1>1, <1>2, <1>6, <1>7, <1>8, ShownStaysPlain

LEMMA HeardStays ==
  ASSUME Runs, BusyHolds, LateAnswer \/ CompactionChanges \/ OnUiRequest
  PROVE  BusyHolds'
<1>0. pending \in [Ids -> Slots \cup {Nil}] /\ Pipe(toPi) /\ IsLedger(ledger)
  BY DEF Runs, WiresHold
<1>1. CASE LateAnswer
  <2>1. /\ UNCHANGED <<piVars, toPi, ledger, copy, pending, jobs>> /\ Hears("response")
        /\ drift' = (drift \/ Silent \/ Head(fromPi).command \in {"get_entries", "set_model", "navigate"})
    BY <1>1 DEF LateAnswer
  <2>2. fromPi # <<>> /\ fromPi' = Tail(fromPi) /\ Head(fromPi).type = "response"
    BY <2>1, HearsHow
  <2>3. (IsSilent(Head(fromPi)) => drift') /\ (drift => drift')
    BY <2>1 DEF IsSilent, Silent, Answers
  <2>4. Writes(<<>>) /\ (\A j \in Slots : Passes(j)) /\ \A l \in Elements(<<>>) : l.type # "navigate"
    BY <2>1, HeardWrites
  <2> QED
    BY <2>1, <2>2, <2>3, <2>4, PlainStays
<1>2. CASE CompactionChanges
  <2>1. UNCHANGED <<piVars, toPi, copy, pending, jobs, drift>> /\ Hears("compaction")
        /\ ledger'.shown = ledger.shown /\ ledger'.busy = ledger.busy
    BY <1>0, <1>2 DEF CompactionChanges, IsLedger
  <2>2. fromPi # <<>> /\ fromPi' = Tail(fromPi) /\ Head(fromPi).type = "compaction"
    BY <2>1, HearsHow
  <2>3. ~IsSilent(Head(fromPi))
    BY <2>2 DEF IsSilent, Answers
  <2>4. Writes(<<>>) /\ (\A j \in Slots : Passes(j)) /\ \A l \in Elements(<<>>) : l.type # "navigate"
    BY <2>1, HeardWrites
  <2> QED
    BY <2>1, <2>2, <2>3, <2>4, PlainStays
<1>3. CASE OnUiRequest
  <2> DEFINE r == Head(fromPi).id
  <2>1. UNCHANGED <<piVars, copy, pending, jobs, drift>> /\ Hears("ask")
        /\ (toPi' = toPi \/ toPi' = Sent(<<Reply(r, FALSE)>>))
    BY <1>3 DEF OnUiRequest
  <2>2. ledger'.shown = ledger.shown /\ ledger'.busy = ledger.busy
    BY <1>0, <1>3 DEF OnUiRequest, IsLedger
  <2>3. toPi' = toPi \/ toPi' = toPi \o <<Reply(r, FALSE)>>
    BY <2>1 DEF Sent, Runs
  <2>4. PICK t : Writes(t) /\ \A l \in Elements(t) : l.type # "navigate"
    <3>1. CASE toPi' = toPi
      BY <2>1, <3>1, HeardWrites
    <3>2. CASE toPi' = toPi \o <<Reply(r, FALSE)>>
      <4>1. PICK t : Pipe(t) /\ (\A l \in Elements(t) : l.type = "reply") /\ toPi' = toPi \o t
        BY <3>2, ReplyLines
      <4>2. Writes(t)
        BY <1>0, <2>1, <4>1, SilenceWrites
      <4> QED
        BY <4>1, <4>2
    <3> QED
      BY <2>3, <3>1, <3>2
  <2>5. fromPi # <<>> /\ fromPi' = Tail(fromPi) /\ Head(fromPi).type = "ask"
    BY <2>1, HearsHow
  <2>6. ~IsSilent(Head(fromPi)) /\ \A j \in Slots : Passes(j)
    BY <2>1, <2>5 DEF IsSilent, Answers, Passes
  <2> QED
    BY <2>1, <2>2, <2>4, <2>5, <2>6, PlainStays
<1> QED
  BY <1>1, <1>2, <1>3

LEMMA AgentSettlesStays ==
  ASSUME Runs, BusyHolds, NEW j \in Slots, AgentSettles(j)
  PROVE  BusyHolds'
<1> DEFINE work == [Idle EXCEPT !.op = "reconcile"]
<1>1. /\ Hears("settled") /\ ledger' = NotBusy /\ Call(j, work, "get_entries", copy.upTo, <<>>)
      /\ UNCHANGED <<piVars, copy, drift>>
  BY DEF AgentSettles
<1>2. IsJob(work) /\ work.op = "reconcile"
  BY IdleIsJob, JobChanges DEF Idle
<1> HIDE DEF work
<1>3. Handled /\ tree' = tree
  BY <1>1, HearsHow DEF Handled, piVars
<1>4. PICK t : TouchesOne(j, t) /\ jobs'[j].op = work.op
  BY <1>1, <1>2, <1>3, CallGoes, EmptyLines
<1>5. TargetsAreStored'
  BY <1>2, <1>3, <1>4, TargetsStay DEF BusyHolds
<1>6. ledger'.shown = ledger.shown /\ ~ledger'.busy
  BY <1>1, ShownStays DEF NotBusy, Runs, IsLedger
<1>7. ShownIsKnown'
  BY <1>1, <1>3, <1>6, SameShown DEF BusyHolds
<1> QED
  BY <1>5, <1>6, <1>7, BusyEnds

\* While Pi runs, each step of Core leaves someone to end busy.
LEMMA CoreKeepsBusy ==
  ASSUME QInv, EInv, FInv, BInv, Core \/ Continues \/ TimesOut
  PROVE  BInv'
<1>1. CASE Stop
  <2>1. agent'.state # "up"
    BY <1>1 DEF Stop, QInv, AgentIs
  <2> QED
    BY <2>1 DEF BInv
<1>2. CASE ~Stop /\ agent.state = "up"
  <2>1. Runs /\ BusyHolds /\ session.managed /\ ~PiClosed
    BY <1>2, RunsIs DEF BInv, EInv, PiClosed
  <2>2. CASE Core
    BY <1>2, <2>1, <2>2, CommandsStay, ViewersStay DEF Core, BInv
  <2>3. CASE Continues
    BY <2>1, <2>3, PromptEndsStays, SimpleEndsStays, ModelEndsStays, AbortStays, CompactGoesOnStays,
       ReconcileEndsStays, EditStoppedStays, EditReadsStays, EditMovesStays, EditResendsStays, AgentSettlesStays,
       HeardStays, TurnStartsStays, MessageEndsStays DEF Continues, BInv
  <2>4. CASE TimesOut
    BY <2>1, <2>4, TimesOutStays DEF BInv
  <2> QED
    BY <2>2, <2>3, <2>4
<1>3. CASE ~Stop /\ agent.state # "up"
  <2>1. agent'.state # "up"
    BY <1>3, PiStays
  <2> QED
    BY <2>1 DEF BInv
<1> QED
  BY <1>1, <1>2, <1>3

-----------------------------------------------------------------------------
(* SessionTurn: what a step of Pi leaves to the others *)

\* Two ends of one pipe.
LEMMA Cancels ==
  ASSUME NEW s, NEW a, NEW b, Pipe(s), Pipe(a), Pipe(b), s \o a = s \o b
  PROVE  a = b
<1>1. /\ Len(s) \in Nat /\ Len(a) \in Nat /\ Len(s \o a) = Len(s) + Len(a)
      /\ \A i \in 1..Len(a) : (s \o a)[Len(s) + i] = a[i]
  BY JoinedPipe
<1>2. /\ Len(b) \in Nat /\ Len(s \o b) = Len(s) + Len(b)
      /\ \A i \in 1..Len(b) : (s \o b)[Len(s) + i] = b[i]
  BY JoinedPipe
<1> QED
  BY <1>1, <1>2, SamePipe

\* What is shown stays known, and jobs keep their targets, as the file grows.
LEMMA PiKeepsShown ==
  ASSUME Runs, ShownIsKnown, TargetsAreStored, PiSteps, Begins(tree, tree'), Rooted(tree')
  PROVE  ShownIsKnown' /\ TargetsAreStored'
<1>1. UNCHANGED <<ledger, copy, jobs>> /\ Len(tree) \in Nat /\ Len(tree') \in Nat
  BY DEF PiSteps, Runs, FileHolds, Rooted
<1>2. \A n \in 1..Len(tree) : n \in 1..Len(tree') /\ tree'[n] = tree[n]
  BY <1>1 DEF Begins
<1>3. ShownIsKnown'
  BY <1>1, <1>2 DEF ShownIsKnown
<1>4. TargetsAreStored'
  BY <1>1, <1>2 DEF TargetsAreStored
<1> QED
  BY <1>3, <1>4

\* An unread answer, as Pi goes on.
LEMMA UnreadGrows ==
  ASSUME Runs, NEW t, PiSays(t), Owes(t), \A n : OnPath(tree, n, leaf) => OnPath(tree', n, leaf'),
         NEW n, NEW p \in 0..Len(fromPi), Unread(n, p)
  PROVE  Unread(n, p)'
<1>1. /\ copy' = copy /\ Pipe(t) /\ Pipe(fromPi) /\ fromPi' = fromPi \o t /\ Rooted(tree) /\ Rooted(tree')
      /\ Begins(tree, tree') /\ Len(tree) \in Nat /\ Len(tree') \in Nat
  BY DEF PiSays, PiSteps, Runs, FileHolds, Rooted
<1>2. /\ n \in 1..Len(tree) /\ n > copy.upTo /\ tree[n].kind = "answer" /\ OnPath(tree, n, leaf)
      /\ \A q \in 1..Len(fromPi) : IsRead(fromPi[q]) =>
           IF q > p THEN n <= fromPi[q].last /\ OnPath(tree, n, fromPi[q].leaf) ELSE fromPi[q].last < n
  BY DEF Unread
<1>3. n \in 1..Len(tree') /\ tree'[n] = tree[n] /\ n <= Len(tree')
  BY <1>1, <1>2 DEF Begins
<1>4. ASSUME NEW q \in 1..Len(fromPi'), IsRead(fromPi'[q])
      PROVE  IF q > p THEN n <= fromPi'[q].last /\ OnPath(tree', n, fromPi'[q].leaf) ELSE fromPi'[q].last < n
  <2> DEFINE st == fromPi \o t
  <2>1. /\ Len(fromPi) \in Nat
        /\ \/ q \in 1..Len(fromPi) /\ fromPi'[q] = fromPi[q]
           \/ q > Len(fromPi) /\ fromPi'[q] \in Elements(t)
    <3>1. \A i \in 1..Len(st) : \/ i \in 1..Len(fromPi) /\ st[i] = fromPi[i]
                                \/ i > Len(fromPi) /\ i - Len(fromPi) \in 1..Len(t) /\ st[i] = t[i - Len(fromPi)]
      BY <1>1, JoinedPlaces
    <3>2. Len(fromPi) \in Nat /\ q \in 1..Len(st) /\ fromPi' = st
      BY <1>1, JoinedPipe
    <3> HIDE DEF st
    <3> QED
      BY <3>1, <3>2 DEF Elements
  <2>2. CASE q \in 1..Len(fromPi) /\ fromPi'[q] = fromPi[q]
    <3>1. fromPi[q] \in Elements(fromPi) /\ IsRead(fromPi[q])
      BY <1>4, <2>2 DEF Elements
    <3>2. fromPi[q].leaf \in 0..Len(tree)
      BY <3>1 DEF Runs, LinesHold, ReadHolds, FileHolds, Rooted, CopyHolds
    <3>3. OnPath(tree, n, fromPi[q].leaf) => OnPath(tree', n, fromPi[q].leaf)
      BY <1>1, <3>2, BranchGrows
    <3> QED
      BY <1>2, <2>2, <3>1, <3>3
  <2>3. CASE q > Len(fromPi) /\ fromPi'[q] \in Elements(t)
    <3>1. fromPi'[q].last = Len(tree') /\ fromPi'[q].leaf = leaf'
      BY <1>4, <2>3 DEF PiSays, Fits, Owes
    <3>2. q > p
      BY <2>1, <2>3
    <3>3. OnPath(tree', n, leaf')
      BY <1>2
    <3> QED
      BY <1>3, <3>1, <3>2, <3>3
  <2> QED
    BY <2>1, <2>2, <2>3
<1>5. OnPath(tree', n, leaf')
  BY <1>2
<1>6. /\ n \in 1..Len(tree') /\ n > copy'.upTo /\ tree'[n].kind = "answer"
  BY <1>1, <1>2, <1>3
<1> QED
  BY <1>4, <1>5, <1>6 DEF Unread

\* A turn that ends without a word: no read that is on its way tells of its answer.
LEMMA SilentIsMissed ==
  ASSUME Runs, NEW t, PiSays(t), EndsSilently(t)
  PROVE  \E p \in 0..Len(fromPi') : Missed(p)' /\ \E n : Unread(n, p)'
<1>1. PICK l : t = <<l>> /\ IsSilent(l)
  BY DEF EndsSilently
<1>2. /\ leaf' = Len(tree') /\ Len(tree') = Len(tree) + 1 /\ tree'[Len(tree')].kind = "answer"
      /\ copy' = copy /\ Pipe(fromPi) /\ Rooted(tree') /\ Len(tree) \in Nat /\ copy.upTo \in 0..Len(tree)
  BY DEF EndsSilently, PiSays, PiSteps, Runs, FileHolds, Rooted, CopyHolds
<1>3. fromPi' = fromPi \o <<l>>
  BY <1>1 DEF PiSays
<1>0. PICK p, n : p = Len(fromPi') /\ n = Len(tree')
  OBVIOUS
<1>4. /\ Len(fromPi) \in Nat /\ p = Len(fromPi) + 1 /\ p \in 1..Len(fromPi') /\ fromPi'[p] = l
      /\ \A q \in 1..Len(fromPi') : (q \in 1..Len(fromPi) /\ fromPi'[q] = fromPi[q]) \/ q = p
  BY <1>0, <1>2, <1>3, OnePlace
<1>5. n \in 1..Len(tree') /\ n > copy.upTo /\ n > Len(tree)
  BY <1>0, <1>2
<1>6. OnPath(tree', n, leaf')
  <2>1. OnPath(tree', n, n)
    <3>1. \A k : OnPath(tree', k, n) <=> OnPath(tree', k, tree'[n].parent) \/ k = n
      BY <1>2, <1>5, BranchStep
    <3> QED
      BY <3>1
  <2> QED
    BY <1>0, <1>2, <2>1
<1>7. ASSUME NEW q \in 1..Len(fromPi'), IsRead(fromPi'[q])
      PROVE  ~(q > p) /\ fromPi'[q].last < n
  <2>1. ~IsRead(l)
    BY <1>1 DEF IsSilent, IsRead, Answers
  <2>2. q \in 1..Len(fromPi) /\ fromPi'[q] = fromPi[q]
    BY <1>4, <1>7, <2>1
  <2>3. fromPi[q] \in Elements(fromPi) /\ IsRead(fromPi[q])
    BY <1>7, <2>2 DEF Elements
  <2>4. fromPi[q].last \in copy.upTo..Len(tree)
    BY <2>3 DEF Runs, LinesHold, ReadHolds
  <2> QED
    <3>1. fromPi'[q].last \in Nat /\ fromPi'[q].last <= Len(tree)
      BY <1>2, <2>2, <2>4
    <3>2. ~(q > p)
      BY <1>4, <2>2
    <3> QED
      BY <1>2, <1>5, <3>1, <3>2
<1>8. Unread(n, p)'
  BY <1>0, <1>2, <1>5, <1>6, <1>7 DEF Unread
<1>9. Missed(p)'
  <2>1. p # 0
    BY <1>4
  <2> QED
    BY <1>1, <1>4, <2>1 DEF Missed
<1>10. p \in 0..Len(fromPi')
  BY <1>4
<1> QED
  BY <1>8, <1>9, <1>10

\* A prompt that has not been handled is not what this answer is for.
LEMMA OwedAnswer ==
  ASSUME Runs, NEW t, PiSays(t), Owes(t), NEW l \in Elements(t), l.type = "response",
         NEW j \in Slots, jobs[j].at = "prompt", pending[l.id] = j
  PROVE  /\ l.command = "prompt"
         /\ Reads /\ Head(toPi).type # "reply" /\ l.id = Head(toPi).id
<1>1. l.id \in Ids /\ Owned(l.id, l.command)
  BY DEF PiSays, Fits
<1>2. l.command = "prompt"
  <2>1. pending[l.id] # Nil
    BY NilIsNobody
  <2> QED
    BY <1>1, <2>1 DEF Owned
<1> QED
  BY <1>2 DEF Owes

LEMMA PiKeepsPrompts ==
  ASSUME Runs, NEW t, PiSays(t), Owes(t), ~agent'.turn, NEW j \in Slots
  PROVE  /\ PromptOwns(j) => PromptOwns(j)'
         /\ Reads => (PromptFollows(j, 1) => PromptOwns(j)')
<1>1. /\ UNCHANGED <<jobs, pending>> /\ Pipe(t) /\ Pipe(fromPi) /\ fromPi' = fromPi \o t
  BY DEF PiSays, PiSteps, Runs
<1>2. Elements(fromPi') = Elements(fromPi) \cup Elements(t)
  BY <1>1, JoinedLines
<1>3. ASSUME jobs[j].at = "prompt", NEW l \in Elements(t), l.type = "response", pending[l.id] = j
      PROVE  ~l.ok
  <2>1. l.command = "prompt"
    BY <1>3, OwedAnswer
  <2> QED
    BY <1>3, <2>1 DEF Owes, Answers
<1>4. PromptOwns(j) => PromptOwns(j)'
  BY <1>1, <1>2, <1>3 DEF PromptOwns
<1>5. PromptFollows(j, 1) => PromptOwns(j)'
  BY <1>1, <1>2, <1>3 DEF PromptFollows, PromptOwns
<1> QED
  BY <1>4, <1>5

LEMMA PiKeepsFollowers ==
  ASSUME Runs, NEW t, PiSays(t), Owes(t), NEW j \in Slots, NEW k \in 1..Len(toPi), NEW m \in 1..Len(toPi'),
         \/ toPi' = toPi /\ m = k
         \/ Reads /\ k = m + 1,
         PromptFollows(j, k)
  PROVE  PromptFollows(j, m)'
<1>1. /\ UNCHANGED <<jobs, pending>> /\ Pipe(t) /\ Pipe(fromPi) /\ Pipe(toPi) /\ fromPi' = fromPi \o t
  BY DEF PiSays, PiSteps, Runs
<1>2. Elements(fromPi') = Elements(fromPi) \cup Elements(t)
  BY <1>1, JoinedLines
<1>3. /\ jobs[j].op = "prompt" /\ jobs[j].at = "prompt" /\ ~jobs[j].was
      /\ \A l \in Elements(fromPi) : l.type = "response" => pending[l.id] # j
      /\ \A i \in 1..k : toPi[i].type # "reply" => pending[toPi[i].id] # j
  BY DEF PromptFollows
<1>4. CASE toPi' = toPi /\ m = k
  <2>1. ASSUME NEW l \in Elements(t), l.type = "response" PROVE pending[l.id] # j
    <3> SUFFICES ASSUME pending[l.id] = j PROVE FALSE
      OBVIOUS
    <3>1. Reads
      BY <1>3, <2>1, OwedAnswer
    <3>2. toPi # <<>> /\ Len(Tail(toPi)) = Len(toPi) - 1 /\ Len(toPi) \in Nat
      BY <1>1, <3>1, RestPipe DEF Reads
    <3> QED
      BY <1>4, <3>1, <3>2 DEF Reads
  <2> QED
    BY <1>1, <1>2, <1>3, <1>4, <2>1 DEF PromptFollows
<1>5. CASE Reads /\ k = m + 1
  <2>1. /\ Head(toPi) = toPi[1] /\ Len(toPi) \in Nat /\ Len(toPi') = Len(toPi) - 1
        /\ \A i \in 1..Len(toPi) - 1 : toPi'[i] = toPi[i + 1]
    BY <1>1, <1>5, RestPipe DEF Reads
  <2>2. 1 \in 1..k
    BY <1>5, <2>1
  <2>3. ASSUME NEW l \in Elements(t), l.type = "response" PROVE pending[l.id] # j
    <3> SUFFICES ASSUME pending[l.id] = j PROVE FALSE
      OBVIOUS
    <3>1. Head(toPi).type # "reply" /\ l.id = Head(toPi).id
      BY <1>3, <2>3, OwedAnswer
    <3> QED
      BY <1>3, <2>1, <2>2, <3>1
  <2>4. ASSUME NEW i \in 1..m, toPi'[i].type # "reply" PROVE pending[toPi'[i].id] # j
    <3>1. toPi'[i] = toPi[i + 1] /\ i + 1 \in 1..k
      BY <1>5, <2>1
    <3> QED
      BY <1>3, <2>4, <3>1
  <2> QED
    BY <1>1, <1>2, <1>3, <2>3, <2>4 DEF PromptFollows
<1> QED
  BY <1>4, <1>5

\* Whatever Pi does, someone owes the end of a busy conversation.
LEMMA PiKeepsBusyHolds ==
  ASSUME Runs, BusyHolds, NEW t, PiSays(t), Owes(t)
  PROVE  BusyHolds'
<1>1. /\ UNCHANGED <<ledger, copy, jobs, pending>> /\ (drift => drift') /\ Pipe(t) /\ Pipe(fromPi) /\ Pipe(toPi)
      /\ fromPi' = fromPi \o t /\ PiSteps /\ Begins(tree, tree') /\ Rooted(tree')
  BY DEF PiSays, PiSteps, Runs
<1>2. ShownIsKnown' /\ TargetsAreStored'
  BY <1>1, PiKeepsShown DEF BusyHolds
<1>3. Elements(fromPi') = Elements(fromPi) \cup Elements(t)
  BY <1>1, JoinedLines
<1>4. /\ Len(fromPi) \in Nat /\ Len(fromPi') \in Nat /\ Len(fromPi) <= Len(fromPi')
      /\ \A q \in 1..Len(fromPi) : fromPi'[q] = fromPi[q]
  <2>1. /\ Len(fromPi) \in Nat /\ Len(t) \in Nat /\ Len(fromPi \o t) = Len(fromPi) + Len(t)
        /\ \A q \in 1..Len(fromPi) : (fromPi \o t)[q] = fromPi[q]
    BY <1>1, JoinedPipe
  <2> QED
    BY <1>1, <2>1
<1>5. /\ Unstable => Unstable'
      /\ \A j \in Slots : EditOwns(j) => EditOwns(j)'
  BY <1>1 DEF Unstable, EditOwns, Shows
<1>6. ASSUME NEW p \in 0..Len(fromPi), Missed(p) PROVE Missed(p)' /\ p \in 0..Len(fromPi')
  BY <1>1, <1>4, <1>6 DEF Missed
<1>7. BusyIsOwned'
  <2> SUFFICES ASSUME ledger'.busy, ~agent'.turn, \A l \in Elements(fromPi') : l.type # "settled"
               PROVE  \/ \E p \in 0..Len(fromPi') : Missed(p)' /\ (Unstable' \/ \E n : Unread(n, p)')
                      \/ \E j \in Slots : EditOwns(j)' \/ PromptOwns(j)'
    BY DEF BusyIsOwned
  <2>1. CASE agent.turn
    <3>1. EndsSilently(t)
      BY <1>3, <2>1 DEF Owes
    <3> QED
      BY <3>1, SilentIsMissed
  <2>2. ASSUME NEW p \in 0..Len(fromPi), Missed(p), Unstable
        PROVE  \E r \in 0..Len(fromPi') : Missed(r)' /\ Unstable'
    BY <1>5, <1>6, <2>2
  <2>3. ASSUME NEW p \in 0..Len(fromPi), Missed(p), NEW n, Unread(n, p)
        PROVE  \/ \E r \in 0..Len(fromPi') : Missed(r)' /\ (Unstable' \/ \E i : Unread(i, r)')
               \/ \E j \in Slots : EditOwns(j)' \/ PromptOwns(j)'
    <3>1. CASE \A i : OnPath(tree, i, leaf) => OnPath(tree', i, leaf')
      <4>1. Unread(n, p)'
        BY <2>3, <3>1, UnreadGrows
      <4> QED
        BY <1>6, <2>3, <4>1
    <3>2. CASE Reads /\ Head(toPi).type = "navigate"
      <4>1. 1 \in 1..Len(toPi) /\ toPi[1].type = "navigate"
        <5>1. Len(toPi) \in Nat \ {0} /\ Head(toPi) = toPi[1]
          BY <1>1, <3>2, RestPipe DEF Reads
        <5> QED
          BY <3>2, <5>1
      <4>2. Unstable \/ \E j \in Slots : EditOwns(j) \/ PromptFollows(j, 1)
        BY <1>1, <4>1 DEF BusyHolds, MovesAreOwned
      <4>3. CASE Unstable
        BY <2>2, <2>3, <4>3
      <4>4. CASE \E j \in Slots : EditOwns(j) \/ PromptFollows(j, 1)
        BY <1>5, <3>2, <4>4, PiKeepsPrompts
      <4> QED
        BY <4>2, <4>3, <4>4
    <3> QED
      BY <3>1, <3>2 DEF Owes
  <2>4. ASSUME NEW j \in Slots, EditOwns(j) \/ PromptOwns(j) PROVE EditOwns(j)' \/ PromptOwns(j)'
    BY <1>5, <2>4, PiKeepsPrompts
  <2>5. \/ agent.turn \/ \E l \in Elements(fromPi) : l.type = "settled"
        \/ \E p \in 0..Len(fromPi) : Missed(p) /\ (Unstable \/ \E n : Unread(n, p))
        \/ \E j \in Slots : EditOwns(j) \/ PromptOwns(j)
    BY <1>1 DEF BusyHolds, BusyIsOwned
  <2>6. CASE \E p \in 0..Len(fromPi) : Missed(p) /\ (Unstable \/ \E n : Unread(n, p))
    BY <2>2, <2>3, <2>6
  <2>7. CASE \E j \in Slots : EditOwns(j) \/ PromptOwns(j)
    BY <2>4, <2>7
  <2> QED
    BY <1>3, <2>1, <2>5, <2>6, <2>7
<1>8. MovesAreOwned'
  <2> SUFFICES ASSUME NEW m \in 1..Len(toPi'), toPi'[m].type = "navigate", ledger'.busy
               PROVE  Unstable' \/ \E j \in Slots : EditOwns(j)' \/ PromptFollows(j, m)'
    BY DEF MovesAreOwned
  <2>1. PICK k \in 1..Len(toPi) : /\ toPi[k].type = "navigate"
                                  /\ (toPi' = toPi /\ m = k) \/ (Reads /\ k = m + 1)
    <3>1. CASE toPi' = toPi
      BY <3>1
    <3>2. CASE Reads
      <4>1. /\ Len(toPi) \in Nat /\ Len(toPi') = Len(toPi) - 1
            /\ \A i \in 1..Len(toPi) - 1 : toPi'[i] = toPi[i + 1]
        BY <1>1, <3>2, RestPipe DEF Reads
      <4>2. m + 1 \in 1..Len(toPi) /\ toPi[m + 1].type = "navigate"
        BY <4>1
      <4> QED
        BY <3>2, <4>2
    <3> QED
      BY <3>1, <3>2 DEF Owes
  <2>2. Unstable \/ \E j \in Slots : EditOwns(j) \/ PromptFollows(j, k)
    BY <1>1, <2>1 DEF BusyHolds, MovesAreOwned
  <2>3. ASSUME NEW j \in Slots, PromptFollows(j, k) PROVE PromptFollows(j, m)'
    BY <2>1, <2>3, PiKeepsFollowers
  <2> QED
    BY <1>5, <2>2, <2>3
<1> QED
  BY <1>2, <1>7, <1>8 DEF BusyHolds

\* Pi handles a line, and answers it last.
LEMMA ReadsIs ==
  ASSUME Runs, NEW type, PiReads(type)
  PROVE  Reads /\ Head(toPi).type = type
BY DEF PiReads, Reads

LEMMA AnswerOwes ==
  ASSUME Runs, NEW type, PiReads(type), type # "reply", NEW k, fromPi' = Append(fromPi, k),
         k.type = "response", k.id = Head(toPi).id, k.command = type,
         type = "prompt" /\ k.ok => agent'.turn,
         agent.turn => agent'.turn \/ EndsSilently(<<k>>),
         KeepsBranch \/ type = "navigate",
         type = "get_entries" => k.leaf = leaf'
  PROVE  PiOwes
<1>1. Reads /\ Head(toPi).type = type
  BY ReadsIs
<1>2. fromPi' = fromPi \o <<k>> /\ Pipe(<<k>>) /\ Elements(<<k>>) = {k}
  BY AppendedPipe, SinglePipe, SingleLines DEF Runs
<1>3. PICK t : t = <<k>>
  OBVIOUS
<1>4. Owes(t)
  <2>1. Elements(t) = {k}
    BY <1>2, <1>3
  <2>2. agent.turn => agent'.turn \/ EndsSilently(t)
    BY <1>3
  <2>3. \A l \in Elements(t) : IsRead(l) => l.leaf = leaf'
    BY <2>1 DEF IsRead, Answers
  <2>4. \A l \in Elements(t) : Answers(l, "prompt") /\ l.ok => agent'.turn
    BY <2>1 DEF Answers
  <2>5. \A l \in Elements(t) : l.type = "response" =>
          Reads /\ Head(toPi).type # "reply" /\ l.id = Head(toPi).id /\ l.command = Head(toPi).type
    BY <1>1, <2>1
  <2>6. \/ \A n : OnPath(tree, n, leaf) => OnPath(tree', n, leaf')
        \/ Reads /\ Head(toPi).type = "navigate"
    BY <1>1 DEF KeepsBranch
  <2> QED
    BY <1>1, <2>2, <2>3, <2>4, <2>5, <2>6 DEF Owes
<1>5. Pipe(t) /\ fromPi' = fromPi \o t
  BY <1>2, <1>3
<1> QED
  BY <1>4, <1>5 DEF PiOwes

LEMMA BranchIsKept ==
  ASSUME Runs
  PROVE  /\ UNCHANGED <<tree, leaf>> => KeepsBranch
         /\ \A kind : Stored(kind) => KeepsBranch
<1>1. ASSUME UNCHANGED <<tree, leaf>> PROVE KeepsBranch
  BY <1>1 DEF KeepsBranch
<1>2. ASSUME NEW kind, Stored(kind) PROVE KeepsBranch
  <2>1. /\ Pipe(tree') /\ Rooted(tree') /\ Begins(tree, tree') /\ Len(tree') \in 1..Len(tree')
        /\ leaf' = Len(tree') /\ tree'[Len(tree')].parent = leaf
    BY <1>2, StoredIs
  <2>2. Rooted(tree) /\ leaf \in 0..Len(tree)
    BY DEF Runs, FileHolds
  <2>3. \A n : OnPath(tree', n, leaf) <=> OnPath(tree, n, leaf)
    BY <2>1, <2>2, BranchGrows
  <2>4. \A n : OnPath(tree', n, Len(tree')) <=> OnPath(tree', n, tree'[Len(tree')].parent) \/ n = Len(tree')
    BY <2>1, BranchStep
  <2> QED
    BY <2>1, <2>3, <2>4 DEF KeepsBranch
<1> QED
  BY <1>1, <1>2

\* Pi says something of its own accord, and answers nothing but a compaction.
LEMMA OtherOwes ==
  ASSUME Runs, NEW t, Pipe(t), fromPi' = fromPi \o t, toPi' = toPi \/ Reads,
         \A l \in Elements(t) : l.type = "response" => l.command = "compact",
         agent.turn => agent'.turn \/ \E l \in Elements(t) : l.type = "settled", KeepsBranch
  PROVE  PiOwes
<1>1. \A l \in Elements(t) : ~IsRead(l) /\ ~Answers(l, "prompt")
  BY DEF IsRead, Answers
<1>2. Owes(t)
  BY <1>1 DEF Owes, KeepsBranch
<1> QED
  BY <1>2 DEF PiOwes

LEMMA PiPromptOwes ==
  ASSUME QInv, Runs, PiPrompt
  PROVE  PiOwes
<1>1. PiReads("prompt") /\ Reads /\ Head(toPi).type = "prompt" /\ AgentIs /\ Pipe(fromPi)
  BY ReadsIs DEF PiPrompt, QInv, Runs
<1>2. CASE fromPi' = Append(fromPi, Response(Head(toPi), FALSE)) /\ UNCHANGED piVars
  <2> DEFINE k == Response(Head(toPi), FALSE)
  <2>1. k.type = "response" /\ k.id = Head(toPi).id /\ k.command = "prompt" /\ ~k.ok
    BY <1>1 DEF Response, Line
  <2>2. fromPi' = Append(fromPi, k)
    BY <1>2
  <2> HIDE DEF k
  <2>3. agent' = agent /\ KeepsBranch
    BY <1>2, BranchIsKept DEF piVars
  <2> QED
    BY <1>1, <2>1, <2>2, <2>3, AnswerOwes
<1>3. CASE /\ Stored("user") /\ agent' = [agent EXCEPT !.turn = TRUE]
           /\ fromPi' = fromPi \o <<Newest("turn"), Response(Head(toPi), TRUE)>>
  <2> DEFINE d == Newest("turn")
             e == Response(Head(toPi), TRUE)
  <2>1. d.type = "turn" /\ e.type = "response" /\ e.id = Head(toPi).id /\ e.command = "prompt"
    BY <1>1 DEF Response, Line, Newest
  <2>2. fromPi' = fromPi \o <<d, e>>
    BY <1>3
  <2>3. agent'.turn /\ KeepsBranch
    BY <1>1, <1>3, BranchIsKept DEF AgentIs
  <2> HIDE DEF d, e
  <2>4. PICK t : t = <<d, e>>
    OBVIOUS
  <2>5. Pipe(t) /\ Elements(t) = {d, e} /\ fromPi' = fromPi \o t
    BY <2>2, <2>4, TwoLines
  <2>6. Owes(t)
    <3>1. \A l \in Elements(t) : l.type = "response" =>
            Reads /\ Head(toPi).type # "reply" /\ l.id = Head(toPi).id /\ l.command = Head(toPi).type
      BY <1>1, <2>1, <2>5
    <3>2. \A l \in Elements(t) : ~IsRead(l)
      BY <2>1, <2>5 DEF IsRead, Answers
    <3> QED
      BY <1>1, <2>3, <3>1, <3>2 DEF Owes, KeepsBranch
  <2> QED
    BY <2>5, <2>6 DEF PiOwes
<1>4. CASE /\ agent.turn /\ agent' = [agent EXCEPT !.queued = 1]
           /\ fromPi' = Append(fromPi, Response(Head(toPi), TRUE)) /\ UNCHANGED <<tree, leaf>>
  <2> DEFINE k == Response(Head(toPi), TRUE)
  <2>1. k.type = "response" /\ k.id = Head(toPi).id /\ k.command = "prompt"
    BY <1>1 DEF Response, Line
  <2>2. fromPi' = Append(fromPi, k)
    BY <1>4
  <2> HIDE DEF k
  <2>3. agent'.turn /\ KeepsBranch
    BY <1>1, <1>4, BranchIsKept DEF AgentIs
  <2> QED
    BY <1>1, <2>1, <2>2, <2>3, AnswerOwes
<1> QED
  BY <1>2, <1>3, <1>4 DEF PiPrompt

\* A line that Pi answers, and that is all.
LEMMA PlainAnswerOwes ==
  ASSUME Runs, NEW type, PiReads(type), type \notin {"reply", "prompt", "get_entries"},
         NEW ok, fromPi' = Append(fromPi, Response(Head(toPi), ok)), agent.turn => agent'.turn,
         KeepsBranch \/ type = "navigate"
  PROVE  PiOwes
<1> DEFINE k == Response(Head(toPi), ok)
<1>1. Head(toPi).type = type
  BY ReadsIs
<1>2. k.type = "response" /\ k.id = Head(toPi).id /\ k.command = type
  BY <1>1, ResponseIs
<1>3. fromPi' = Append(fromPi, k)
  OBVIOUS
<1> HIDE DEF k
<1> QED
  BY <1>2, <1>3, AnswerOwes

LEMMA PiClearQueueOwes ==
  ASSUME QInv, Runs, PiClearQueue
  PROVE  PiOwes
<1>1. PiReads("clear_queue") /\ UNCHANGED <<tree, leaf>> /\ AgentIs /\ agent' = [agent EXCEPT !.queued = 0]
  BY DEF PiClearQueue, QInv
<1>2. PICK ok \in BOOLEAN : fromPi' = Append(fromPi, Response(Head(toPi), ok))
  BY DEF PiClearQueue
<1>3. agent'.turn = agent.turn
  BY <1>1 DEF AgentIs
<1>4. KeepsBranch
  BY <1>1, BranchIsKept
<1> QED
  BY <1>1, <1>2, <1>3, <1>4, PlainAnswerOwes

LEMMA PiTuneOwes ==
  ASSUME QInv, Runs, PiTune
  PROVE  PiOwes
<1>1. PiReads("tune") /\ UNCHANGED <<tree, leaf, agent>>
  BY DEF PiTune, piVars
<1>2. PICK ok \in BOOLEAN : fromPi' = Append(fromPi, Response(Head(toPi), ok))
  BY DEF PiTune
<1>3. KeepsBranch
  BY <1>1, BranchIsKept
<1> QED
  BY <1>1, <1>2, <1>3, PlainAnswerOwes

LEMMA PiHearsReplyOwes ==
  ASSUME QInv, Runs, PiHearsReply
  PROVE  PiOwes
<1>1. /\ PiReads("reply") /\ UNCHANGED <<tree, leaf>> /\ fromPi' = fromPi
      /\ agent'.turn = agent.turn
  BY DEF PiHearsReply, QInv, AgentIs
<1>2. Reads /\ KeepsBranch
  BY <1>1, ReadsIs, BranchIsKept
<1>3. Pipe(<<>>) /\ fromPi' = fromPi \o <<>> /\ Elements(<<>>) = {}
  BY <1>1, EmptyPipe, SingleLines, ConcatEmptySeq DEF Runs, Pipe
<1> QED
  BY <1>1, <1>2, <1>3, OtherOwes

LEMMA PiAsksOwes ==
  ASSUME QInv, Runs, NEW r, PiAsks(r)
  PROVE  PiOwes
<1> DEFINE k == Line("ask", r)
<1>1. /\ UNCHANGED <<tree, leaf, toPi>> /\ fromPi' = Append(fromPi, k) /\ agent'.turn = agent.turn
  BY DEF PiAsks, QInv, AgentIs
<1>2. k.type = "ask"
  BY LineTypes
<1> HIDE DEF k
<1>3. fromPi' = fromPi \o <<k>> /\ Pipe(<<k>>) /\ Elements(<<k>>) = {k}
  BY <1>1, AppendedPipe, SinglePipe, SingleLines DEF Runs
<1>4. KeepsBranch
  BY <1>1, BranchIsKept
<1> QED
  BY <1>1, <1>2, <1>3, <1>4, OtherOwes

LEMMA PiCompactOwes ==
  ASSUME QInv, Runs, PiCompact
  PROVE  PiOwes
<1>1. PiReads("compact") /\ Reads /\ UNCHANGED <<tree, leaf>> /\ KeepsBranch
  BY ReadsIs, BranchIsKept DEF PiCompact
<1>2. CASE /\ agent' = [agent EXCEPT !.packing = Head(toPi).id]
           /\ fromPi' = Append(fromPi, Line("compaction", Nil))
  <2> DEFINE k == Line("compaction", Nil)
  <2>1. k.type = "compaction" /\ fromPi' = Append(fromPi, k)
    BY <1>2, LineTypes
  <2>2. agent'.turn = agent.turn
    BY <1>2 DEF QInv, AgentIs
  <2> HIDE DEF k
  <2>3. fromPi' = fromPi \o <<k>> /\ Pipe(<<k>>) /\ Elements(<<k>>) = {k}
    BY <2>1, AppendedPipe, SinglePipe, SingleLines DEF Runs
  <2> QED
    BY <1>1, <2>1, <2>2, <2>3, OtherOwes
<1>3. CASE agent' = agent /\ fromPi' = Append(fromPi, Response(Head(toPi), FALSE))
  <2>1. PICK ok : ok = FALSE
    OBVIOUS
  <2>2. fromPi' = Append(fromPi, Response(Head(toPi), ok))
    BY <1>3, <2>1
  <2>3. agent.turn => agent'.turn
    BY <1>3
  <2> QED
    BY <1>1, <2>2, <2>3, PlainAnswerOwes
<1> QED
  BY <1>2, <1>3 DEF PiCompact

LEMMA PiCompactedOwes ==
  ASSUME QInv, Runs, PiCompacted
  PROVE  PiOwes
<1> DEFINE off == [Line("compaction", Nil) EXCEPT !.ok = FALSE]
<1>1. /\ UNCHANGED <<tree, leaf, toPi>> /\ agent'.turn = agent.turn
  BY DEF PiCompacted, QInv, AgentIs
<1>2. PICK ok \in BOOLEAN : fromPi' = fromPi \o <<off, Response(Line("compact", agent.packing), ok)>>
  BY DEF PiCompacted
<1> DEFINE done == Response(Line("compact", agent.packing), ok)
<1>3. off.type = "compaction" /\ done.type = "response" /\ done.command = "compact"
  BY DEF Line, Response
<1>4. fromPi' = fromPi \o <<off, done>>
  BY <1>2
<1> HIDE DEF off, done
<1>5. PICK t : t = <<off, done>>
  OBVIOUS
<1>6. Pipe(t) /\ Elements(t) = {off, done} /\ fromPi' = fromPi \o t
  BY <1>4, <1>5, TwoLines
<1>7. \A l \in Elements(t) : l.type = "response" => l.command = "compact"
  BY <1>3, <1>6
<1>8. KeepsBranch
  BY <1>1, BranchIsKept
<1> QED
  BY <1>1, <1>6, <1>7, <1>8, OtherOwes

LEMMA PiEntriesOwes ==
  ASSUME QInv, Runs, PiEntries
  PROVE  PiOwes
<1> DEFINE k == [Response(Head(toPi), TRUE) EXCEPT !.entry = Head(toPi).entry, !.last = Len(tree), !.leaf = leaf]
<1>1. /\ PiReads("get_entries") /\ UNCHANGED <<tree, leaf, agent>> /\ fromPi' = Append(fromPi, k)
      /\ Head(toPi).type = "get_entries"
  BY ReadsIs DEF PiEntries, piVars
<1>2. k.type = "response" /\ k.id = Head(toPi).id /\ k.command = "get_entries" /\ k.leaf = leaf
  BY <1>1 DEF Response, Line
<1> HIDE DEF k
<1>3. KeepsBranch
  BY <1>1, BranchIsKept
<1> QED
  BY <1>1, <1>2, <1>3, AnswerOwes

LEMMA PiNavigateOwes ==
  ASSUME QInv, Runs, PiNavigate
  PROVE  PiOwes
<1>1. PICK ok : fromPi' = Append(fromPi, Response(Head(toPi), ok))
  BY DEF PiNavigate
<1>2. PiReads("navigate") /\ agent' = agent
  BY DEF PiNavigate
<1> QED
  BY <1>1, <1>2, PlainAnswerOwes

LEMMA PiSetModelOwes ==
  ASSUME QInv, Runs, PiSetModel
  PROVE  PiOwes
<1> DEFINE k == [Response(Head(toPi), TRUE) EXCEPT !.last = Len(tree')]
<1>1. PiReads("set_model") /\ agent' = agent /\ Head(toPi).type = "set_model"
  BY ReadsIs DEF PiSetModel
<1>2. CASE Stored("model") /\ fromPi' = Append(fromPi, k)
  <2>1. k.type = "response" /\ k.id = Head(toPi).id /\ k.command = "set_model"
    BY <1>1 DEF Response, Line
  <2>2. fromPi' = Append(fromPi, k)
    BY <1>2
  <2> HIDE DEF k
  <2>3. KeepsBranch
    BY <1>2, BranchIsKept
  <2> QED
    BY <1>1, <2>1, <2>2, <2>3, AnswerOwes
<1>3. CASE UNCHANGED <<tree, leaf>> /\ fromPi' = Append(fromPi, Response(Head(toPi), FALSE))
  <2>1. PICK ok : ok = FALSE
    OBVIOUS
  <2>2. fromPi' = Append(fromPi, Response(Head(toPi), ok))
    BY <1>3, <2>1
  <2>3. KeepsBranch
    BY <1>3, BranchIsKept
  <2>4. agent.turn => agent'.turn
    BY <1>1
  <2> QED
    BY <1>1, <2>2, <2>3, <2>4, PlainAnswerOwes
<1> QED
  BY <1>2, <1>3 DEF PiSetModel

LEMMA TwoEntriesKeep ==
  ASSUME Runs, NEW a, NEW b, a.parent = leaf, b.parent = Len(tree) + 1, tree' = tree \o <<a, b>>, leaf' = Len(tree')
  PROVE  KeepsBranch
<1> DEFINE file == Append(tree, a)
<1>1. Pipe(tree) /\ Rooted(tree) /\ leaf \in 0..Len(tree) /\ Len(tree) \in Nat
  BY DEF Runs, FileHolds, Rooted
<1>2. /\ Pipe(file) /\ Rooted(file) /\ Len(file) = Len(tree) + 1 /\ file[Len(file)] = a
      /\ \A n \in 1..Len(tree) : file[n] = tree[n]
  BY <1>1, OneEntryMore DEF Begins
<1>3. tree' = Append(file, b)
  <2>1. tree \in Seq(Elements(tree) \cup {a, b})
    BY <1>1, SeqMonotonic DEF Pipe
  <2> QED
    BY <2>1
<1> HIDE DEF file
<1>4. b.parent \in 0..Len(file)
  BY <1>1, <1>2
<1>5. /\ Rooted(tree') /\ Begins(file, tree') /\ Len(tree') = Len(file) + 1 /\ Len(tree') \in 1..Len(tree')
      /\ tree'[Len(tree')] = b
  <2>0. Pipe(file) /\ Rooted(file)
    BY <1>2
  <2> DEFINE other == Append(file, b)
  <2>4. Rooted(other)
    BY <2>0, <1>4, OneEntryMore
  <2>5. Begins(file, other)
    BY <2>0, <1>4, OneEntryMore
  <2>6. Len(other) \in 1..Len(other)
    BY <2>0, <1>4, OneEntryMore
  <2> HIDE DEF other
  <2>7. tree' = other
    BY <1>3 DEF other
  <2>1. Rooted(tree') /\ Begins(file, tree') /\ Len(tree') \in 1..Len(tree')
    BY <2>4, <2>5, <2>6, <2>7
  <2>2. Len(tree') = Len(file) + 1
    BY <1>2, <1>3, <1>4, OneEntryMore
  <2>3. tree'[Len(tree')] = b
    BY <1>2, <1>3, <1>4, OneEntryMore
  <2> QED
    BY <2>1, <2>2, <2>3
<1>6. Begins(tree, tree')
  BY <1>1, <1>2, <1>5 DEF Begins, Rooted
<1>7. PICK m : m = Len(tree) + 1
  OBVIOUS
<1>8. m \in 1..Len(tree') /\ tree'[m].parent = leaf /\ tree'[Len(tree')].parent = m
  BY <1>1, <1>2, <1>5, <1>7 DEF Begins
<1>9. \A n : OnPath(tree', n, leaf) <=> OnPath(tree, n, leaf)
  BY <1>1, <1>5, <1>6, BranchGrows
<1>10. \A n : OnPath(tree', n, m) <=> OnPath(tree', n, tree'[m].parent) \/ n = m
  BY <1>5, <1>8, BranchStep
<1>11. \A n : OnPath(tree', n, Len(tree')) <=> OnPath(tree', n, tree'[Len(tree')].parent) \/ n = Len(tree')
  BY <1>5, BranchStep
<1> QED
  BY <1>8, <1>9, <1>10, <1>11 DEF KeepsBranch

LEMMA PiAnswersOwes ==
  ASSUME QInv, Runs, PiAnswers
  PROVE  PiOwes
<1>1. toPi' = toPi /\ agent.turn
  BY DEF PiAnswers
<1>2. CASE /\ tree' = tree \o <<Entry("answer"), [kind |-> "user", parent |-> Len(tree) + 1]>>
           /\ leaf' = Len(tree') /\ agent' = [agent EXCEPT !.queued = 0]
           /\ fromPi' = fromPi \o <<[Line("answer", Nil) EXCEPT !.last = Len(tree) + 1], Newest("turn")>>
  <2> DEFINE a == Entry("answer")
             b == [kind |-> "user", parent |-> Len(tree) + 1]
             d == [Line("answer", Nil) EXCEPT !.last = Len(tree) + 1]
             e == Newest("turn")
  <2>1. d.type = "answer" /\ e.type = "turn" /\ a.parent = leaf /\ b.parent = Len(tree) + 1
    BY DEF Line, Newest, Entry
  <2>2. tree' = tree \o <<a, b>> /\ leaf' = Len(tree') /\ fromPi' = fromPi \o <<d, e>>
    BY <1>2
  <2>3. agent'.turn
    BY <1>1, <1>2 DEF QInv, AgentIs
  <2> HIDE DEF a, b, d, e
  <2>4. KeepsBranch
    BY <2>1, <2>2, TwoEntriesKeep
  <2>5. PICK t : t = <<d, e>>
    OBVIOUS
  <2>6. Pipe(t) /\ Elements(t) = {d, e} /\ fromPi' = fromPi \o t
    BY <2>2, <2>5, TwoLines
  <2>7. \A l \in Elements(t) : l.type # "response"
    BY <2>1, <2>6
  <2> QED
    BY <1>1, <2>3, <2>4, <2>6, <2>7, OtherOwes
<1>3. CASE Stored("answer") /\ fromPi' = fromPi \o <<Newest("answer"), Line("settled", Nil)>>
  <2> DEFINE d == Newest("answer")
             e == Line("settled", Nil)
  <2>1. d.type = "answer" /\ e.type = "settled"
    BY LineTypes
  <2>2. fromPi' = fromPi \o <<d, e>>
    BY <1>3
  <2> HIDE DEF d, e
  <2>3. PICK t : t = <<d, e>>
    OBVIOUS
  <2>4. Pipe(t) /\ Elements(t) = {d, e} /\ fromPi' = fromPi \o t
    BY <2>2, <2>3, TwoLines
  <2>5. (\A l \in Elements(t) : l.type # "response") /\ \E l \in Elements(t) : l.type = "settled"
    BY <2>1, <2>4
  <2>6. KeepsBranch
    BY <1>3, BranchIsKept
  <2> QED
    BY <1>1, <2>4, <2>5, <2>6, OtherOwes
<1> QED
  BY <1>2, <1>3 DEF PiAnswers

\* Pi answers a line after others of its own.
LEMMA LastAnswerOwes ==
  ASSUME Runs, Reads, Head(toPi).type = "abort", NEW t, Pipe(t), fromPi' = fromPi \o t,
         \A l \in Elements(t) : l.type = "response" =>
           l.command = "compact" \/ (l.id = Head(toPi).id /\ l.command = "abort"),
         agent.turn => agent'.turn \/ \E l \in Elements(t) : l.type = "settled", KeepsBranch
  PROVE  PiOwes
<1>1. \A l \in Elements(t) : ~IsRead(l) /\ ~Answers(l, "prompt")
  BY DEF IsRead, Answers
<1>2. Owes(t)
  BY <1>1 DEF Owes, KeepsBranch
<1> QED
  BY <1>2 DEF PiOwes

LEMMA PiAbortOwes ==
  ASSUME QInv, Runs, PiAbort
  PROVE  PiOwes
<1> DEFINE off == [Line("compaction", Nil) EXCEPT !.ok = FALSE]
           undone == Response(Line("compact", agent.packing), FALSE)
           done == Response(Head(toPi), TRUE)
           told == [done EXCEPT !.last = Len(tree')]
           now == Newest("answer")
           over == Line("settled", Nil)
<1>1. PiReads("abort") /\ Reads /\ Head(toPi).type = "abort" /\ Pipe(fromPi)
  BY ReadsIs DEF PiAbort, Runs
<1>2. /\ off.type = "compaction" /\ undone.type = "response" /\ undone.command = "compact"
      /\ done.type = "response" /\ done.command = "abort" /\ done.id = Head(toPi).id
      /\ told.type = "response" /\ told.command = "abort" /\ told.id = Head(toPi).id
      /\ told.last = Len(tree') /\ now.type = "answer" /\ over.type = "settled"
  BY <1>1 DEF Line, Response, Newest
<1>3. \/ /\ UNCHANGED <<tree, leaf>> /\ ~agent.turn
         /\ fromPi' = fromPi \o (IF agent.packing = Nil THEN <<>> ELSE <<off, undone>>) \o <<done>>
      \/ /\ Stored("answer") /\ fromPi' = Append(fromPi, told)
      \/ /\ Stored("answer") /\ fromPi' = fromPi \o <<now, over, done>>
  BY DEF PiAbort
<1> HIDE DEF off, undone, done, told, now, over
<1>4. Pipe(<<done>>) /\ Elements(<<done>>) = {done}
  BY SinglePipe, SingleLines
<1>5. CASE UNCHANGED <<tree, leaf>> /\ ~agent.turn /\ fromPi' = fromPi \o <<>> \o <<done>>
  <2>1. fromPi' = fromPi \o <<done>> /\ KeepsBranch
    BY <1>1, <1>5, ConcatEmptySeq, BranchIsKept DEF Pipe
  <2> QED
    BY <1>1, <1>2, <1>4, <1>5, <2>1, LastAnswerOwes
<1>6. CASE UNCHANGED <<tree, leaf>> /\ ~agent.turn /\ fromPi' = fromPi \o <<off, undone>> \o <<done>>
  <2> DEFINE s == <<off, undone>>
             t == s \o <<done>>
  <2>1. Pipe(s) /\ Elements(s) = {off, undone}
    BY TwoLines
  <2> HIDE DEF s
  <2>2. Pipe(t) /\ Elements(t) = {off, undone, done}
    <3>1. Pipe(t) /\ Elements(t) = Elements(s) \cup Elements(<<done>>)
      BY <1>4, <2>1, JoinedPipe, JoinedLines
    <3> QED
      BY <1>4, <2>1, <3>1
  <2>3. fromPi' = fromPi \o t
    <3> DEFINE S == Elements(fromPi) \cup Elements(s) \cup {done}
    <3>1. fromPi \in Seq(S) /\ s \in Seq(S) /\ <<done>> \in Seq(S)
      BY <1>1, <1>4, <2>1, SeqMonotonic DEF Pipe
    <3>2. fromPi' = (fromPi \o s) \o <<done>>
      BY <1>6 DEF s
    <3> HIDE DEF S
    <3> QED
      BY <3>1, <3>2, ConcatAssociative
  <2> HIDE DEF t
  <2>4. KeepsBranch
    BY <1>6, BranchIsKept
  <2>5. \A l \in Elements(t) : l.type = "response" =>
          l.command = "compact" \/ (l.id = Head(toPi).id /\ l.command = "abort")
    BY <1>2, <2>2
  <2> QED
    BY <1>1, <1>6, <2>2, <2>3, <2>4, <2>5, LastAnswerOwes
<1>7. ASSUME Stored("answer")
      PROVE  /\ KeepsBranch /\ leaf' = Len(tree') /\ Len(tree') = Len(tree) + 1 /\ tree'[Len(tree')].kind = "answer"
             /\ Len(tree') # 0
  BY <1>7, StoredIs, BranchIsKept
<1>8. CASE Stored("answer") /\ fromPi' = Append(fromPi, told)
  <2>1. IsSilent(told)
    BY <1>2, <1>7, <1>8 DEF IsSilent, Answers
  <2>2. EndsSilently(<<told>>)
    BY <1>7, <1>8, <2>1 DEF EndsSilently
  <2> QED
    BY <1>1, <1>2, <1>7, <1>8, <2>2, AnswerOwes
<1>9. CASE Stored("answer") /\ fromPi' = fromPi \o <<now, over, done>>
  <2>1. PICK t : t = <<now, over, done>>
    OBVIOUS
  <2>2. Pipe(t) /\ Elements(t) = {now, over, done} /\ fromPi' = fromPi \o t
    BY <1>9, <2>1, ThreeLines
  <2>3. \A l \in Elements(t) : l.type = "response" =>
          l.command = "compact" \/ (l.id = Head(toPi).id /\ l.command = "abort")
    BY <1>2, <2>2
  <2>4. \E l \in Elements(t) : l.type = "settled"
    BY <1>2, <2>2
  <2> QED
    BY <1>1, <1>7, <1>9, <2>2, <2>3, <2>4, LastAnswerOwes
<1> QED
  BY <1>3, <1>5, <1>6, <1>8, <1>9

LEMMA PiStepOwes ==
  ASSUME QInv, Runs, Pi, ~PiExits
  PROVE  PiOwes
BY PiPromptOwes, PiClearQueueOwes, PiAbortOwes, PiCompactOwes, PiCompactedOwes, PiEntriesOwes, PiNavigateOwes,
   PiSetModelOwes, PiTuneOwes, PiHearsReplyOwes, PiAnswersOwes, PiAsksOwes DEF Pi

LEMMA PiKeepsBusy ==
  ASSUME QInv, EInv, FInv, BInv, Pi
  PROVE  BInv'
<1>1. CASE PiExits
  <2>1. agent'.state # "up"
    BY <1>1 DEF PiExits, QInv, AgentIs
  <2> QED
    BY <2>1 DEF BInv
<1>2. CASE ~PiExits /\ agent.state = "up"
  <2>1. Runs /\ Pipe(fromPi) /\ BusyHolds
    BY <1>2, RunsIs DEF Runs, BInv
  <2>2. PICK t : PiSays(t)
    BY <1>2, <2>1, PiStepSays
  <2>3. PICK s : Pipe(s) /\ fromPi' = fromPi \o s /\ Owes(s)
    BY <1>2, <2>1, PiStepOwes DEF PiOwes
  <2>4. Pipe(t) /\ fromPi' = fromPi \o t
    BY <2>2 DEF PiSays
  <2>5. s = t
    BY <2>1, <2>3, <2>4, Cancels
  <2> QED
    BY <2>1, <2>2, <2>3, <2>5, PiKeepsBusyHolds DEF BInv
<1>3. CASE ~PiExits /\ agent.state # "up"
  <2>1. agent'.state = agent.state
    BY <1>3 DEF Pi, PiPrompt, PiClearQueue, PiAbort, PiCompact, PiCompacted, PiEntries, PiNavigate, PiSetModel,
                PiTune, PiHearsReply, PiAnswers, PiAsks, piVars, QInv, AgentIs
  <2> QED
    BY <1>3, <2>1 DEF BInv
<1> QED
  BY <1>1, <1>2, <1>3

LEMMA BusyStaysPut ==
  ASSUME BInv, UNCHANGED turnVars
  PROVE  BInv'
<1>1. UNCHANGED <<agent, tree, leaf, toPi, fromPi, ledger, copy, pending, jobs, drift>>
  BY DEF turnVars
<1>2. Unstable' = Unstable /\ \A n : Shows(n)' = Shows(n)
  BY <1>1 DEF Unstable, Shows
<1>3. \A n, p : Unread(n, p)' = Unread(n, p)
  BY <1>1 DEF Unread
<1>4. \A p : Missed(p)' = Missed(p)
  BY <1>1 DEF Missed
<1>5. \A j : EditOwns(j)' = EditOwns(j) /\ PromptOwns(j)' = PromptOwns(j)
  BY <1>1, <1>2 DEF EditOwns, PromptOwns
<1>6. \A j, k : PromptFollows(j, k)' = PromptFollows(j, k)
  BY <1>1 DEF PromptFollows
<1>7. ShownIsKnown' = ShownIsKnown /\ TargetsAreStored' = TargetsAreStored
  BY <1>1 DEF ShownIsKnown, TargetsAreStored
<1>8. BusyIsOwned' = BusyIsOwned
  BY <1>1, <1>2, <1>3, <1>4, <1>5 DEF BusyIsOwned
<1>9. MovesAreOwned' = MovesAreOwned
  BY <1>1, <1>2, <1>5, <1>6 DEF MovesAreOwned
<1> QED
  BY <1>1, <1>7, <1>8, <1>9 DEF BInv, BusyHolds

LEMMA NextBusy == QInv /\ EInv /\ FInv /\ BInv /\ [TurnNext]_turnVars => BInv'
BY CoreKeepsBusy, PiKeepsBusy, BusyStaysPut DEF TurnNext

LEMMA InitBusy == TurnInit => BInv
<1> SUFFICES ASSUME TurnInit PROVE BusyHolds
  BY DEF BInv
<1>1. Pipe(tree) /\ Rooted(tree)
  BY InitShows
<1>2. /\ ~ledger.busy /\ ledger.shown = [n \in 1..Len(tree) |-> [entry |-> n, stable |-> TRUE]]
      /\ copy.upTo = Len(tree) /\ \A j \in Slots : jobs[j].op = "none"
  BY DEF TurnInit, Idle
<1>3. Len(tree) \in Nat /\ Len(ledger.shown) = Len(tree)
  <2>1. Len(tree) \in Nat
    BY <1>1 DEF Rooted
  <2>2. ledger.shown \in [1..Len(tree) -> [entry : 1..Len(tree), stable : BOOLEAN]]
    BY <1>2
  <2> QED
    BY <2>1, <2>2, FunctionIsSeq
<1>4. ShownIsKnown
  <2> SUFFICES ASSUME NEW i \in 1..Len(ledger.shown)
               PROVE  ledger.shown[i].entry \in 1..Len(tree) /\ ~(ledger.shown[i].entry > copy.upTo)
    BY DEF ShownIsKnown
  <2>1. i \in 1..Len(tree)
    BY <1>3
  <2>2. ledger.shown[i].entry = i
    BY <1>2, <2>1
  <2> QED
    BY <1>2, <1>3, <2>1, <2>2
<1>5. TargetsAreStored
  BY <1>2 DEF TargetsAreStored
<1>6. BusyIsOwned /\ MovesAreOwned
  BY <1>2 DEF BusyIsOwned, MovesAreOwned
<1> QED
  BY <1>4, <1>5, <1>6 DEF BusyHolds

LEMMA RestIsNotBusy == BInv /\ AtRest /\ ~drift => ~ledger.busy
<1> SUFFICES ASSUME BInv, AtRest, ~drift, ledger.busy PROVE FALSE
  OBVIOUS
<1>1. /\ agent.state = "up" /\ ~agent.turn /\ fromPi = <<>> /\ Elements(<<>>) = {} /\ Len(<<>>) = 0
      /\ \A j \in Slots : jobs[j].op = "none"
  BY EmptyPipe, SingleLines DEF AtRest
<1>2. BusyIsOwned
  BY <1>1 DEF BInv, BusyHolds
<1>3. \A j \in Slots : ~EditOwns(j) /\ ~PromptOwns(j)
  BY <1>1 DEF EditOwns, PromptOwns
<1>4. \A p \in 0..Len(fromPi) : ~Missed(p)
  <2>1. ASSUME NEW p \in 0..Len(fromPi) PROVE p = 0
    BY <1>1
  <2> QED
    BY <2>1 DEF Missed
<1> QED
  BY <1>1, <1>2, <1>3, <1>4 DEF BusyIsOwned

\* A conversation at rest takes a new prompt: no overlap of turns, prompts that are
\* refused or lost, stops, edits, models and compactions leaves it busy, compacting
\* or stopping for good, as long as no answer of the file was lost (RestIsFree).
THEOREM RestEnds == TurnSpec => []RestIsFree
<1>1. TurnSpec => [](QInv /\ EInv)
  BY InitQInv, NextQInv, InitEInv, NextEInv, PTL DEF TurnSpec
<1>2. TurnSpec => [](FInv /\ LInv)
  BY <1>1, InitFile, NextFile, PTL DEF TurnSpec
<1>3. TurnSpec => []BInv
  BY <1>1, <1>2, InitBusy, NextBusy, PTL DEF TurnSpec
<1>4. QInv /\ EInv /\ BInv => RestIsFree
  BY RestIsOver, RestIsNotBusy DEF RestIsFree
<1> QED
  BY <1>1, <1>3, <1>4, PTL
=============================================================================
