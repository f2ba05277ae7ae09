------------------------------- MODULE SyncLink -------------------------------
(* One Core's connection to Cinba Sync: the enrolment, the periodic download  *)
(* of the shared snapshot, the choice of sources, the disconnection, and the  *)
(* server's answers.                                                          *)
(*                                                                            *)
(* Every operation of Core is an asynchronous function with at most one       *)
(* request to the server under way, and the others go on meanwhile: there is  *)
(* a variable for each.  A request is "asked" until the server has handled    *)
(* it, then "answered"; Lost takes the request or the answer.  A snapshot is  *)
(* its revision and whether it holds the shared credentials; nothing else of  *)
(* the shared settings matters here.  The Core id an approval creates is the  *)
(* number of its enrolment.                                                   *)
EXTENDS Naturals, FiniteSets
CONSTANTS MaxEnrollments, MaxRevision, MaxTroubles, MaxChanges

ASSUME BoundsAreNumbers ==
  MaxEnrollments \in Nat /\ MaxRevision \in Nat /\ MaxTroubles \in Nat /\ MaxChanges \in Nat

VARIABLES
  revision,     \* server: syncRevision
  enrollments,  \* server: what became of each enrolment
  cores,        \* server: the Cores it approved
  up,           \* the Core process runs
  connection,   \* sync-connection.json
  cache,        \* sync-snapshot.json
  current,      \* the snapshot Core works with
  status,       \* the state it shows
  runtime,      \* runtime-web-tools.json: what the web tools of Pi work with
  writing,      \* an approval has yet to write it
  stopped, armed,  \* the coordinator: no polling; a timer is set
  syncing,      \* inFlight: the one download under way
  enrolling,    \* begin()
  waiting,      \* wait(), and the poll of it under way
  leaving,      \* the disconnect handler
  switching,    \* the updateSources handler
  unwritten,    \* history: the last writing of runtime failed
  sealed,       \* history: the revision at which a Core was revoked
  troubles, changes  \* history: losses and crashes, requests of the user

serverVars == <<revision, enrollments, cores, sealed>>
diskVars == <<connection, cache>>
linkVars == <<current, status, stopped, armed, runtime, unwritten, writing>>
calls == <<syncing, enrolling, waiting, leaving, switching>>
vars == <<serverVars, diskVars, linkVars, calls, up, troubles, changes>>

Ids == 1..MaxEnrollments
None == [kind |-> "none", id |-> 0, core |-> 0, sources |-> "local", revision |-> 0, keys |-> FALSE]
NoCall == [kind |-> "none", op |-> "none", answer |-> None]
\* Local settings cannot use shared credentials (parseConnection).
Sources == {"local", "settings", "all"}
SharesKeys(c) == c.sources = "all"
\* core: the Core to which the server gave it, for the properties only.
Snapshot(r, keys, core) == [kind |-> "snapshot", revision |-> r, keys |-> keys, core |-> core]
Pending(id, sources) == [kind |-> "pending", id |-> id, core |-> 0, sources |-> sources]
Connected(c, core) == [c EXCEPT !.kind = "core", !.core = core]

\* What is in force: the snapshot's settings (by its revision) or the machine's,
\* and whose keys.
UsesShared(c, k) == c.sources # "local" /\ k # None
KeysOf(c, k) == IF ~SharesKeys(c) THEN "local" ELSE IF k.keys THEN "shared" ELSE "none"
Effective(c, k) == [revision |-> IF UsesShared(c, k) THEN k.revision ELSE 0,
                    shared |-> UsesShared(c, k), keys |-> KeysOf(c, k)]

\* A request is about the connection its operation read before it was sent.
Asked(op, c) == [kind |-> "asked", op |-> op, connection |-> c, cached |-> None, sources |-> c.sources,
                 arm |-> FALSE, approval |-> FALSE, answer |-> None]
Answer(kind) == [kind |-> kind, id |-> 0, revision |-> 0, keys |-> FALSE]
Answered(call, answer) == [call EXCEPT !.kind = "answered", !.answer = answer]
Quiet == \A call \in {syncing, enrolling, waiting, leaving, switching} : call = NoCall

InitialStatus ==
  CASE connection = None           -> "disconnected"
    [] connection.kind = "pending" -> "pending"
    [] OTHER                       -> IF cache = None THEN "error" ELSE "stale"

Init ==
  /\ revision = 0 /\ enrollments = [id \in Ids |-> "none"]
  /\ cores = [id \in Ids |-> [kind |-> "none", keys |-> FALSE]]
  /\ sealed = [id \in Ids |-> 0]
  /\ up = FALSE /\ connection = None /\ cache = None
  /\ current = None /\ status = "disconnected" /\ stopped = TRUE /\ armed = FALSE
  /\ runtime = Effective(None, None) /\ unwritten = FALSE /\ writing = FALSE
  /\ syncing = NoCall /\ enrolling = NoCall /\ waiting = NoCall /\ leaving = NoCall /\ switching = NoCall
  /\ troubles = 0 /\ changes = 0

-----------------------------------------------------------------------------
(* The coordinator *)

\* What syncNow does with the connection c, the cache k and the status s of the
\* moment: a revoked Core asks no more, a download under way is joined, and one
\* without a Core credential ends at once.  arm: the caller sets the timer when
\* it ends.
SyncNow(c, k, s, arm) ==
  CASE s = "revoked"      -> [call |-> syncing, status |-> s]
    [] s # "revoked" /\ syncing # NoCall ->
         [call |-> [syncing EXCEPT !.arm = @ \/ arm], status |-> s]
    [] s # "revoked" /\ syncing = NoCall ->
         IF c = None THEN [call |-> NoCall, status |-> "disconnected"]
         ELSE IF c.kind = "pending" THEN [call |-> NoCall, status |-> "pending"]
         ELSE [call |-> [Asked("snapshot", c) EXCEPT !.cached = k, !.arm = arm], status |-> s]
\* writeEffectiveWebToolsRuntime
Writes(c, k) == runtime' = Effective(c, k) /\ unwritten' = FALSE
Syncs(next) == syncing' = next.call /\ status' = next.status

\* synchronize goes on with the answer; it does not look at the connection again.
WithoutSnapshot == IF current = None THEN "error" ELSE "stale"
Refreshed(answer) ==
  CASE answer.kind = "unauthorized" ->
         [status |-> "revoked", cache |-> cache, current |-> current]
    [] answer.kind = "unchanged" ->
         [status |-> "online", cache |-> cache, current |-> syncing.cached]
    [] answer.kind = "snapshot" /\ answer.keys = SharesKeys(syncing.connection)
         /\ (cache = None \/ answer.revision >= cache.revision) ->
         LET next == IF cache # None /\ answer.revision = cache.revision
                     THEN cache ELSE Snapshot(answer.revision, answer.keys, syncing.connection.core)
         IN  [status |-> "online", cache |-> next, current |-> next]
    [] OTHER -> [status |-> WithoutSnapshot, cache |-> cache, current |-> current]

\* Mutant: polling ends with the first error.
PollsOnline(s) == s = "online"
Polls(s) == s \notin {"revoked", "disconnected", "pending"}
SyncEnds ==
  /\ up /\ syncing.kind = "answered"
  /\ LET next == Refreshed(syncing.answer)
     IN  /\ IF next.cache # cache THEN Writes(connection, next.current) ELSE UNCHANGED <<runtime, unwritten>>
         /\ cache' = next.cache /\ current' = next.current /\ status' = next.status
         /\ armed' = (armed \/ (syncing.arm /\ ~stopped /\ Polls(status')))
  /\ syncing' = NoCall /\ writing' = (writing \/ syncing.approval)
  /\ UNCHANGED <<serverVars, connection, stopped, enrolling, waiting, leaving, switching, up, troubles, changes>>

\* The snapshot cannot be written: nothing changes but the status.
CacheWriteFails ==
  /\ up /\ syncing.kind = "answered" /\ troubles < MaxTroubles /\ troubles' = troubles + 1
  /\ Refreshed(syncing.answer).cache # cache
  /\ status' = WithoutSnapshot /\ armed' = (armed \/ (syncing.arm /\ ~stopped))
  /\ syncing' = NoCall /\ writing' = (writing \/ syncing.approval)
  /\ UNCHANGED <<serverVars, diskVars, current, runtime, unwritten, stopped, enrolling, waiting, leaving, switching, up, changes>>
\* onSnapshot throws, when runtime-web-tools.json cannot be written: the snapshot
\* is in the cache, and there is no other call of onSnapshot for it.
RuntimeWriteFails ==
  /\ up /\ syncing.kind = "answered" /\ troubles < MaxTroubles /\ troubles' = troubles + 1
  /\ LET next == Refreshed(syncing.answer)
     IN  next.cache # cache /\ cache' = next.cache /\ current' = next.current
  /\ status' = "stale" /\ armed' = (armed \/ (syncing.arm /\ ~stopped)) /\ unwritten' = TRUE
  /\ syncing' = NoCall /\ writing' = (writing \/ syncing.approval)
  /\ UNCHANGED <<serverVars, connection, runtime, stopped, enrolling, waiting, leaving, switching, up, changes>>

TimerFires ==
  /\ up /\ armed /\ armed' = FALSE
  /\ Syncs(SyncNow(connection, cache, status, TRUE))
  /\ UNCHANGED <<serverVars, diskVars, current, runtime, unwritten, writing, stopped, enrolling, waiting, leaving, switching, up, troubles, changes>>

\* sync.disconnect: a download under way is not stopped.
Forgets ==
  /\ connection' = None /\ cache' = None /\ current' = None
  /\ status' = "disconnected" /\ stopped' = TRUE /\ armed' = FALSE
  /\ Writes(None, None) /\ UNCHANGED writing

-----------------------------------------------------------------------------
(* The process *)

Boot ==
  /\ ~up /\ up' = TRUE /\ stopped' = FALSE /\ armed' = FALSE
  /\ current' = cache /\ Writes(connection, cache) /\ writing' = FALSE
  /\ Syncs(SyncNow(connection, cache, InitialStatus, TRUE))
  /\ enrolling' = NoCall /\ waiting' = IF connection.kind = "pending" THEN Asked("status", connection) ELSE NoCall
  /\ UNCHANGED <<serverVars, diskVars, leaving, switching, troubles, changes>>

\* A crash, or a shutdown: what is on disk stays.
Dies ==
  /\ up /\ troubles < MaxTroubles /\ troubles' = troubles + 1
  /\ up' = FALSE
  /\ syncing' = NoCall /\ enrolling' = NoCall /\ waiting' = NoCall /\ leaving' = NoCall /\ switching' = NoCall
  /\ current' = None /\ status' = "disconnected" /\ stopped' = TRUE /\ armed' = FALSE
  /\ writing' = FALSE
  /\ UNCHANGED <<serverVars, diskVars, runtime, unwritten, changes>>

-----------------------------------------------------------------------------
(* What the user asks of this Core *)

UserAsks == up /\ changes < MaxChanges /\ changes' = changes + 1

\* Mutant: the wait for the old enrolment goes on.
AbortedTooLate(call) == call
\* enrollment.cancel, and begin, abort the wait; nothing aborts a begin.
AbortedWait(call) == NoCall

\* connect, then begin(): refused while there is a connection or another begin.
Connect(sources) ==
  /\ UserAsks /\ connection = None
  /\ enrolling = NoCall
  /\ enrolling' = Asked("create", Pending(0, sources)) /\ waiting' = AbortedWait(waiting)
  /\ UNCHANGED <<serverVars, diskVars, linkVars, syncing, leaving, switching, up, troubles>>

Cancel ==
  /\ UserAsks /\ Forgets /\ waiting' = AbortedWait(waiting)
  /\ UNCHANGED <<serverVars, syncing, enrolling, leaving, switching, up, troubles>>

Disconnect ==
  /\ UserAsks /\ leaving = NoCall
  /\ IF connection.kind = "core"
     THEN /\ leaving' = Asked("revoke", connection)
          /\ UNCHANGED <<diskVars, linkVars, waiting>>
     ELSE Forgets /\ waiting' = AbortedWait(waiting) /\ UNCHANGED leaving
  /\ UNCHANGED <<serverVars, syncing, enrolling, switching, up, troubles>>
\* A credential the server does not know is revoked already.
RevokedAlready == leaving.answer.kind \in {"ok", "unauthorized"}
DisconnectEnds ==
  /\ up /\ leaving.kind = "answered" /\ leaving' = NoCall
  /\ IF RevokedAlready
     THEN Forgets /\ waiting' = AbortedWait(waiting)
     ELSE UNCHANGED <<diskVars, linkVars, waiting>>
  /\ UNCHANGED <<serverVars, syncing, enrolling, switching, up, troubles, changes>>

\* The local Sync host is deleted: its settings become this machine's, and without
\* them, or with its keys, the deletion is refused.
PrepareSyncHostDelete ==
  /\ UserAsks /\ connection # None /\ ~SharesKeys(connection)
  /\ connection.sources = "settings" => current # None
  /\ Forgets /\ waiting' = AbortedWait(waiting)
  /\ UNCHANGED <<serverVars, syncing, enrolling, leaving, switching, up, troubles>>

SyncNowByHand ==
  /\ UserAsks /\ connection.kind = "core"
  /\ Syncs(SyncNow(connection, cache, status, FALSE))
  /\ UNCHANGED <<serverVars, diskVars, current, runtime, unwritten, writing, stopped, armed, enrolling, waiting, leaving, switching, up, troubles>>

\* setSources on the connection of the moment, then an empty cache and a download.
TakesSources(sources) ==
  /\ connection' = [connection EXCEPT !.sources = sources]
  /\ cache' = None /\ current' = None /\ Writes(connection', None)
  /\ Syncs(SyncNow(connection', None, status, FALSE))

UpdateSources(sources) ==
  /\ UserAsks /\ switching = NoCall /\ connection.kind = "core"
  /\ IF SharesKeys(connection) # (sources = "all")
     THEN /\ switching' = [Asked("preferences", connection) EXCEPT !.sources = sources]
          /\ UNCHANGED <<diskVars, current, runtime, unwritten, status, syncing>>
     ELSE TakesSources(sources) /\ UNCHANGED switching
  /\ UNCHANGED <<serverVars, stopped, armed, writing, enrolling, waiting, leaving, up, troubles>>

Unswitch == [Asked("rollback", switching.connection) EXCEPT !.sources = switching.connection.sources]
UpdateSourcesEnds ==
  /\ up /\ switching.kind = "answered"
  /\ IF switching.op = "rollback" \/ switching.answer.kind # "ok"
     THEN switching' = NoCall /\ UNCHANGED <<diskVars, current, runtime, unwritten, status, syncing>>
     ELSE IF connection = None
     THEN switching' = Unswitch /\ UNCHANGED <<diskVars, current, runtime, unwritten, status, syncing>>
     ELSE switching' = NoCall /\ TakesSources(switching.sources)
  /\ UNCHANGED <<serverVars, stopped, armed, writing, enrolling, waiting, leaving, up, troubles, changes>>
\* The connection cannot be written: the server is told to take the change back.
SourcesWriteFails ==
  /\ up /\ switching.kind = "answered" /\ switching.op = "preferences" /\ switching.answer.kind = "ok"
  /\ troubles < MaxTroubles /\ troubles' = troubles + 1
  /\ switching' = Unswitch
  /\ UNCHANGED <<serverVars, diskVars, linkVars, syncing, enrolling, waiting, leaving, up, changes>>

-----------------------------------------------------------------------------
(* The enrolment *)

EnrollmentStored ==
  /\ up /\ enrolling.kind = "answered"
  /\ IF enrolling.answer.kind = "created"
     THEN /\ connection' = Pending(enrolling.answer.id, enrolling.sources)
          /\ waiting' = IF waiting = NoCall THEN Asked("status", connection') ELSE waiting
     ELSE UNCHANGED <<connection, waiting>>
  /\ enrolling' = NoCall
  /\ UNCHANGED <<serverVars, cache, linkVars, syncing, leaving, switching, up, troubles, changes>>

StatusAnswered(kind) ==
  /\ up /\ waiting.kind = "answered" /\ waiting.answer.kind = kind
\* approve, then sync.stop, sync.start, and the file of the web tools.
Approved ==
  /\ StatusAnswered("approved") /\ waiting' = NoCall
  /\ connection.kind = "pending"
  /\ connection' = Connected(connection, waiting.answer.id)
  /\ stopped' = FALSE /\ armed' = FALSE
  /\ LET next == SyncNow(connection', cache, status, TRUE)
     IN  IF status = "revoked" THEN Syncs(next) /\ writing' = TRUE
         ELSE Syncs([next EXCEPT !.call.approval = TRUE]) /\ UNCHANGED writing
  /\ UNCHANGED <<serverVars, cache, current, runtime, unwritten, enrolling, leaving, switching, up, troubles, changes>>
ApprovalEnds ==
  /\ writing /\ writing' = FALSE /\ Writes(connection, current)
  /\ UNCHANGED <<serverVars, diskVars, current, status, stopped, armed, calls, up, troubles, changes>>
\* The report of the capabilities comes first, and may fail.
ApprovalFails ==
  /\ writing /\ writing' = FALSE /\ troubles < MaxTroubles /\ troubles' = troubles + 1
  /\ unwritten' = TRUE
  /\ UNCHANGED <<serverVars, diskVars, current, status, stopped, armed, runtime, calls, up, changes>>
Refused ==
  /\ StatusAnswered("rejected") \/ StatusAnswered("expired")
  /\ waiting' = NoCall /\ Forgets
  /\ UNCHANGED <<serverVars, syncing, enrolling, leaving, switching, up, troubles, changes>>
StillPending ==
  /\ StatusAnswered("pending")
  /\ waiting' = IF connection.kind = "pending" THEN Asked("status", connection) ELSE NoCall
  /\ UNCHANGED <<serverVars, diskVars, linkVars, syncing, enrolling, leaving, switching, up, troubles, changes>>
\* Any error ends the wait; only a restart of Core begins it anew.
WaitFails ==
  /\ StatusAnswered("lost") \/ StatusAnswered("unauthorized")
     \/ (StatusAnswered("approved") /\ connection.kind # "pending")
  /\ waiting' = NoCall
  /\ UNCHANGED <<serverVars, diskVars, linkVars, syncing, enrolling, leaving, switching, up, troubles, changes>>

-----------------------------------------------------------------------------
(* The server: one mutation of its store at a time *)

\* Mutant: a revoked Core is still let in.
KnownOnce(core) == cores[core].kind # "none"
Known(core) == cores[core].kind = "connected"

CreateEnrollment ==
  /\ enrolling.kind = "asked"
  /\ \E id \in Ids :
       /\ enrollments[id] = "none" /\ \A n \in 1..(id - 1) : enrollments[n] # "none"
       /\ enrollments' = [enrollments EXCEPT ![id] = "pending"]
       /\ cores' = [cores EXCEPT ![id].keys = enrolling.sources = "all"]
       /\ enrolling' = Answered(enrolling, [Answer("created") EXCEPT !.id = id])
  /\ UNCHANGED <<revision, sealed, diskVars, linkVars, syncing, waiting, leaving, switching, up, troubles, changes>>

\* A decision is told once: with it the enrolment is gone.
EnrollmentStatus ==
  /\ waiting.kind = "asked"
  /\ LET id == waiting.connection.id
         now == enrollments[id]
     IN  IF now = "gone"
         THEN waiting' = Answered(waiting, Answer("unauthorized")) /\ UNCHANGED enrollments
         ELSE /\ waiting' = Answered(waiting, [Answer(now) EXCEPT !.id = id])
              /\ enrollments' = IF now = "pending" THEN enrollments ELSE [enrollments EXCEPT ![id] = "gone"]
  /\ UNCHANGED <<revision, cores, sealed, diskVars, linkVars, syncing, enrolling, leaving, switching, up, troubles, changes>>

\* snapshotForCore, and the entity tag of the route: the revision, and nothing else.
SnapshotForCore ==
  /\ syncing.kind = "asked"
  /\ LET core == syncing.connection.core
     IN  syncing' = Answered(syncing,
           IF ~Known(core) THEN Answer("unauthorized")
           ELSE IF syncing.cached # None /\ syncing.cached.revision = revision THEN Answer("unchanged")
           ELSE [Answer("snapshot") EXCEPT !.revision = revision, !.keys = cores[core].keys])
  /\ UNCHANGED <<serverVars, diskVars, linkVars, enrolling, waiting, leaving, switching, up, troubles, changes>>

UpdateCoreCredentialSource ==
  /\ switching.kind = "asked"
  /\ LET core == switching.connection.core
     IN  IF Known(core)
         THEN /\ cores' = [cores EXCEPT ![core].keys = switching.sources = "all"]
              /\ switching' = Answered(switching, Answer("ok"))
         ELSE switching' = Answered(switching, Answer("unauthorized")) /\ UNCHANGED cores
  /\ UNCHANGED <<revision, enrollments, sealed, diskVars, linkVars, syncing, enrolling, waiting, leaving, up, troubles, changes>>

Revoked(core) == /\ cores' = [cores EXCEPT ![core].kind = "revoked"]
                 /\ sealed' = [sealed EXCEPT ![core] = revision]
RevokeAuthenticatedCore ==
  /\ leaving.kind = "asked"
  /\ LET core == leaving.connection.core
     IN  IF Known(core)
         THEN Revoked(core) /\ leaving' = Answered(leaving, Answer("ok"))
         ELSE leaving' = Answered(leaving, Answer("unauthorized")) /\ UNCHANGED <<cores, sealed>>
  /\ UNCHANGED <<revision, enrollments, diskVars, linkVars, syncing, enrolling, waiting, switching, up, troubles, changes>>

\* The administrator.
Publish ==
  /\ revision < MaxRevision /\ revision' = revision + 1
  /\ UNCHANGED <<enrollments, cores, sealed, diskVars, linkVars, calls, up, troubles, changes>>
DecideEnrollment(id, decision) ==
  /\ enrollments[id] = "pending"
  /\ enrollments' = [enrollments EXCEPT ![id] = decision]
  /\ cores' = IF decision = "approved" THEN [cores EXCEPT ![id].kind = "connected"] ELSE cores
  /\ UNCHANGED <<revision, sealed, diskVars, linkVars, calls, up, troubles, changes>>
RevokeCore(core) ==
  /\ Known(core) /\ Revoked(core)
  /\ UNCHANGED <<revision, enrollments, diskVars, linkVars, calls, up, troubles, changes>>
\* Ten minutes pass, whatever was decided meanwhile.
EnrollmentExpires(id) ==
  /\ enrollments[id] \in {"pending", "approved", "rejected"}
  /\ enrollments' = [enrollments EXCEPT ![id] = "expired"]
  /\ UNCHANGED <<revision, cores, sealed, diskVars, linkVars, calls, up, troubles, changes>>

\* A time-out, a refused connection, a lost answer.
Gone(call) == /\ call.kind # "none" /\ call.answer.kind # "lost"
              /\ troubles < MaxTroubles /\ troubles' = troubles + 1
Lost ==
  /\ \/ Gone(syncing) /\ syncing' = Answered(syncing, Answer("lost")) /\ UNCHANGED <<enrolling, waiting, leaving, switching>>
     \/ Gone(enrolling) /\ enrolling' = Answered(enrolling, Answer("lost")) /\ UNCHANGED <<syncing, waiting, leaving, switching>>
     \/ Gone(waiting) /\ waiting' = Answered(waiting, Answer("lost")) /\ UNCHANGED <<syncing, enrolling, leaving, switching>>
     \/ Gone(leaving) /\ leaving' = Answered(leaving, Answer("lost")) /\ UNCHANGED <<syncing, enrolling, waiting, switching>>
     \/ Gone(switching) /\ switching' = Answered(switching, Answer("lost")) /\ UNCHANGED <<syncing, enrolling, waiting, leaving>>
  /\ UNCHANGED <<serverVars, diskVars, linkVars, up, changes>>

-----------------------------------------------------------------------------
User == \/ Cancel \/ Disconnect \/ PrepareSyncHostDelete \/ SyncNowByHand
        \/ \E sources \in Sources : Connect(sources) \/ UpdateSources(sources)
Continues ==
  \/ SyncEnds \/ DisconnectEnds \/ UpdateSourcesEnds
  \/ EnrollmentStored \/ Approved \/ ApprovalEnds \/ Refused \/ StillPending \/ WaitFails
Server == \/ CreateEnrollment \/ EnrollmentStatus \/ SnapshotForCore
          \/ UpdateCoreCredentialSource \/ RevokeAuthenticatedCore
Administrator ==
  \/ Publish
  \/ \E id \in Ids :
       \/ EnrollmentExpires(id) \/ RevokeCore(id)
       \/ \E decision \in {"approved", "rejected"} : DecideEnrollment(id, decision)
Trouble == CacheWriteFails \/ RuntimeWriteFails \/ ApprovalFails \/ SourcesWriteFails \/ Dies \/ Lost
Next == Boot \/ TimerFires \/ User \/ Continues \/ Server \/ Administrator \/ Trouble
Spec == Init /\ [][Next]_vars
\* The event loop and the timer of a live Core, and a server that answers.
FairSpec == Spec /\ WF_vars(SyncEnds) /\ WF_vars(TimerFires) /\ WF_vars(ApprovalEnds) /\ WF_vars(SnapshotForCore)

-----------------------------------------------------------------------------
TypeOK ==
  /\ revision \in 0..MaxRevision
  /\ enrollments \in [Ids -> {"none", "pending", "approved", "rejected", "expired", "gone"}]
  /\ cores \in [Ids -> [kind : {"none", "connected", "revoked"}, keys : BOOLEAN]]
  /\ connection.kind \in {"none", "pending", "core"}
  /\ cache.kind \in {"none", "snapshot"} /\ current.kind \in {"none", "snapshot"}
  /\ status \in {"disconnected", "pending", "online", "stale", "error", "revoked"}
  /\ {stopped, armed, up} \subseteq BOOLEAN

\* The credential a Core holds is the one issued for the enrolment it stored: an
\* answer to an enrolment that was cancelled meanwhile never approves, or ends,
\* the next one (cancel and begin abort the wait).
CredentialIsOurs == connection.kind = "core" => connection.core = connection.id

\* Both, as one invariant of the run.
LinkInv == TypeOK /\ CredentialIsOurs

\* A revoked Core keeps nothing the server published after the revocation,
\* whatever was under way then and however often it restarts.
RevokedLearnsNothing ==
  cache # None /\ cores[cache.core].kind = "revoked" => cache.revision <= sealed[cache.core]

\* A Core that stays connected, and agrees with the server on whether it takes
\* credentials, comes to work with the server's revision and keeps it, whatever
\* was lost, cancelled or reset before: polling never stops for good.  Unless the
\* file of the web tools could not be written, they work with the same.
Healthy == /\ up /\ connection.kind = "core" /\ status # "revoked"
           /\ cores[connection.core] = [kind |-> "connected", keys |-> SharesKeys(connection)]
CaughtUp == /\ current # None /\ current.revision = revision
            /\ unwritten \/ runtime = Effective(connection, current)
CatchesUp == <>[]Healthy => <>[]CaughtUp

=============================================================================
