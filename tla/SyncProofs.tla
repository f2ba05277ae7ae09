------------------------------- MODULE SyncProofs -------------------------------
(* Proofs about SyncLink and SyncAdmin, for any values of their constants.    *)
(*                                                                            *)
(* SyncLink: the invariant says of each request under way what it is about,   *)
(* and of the two that matter what their answers may hold: that of the wait   *)
(* for an approval names the enrolment it asked for, and that of a download   *)
(* is no younger than the revocation of the Core it is for.                   *)
(*                                                                            *)
(* SyncAdmin: as long as no two processes replaced the document from the same *)
(* reading, a document is with the key made with it wherever it is kept, at   *)
(* most one process is about to write what it read, what it is about to write *)
(* grew from what is on disk, and what a page shows is an earlier state of    *)
(* what is on disk, or of another store.                                      *)
EXTENDS SyncLink, SyncAdmin, SequenceTheorems, TLAPS

-----------------------------------------------------------------------------
Statuses == {"disconnected", "pending", "online", "stale", "error", "revoked"}
Decisions == {"none", "pending", "approved", "rejected", "expired", "gone"}
PendingConnections == [kind : {"pending"}, id : Ids, core : {0}, sources : Sources]
CoreConnections == [kind : {"core"}, id : Ids, core : Ids, sources : Sources]
Unnumbered == [kind : {"pending"}, id : {0}, core : {0}, sources : Sources]
Snapshots == {None} \cup [kind : {"snapshot"}, revision : Nat, keys : BOOLEAN, core : Ids]
Answers == [kind : Decisions \cup {"lost", "unauthorized", "unchanged", "snapshot", "ok", "created"},
            id : Ids \cup {0}, revision : Nat, keys : BOOLEAN]
Operations == {"snapshot", "status", "create", "revoke", "preferences", "rollback"}
\* A request about one of a set of connections.
Calls(connections) ==
  {NoCall} \cup [kind : {"asked", "answered"}, op : Operations, connection : connections,
                 cached : Snapshots, sources : Sources, arm : BOOLEAN, approval : BOOLEAN,
                 answer : {None} \cup Answers]

Ranges ==
  /\ revision \in 0..MaxRevision
  /\ enrollments \in [Ids -> Decisions]
  /\ cores \in [Ids -> [kind : {"none", "connected", "revoked"}, keys : BOOLEAN]]
  /\ sealed \in [Ids -> Nat]
  /\ status \in Statuses
  /\ stopped \in BOOLEAN /\ armed \in BOOLEAN /\ up \in BOOLEAN
Linked ==
  /\ connection \in {None} \cup PendingConnections \cup CoreConnections
  /\ CredentialIsOurs
Kept == cache \in Snapshots /\ current \in Snapshots
Requests ==
  /\ syncing \in Calls(CoreConnections) /\ leaving \in Calls(CoreConnections)
  /\ switching \in Calls(CoreConnections)
  /\ waiting \in Calls(PendingConnections) /\ enrolling \in Calls(Unnumbered)
\* A wait is for the enrolment that is stored, and none goes on beside a begin.
Waits ==
  /\ enrolling # NoCall => waiting = NoCall
  /\ enrolling.kind = "answered" /\ enrolling.answer.kind = "created" => enrolling.answer.id \in Ids
  /\ waiting # NoCall /\ connection.kind = "pending" => waiting.connection.id = connection.id
  /\ waiting.kind = "answered" /\ waiting.answer.kind = "approved" =>
       waiting.answer.id = waiting.connection.id
\* What is known of revision r by the Core is no younger than its revocation.
Ignorant(core, r) ==
  /\ r <= revision
  /\ cores[core].kind = "revoked" => r <= sealed[core]
Seals ==
  /\ cache # None => Ignorant(cache.core, cache.revision)
  /\ syncing.kind = "answered" /\ syncing.answer.kind = "snapshot" =>
       Ignorant(syncing.connection.core, syncing.answer.revision)

LInv == Ranges /\ Linked /\ Kept /\ Requests /\ Waits /\ Seals

USE BoundsAreNumbers

-----------------------------------------------------------------------------
(* The operators *)

LEMMA Numbers == /\ Ids \subseteq Nat /\ 0 \notin Ids /\ 0..MaxRevision \subseteq Nat
  BY DEF Ids

\* A record of a request is told from no request by its kind.
LEMMA KindTells ==
  ASSUME NEW S, NEW call \in Calls(S)
  PROVE  (call = NoCall <=> call.kind = "none") /\ call.kind \in {"none", "asked", "answered"}
  BY DEF Calls, NoCall

\* A new request, and one whose answer has come.
LEMMA AskedFits ==
  ASSUME NEW S, NEW c \in S, c.sources \in Sources, NEW op \in Operations
  PROVE  /\ Asked(op, c) \in Calls(S) /\ Asked(op, c).kind = "asked"
         /\ Asked(op, c).connection = c /\ Asked(op, c) # NoCall
  BY DEF Asked, Calls, NoCall, Snapshots

LEMMA AnsweredFits ==
  ASSUME NEW S, NEW call \in Calls(S), call # NoCall, NEW answer \in Answers
  PROVE  /\ Answered(call, answer) \in Calls(S) /\ Answered(call, answer).kind = "answered"
         /\ Answered(call, answer).connection = call.connection
         /\ Answered(call, answer).answer = answer /\ Answered(call, answer) # NoCall
  BY DEF Answered, Calls, NoCall

LEMMA RearmedFits ==
  ASSUME NEW S, NEW call \in Calls(S), call.kind = "asked", NEW k \in Snapshots, NEW b \in BOOLEAN
  PROVE  /\ [call EXCEPT !.cached = k, !.arm = b] \in Calls(S)
         /\ [call EXCEPT !.cached = k, !.arm = b].kind = "asked"
  BY DEF Calls, NoCall

LEMMA SyncNowFits ==
  ASSUME syncing \in Calls(CoreConnections),
         NEW c \in {None} \cup PendingConnections \cup CoreConnections,
         NEW k \in Snapshots, NEW s \in Statuses, NEW arm \in BOOLEAN
  PROVE  /\ SyncNow(c, k, s, arm).status \in Statuses
         /\ SyncNow(c, k, s, arm).call \in Calls(CoreConnections)
         /\ SyncNow(c, k, s, arm).call.kind = "answered" =>
              /\ syncing.kind = "answered"
              /\ SyncNow(c, k, s, arm).call.connection = syncing.connection
              /\ SyncNow(c, k, s, arm).call.answer = syncing.answer
         /\ s # "revoked" /\ c \in CoreConnections => SyncNow(c, k, s, arm).call # NoCall
<1>1. CASE s = "revoked"
  BY <1>1 DEF SyncNow, Statuses
<1>2. CASE s # "revoked" /\ syncing # NoCall
  <2> DEFINE both == syncing.arm \/ arm
  <2> DEFINE joined == [syncing EXCEPT !.arm = both]
  <2>1. both \in BOOLEAN
    BY <1>2 DEF Calls
  <2>2. SyncNow(c, k, s, arm) = [call |-> joined, status |-> s]
    BY <1>2 DEF SyncNow
  <2> HIDE DEF both
  <2>3. joined \in Calls(CoreConnections)
    BY <1>2, <2>1 DEF Calls
  <2>4. /\ joined.kind = syncing.kind /\ joined.connection = syncing.connection
        /\ joined.answer = syncing.answer
    BY <1>2 DEF Calls
  <2> HIDE DEF joined
  <2> QED
    BY <1>2, <2>2, <2>3, <2>4, KindTells
<1>3. CASE s # "revoked" /\ syncing = NoCall
  <2>1. CASE c = None \/ c.kind = "pending"
    <3> DEFINE t == IF c = None THEN "disconnected" ELSE "pending"
    <3>1. SyncNow(c, k, s, arm) = [call |-> NoCall, status |-> t]
      BY <1>3, <2>1 DEF SyncNow
    <3>2. t \in Statuses
      BY DEF Statuses
    <3>3. NoCall \in Calls(CoreConnections) /\ NoCall.kind = "none"
      BY DEF Calls, NoCall
    <3>4. c \notin CoreConnections
      BY <2>1 DEF CoreConnections, None
    <3> HIDE DEF t
    <3> QED
      BY <3>1, <3>2, <3>3, <3>4
  <2>2. CASE c # None /\ c.kind # "pending"
    <3>1. c \in CoreConnections
      BY <2>2 DEF PendingConnections
    <3> DEFINE fresh == [Asked("snapshot", c) EXCEPT !.cached = k, !.arm = arm]
    <3>2. SyncNow(c, k, s, arm) = [call |-> fresh, status |-> s]
      BY <1>3, <2>2 DEF SyncNow
    <3>3. Asked("snapshot", c) \in Calls(CoreConnections) /\ Asked("snapshot", c).kind = "asked"
      <4>1. c.sources \in Sources
        BY <3>1 DEF CoreConnections
      <4> QED
        BY <3>1, <4>1, AskedFits DEF Operations
    <3>4. fresh \in Calls(CoreConnections) /\ fresh.kind = "asked"
      BY <3>3, RearmedFits
    <3>5. fresh # NoCall
      BY <3>4 DEF NoCall
    <3> HIDE DEF fresh
    <3> QED
      BY <3>2, <3>4, <3>5
  <2> QED
    BY <2>1, <2>2
<1> QED
  BY <1>1, <1>2, <1>3

-----------------------------------------------------------------------------
(* What keeps each part of the invariant *)

LEMMA NothingFits ==
  /\ \A S : NoCall \in Calls(S)
  /\ NoCall.kind = "none" /\ None.kind = "none" /\ None \in Snapshots
  BY DEF Calls, NoCall, Snapshots, None

LEMMA ConnectionTells ==
  /\ \A c \in PendingConnections : c.kind = "pending" /\ c.id \in Ids /\ c.sources \in Sources
  /\ \A c \in CoreConnections :
       c.kind = "core" /\ c.id \in Ids /\ c.core \in Ids /\ c.sources \in Sources
  /\ \A c \in Unnumbered : c.kind = "pending" /\ c.sources \in Sources
  BY DEF PendingConnections, CoreConnections, Unnumbered

LEMMA RequestTells ==
  ASSUME NEW S, NEW call \in Calls(S), call # NoCall
  PROVE  /\ call.connection \in S /\ call.answer \in {None} \cup Answers
         /\ call.cached \in Snapshots /\ call.sources \in Sources
         /\ call.arm \in BOOLEAN /\ call.approval \in BOOLEAN
  BY DEF Calls

LEMMA AnswerFits ==
  ASSUME NEW kind \in Decisions \cup {"lost", "unauthorized", "unchanged", "snapshot", "ok", "created"}
  PROVE  /\ Answer(kind) \in Answers /\ Answer(kind).kind = kind
         /\ \A id \in Ids : /\ [Answer(kind) EXCEPT !.id = id] \in Answers
                            /\ [Answer(kind) EXCEPT !.id = id].kind = kind
                            /\ [Answer(kind) EXCEPT !.id = id].id = id
  BY DEF Answer, Answers

LEMMA SnapshotFits ==
  ASSUME NEW r \in Nat, NEW keys \in BOOLEAN
  PROVE  LET told == [Answer("snapshot") EXCEPT !.revision = r, !.keys = keys]
         IN  told \in Answers /\ told.kind = "snapshot" /\ told.revision = r
  BY DEF Answer, Answers

\* Waits holds on when a wait, or a begin, goes on or ends, and no enrolment is stored.
LEMMA WaitsStay ==
  ASSUME LInv, enrolling' \in {NoCall, enrolling}, waiting' \in {NoCall, waiting},
         connection'.kind = "pending" => connection.kind = "pending" /\ connection'.id = connection.id
  PROVE  Waits'
  BY NothingFits DEF LInv, Waits

\* Seals holds on when the cache is kept or emptied, a download is the same or
\* a new one, and a Core that is revoked is so from this revision on.
LEMMA SealsStay ==
  ASSUME LInv, cache' \in {None, cache},
         syncing'.kind = "answered" /\ syncing'.answer.kind = "snapshot" =>
           /\ syncing.kind = "answered"
           /\ syncing'.connection = syncing.connection /\ syncing'.answer = syncing.answer,
         revision' \in {revision, revision + 1},
         \A id \in Ids : cores'[id].kind = "revoked" =>
           \/ cores[id].kind = "revoked" /\ sealed'[id] = sealed[id]
           \/ sealed'[id] = revision
  PROVE  Seals'
<1>1. revision \in Nat
  BY Numbers DEF LInv, Ranges
<1>2. \A id \in Ids, r \in Nat : Ignorant(id, r) => Ignorant(id, r)'
  BY <1>1 DEF Ignorant
<1>3. cache' # None => Ignorant(cache.core, cache.revision)'
  <2>1. CASE cache = None
    BY <2>1
  <2>2. CASE cache # None
    <3>1. cache.core \in Ids /\ cache.revision \in Nat
      BY <2>2 DEF LInv, Kept, Snapshots
    <3> QED
      BY <1>2, <2>2, <3>1 DEF LInv, Seals, Ignorant
  <2> QED
    BY <2>1, <2>2
<1>4. ASSUME syncing'.kind = "answered", syncing'.answer.kind = "snapshot"
      PROVE  Ignorant(syncing.connection.core, syncing.answer.revision)'
  <2>1. syncing # NoCall /\ syncing.answer.kind = "snapshot"
    BY <1>4, NothingFits
  <2>2. syncing.connection.core \in Ids /\ syncing.answer.revision \in Nat
    <3>1. syncing.connection \in CoreConnections /\ syncing.answer \in {None} \cup Answers
      BY <2>1, RequestTells DEF LInv, Requests
    <3>2. syncing.answer \in Answers
      BY <2>1, <3>1, NothingFits
    <3> QED
      BY <3>1, <3>2, ConnectionTells DEF Answers
  <2>3. Ignorant(syncing.connection.core, syncing.answer.revision)
    BY <1>4, <2>1 DEF LInv, Seals
  <2> QED
    BY <1>2, <1>4, <2>2, <2>3 DEF Ignorant
<1> QED
  BY <1>3, <1>4 DEF Seals

LEMMA LinkedStays ==
  ASSUME LInv, connection' \in {None, connection} PROVE Linked'
  BY NothingFits DEF LInv, Linked, CredentialIsOurs

LEMMA RangesStay ==
  ASSUME LInv, UNCHANGED serverVars, UNCHANGED up, status' \in Statuses,
         stopped' \in BOOLEAN, armed' \in BOOLEAN
  PROVE  Ranges'
  BY DEF LInv, Ranges, serverVars

LEMMA ForgetsFits ==
  ASSUME LInv, Forgets
  PROVE  /\ status' \in Statuses /\ stopped' \in BOOLEAN /\ armed' \in BOOLEAN
         /\ Linked' /\ Kept' /\ connection' = None /\ cache' = None
<1>1. Linked'
  BY LinkedStays DEF Forgets
<1> QED
  BY <1>1, NothingFits DEF Forgets, Kept, Statuses

\* An operation of the user, or its end, that forgets the connection.
LEMMA ForgettingKeeps ==
  ASSUME LInv, Forgets, UNCHANGED <<serverVars, syncing, enrolling, switching, up>>,
         leaving' \in {NoCall, leaving}, waiting' \in {NoCall, waiting}
  PROVE  LInv'
<1>1. Ranges'
  BY ForgetsFits, RangesStay
<1>2. Requests'
  BY NothingFits DEF LInv, Requests
<1>3. Waits'
  BY ForgetsFits, WaitsStay, NothingFits
<1>4. Seals'
  BY ForgetsFits, SealsStay DEF serverVars
<1> QED
  BY <1>1, <1>2, <1>3, <1>4, ForgetsFits DEF LInv

\* A step in which no request, nothing on disk and nothing of the server changes.
LEMMA QuietKeeps ==
  ASSUME LInv, UNCHANGED <<serverVars, diskVars, calls, up, current>>,
         status' \in Statuses, stopped' \in BOOLEAN, armed' \in BOOLEAN
  PROVE  LInv'
<1> USE DEF serverVars, diskVars, calls
<1>1. Ranges'
  BY RangesStay
<1>2. Linked' /\ Kept' /\ Requests'
  BY LinkedStays DEF LInv, Kept, Requests
<1>3. Waits'
  BY WaitsStay
<1>4. Seals'
  BY SealsStay
<1> QED
  BY <1>1, <1>2, <1>3, <1>4 DEF LInv

LEMMA Stays == LInv => /\ status \in Statuses /\ stopped \in BOOLEAN /\ armed \in BOOLEAN
                       /\ connection \in {None} \cup PendingConnections \cup CoreConnections
                       /\ cache \in Snapshots /\ current \in Snapshots
                       /\ syncing \in Calls(CoreConnections)
  BY DEF LInv, Ranges, Linked, Kept, Requests

-----------------------------------------------------------------------------
(* Downloads *)

\* What an answered download leaves is a snapshot, as young as the answer, or
\* what there was.
LEMMA RefreshedFits ==
  ASSUME LInv, syncing.kind = "answered"
  PROVE  LET next == Refreshed(syncing.answer)
         IN  /\ next.status \in Statuses /\ next.cache \in Snapshots /\ next.current \in Snapshots
             /\ next.cache = cache \/ Ignorant(next.cache.core, next.cache.revision)
<1> DEFINE answer == syncing.answer
           next == Refreshed(answer)
<1>1. /\ syncing.connection \in CoreConnections /\ answer \in {None} \cup Answers
      /\ syncing.cached \in Snapshots
  BY RequestTells, NothingFits DEF LInv, Requests
<1>2. WithoutSnapshot \in Statuses
  BY DEF WithoutSnapshot, Statuses
<1>3. CASE next = [status |-> "online", cache |-> Snapshot(answer.revision, answer.keys, syncing.connection.core),
                   current |-> Snapshot(answer.revision, answer.keys, syncing.connection.core)]
           /\ answer.kind = "snapshot"
  <2>1. answer \in Answers /\ syncing.connection.core \in Ids
    BY <1>1, <1>3, NothingFits, ConnectionTells
  <2>2. Snapshot(answer.revision, answer.keys, syncing.connection.core) \in Snapshots
    BY <2>1 DEF Snapshot, Snapshots, Answers
  <2>3. /\ Snapshot(answer.revision, answer.keys, syncing.connection.core).core = syncing.connection.core
        /\ Snapshot(answer.revision, answer.keys, syncing.connection.core).revision = answer.revision
    BY DEF Snapshot
  <2>4. Ignorant(syncing.connection.core, answer.revision)
    BY <1>3 DEF LInv, Seals
  <2> QED
    BY <1>3, <2>2, <2>3, <2>4 DEF Statuses
<1>4. CASE next.cache = cache /\ next.status \in Statuses /\ next.current \in {cache, current, syncing.cached}
  BY <1>1, <1>4, Stays
<1>5. \/ next = [status |-> "online", cache |-> Snapshot(answer.revision, answer.keys, syncing.connection.core),
                 current |-> Snapshot(answer.revision, answer.keys, syncing.connection.core)]
         /\ answer.kind = "snapshot"
      \/ next.cache = cache /\ next.status \in Statuses /\ next.current \in {cache, current, syncing.cached}
  <2>1. CASE answer.kind = "unauthorized"
    BY <2>1 DEF Refreshed, Statuses
  <2>2. CASE answer.kind = "unchanged"
    BY <2>2 DEF Refreshed, Statuses
  <2>3. CASE answer.kind = "snapshot" /\ answer.keys = SharesKeys(syncing.connection)
               /\ (cache = None \/ answer.revision >= cache.revision)
    <3>1. CASE cache # None /\ answer.revision = cache.revision
      BY <2>3, <3>1 DEF Refreshed, Statuses
    <3>2. CASE ~(cache # None /\ answer.revision = cache.revision)
      BY <2>3, <3>2 DEF Refreshed
    <3> QED
      BY <3>1, <3>2
  <2>4. CASE /\ answer.kind # "unauthorized" /\ answer.kind # "unchanged"
             /\ ~(answer.kind = "snapshot" /\ answer.keys = SharesKeys(syncing.connection)
                  /\ (cache = None \/ answer.revision >= cache.revision))
    BY <1>2, <2>4 DEF Refreshed
  <2> QED
    BY <2>1, <2>2, <2>3, <2>4
<1> QED
  BY <1>3, <1>4, <1>5

\* A download ends: its snapshot, the old one, and nothing else of the disk.
LEMMA EndingKeeps ==
  ASSUME LInv, syncing.kind = "answered", syncing' = NoCall,
         UNCHANGED <<serverVars, connection, stopped, enrolling, waiting, leaving, switching, up>>,
         cache' \in {cache, Refreshed(syncing.answer).cache},
         current' \in {current, Refreshed(syncing.answer).current},
         status' \in Statuses, armed' \in BOOLEAN
  PROVE  LInv'
<1>1. Ranges'
  BY RangesStay, Stays
<1>2. Linked' /\ Requests'
  BY LinkedStays, NothingFits DEF LInv, Requests
<1>3. Kept'
  BY RefreshedFits DEF LInv, Kept
<1>4. Waits'
  BY WaitsStay
<1>5. Seals'
  <2>1. cache' # None => Ignorant(cache.core, cache.revision)'
    BY RefreshedFits DEF LInv, Seals, Ignorant, serverVars
  <2> QED
    BY <2>1, NothingFits DEF Seals
<1> QED
  BY <1>1, <1>2, <1>3, <1>4, <1>5 DEF LInv

\* A download is started, or joined.
LEMMA StartingFits ==
  ASSUME LInv, NEW c \in {None} \cup PendingConnections \cup CoreConnections,
         NEW k \in Snapshots, NEW s \in Statuses, NEW arm \in BOOLEAN,
         Syncs(SyncNow(c, k, s, arm)), cache' \in {None, cache}, UNCHANGED serverVars
  PROVE  status' \in Statuses /\ syncing' \in Calls(CoreConnections) /\ Seals'
<1>1. /\ syncing' = SyncNow(c, k, s, arm).call
      /\ status' = SyncNow(c, k, s, arm).status
  BY DEF Syncs
<1>2. Seals'
  <2>1. syncing \in Calls(CoreConnections)
    BY Stays
  <2>2. SyncNow(c, k, s, arm).call.kind = "answered" =>
          /\ syncing.kind = "answered"
          /\ SyncNow(c, k, s, arm).call.connection = syncing.connection
          /\ SyncNow(c, k, s, arm).call.answer = syncing.answer
    BY <2>1, SyncNowFits
  <2> QED
    BY <1>1, <2>2, SealsStay DEF serverVars
<1> QED
  BY <1>1, <1>2, SyncNowFits, Stays

LEMMA DownloadsKeep ==
  ASSUME LInv, SyncEnds \/ CacheWriteFails \/ RuntimeWriteFails
  PROVE  LInv'
<1>1. armed' \in BOOLEAN
  BY RequestTells, NothingFits DEF LInv, Ranges, Requests, SyncEnds, CacheWriteFails, RuntimeWriteFails
<1>2. WithoutSnapshot \in Statuses /\ "stale" \in Statuses
  BY DEF WithoutSnapshot, Statuses
<1>3. CASE SyncEnds
  BY <1>1, <1>3, EndingKeeps, RefreshedFits DEF SyncEnds
<1>4. CASE CacheWriteFails
  BY <1>1, <1>2, <1>4, EndingKeeps DEF CacheWriteFails, diskVars
<1>5. CASE RuntimeWriteFails
  BY <1>1, <1>2, <1>5, EndingKeeps DEF RuntimeWriteFails
<1> QED
  BY <1>3, <1>4, <1>5

LEMMA StartsKeep ==
  ASSUME LInv, TimerFires \/ SyncNowByHand
  PROVE  LInv'
<1>1. /\ UNCHANGED <<serverVars, diskVars, current, stopped, enrolling, waiting, leaving, switching, up>>
      /\ armed' \in BOOLEAN
      /\ \E arm \in BOOLEAN : Syncs(SyncNow(connection, cache, status, arm))
  BY Stays DEF TimerFires, SyncNowByHand
<1>2. status' \in Statuses /\ syncing' \in Calls(CoreConnections) /\ Seals'
  BY <1>1, StartingFits, Stays DEF diskVars
<1>3. Ranges'
  BY <1>1, <1>2, RangesStay, Stays
<1>4. Linked' /\ Kept' /\ Requests'
  BY <1>1, <1>2, LinkedStays DEF LInv, Kept, Requests, diskVars
<1>5. Waits'
  BY <1>1, WaitsStay DEF diskVars
<1> QED
  BY <1>2, <1>3, <1>4, <1>5 DEF LInv

LEMMA SnapshotForCoreKeeps ==
  ASSUME LInv, SnapshotForCore PROVE LInv'
<1> DEFINE core == syncing.connection.core
<1>1. syncing # NoCall /\ syncing \in Calls(CoreConnections) /\ core \in Ids /\ revision \in Nat
  BY NothingFits, RequestTells, ConnectionTells, Numbers DEF SnapshotForCore, LInv, Requests, Ranges
<1>2. cores[core].keys \in BOOLEAN
  BY <1>1 DEF LInv, Ranges
<1>3. \E answer \in Answers :
        /\ syncing' = Answered(syncing, answer)
        /\ answer.kind = "snapshot" => Known(core) /\ answer.revision = revision
  <2>1. CASE ~Known(core)
    <3>1. syncing' = Answered(syncing, Answer("unauthorized"))
      BY <2>1 DEF SnapshotForCore
    <3>2. Answer("unauthorized") \in Answers /\ Answer("unauthorized").kind = "unauthorized"
      BY AnswerFits
    <3> QED
      BY <3>1, <3>2
  <2>2. CASE Known(core) /\ syncing.cached # None /\ syncing.cached.revision = revision
    <3>1. syncing' = Answered(syncing, Answer("unchanged"))
      BY <2>2 DEF SnapshotForCore
    <3>2. Answer("unchanged") \in Answers /\ Answer("unchanged").kind = "unchanged"
      BY AnswerFits
    <3> QED
      BY <3>1, <3>2
  <2>3. CASE Known(core) /\ ~(syncing.cached # None /\ syncing.cached.revision = revision)
    <3> DEFINE told == [Answer("snapshot") EXCEPT !.revision = revision, !.keys = cores[core].keys]
    <3>1. syncing' = Answered(syncing, told)
      BY <2>3 DEF SnapshotForCore
    <3>2. told \in Answers /\ told.kind = "snapshot" /\ told.revision = revision
      BY <1>1, <1>2, SnapshotFits
    <3> HIDE DEF told
    <3> QED
      BY <2>3, <3>1, <3>2
  <2> QED
    BY <2>1, <2>2, <2>3
<1>4. PICK answer \in Answers :
        /\ syncing' = Answered(syncing, answer)
        /\ answer.kind = "snapshot" => Known(core) /\ answer.revision = revision
  BY <1>3
<1>5. /\ syncing' \in Calls(CoreConnections) /\ syncing'.answer = answer
      /\ syncing'.connection = syncing.connection
  BY <1>1, <1>4, AnsweredFits
<1>6. Ranges' /\ Linked' /\ Kept' /\ Requests'
  BY <1>5, LinkedStays DEF SnapshotForCore, LInv, Ranges, Kept, Requests, serverVars, diskVars, linkVars
<1>7. Waits'
  BY WaitsStay DEF SnapshotForCore, diskVars
<1>8. Seals'
  <2>1. UNCHANGED <<revision, cores, sealed, cache>>
    BY DEF SnapshotForCore, serverVars, diskVars
  <2>2. cache # None => Ignorant(cache.core, cache.revision)'
    BY <2>1 DEF LInv, Seals, Ignorant
  <2>3. answer.kind = "snapshot" => Ignorant(core, answer.revision)'
    BY <1>1, <1>4, <1>5, <2>1 DEF Ignorant, Known
  <2> QED
    BY <1>5, <2>1, <2>2, <2>3 DEF Seals, Ignorant
<1> QED
  BY <1>6, <1>7, <1>8 DEF LInv

-----------------------------------------------------------------------------
(* The process, and the requests of the user *)

LEMMA ConnectionAsked ==
  ASSUME LInv, connection # None, NEW op \in Operations
  PROVE  /\ connection.kind = "pending" =>
              Asked(op, connection) \in Calls(PendingConnections)
         /\ connection.kind # "pending" =>
              Asked(op, connection) \in Calls(CoreConnections)
<1>1. connection \in PendingConnections \cup CoreConnections
  BY Stays
<1> QED
  BY <1>1, ConnectionTells, AskedFits

LEMMA BootKeeps ==
  ASSUME LInv, Boot PROVE LInv'
<1> USE DEF Boot
<1>1. InitialStatus \in Statuses
  BY DEF InitialStatus, Statuses
<1>2. status' \in Statuses /\ syncing' \in Calls(CoreConnections) /\ Seals'
  BY <1>1, StartingFits, Stays DEF diskVars
<1>3. waiting' \in Calls(PendingConnections)
  BY ConnectionAsked, NothingFits DEF Operations
<1>4. waiting' # NoCall => /\ waiting'.kind = "asked" /\ waiting'.connection = connection
  BY DEF Asked
<1>5. Ranges' /\ Linked' /\ Kept' /\ Requests'
  BY <1>2, <1>3, LinkedStays, NothingFits DEF LInv, Ranges, Kept, Requests, serverVars, diskVars
<1>6. Waits'
  BY <1>4, NothingFits DEF Waits, diskVars
<1> QED
  BY <1>2, <1>5, <1>6 DEF LInv

LEMMA DiesKeeps ==
  ASSUME LInv, Dies PROVE LInv'
<1> USE DEF Dies
<1>1. Ranges' /\ Linked' /\ Kept' /\ Requests'
  BY LinkedStays, NothingFits DEF LInv, Ranges, Kept, Requests, serverVars, diskVars, Statuses
<1>2. Waits'
  BY WaitsStay DEF diskVars
<1>3. Seals'
  BY SealsStay, NothingFits DEF serverVars, diskVars
<1> QED
  BY <1>1, <1>2, <1>3 DEF LInv

LEMMA ForgettingsKeep ==
  ASSUME LInv, Cancel \/ PrepareSyncHostDelete \/ Refused
  PROVE  LInv'
  BY ForgettingKeeps DEF Cancel, PrepareSyncHostDelete, Refused, AbortedWait

LEMMA DisconnectKeeps ==
  ASSUME LInv, Disconnect PROVE LInv'
<1>1. CASE connection.kind = "core"
  <2>1. /\ leaving' = Asked("revoke", connection)
        /\ UNCHANGED <<serverVars, diskVars, linkVars, syncing, enrolling, waiting, switching, up>>
    BY <1>1 DEF Disconnect
  <2>2. leaving' \in Calls(CoreConnections)
    BY <1>1, <2>1, ConnectionAsked, NothingFits DEF Operations
  <2>3. Ranges' /\ Linked' /\ Kept' /\ Requests'
    BY <2>1, <2>2, LinkedStays DEF LInv, Ranges, Kept, Requests, serverVars, diskVars, linkVars
  <2>4. Waits' /\ Seals'
    BY <2>1, WaitsStay, SealsStay DEF serverVars, diskVars
  <2> QED
    BY <2>3, <2>4 DEF LInv
<1>2. CASE connection.kind # "core"
  BY <1>2, ForgettingKeeps DEF Disconnect, AbortedWait
<1> QED
  BY <1>1, <1>2

LEMMA DisconnectEndsKeeps ==
  ASSUME LInv, DisconnectEnds PROVE LInv'
<1>1. CASE RevokedAlready
  BY <1>1, ForgettingKeeps DEF DisconnectEnds, AbortedWait
<1>2. CASE ~RevokedAlready
  <2>1. /\ leaving' = NoCall
        /\ UNCHANGED <<serverVars, diskVars, linkVars, syncing, enrolling, waiting, switching, up>>
    BY <1>2 DEF DisconnectEnds
  <2>2. Ranges' /\ Linked' /\ Kept' /\ Requests'
    BY <2>1, LinkedStays, NothingFits DEF LInv, Ranges, Kept, Requests, serverVars, diskVars, linkVars
  <2>3. Waits' /\ Seals'
    BY <2>1, WaitsStay, SealsStay DEF serverVars, diskVars
  <2> QED
    BY <2>2, <2>3 DEF LInv
<1> QED
  BY <1>1, <1>2

\* The sources change: the cache is emptied and a download begins.
LEMMA TakesSourcesFits ==
  ASSUME LInv, connection # None, NEW sources \in Sources, TakesSources(sources),
         UNCHANGED serverVars
  PROVE  /\ status' \in Statuses /\ syncing' \in Calls(CoreConnections) /\ Seals'
         /\ Linked' /\ Kept'
         /\ connection'.kind = connection.kind /\ connection'.id = connection.id
<1>1. connection \in PendingConnections \cup CoreConnections
  BY Stays
<1>2. /\ connection' \in PendingConnections \cup CoreConnections
      /\ connection'.kind = connection.kind /\ connection'.id = connection.id
      /\ connection'.core = connection.core
  BY <1>1 DEF TakesSources, PendingConnections, CoreConnections
<1>3. Linked'
  BY <1>2 DEF LInv, Linked, CredentialIsOurs
<1>4. Kept'
  BY NothingFits DEF TakesSources, Kept
<1>5. status' \in Statuses /\ syncing' \in Calls(CoreConnections) /\ Seals'
  BY <1>2, StartingFits, Stays, NothingFits DEF TakesSources
<1> QED
  BY <1>2, <1>3, <1>4, <1>5

\* A step of the change of sources.
LEMMA SwitchingKeeps ==
  ASSUME LInv, switching' \in Calls(CoreConnections),
         UNCHANGED <<serverVars, stopped, armed, enrolling, waiting, leaving, up>>,
         \/ UNCHANGED <<diskVars, current, status, syncing>>
         \/ connection # None /\ \E sources \in Sources : TakesSources(sources)
  PROVE  LInv'
<1>1. CASE UNCHANGED <<diskVars, current, status, syncing>>
  <2> USE DEF serverVars, diskVars
  <2>1. Ranges' /\ Linked' /\ Kept' /\ Requests'
    BY <1>1, LinkedStays DEF LInv, Ranges, Kept, Requests
  <2>2. Waits' /\ Seals'
    BY <1>1, WaitsStay, SealsStay
  <2> QED
    BY <2>1, <2>2 DEF LInv
<1>2. ASSUME connection # None, NEW sources \in Sources, TakesSources(sources)
      PROVE  LInv'
  <2>1. /\ status' \in Statuses /\ syncing' \in Calls(CoreConnections) /\ Seals'
        /\ Linked' /\ Kept'
        /\ connection'.kind = connection.kind /\ connection'.id = connection.id
    BY <1>2, TakesSourcesFits
  <2>2. Ranges' /\ Requests'
    BY <2>1, RangesStay, Stays DEF LInv, Requests
  <2>3. Waits'
    BY <2>1, WaitsStay
  <2> QED
    BY <2>1, <2>2, <2>3 DEF LInv
<1> QED
  BY <1>1, <1>2

LEMMA UpdateSourcesKeeps ==
  ASSUME LInv, NEW sources \in Sources, UpdateSources(sources) PROVE LInv'
<1>1. connection # None
  BY NothingFits DEF UpdateSources
<1>2. CASE SharesKeys(connection) # (sources = "all")
  <2>1. Asked("preferences", connection) \in Calls(CoreConnections)
    BY <1>1, ConnectionAsked DEF Operations, UpdateSources
  <2> DEFINE asked == [Asked("preferences", connection) EXCEPT !.sources = sources]
  <2>2. asked \in Calls(CoreConnections)
    BY <2>1 DEF Calls, Asked, NoCall
  <2>3. /\ switching' = asked
        /\ UNCHANGED <<diskVars, current, status, syncing>>
        /\ UNCHANGED <<serverVars, stopped, armed, enrolling, waiting, leaving, up>>
    BY <1>2 DEF UpdateSources
  <2> HIDE DEF asked
  <2> QED
    BY <2>2, <2>3, SwitchingKeeps
<1>3. CASE SharesKeys(connection) = (sources = "all")
  BY <1>1, <1>3, SwitchingKeeps DEF UpdateSources, LInv, Requests
<1> QED
  BY <1>2, <1>3

LEMMA UnswitchFits ==
  ASSUME LInv, switching # NoCall PROVE Unswitch \in Calls(CoreConnections)
<1>1. switching.connection \in CoreConnections /\ switching.connection.sources \in Sources
  BY RequestTells, ConnectionTells DEF LInv, Requests
<1>2. Asked("rollback", switching.connection) \in Calls(CoreConnections)
  BY <1>1, AskedFits DEF Operations
<1> QED
  BY <1>1, <1>2 DEF Unswitch, Calls, Asked, NoCall

LEMMA SwitchEndsKeep ==
  ASSUME LInv, UpdateSourcesEnds \/ SourcesWriteFails PROVE LInv'
<1>1. switching # NoCall
  BY NothingFits DEF UpdateSourcesEnds, SourcesWriteFails
<1>2. switching.sources \in Sources
  BY <1>1, RequestTells DEF LInv, Requests
<1>3. CASE SourcesWriteFails
  BY <1>1, <1>3, UnswitchFits, SwitchingKeeps DEF SourcesWriteFails, linkVars
<1>4. CASE UpdateSourcesEnds
  <2>1. switching' \in {NoCall, Unswitch}
    BY <1>4 DEF UpdateSourcesEnds
  <2>2. \/ UNCHANGED <<diskVars, current, status, syncing>>
        \/ connection # None /\ TakesSources(switching.sources)
    BY <1>4 DEF UpdateSourcesEnds
  <2>3. switching' \in Calls(CoreConnections)
    BY <1>1, <2>1, UnswitchFits, NothingFits
  <2> QED
    BY <1>2, <1>4, <2>2, <2>3, SwitchingKeeps DEF UpdateSourcesEnds
<1> QED
  BY <1>3, <1>4

-----------------------------------------------------------------------------
(* The enrolment *)

\* A step of the enrolment that leaves the downloads and what is in force alone.
LEMMA EnrollingKeeps ==
  ASSUME LInv, Ranges', Linked', Waits', waiting' \in Calls(PendingConnections),
         enrolling' \in Calls(Unnumbered),
         UNCHANGED <<cache, current, syncing, leaving, switching, revision, sealed>>,
         \A id \in Ids : cores'[id].kind = cores[id].kind
  PROVE  LInv'
<1>1. Kept' /\ Requests'
  BY DEF LInv, Kept, Requests
<1>2. Seals'
  BY SealsStay
<1> QED
  BY <1>1, <1>2 DEF LInv

LEMMA WaitAnswered ==
  ASSUME LInv, waiting # NoCall, NEW answer \in Answers, waiting' = Answered(waiting, answer),
         answer.kind = "approved" => answer.id = waiting.connection.id,
         UNCHANGED <<enrolling, connection>>
  PROVE  Waits' /\ waiting' \in Calls(PendingConnections)
<1>1. /\ waiting' \in Calls(PendingConnections) /\ waiting'.answer = answer
      /\ waiting'.connection = waiting.connection
  BY AnsweredFits DEF LInv, Requests
<1> QED
  BY <1>1, NothingFits DEF LInv, Waits

LEMMA ConnectKeeps ==
  ASSUME LInv, NEW sources \in Sources, Connect(sources) PROVE LInv'
<1>1. Pending(0, sources) \in Unnumbered
  BY DEF Pending, Unnumbered
<1>2. /\ enrolling' \in Calls(Unnumbered) /\ enrolling'.kind = "asked" /\ waiting' = NoCall
  BY <1>1, AskedFits, ConnectionTells DEF Connect, AbortedWait, Operations
<1>3. Ranges' /\ Linked'
  BY LinkedStays DEF Connect, LInv, Ranges, serverVars, linkVars, diskVars
<1>4. Waits'
  BY <1>2, NothingFits DEF Waits
<1> QED
  BY <1>2, <1>3, <1>4, EnrollingKeeps, NothingFits DEF Connect, serverVars, diskVars, linkVars

LEMMA EnrollmentStoredKeeps ==
  ASSUME LInv, EnrollmentStored PROVE LInv'
<1>1. Ranges'
  BY DEF EnrollmentStored, LInv, Ranges, serverVars, linkVars
<1>2. waiting = NoCall /\ enrolling # NoCall
  BY NothingFits DEF EnrollmentStored, LInv, Waits
<1>3. CASE enrolling.answer.kind = "created"
  <2>1. enrolling.answer.id \in Ids /\ enrolling.sources \in Sources
    BY <1>2, <1>3, RequestTells DEF EnrollmentStored, LInv, Waits, Requests
  <2>2. connection' \in PendingConnections /\ waiting' = Asked("status", connection')
    BY <1>2, <1>3, <2>1 DEF EnrollmentStored, Pending, PendingConnections
  <2>3. /\ waiting' \in Calls(PendingConnections) /\ waiting'.kind = "asked"
        /\ waiting'.connection = connection'
    BY <2>2, ConnectionTells, AskedFits DEF Operations
  <2>4. Linked'
    BY <2>2, ConnectionTells DEF Linked, CredentialIsOurs
  <2>5. Waits'
    BY <2>3, NothingFits DEF EnrollmentStored, Waits
  <2> QED
    BY <1>1, <2>3, <2>4, <2>5, EnrollingKeeps, NothingFits DEF EnrollmentStored, serverVars, linkVars
<1>4. CASE enrolling.answer.kind # "created"
  <2>1. UNCHANGED <<connection, waiting>> /\ enrolling' = NoCall
    BY <1>4 DEF EnrollmentStored
  <2>2. Linked' /\ Waits'
    BY <2>1, LinkedStays, WaitsStay
  <2> QED
    BY <1>1, <1>2, <2>1, <2>2, EnrollingKeeps, NothingFits DEF EnrollmentStored, serverVars, linkVars
<1> QED
  BY <1>3, <1>4

LEMMA ApprovedKeeps ==
  ASSUME LInv, Approved PROVE LInv'
<1> DEFINE c == Connected(connection, waiting.answer.id)
           next == SyncNow(c, cache, status, TRUE)
<1>1. waiting.answer.id = connection.id /\ waiting # NoCall
  BY NothingFits DEF Approved, StatusAnswered, LInv, Waits
<1>2. connection \in PendingConnections
  BY Stays, NothingFits, ConnectionTells DEF Approved
<1>3. connection' = c /\ c \in CoreConnections /\ c.core = c.id
  BY <1>1, <1>2 DEF Approved, Connected, PendingConnections, CoreConnections
<1>4. /\ next.status \in Statuses /\ next.call \in Calls(CoreConnections)
      /\ next.call.kind = "answered" =>
           /\ syncing.kind = "answered"
           /\ next.call.connection = syncing.connection /\ next.call.answer = syncing.answer
  BY <1>3, SyncNowFits, Stays
<1>5. /\ status' = next.status
      /\ \/ syncing' = next.call
         \/ next.call # NoCall /\ syncing' = [next.call EXCEPT !.approval = TRUE]
  <2>1. CASE status = "revoked"
    BY <1>3, <2>1 DEF Approved, Syncs
  <2>2. CASE status # "revoked"
    <3>1. syncing' = [next EXCEPT !.call.approval = TRUE].call
          /\ status' = [next EXCEPT !.call.approval = TRUE].status
      BY <1>3, <2>2 DEF Approved, Syncs
    <3>2. next.call # NoCall
      BY <1>3, <2>2, SyncNowFits, Stays
    <3>3. next = [call |-> next.call, status |-> next.status]
      BY <1>3, <2>2, NothingFits, ConnectionTells DEF SyncNow
    <3> HIDE DEF next
    <3> QED
      BY <3>1, <3>2, <3>3
  <2> QED
    BY <2>1, <2>2
<1> HIDE DEF next
<1>6. /\ syncing' \in Calls(CoreConnections)
      /\ syncing'.kind = "answered" =>
           /\ syncing.kind = "answered"
           /\ syncing'.connection = syncing.connection /\ syncing'.answer = syncing.answer
  <2>1. CASE syncing' = next.call
    BY <1>4, <2>1
  <2>2. CASE next.call # NoCall /\ syncing' = [next.call EXCEPT !.approval = TRUE]
    BY <1>4, <2>2 DEF Calls, NoCall
  <2> QED
    BY <1>5, <2>1, <2>2
<1>7. Ranges'
  BY <1>4, <1>5, RangesStay, Stays DEF Approved
<1>8. Linked'
  BY <1>3 DEF Linked, CredentialIsOurs
<1>9. Kept' /\ Requests'
  BY <1>6, NothingFits DEF Approved, LInv, Kept, Requests
<1>10. Waits'
  BY <1>3, ConnectionTells, WaitsStay DEF Approved
<1>11. Seals'
  BY <1>6, SealsStay DEF Approved, serverVars
<1> QED
  BY <1>7, <1>8, <1>9, <1>10, <1>11 DEF LInv

LEMMA ApprovalsKeep ==
  ASSUME LInv, ApprovalEnds \/ ApprovalFails PROVE LInv'
  BY QuietKeeps, Stays DEF ApprovalEnds, ApprovalFails

LEMMA WaitsGoOn ==
  ASSUME LInv, StillPending \/ WaitFails PROVE LInv'
<1>1. /\ UNCHANGED <<serverVars, diskVars, linkVars, syncing, enrolling, leaving, switching, up>>
      /\ waiting # NoCall /\ enrolling = NoCall
      /\ \/ waiting' = NoCall
         \/ connection.kind = "pending" /\ waiting' = Asked("status", connection)
  <2>1. CASE StillPending
    BY <2>1, NothingFits DEF StillPending, StatusAnswered, LInv, Waits
  <2>2. CASE WaitFails
    BY <2>2, NothingFits DEF WaitFails, StatusAnswered, LInv, Waits
  <2> QED
    BY <2>1, <2>2
<1>2. Ranges' /\ Linked'
  BY <1>1, LinkedStays DEF LInv, Ranges, serverVars, linkVars, diskVars
<1>3. CASE waiting' = NoCall
  BY <1>1, <1>2, <1>3, WaitsStay, EnrollingKeeps, NothingFits DEF serverVars, diskVars, linkVars
<1>4. CASE connection.kind = "pending" /\ waiting' = Asked("status", connection)
  <2>1. connection \in PendingConnections
    BY <1>4, Stays, NothingFits, ConnectionTells
  <2>2. /\ waiting' \in Calls(PendingConnections) /\ waiting'.kind = "asked"
        /\ waiting'.connection = connection
    BY <1>4, <2>1, ConnectionTells, AskedFits DEF Operations
  <2>3. Waits'
    BY <1>1, <2>2, NothingFits DEF Waits, diskVars
  <2> QED
    BY <1>1, <1>2, <2>2, <2>3, EnrollingKeeps, NothingFits DEF serverVars, diskVars, linkVars
<1> QED
  BY <1>1, <1>3, <1>4

-----------------------------------------------------------------------------
(* The server, and what gets lost *)

LEMMA CreateEnrollmentKeeps ==
  ASSUME LInv, CreateEnrollment PROVE LInv'
<1>1. PICK id \in Ids :
        /\ enrollments' = [enrollments EXCEPT ![id] = "pending"]
        /\ cores' = [cores EXCEPT ![id].keys = (enrolling.sources = "all")]
        /\ enrolling' = Answered(enrolling, [Answer("created") EXCEPT !.id = id])
  BY DEF CreateEnrollment
<1>2. enrolling # NoCall
  BY NothingFits DEF CreateEnrollment
<1> DEFINE told == [Answer("created") EXCEPT !.id = id]
<1>3. told \in Answers /\ told.id = id
  BY AnswerFits
<1>4. /\ enrolling' \in Calls(Unnumbered) /\ enrolling'.answer = told
      /\ enrolling' # NoCall
  <2> HIDE DEF told
  <2> QED
    BY <1>1, <1>2, <1>3, AnsweredFits DEF LInv, Requests, told
<1> DEFINE shared == enrolling.sources = "all"
<1>5. cores' = [cores EXCEPT ![id].keys = shared] /\ shared \in BOOLEAN
  BY <1>1
<1> HIDE DEF shared
<1>6. /\ cores' \in [Ids -> [kind : {"none", "connected", "revoked"}, keys : BOOLEAN]]
      /\ \A n \in Ids : cores'[n].kind = cores[n].kind
  BY <1>5 DEF LInv, Ranges
<1>7. Ranges'
  BY <1>1, <1>6 DEF CreateEnrollment, LInv, Ranges, Decisions, linkVars
<1>8. Linked' /\ waiting = NoCall
  BY <1>2, LinkedStays DEF CreateEnrollment, diskVars, LInv, Waits
<1>9. Waits'
  BY <1>3, <1>4, <1>8, NothingFits DEF CreateEnrollment, Waits
<1> QED
  BY <1>4, <1>6, <1>7, <1>8, <1>9, EnrollingKeeps
     DEF CreateEnrollment, diskVars, linkVars, LInv, Requests

LEMMA EnrollmentStatusKeeps ==
  ASSUME LInv, EnrollmentStatus PROVE LInv'
<1> DEFINE id == waiting.connection.id
           now == enrollments[id]
<1>1. waiting # NoCall /\ id \in Ids /\ now \in Decisions
  BY NothingFits, RequestTells, ConnectionTells DEF EnrollmentStatus, LInv, Requests, Ranges
<1>2. \E answer \in Answers :
        /\ waiting' = Answered(waiting, answer)
        /\ answer.kind = "approved" => answer.id = waiting.connection.id
  <2>1. CASE now = "gone"
    <3>1. waiting' = Answered(waiting, Answer("unauthorized"))
      BY <2>1 DEF EnrollmentStatus
    <3>2. Answer("unauthorized") \in Answers /\ Answer("unauthorized").kind = "unauthorized"
      BY AnswerFits
    <3> QED
      BY <3>1, <3>2
  <2>2. CASE now # "gone"
    <3> DEFINE told == [Answer(now) EXCEPT !.id = id]
    <3>1. waiting' = Answered(waiting, told)
      BY <2>2 DEF EnrollmentStatus
    <3>2. told \in Answers /\ told.id = id
      BY <1>1, AnswerFits
    <3> HIDE DEF told
    <3> QED
      BY <3>1, <3>2
  <2> QED
    BY <2>1, <2>2
<1>3. Waits' /\ waiting' \in Calls(PendingConnections)
  BY <1>1, <1>2, WaitAnswered DEF EnrollmentStatus, diskVars
<1>4. enrollments' \in [Ids -> Decisions]
  BY DEF EnrollmentStatus, LInv, Ranges, Decisions
<1>5. Ranges' /\ Linked'
  BY <1>4, LinkedStays DEF EnrollmentStatus, LInv, Ranges, linkVars, diskVars
<1> QED
  BY <1>3, <1>5, EnrollingKeeps DEF EnrollmentStatus, diskVars, linkVars, LInv, Requests

\* The server changes what it knows of its Cores, and may answer the
\* disconnection or the change of sources.
LEMMA ServerKeeps ==
  ASSUME LInv, Ranges', UNCHANGED <<diskVars, current, syncing, enrolling, waiting>>,
         leaving' \in Calls(CoreConnections), switching' \in Calls(CoreConnections),
         revision' \in {revision, revision + 1},
         \A id \in Ids : cores'[id].kind = "revoked" =>
           \/ cores[id].kind = "revoked" /\ sealed'[id] = sealed[id]
           \/ sealed'[id] = revision
  PROVE  LInv'
<1> USE DEF diskVars
<1>1. Linked' /\ Kept' /\ Requests'
  BY LinkedStays DEF LInv, Kept, Requests
<1>2. Waits'
  BY WaitsStay
<1>3. Seals'
  BY SealsStay
<1> QED
  BY <1>1, <1>2, <1>3 DEF LInv

LEMMA RevokedFits ==
  ASSUME LInv, NEW core \in Ids, Known(core), Revoked(core)
  PROVE  /\ cores' \in [Ids -> [kind : {"none", "connected", "revoked"}, keys : BOOLEAN]]
         /\ sealed' \in [Ids -> Nat]
         /\ \A id \in Ids : cores'[id].kind = "revoked" =>
              \/ cores[id].kind = "revoked" /\ sealed'[id] = sealed[id]
              \/ sealed'[id] = revision
<1>1. revision \in Nat
  BY Numbers DEF LInv, Ranges
<1> QED
  BY <1>1 DEF Revoked, LInv, Ranges

LEMMA SwitchAnswered ==
  ASSUME LInv, UpdateCoreCredentialSource PROVE LInv'
<1> USE DEF UpdateCoreCredentialSource
<1> DEFINE core == switching.connection.core
           shared == switching.sources = "all"
<1>1. switching # NoCall /\ core \in Ids /\ shared \in BOOLEAN
  BY NothingFits, RequestTells, ConnectionTells DEF LInv, Requests
<1>2. switching' \in Calls(CoreConnections)
  <2>1. switching' \in {Answered(switching, Answer("ok")), Answered(switching, Answer("unauthorized"))}
    OBVIOUS
  <2>2. Answer("ok") \in Answers /\ Answer("unauthorized") \in Answers
    BY AnswerFits
  <2> QED
    BY <1>1, <2>1, <2>2, AnsweredFits DEF LInv, Requests
<1>3. cores' \in {cores, [cores EXCEPT ![core].keys = shared]}
  OBVIOUS
<1> HIDE DEF shared
<1>4. /\ cores' \in [Ids -> [kind : {"none", "connected", "revoked"}, keys : BOOLEAN]]
      /\ \A n \in Ids : cores'[n].kind = cores[n].kind
  BY <1>1, <1>3 DEF LInv, Ranges
<1>5. Ranges'
  BY <1>4 DEF LInv, Ranges, linkVars
<1> QED
  BY <1>2, <1>4, <1>5, ServerKeeps DEF diskVars, linkVars, LInv, Requests

LEMMA LeaveAnswered ==
  ASSUME LInv, RevokeAuthenticatedCore PROVE LInv'
<1> USE DEF RevokeAuthenticatedCore
<1> DEFINE core == leaving.connection.core
<1>1. leaving # NoCall /\ core \in Ids
  BY NothingFits, RequestTells, ConnectionTells DEF LInv, Requests
<1>2. leaving' \in Calls(CoreConnections)
  <2>1. leaving' \in {Answered(leaving, Answer("ok")), Answered(leaving, Answer("unauthorized"))}
    OBVIOUS
  <2>2. Answer("ok") \in Answers /\ Answer("unauthorized") \in Answers
    BY AnswerFits
  <2> QED
    BY <1>1, <2>1, <2>2, AnsweredFits DEF LInv, Requests
<1>3. /\ cores' \in [Ids -> [kind : {"none", "connected", "revoked"}, keys : BOOLEAN]]
      /\ sealed' \in [Ids -> Nat]
      /\ \A id \in Ids : cores'[id].kind = "revoked" =>
           \/ cores[id].kind = "revoked" /\ sealed'[id] = sealed[id]
           \/ sealed'[id] = revision
  <2>1. CASE Known(core)
    BY <1>1, <2>1, RevokedFits
  <2>2. CASE ~Known(core)
    BY <2>2 DEF LInv, Ranges
  <2> QED
    BY <2>1, <2>2
<1>4. Ranges'
  BY <1>3 DEF LInv, Ranges, linkVars
<1> QED
  BY <1>2, <1>3, <1>4, ServerKeeps DEF diskVars, linkVars, LInv, Requests

LEMMA AdministratorKeeps ==
  ASSUME LInv, Administrator PROVE LInv'
<1>1. CASE Publish
  <2>1. Ranges'
    BY <1>1 DEF Publish, LInv, Ranges, linkVars
  <2> QED
    BY <1>1, <2>1, ServerKeeps DEF Publish, diskVars, linkVars, calls, LInv, Requests
<1>2. ASSUME NEW id \in Ids, EnrollmentExpires(id) PROVE LInv'
  <2>1. Ranges'
    BY <1>2 DEF EnrollmentExpires, LInv, Ranges, Decisions, linkVars
  <2> QED
    BY <1>2, <2>1, ServerKeeps DEF EnrollmentExpires, diskVars, linkVars, calls, LInv, Requests
<1>3. ASSUME NEW id \in Ids, RevokeCore(id) PROVE LInv'
  <2>1. /\ cores' \in [Ids -> [kind : {"none", "connected", "revoked"}, keys : BOOLEAN]]
        /\ sealed' \in [Ids -> Nat]
        /\ \A n \in Ids : cores'[n].kind = "revoked" =>
             \/ cores[n].kind = "revoked" /\ sealed'[n] = sealed[n]
             \/ sealed'[n] = revision
    BY <1>3, RevokedFits DEF RevokeCore
  <2>2. Ranges'
    BY <1>3, <2>1 DEF RevokeCore, LInv, Ranges, linkVars
  <2> QED
    BY <1>3, <2>1, <2>2, ServerKeeps DEF RevokeCore, diskVars, linkVars, calls, LInv, Requests
<1>4. ASSUME NEW id \in Ids, NEW decision \in {"approved", "rejected"}, DecideEnrollment(id, decision)
      PROVE  LInv'
  <2>1. /\ cores' \in [Ids -> [kind : {"none", "connected", "revoked"}, keys : BOOLEAN]]
        /\ \A n \in Ids : cores'[n].kind = "revoked" => cores[n].kind = "revoked"
    BY <1>4 DEF DecideEnrollment, LInv, Ranges
  <2>2. Ranges'
    BY <1>4, <2>1 DEF DecideEnrollment, LInv, Ranges, Decisions, linkVars
  <2> QED
    BY <1>4, <2>1, <2>2, ServerKeeps DEF DecideEnrollment, diskVars, linkVars, calls, LInv, Requests
<1> QED
  BY <1>1, <1>2, <1>3, <1>4 DEF Administrator

LEMMA LostKeeps ==
  ASSUME LInv, Lost PROVE LInv'
<1> DEFINE told == Answer("lost")
<1>1. told \in Answers /\ told.kind = "lost"
  BY AnswerFits
<1> HIDE DEF told
<1>2. UNCHANGED <<serverVars, diskVars, linkVars, up>>
  BY DEF Lost
<1>3. Ranges' /\ Linked' /\ Kept'
  BY <1>2, LinkedStays DEF LInv, Ranges, Kept, serverVars, linkVars, diskVars
<1>4. CASE syncing # NoCall /\ syncing' = Answered(syncing, told)
           /\ UNCHANGED <<enrolling, waiting, leaving, switching>>
  <2>1. syncing' \in Calls(CoreConnections) /\ syncing'.answer = told
    BY <1>1, <1>4, AnsweredFits DEF LInv, Requests
  <2>2. Requests' /\ Waits'
    BY <1>2, <1>4, <2>1, WaitsStay DEF LInv, Requests, diskVars
  <2>3. Seals'
    BY <1>1, <1>2, <2>1, SealsStay DEF serverVars, diskVars
  <2> QED
    BY <1>3, <2>2, <2>3 DEF LInv
<1>5. CASE enrolling # NoCall /\ enrolling' = Answered(enrolling, told)
           /\ UNCHANGED <<syncing, waiting, leaving, switching>>
  <2>1. enrolling' \in Calls(Unnumbered) /\ enrolling'.answer = told
    BY <1>1, <1>5, AnsweredFits DEF LInv, Requests
  <2>2. Waits'
    BY <1>1, <1>2, <1>5, <2>1 DEF LInv, Waits, diskVars
  <2> QED
    BY <1>2, <1>3, <1>5, <2>1, <2>2, EnrollingKeeps DEF LInv, Requests, serverVars, diskVars, linkVars
<1>6. CASE waiting # NoCall /\ waiting' = Answered(waiting, told)
           /\ UNCHANGED <<syncing, enrolling, leaving, switching>>
  <2>1. waiting' \in Calls(PendingConnections) /\ Waits'
    BY <1>1, <1>2, <1>6, WaitAnswered DEF diskVars
  <2> QED
    BY <1>2, <1>3, <1>6, <2>1, EnrollingKeeps DEF LInv, Requests, serverVars, diskVars, linkVars
<1>7. CASE leaving # NoCall /\ leaving' = Answered(leaving, told)
           /\ UNCHANGED <<syncing, enrolling, waiting, switching>>
  <2>1. leaving' \in Calls(CoreConnections)
    BY <1>1, <1>7, AnsweredFits DEF LInv, Requests
  <2> QED
    BY <1>2, <1>3, <1>7, <2>1, ServerKeeps DEF LInv, Requests, serverVars, linkVars
<1>8. CASE switching # NoCall /\ switching' = Answered(switching, told)
           /\ UNCHANGED <<syncing, enrolling, waiting, leaving>>
  <2>1. switching' \in Calls(CoreConnections)
    BY <1>1, <1>8, AnsweredFits DEF LInv, Requests
  <2> QED
    BY <1>2, <1>3, <1>8, <2>1, ServerKeeps DEF LInv, Requests, serverVars, linkVars
<1> QED
  BY <1>4, <1>5, <1>6, <1>7, <1>8, NothingFits DEF Lost, Gone, told

-----------------------------------------------------------------------------
(* The invariant *)

LEMMA InitLInv == Init => LInv
<1> SUFFICES ASSUME Init PROVE LInv
  OBVIOUS
<1> USE DEF Init
<1>1. Ranges
  <2>1. /\ enrollments \in [Ids -> Decisions] /\ sealed \in [Ids -> Nat]
        /\ cores \in [Ids -> [kind : {"none", "connected", "revoked"}, keys : BOOLEAN]]
    BY DEF Decisions
  <2>2. revision \in 0..MaxRevision /\ status \in Statuses
    BY DEF Statuses
  <2> QED
    BY <2>1, <2>2 DEF Ranges
<1>2. Linked /\ Kept /\ Requests
  BY NothingFits DEF Linked, CredentialIsOurs, Kept, Requests
<1>3. Waits /\ Seals
  BY NothingFits DEF Waits, Seals
<1> QED
  BY <1>1, <1>2, <1>3 DEF LInv

LEMMA NextLInv == LInv /\ [Next]_vars => LInv'
<1> SUFFICES ASSUME LInv, [Next]_vars PROVE LInv'
  OBVIOUS
<1>1. CASE Boot \/ TimerFires
  BY <1>1, BootKeeps, StartsKeep
<1>2. CASE User
  BY <1>2, ForgettingsKeep, DisconnectKeeps, StartsKeep, ConnectKeeps, UpdateSourcesKeeps DEF User
<1>3. CASE Continues
  BY <1>3, DownloadsKeep, DisconnectEndsKeeps, SwitchEndsKeep, EnrollmentStoredKeeps, ApprovedKeeps,
     ApprovalsKeep, ForgettingsKeep, WaitsGoOn DEF Continues
<1>4. CASE Server
  BY <1>4, CreateEnrollmentKeeps, EnrollmentStatusKeeps, SnapshotForCoreKeeps, SwitchAnswered,
     LeaveAnswered DEF Server
<1>5. CASE Administrator
  BY <1>5, AdministratorKeeps
<1>6. CASE Trouble
  BY <1>6, DownloadsKeep, ApprovalsKeep, SwitchEndsKeep, DiesKeeps, LostKeeps DEF Trouble
<1>7. CASE UNCHANGED vars
  BY <1>7, QuietKeeps, Stays DEF vars, linkVars
<1> QED
  BY <1>1, <1>2, <1>3, <1>4, <1>5, <1>6, <1>7 DEF Next

LEMMA LinkInvariant == Spec => []LInv
  BY InitLInv, NextLInv, PTL DEF Spec

\* The types hold, and the credential a Core holds is the one issued for the
\* enrolment it stored: what an enrolment that was cancelled is answered never
\* reaches the next one (enrollment-coordinator.ts).
THEOREM CredentialsHold == Spec => []LinkInv
<1>1. LInv => LinkInv
  <2> SUFFICES ASSUME LInv PROVE LinkInv
    OBVIOUS
  <2>1. connection.kind \in {"none", "pending", "core"}
    BY Stays, NothingFits, ConnectionTells
  <2>2. cache.kind \in {"none", "snapshot"} /\ current.kind \in {"none", "snapshot"}
    BY Stays, NothingFits DEF Snapshots
  <2> QED
    BY <2>1, <2>2 DEF LInv, Ranges, Linked, LinkInv, TypeOK, Decisions, Statuses
<1> QED
  BY <1>1, LinkInvariant, PTL

\* A revoked Core keeps nothing published after the revocation, whatever was
\* under way then, however often it restarts, and whoever revoked it
\* (sync-store.ts, snapshotForCore and the two revocations).
THEOREM RevokedStaysIgnorant == Spec => []RevokedLearnsNothing
<1>1. LInv => RevokedLearnsNothing
  BY DEF LInv, Seals, Ignorant, RevokedLearnsNothing
<1> QED
  BY <1>1, LinkInvariant, PTL


-----------------------------------------------------------------------------
(* SyncAdmin: what the parts of its state are *)

AdminOperations == {"none", "login", "setup", "settings", "rollback", "setKey", "dropKey"}
Documents == {doc \in Docs : Parses(doc)}
Views == [kind : {"view"}, revision : Nat, settings : Settings, sync : Nat, secret : BOOLEAN,
          line : Nat, server : Nat]
Dirs == [state : {Nothing} \cup Documents, key : Nat]
Processes ==
  [at : {"none", "read", "locked", "state", "key", "staged", "moved"},
   op : {"none", "reset", "backup", "restore"},
   doc : {Nothing} \cup Documents, key : Nat, kept : Dirs]
Jobs == [at : {"read", "written"}, who : Admins, op : AdminOperations \ {"none", "login"}, next : Documents,
         seen : {Nothing} \cup Views]

DiskTyped ==
  /\ dir \in Dirs /\ lock \in {Free, Stale} \cup Commands /\ lost \in BOOLEAN
  /\ archive.state \in Documents /\ archive.key \in Nat
  /\ made \in Nat /\ line \in Nat /\ races \in Nat /\ started \in Nat
ServerTyped ==
  /\ mem \in [state : {Nothing} \cup Documents, key : Nat, contents : {Nothing} \cup Documents]
  /\ mem.contents # Nothing => mem.state # Nothing
  /\ sessions \in [Admins -> {<<>>, marker}]
  /\ job \in {NoJob} \cup Jobs
  /\ job # NoJob => serving /\ mem.state # Nothing
PageStates == [auth : {"none", "setup", "ready", "in"}, view : {Nothing} \cup Views]
RequestStates == [at : {"none", "sent", "authorized", "running", "refreshing"},
                  op : AdminOperations, seen : {Nothing} \cup Views]
BrowsersTyped ==
  /\ page \in [Admins -> PageStates] /\ request \in [Admins -> RequestStates]
  /\ \A a \in Admins : ChangesSettings(request[a].op) => request[a].seen # Nothing
  /\ \A a \in Admins : request[a].at \in {"sent", "authorized"} => request[a].op # "none"
Holding == {"locked", "state", "key", "staged", "moved"}
\* What a command at a step is, and what it holds.
Process(p) ==
  /\ p.at = "read" => p.op = "reset" /\ p.doc # Nothing
  /\ p.at = "locked" => p.op \in {"backup", "restore"}
  /\ p.at \in {"state", "key"} => p.op = "backup" /\ p.doc # Nothing
  /\ p.at \in {"staged", "moved"} => p.op = "restore" /\ p.doc # Nothing
CommandsTyped ==
  /\ command \in [Commands -> Processes]
  /\ \A c \in Commands :
       /\ Process(command[c])
       /\ command[c].at \in Holding => lock = c
       /\ c > started => command[c] = NoCommand
Typed == DiskTyped /\ ServerTyped /\ BrowsersTyped /\ CommandsTyped

Gaps ==
  /\ NoGap
  /\ \A c \in Commands : command[c].at = "moved" =>
       /\ dir.state = Nothing => dir = Absent
       /\ command[c].kept.state = Nothing /\ line > 0 => lost

Paired(doc, key) == doc # Nothing => key = doc.server /\ key # 0 /\ Opens(doc, key)
\* The one document grows into the other.
SameView(old, new) ==
  /\ new.history = old.history /\ new.sync = old.sync
  /\ new.secret = old.secret
Follows(old, new) ==
  /\ new.server = old.server
  /\ Len(old.history) <= Len(new.history)
  /\ \A i \in 1..Len(old.history) : new.history[i] = old.history[i]
  /\ SameView(old, new) \/ old.sync < new.sync
Pairs ==
  /\ Paired(dir.state, dir.key) /\ Paired(mem.state, mem.key) /\ Paired(archive.state, archive.key)
  /\ \A c \in Commands :
       /\ Paired(command[c].kept.state, command[c].kept.key)
       /\ command[c].at = "state" => dir.state # Nothing /\ Paired(command[c].doc, dir.key)
       /\ command[c].at \in {"key", "staged", "moved"} => Paired(command[c].doc, command[c].key)
Alone == \A x, y \in Committing : x = y
JobFits ==
  /\ job = NoJob => mem.state = mem.contents
  /\ job.at = "read" =>
       /\ dir.state # Nothing /\ mem.state = dir.state /\ mem.contents = dir.state
       /\ Paired(job.next, dir.key) /\ Follows(dir.state, job.next)
       /\ IF ChangesSettings(job.op)
          THEN job.seen # Nothing /\ job.seen.revision = Revision(dir.state)
          ELSE job.next.history = dir.state.history
  /\ job.at = "written" => dir.state = job.next /\ mem.state = job.next
CommandsFit ==
  \A c \in Commands :
    /\ command[c].at = "read" =>
         /\ dir.state # Nothing /\ Paired(command[c].doc, dir.key)
         /\ SameView(dir.state, command[c].doc) /\ command[c].doc.server = dir.state.server
    /\ command[c].at = "moved" => dir = Absent

Seen == {page[a].view : a \in Admins} \cup {request[a].seen : a \in Admins} \cup {job.seen}
Knows(view, doc) ==
  doc # Nothing =>
    /\ view.server = doc.server /\ view.revision <= Revision(doc) /\ view.sync <= doc.sync
    /\ view.settings = doc.history[view.revision + 1]
    /\ view.sync = doc.sync => view.revision = Revision(doc) /\ (view.secret <=> doc.secret # 0)
ViewsKnown ==
  \A view \in Seen : view # Nothing /\ view.line = line =>
    /\ Knows(view, dir.state)
    /\ \A c \in Commands : command[c].at = "moved" => Knows(view, command[c].kept.state)
Past == \A view \in Seen : view # Nothing => view.line <= line

Calm == Pairs /\ Alone /\ JobFits /\ CommandsFit /\ ViewsKnown
AInv == Typed /\ Gaps /\ Past /\ (races = 0 => Calm)

USE LimitsAreNumbers

-----------------------------------------------------------------------------
(* Documents and what is shown of them *)

\* A document or a view is never taken for the absence of one.
LEMMA DocumentTells ==
  /\ \A doc \in Documents : doc # Nothing
  /\ \A view \in Views : view # Nothing
BY DEF Documents, Docs, Views, Nothing

LEMMA DocumentHas ==
  ASSUME NEW doc \in Documents
  PROVE  /\ doc.history \in Seq(Settings) /\ Len(doc.history) \in Nat \ {0}
         /\ Revision(doc) \in Nat /\ Revision(doc) <= doc.sync
         /\ SettingsOf(doc) \in Settings /\ doc.history[1] \in Settings
         /\ doc.sync \in Nat /\ doc.secret \in Nat /\ doc.code \in Nat /\ doc.server \in Nat
         /\ doc.auth.kind = "setup" <=> doc.code # 0
<1>1. doc \in Docs /\ Parses(doc)
  BY DEF Documents
<1>2. doc.history \in Seq(Settings) /\ doc.history # <<>>
  BY <1>1 DEF Docs
<1>3. Len(doc.history) \in Nat \ {0}
  BY <1>2, EmptySeq
<1>4. /\ 1 \in 1..Len(doc.history) /\ Len(doc.history) \in 1..Len(doc.history)
  BY <1>3
<1>5. SettingsOf(doc) \in Settings /\ doc.history[1] \in Settings
  BY <1>2, <1>4, ElementOfSeq DEF SettingsOf
<1>6. Revision(doc) \in Nat
  BY <1>3 DEF Revision
<1>7. /\ doc.sync \in Nat /\ doc.secret \in Nat /\ doc.code \in Nat /\ doc.server \in Nat
  BY <1>1 DEF Docs
<1>8. Revision(doc) <= doc.sync /\ (doc.auth.kind = "setup" <=> doc.code # 0)
  BY <1>1, Zenon DEF Parses
<1> QED
  BY <1>2, <1>3, <1>5, <1>6, <1>7, <1>8

LEMMA ShownFits ==
  ASSUME NEW doc \in Documents, line \in Nat
  PROVE  /\ Shown(doc) \in Views /\ Shown(doc).line = line /\ Knows(Shown(doc), doc)
<1>1. PICK secret \in BOOLEAN : secret = (doc.secret # 0)
  OBVIOUS
<1>2. Shown(doc) = [kind |-> "view", revision |-> Revision(doc), settings |-> SettingsOf(doc),
                    sync |-> doc.sync, secret |-> secret, line |-> line, server |-> doc.server]
  BY <1>1, Zenon DEF Shown
<1>3. Shown(doc) \in Views
  BY <1>2, DocumentHas DEF Views
<1>4. SettingsOf(doc) = doc.history[Revision(doc) + 1]
  BY DocumentHas DEF SettingsOf, Revision
<1>5. /\ Shown(doc).revision = Revision(doc) /\ Shown(doc).settings = SettingsOf(doc)
      /\ Shown(doc).sync = doc.sync /\ Shown(doc).line = line /\ Shown(doc).server = doc.server
  BY <1>2
<1>6. Shown(doc).secret <=> doc.secret # 0
  <2>1. Shown(doc).secret = secret
    BY <1>2
  <2> QED
    BY <1>1, <2>1
<1> QED
  BY <1>3, <1>4, <1>5, <1>6, DocumentHas DEF Knows

\* A view with the sync revision of the document it knows is that document's.
LEMMA ShownIs ==
  ASSUME NEW doc \in Documents, NEW view \in Views, Knows(view, doc), view.line = line,
         line \in Nat, view.sync = doc.sync
  PROVE  view = Shown(doc)
<1>1. PICK secret \in BOOLEAN : secret = (doc.secret # 0)
  OBVIOUS
<1>2. Shown(doc) = [kind |-> "view", revision |-> Revision(doc), settings |-> SettingsOf(doc),
                    sync |-> doc.sync, secret |-> secret, line |-> line, server |-> doc.server]
  BY <1>1, Zenon DEF Shown
<1>3. /\ view.server = doc.server /\ view.revision = Revision(doc) /\ view.secret = secret
      /\ view.settings = doc.history[view.revision + 1]
  BY <1>1, DocumentTells DEF Knows, Views
<1>4. view.settings = SettingsOf(doc)
  BY <1>3, DocumentHas DEF SettingsOf, Revision
<1>5. view.kind = "view"
  BY DEF Views
<1>6. view = [kind |-> view.kind, revision |-> view.revision, settings |-> view.settings,
              sync |-> view.sync, secret |-> view.secret, line |-> view.line, server |-> view.server]
  BY DEF Views
<1> QED
  BY <1>2, <1>3, <1>4, <1>5, <1>6

\* What knows a document knows those that follow it.
LEMMA KnowsOn ==
  ASSUME NEW old \in Documents, NEW new \in Documents, NEW view \in Views,
         Knows(view, old), Follows(old, new)
  PROVE  Knows(view, new)
<1>1. /\ view.server = old.server /\ view.revision <= Revision(old) /\ view.sync <= old.sync
      /\ view.settings = old.history[view.revision + 1]
      /\ view.sync = old.sync => view.revision = Revision(old) /\ (view.secret <=> old.secret # 0)
  BY DocumentTells DEF Knows
<1>2. view.revision \in Nat /\ view.sync \in Nat
  BY DEF Views
<1>3. view.revision + 1 \in 1..Len(old.history)
  BY <1>1, <1>2, DocumentHas DEF Revision
<1>4. /\ new.server = old.server /\ Len(old.history) <= Len(new.history)
      /\ new.history[view.revision + 1] = old.history[view.revision + 1]
  BY <1>3 DEF Follows
<1>5. view.revision <= Revision(new)
  BY <1>1, <1>2, <1>4, DocumentHas DEF Revision
<1>6. CASE SameView(old, new)
  BY <1>1, <1>4, <1>5, <1>6 DEF Knows, SameView, Revision
<1>7. CASE old.sync < new.sync
  <2>1. view.sync < new.sync
    BY <1>1, <1>2, <1>7, DocumentHas
  <2> QED
    BY <1>1, <1>2, <1>4, <1>5, <2>1, DocumentHas DEF Knows
<1> QED
  BY <1>6, <1>7 DEF Follows

LEMMA FollowsItself ==
  ASSUME NEW doc \in Documents
  PROVE  Follows(doc, doc)
BY DocumentHas DEF Follows, SameView

\* A document that follows has the history of the other as a beginning.
LEMMA FollowsGrows ==
  ASSUME NEW old \in Documents, NEW new \in Documents, Follows(old, new)
  PROVE  Grows(old, new)
<1> DEFINE n == Len(old.history)
<1>1. /\ old.history \in Seq(Settings) /\ new.history \in Seq(Settings) /\ n \in Nat
      /\ n <= Len(new.history) /\ Len(new.history) \in Nat
      /\ \A i \in 1..n : new.history[i] = old.history[i]
  BY DocumentHas DEF Follows
<1>2. \A i \in 1..n : new.history[i] \in Settings
  BY <1>1, ElementOfSeq
<1>3. /\ SubSeq(new.history, 1, n) \in Seq(Settings)
      /\ Len(SubSeq(new.history, 1, n)) = IF 1 <= n THEN n - 1 + 1 ELSE 0
      /\ \A i \in 1..n - 1 + 1 : SubSeq(new.history, 1, n)[i] = new.history[1 + i - 1]
  <2>1. n \in Int
    BY <1>1
  <2> HIDE DEF n
  <2> QED
    BY <1>2, <2>1, SubSeqProperties
<1>4. Len(SubSeq(new.history, 1, n)) = n
  BY <1>1, <1>3
<1>5. \A i \in 1..n : SubSeq(new.history, 1, n)[i] = old.history[i]
  BY <1>1, <1>3
<1>6. SubSeq(new.history, 1, n) = old.history
  <2> HIDE DEF n
  <2>1. \A i \in 1..Len(SubSeq(new.history, 1, n)) : SubSeq(new.history, 1, n)[i] = old.history[i]
    BY <1>4, <1>5
  <2>2. Len(SubSeq(new.history, 1, n)) = Len(old.history)
    BY <1>4 DEF n
  <2> QED
    BY <1>1, <1>3, <2>1, <2>2, SeqEqual
<1>7. old.sync <= new.sync
  BY DocumentHas DEF Follows, SameView
<1> QED
  BY <1>1, <1>6, <1>7 DEF Grows

LEMMA DocumentFits ==
  ASSUME NEW doc \in Docs, Len(doc.history) - 1 <= doc.sync, doc.auth.kind = "setup" <=> doc.code # 0
  PROVE  doc \in Documents
BY DEF Documents, Parses, Revision

LEMMA DocumentIs ==
  ASSUME NEW doc \in Documents
  PROVE  /\ doc \in Docs /\ doc.auth \in [kind : {"setup", "password"}, n : Nat]
         /\ Len(doc.history) - 1 <= doc.sync
BY DEF Documents, Docs, Parses, Revision

LEMMA DocsStay ==
  ASSUME NEW doc \in Docs
  PROVE  /\ \A auth \in [kind : {"setup", "password"}, n : Nat], code \in Nat :
              [doc EXCEPT !.auth = auth, !.code = code] \in Docs
         /\ \A history \in Seq(Settings) \ {<<>>}, sync \in Nat :
              [doc EXCEPT !.history = history, !.sync = sync] \in Docs
         /\ \A secret, sync \in Nat : [doc EXCEPT !.secret = secret, !.sync = sync] \in Docs
BY DEF Docs

LEMMA FreshFits ==
  ASSUME NEW n \in Nat \ {0}
  PROVE  /\ Fresh(n) \in Documents /\ Paired(Fresh(n), n)
<1>1. <<Default>> \in Seq(Settings) /\ <<Default>> # <<>> /\ Len(<<Default>>) = 1
  BY DEF Settings
<1>2. Fresh(n) = [kind |-> "doc", server |-> n, auth |-> [kind |-> "setup", n |-> n], code |-> n,
                  history |-> <<Default>>, sync |-> 0, secret |-> 0]
  BY DEF Fresh
<1>3. Fresh(n) \in Docs
  BY <1>1, <1>2 DEF Docs
<1>4. Fresh(n) \in Documents
  <2>1. /\ Len(Fresh(n).history) - 1 <= Fresh(n).sync
        /\ Fresh(n).auth.kind = "setup" /\ Fresh(n).code # 0
    BY <1>1, <1>2
  <2> QED
    BY <1>3, <2>1, DocumentFits
<1> QED
  BY <1>2, <1>4 DEF Paired, Opens

LEMMA RevisedFits ==
  ASSUME NEW doc \in Documents, NEW value \in Settings
  PROVE  /\ Revised(doc, value) \in Documents /\ Follows(doc, Revised(doc, value))
         /\ \A key : Paired(doc, key) => Paired(Revised(doc, value), key)
<1> DEFINE new == Revised(doc, value)
<1>2. /\ Append(doc.history, value) \in Seq(Settings) /\ Append(doc.history, value) # <<>>
      /\ Len(Append(doc.history, value)) = Len(doc.history) + 1
      /\ \A i \in 1..Len(doc.history) : Append(doc.history, value)[i] = doc.history[i]
  BY DocumentHas, AppendProperties
<1>1. /\ new.server = doc.server /\ new.auth = doc.auth /\ new.code = doc.code
      /\ new.history = Append(doc.history, value) /\ new.sync = doc.sync + 1
      /\ new.secret = doc.secret
  BY DocumentIs DEF Revised, Docs
<1>3. new \in Docs
  <2>1. new = [doc EXCEPT !.history = Append(doc.history, value), !.sync = doc.sync + 1]
    BY DEF Revised
  <2>2. doc.sync + 1 \in Nat
    BY DocumentHas
  <2>3. Append(doc.history, value) \in Seq(Settings) \ {<<>>} /\ doc \in Docs
    BY <1>2, DocumentIs
  <2>4. [doc EXCEPT !.history = Append(doc.history, value), !.sync = doc.sync + 1] \in Docs
    BY <2>2, <2>3, DocsStay
  <2> QED
    BY <2>1, <2>4
<1> HIDE DEF new
<1>4. new \in Documents
  <2>1. Len(new.history) - 1 <= new.sync
    BY <1>1, <1>2, DocumentHas, DocumentIs
  <2> QED
    BY <1>1, <1>3, <2>1, DocumentHas, DocumentFits
<1>5. Follows(doc, new)
  BY <1>1, <1>2, DocumentHas DEF Follows
<1>6. \A key : Paired(doc, key) => Paired(new, key)
  BY <1>1, DocumentTells DEF Paired, Opens
<1> QED
  BY <1>4, <1>5, <1>6 DEF new

LEMMA ResetFits ==
  ASSUME NEW doc \in Documents, NEW key \in Nat \ {0}, made \in Nat
  PROVE  /\ Reset(doc, key) \in Documents /\ SameView(doc, Reset(doc, key))
         /\ Reset(doc, key).server = doc.server
         /\ Paired(doc, key) => Paired(Reset(doc, key), key)
<1> DEFINE new == Reset(doc, key)
<1>1. /\ new.server = doc.server /\ new.auth = [kind |-> "setup", n |-> made + 1] /\ new.code = key
      /\ new.history = doc.history /\ new.sync = doc.sync /\ new.secret = doc.secret
  BY DocumentIs DEF Reset, Docs
<1>2. new \in Docs
  <2>1. [kind |-> "setup", n |-> made + 1] \in [kind : {"setup", "password"}, n : Nat]
    OBVIOUS
  <2> QED
    BY <2>1, DocumentIs, DocsStay DEF Reset
<1> HIDE DEF new
<1>3. new \in Documents
  BY <1>1, <1>2, DocumentIs, DocumentFits
<1>4. SameView(doc, new) /\ new.server = doc.server
  BY <1>1 DEF SameView
<1>5. Paired(doc, key) => Paired(new, key)
  BY <1>1, DocumentTells DEF Paired, Opens
<1> QED
  BY <1>3, <1>4, <1>5 DEF new

\* What a mutation of the administrator makes of a document.
LEMMA ChangedFits ==
  ASSUME NEW doc \in Documents, NEW key \in Nat, NEW a \in Admins, made \in Nat,
         NEW op \in AdminOperations \ {"none", "login"}
  PROVE  /\ Changed(doc, key, a, op) \in Documents /\ Follows(doc, Changed(doc, key, a, op))
         /\ Paired(doc, key) => Paired(Changed(doc, key, a, op), key)
         /\ ~ChangesSettings(op) => Changed(doc, key, a, op).history = doc.history
<1> DEFINE new == Changed(doc, key, a, op)
<1>0. doc.history \in Seq(Settings) /\ doc.history # <<>> /\ Len(doc.history) - 1 <= doc.sync
  BY DocumentHas DEF Revision
<1>1. CASE op = "settings"
  <2>1. new = Revised(doc, a) /\ a \in Settings /\ ChangesSettings(op)
    BY <1>1 DEF Changed, Settings, ChangesSettings
  <2> QED
    BY <2>1, RevisedFits
<1>2. CASE op = "rollback"
  <2>1. new = Revised(doc, doc.history[1]) /\ doc.history[1] \in Settings /\ ChangesSettings(op)
    BY <1>2, DocumentHas DEF Changed, ChangesSettings
  <2> QED
    BY <2>1, RevisedFits
<1>3. CASE op \in {"setKey", "dropKey"}
  <2>1. PICK secret \in {0, key} : new = [doc EXCEPT !.secret = secret, !.sync = @ + 1]
    BY <1>3 DEF Changed
  <2>2. /\ new.server = doc.server /\ new.auth = doc.auth /\ new.code = doc.code
        /\ new.history = doc.history /\ new.sync = doc.sync + 1 /\ new.secret = secret
    BY <2>1, DocumentIs DEF Docs
  <2>3. new \in Documents
    <3>1. new \in Docs
      <4>1. new = [doc EXCEPT !.secret = secret, !.sync = doc.sync + 1]
        BY <2>1
      <4>2. secret \in Nat /\ doc.sync + 1 \in Nat
        BY DocumentHas
      <4>3. [doc EXCEPT !.secret = secret, !.sync = doc.sync + 1] \in Docs
        BY <4>2, DocumentIs, DocsStay
      <4> QED
        BY <4>1, <4>3
    <3>2. Len(new.history) - 1 <= new.sync
      BY <2>2, DocumentHas, DocumentIs
    <3> QED
      BY <2>2, <3>1, <3>2, DocumentHas, DocumentFits
  <2> HIDE DEF new
  <2>4. Follows(doc, new) /\ new.history = doc.history
    BY <2>2, DocumentHas DEF Follows
  <2>5. Paired(doc, key) => Paired(new, key)
    BY <2>2, DocumentTells DEF Paired, Opens
  <2> QED
    BY <2>3, <2>4, <2>5 DEF new
<1>4. CASE op = "setup"
  <2>1. new = [doc EXCEPT !.auth = [kind |-> "password", n |-> made + 1], !.code = 0]
    BY <1>4 DEF Changed
  <2>2. /\ new.server = doc.server /\ new.auth = [kind |-> "password", n |-> made + 1] /\ new.code = 0
        /\ new.history = doc.history /\ new.sync = doc.sync /\ new.secret = doc.secret
    BY <2>1, DocumentIs DEF Docs
  <2>5. new \in Documents
    <3>1. new \in Docs
      <4>1. [kind |-> "password", n |-> made + 1] \in [kind : {"setup", "password"}, n : Nat]
        OBVIOUS
      <4>2. [doc EXCEPT !.auth = [kind |-> "password", n |-> made + 1], !.code = 0] \in Docs
        BY <4>1, DocumentIs, DocsStay
      <4> QED
        BY <2>1, <4>2
    <3> QED
      BY <2>2, <3>1, DocumentIs, DocumentFits
  <2> HIDE DEF new
  <2>3. Follows(doc, new) /\ new.history = doc.history
    BY <2>2, DocumentHas DEF Follows, SameView
  <2>4. Paired(doc, key) => Paired(new, key)
    BY <2>2, DocumentTells DEF Paired, Opens
  <2> QED
    BY <2>3, <2>4, <2>5 DEF new
<1> QED
  BY <1>1, <1>2, <1>3, <1>4 DEF AdminOperations

-----------------------------------------------------------------------------
(* What the server reads, and the steps of the server that change no document *)

LEMMA DirFits ==
  ASSUME DiskTyped
  PROVE  /\ dir.state \in {Nothing} \cup Documents /\ dir.key \in Nat /\ dir = Dir(dir.state, dir.key)
         /\ Absent.state = Nothing /\ Absent.key = 0
BY DEF DiskTyped, Dirs, Dir, Absent

LEMMA NoJobTells ==
  /\ NoJob.at = "none" /\ NoJob.seen = Nothing
  /\ \A j \in Jobs : j # NoJob /\ j.at # "none"
BY DEF NoJob, Jobs

\* What the server holds after it looked at the disk.
LEMMA RequiredFits ==
  ASSUME DiskTyped, ServerTyped, Readable
  PROVE  /\ dir.state \in Documents /\ Current \in Documents
         /\ Required \in [state : {Nothing} \cup Documents, key : Nat, contents : {Nothing} \cup Documents]
         /\ Required.contents = dir.state
<1>1. dir.state # Nothing
  BY DEF Readable, Required
<1>2. dir.state \in Documents /\ dir.key \in Nat
  BY <1>1, DirFits
<1>3. CASE dir.state = mem.contents
  <2>1. Required = mem
    BY <1>1, <1>3 DEF Required
  <2>2. mem.state \in Documents
    BY <1>1, <1>3 DEF ServerTyped
  <2> QED
    BY <1>2, <1>3, <2>1, <2>2 DEF Current, ServerTyped
<1>4. CASE dir.state # mem.contents
  <2>1. Required = Mem(dir.state, dir.key, dir.state)
    BY <1>1, <1>4 DEF Required, Readable
  <2> QED
    BY <1>2, <2>1 DEF Current, Mem
<1> QED
  BY <1>3, <1>4

\* With no commit under way it is what is on disk.
LEMMA RequiredCalm ==
  ASSUME DiskTyped, ServerTyped, Readable, Pairs, JobFits, job = NoJob
  PROVE  Current = dir.state /\ Required.key = dir.key
<1>1. dir.state \in Documents /\ dir.state # Nothing
  BY RequiredFits, DocumentTells
<1>2. CASE dir.state = mem.contents
  <2>1. Required = mem
    BY <1>1, <1>2 DEF Required
  <2>2. mem.state = dir.state
    BY <1>2 DEF JobFits
  <2>3. mem.key = dir.key
    BY <1>1, <2>2 DEF Pairs, Paired
  <2> QED
    BY <2>1, <2>2, <2>3 DEF Current
<1>3. CASE dir.state # mem.contents
  <2>1. Required = Mem(dir.state, dir.key, dir.state)
    BY <1>1, <1>3 DEF Required, Readable
  <2> QED
    BY <2>1 DEF Current, Mem
<1> QED
  BY <1>2, <1>3

LEMMA LoadsFits ==
  ASSUME DiskTyped, ServerTyped, Loads
  PROVE  /\ mem' \in [state : {Nothing} \cup Documents, key : Nat, contents : {Nothing} \cup Documents]
         /\ mem'.contents # Nothing => mem'.state # Nothing
         /\ Readable => mem' = Required
         /\ Pairs /\ JobFits /\ job = NoJob => Paired(mem'.state, mem'.key) /\ mem'.state = mem'.contents
<1>1. CASE Readable
  <2>1. mem' = Required
    BY <1>1 DEF Loads
  <2>2. Current = Required.state
    BY DEF Current
  <2>3. Pairs /\ JobFits /\ job = NoJob => Paired(mem'.state, mem'.key) /\ mem'.state = mem'.contents
    BY <1>1, <2>1, <2>2, RequiredFits, RequiredCalm DEF Pairs
  <2> QED
    BY <1>1, <2>1, <2>2, <2>3, RequiredFits, DocumentTells
<1>2. CASE ~Readable
  <2>1. mem' = mem
    BY <1>2 DEF Loads
  <2> QED
    BY <1>2, <2>1 DEF ServerTyped, Pairs, JobFits
<1> QED
  BY <1>1, <1>2

LEMMA RefreshedSessions ==
  ASSUME ServerTyped, NEW doc
  PROVE  RefreshedFor(doc) \in [Admins -> {<<>>, MarkerOf(doc)}]
BY DEF RefreshedFor, ServerTyped

LEMMA NoticesFits ==
  ASSUME ServerTyped, Notices
  PROVE  sessions' \in [Admins -> {<<>>, marker'}]
<1>1. CASE Readable
  BY <1>1, RefreshedSessions DEF Notices, SessionsNow
<1>2. CASE ~Readable
  BY <1>2 DEF Notices, ServerTyped
<1> QED
  BY <1>1, <1>2

\* What is on disk, in the commands and in the archive stays as it is.
StoreStays == UNCHANGED <<dir, lock, archive, line, lost, command, started>>

LEMMA StoreStaysTyped ==
  ASSUME DiskTyped, CommandsTyped, Gaps, StoreStays, made' \in Nat, races' \in Nat
  PROVE  DiskTyped' /\ CommandsTyped' /\ Gaps'
<1>1. DiskTyped'
  BY DEF DiskTyped, StoreStays
<1>2. CommandsTyped'
  BY DEF CommandsTyped, StoreStays
<1>3. Gaps'
  BY DEF Gaps, NoGap, StoreStays
<1> QED
  BY <1>1, <1>2, <1>3

\* Whatever the pages and requests newly refer to is what the server shows.
OnlyShown ==
  \A view \in Seen' : view \in Seen \cup {Nothing} \/ (Readable /\ job = NoJob /\ view = Shown(Current))

LEMMA SeenStays ==
  ASSUME Typed, Past, StoreStays, OnlyShown
  PROVE  /\ Past'
         /\ Pairs /\ JobFits /\ CommandsFit /\ ViewsKnown => ViewsKnown'
<1>0. DiskTyped /\ ServerTyped /\ line \in Nat /\ line' = line /\ dir' = dir /\ command' = command
  BY DEF Typed, DiskTyped, StoreStays
<1>1. ASSUME Readable
      PROVE  Shown(Current) \in Views /\ Shown(Current).line = line /\ Knows(Shown(Current), Current)
  BY <1>0, <1>1, RequiredFits, ShownFits
<1>2. Past'
  <2> SUFFICES ASSUME NEW view \in Seen', view # Nothing PROVE view.line <= line
    BY <1>0, DocumentTells DEF Past
  <2>1. CASE view \in Seen
    BY <2>1 DEF Past
  <2>2. CASE Readable /\ view = Shown(Current)
    BY <1>0, <1>1, <2>2
  <2> QED
    BY <2>1, <2>2 DEF OnlyShown
<1>3. ASSUME Pairs, JobFits, CommandsFit, ViewsKnown
      PROVE  ViewsKnown'
  <2> SUFFICES ASSUME NEW view \in Seen', view # Nothing, view.line = line
               PROVE  /\ Knows(view, dir.state)
                      /\ \A c \in Commands : command[c].at = "moved" => Knows(view, command[c].kept.state)
    BY <1>0 DEF ViewsKnown, Knows, Nothing, Revision
  <2>1. CASE view \in Seen
    BY <1>3, <2>1 DEF ViewsKnown
  <2>2. CASE Readable /\ job = NoJob /\ view = Shown(Current)
    <3>1. Knows(view, dir.state) /\ dir.state \in Documents
      BY <1>0, <1>1, <1>3, <2>2, RequiredCalm, RequiredFits
    <3>2. dir.state # Nothing /\ dir # Absent
      BY <1>0, <3>1, DocumentTells, DirFits
    <3> QED
      BY <1>3, <3>1, <3>2 DEF CommandsFit
  <2> QED
    BY <2>1, <2>2 DEF OnlyShown
<1> QED
  BY <1>2, <1>3

LEMMA StoreStaysKeeps ==
  ASSUME AInv, StoreStays, made' \in Nat, races' \in Nat, races' = 0 => races = 0,
         ServerTyped', BrowsersTyped', OnlyShown,
         races' = 0 => Paired(mem.state, mem.key)' /\ Alone' /\ JobFits'
  PROVE  AInv'
<1>1. DiskTyped' /\ CommandsTyped' /\ Gaps'
  BY StoreStaysTyped DEF AInv, Typed
<1>2. Past' /\ (Pairs /\ JobFits /\ CommandsFit /\ ViewsKnown => ViewsKnown')
  BY SeenStays DEF AInv
<1>3. ASSUME races' = 0 PROVE Calm'
  <2>1. Calm
    BY <1>3 DEF AInv
  <2>2. Pairs'
    BY <1>3, <2>1 DEF Calm, Pairs, StoreStays
  <2>3. CommandsFit'
    BY <2>1 DEF Calm, CommandsFit, StoreStays
  <2> QED
    BY <1>2, <1>3, <2>1, <2>2, <2>3 DEF Calm
<1> QED
  BY <1>1, <1>2, <1>3 DEF AInv, Typed

LEMMA CommittingStays ==
  ASSUME Alone, UNCHANGED <<job, command>>
  PROVE  Alone'
BY DEF Alone, Committing

\* A step of the server that looks at the disk, and commits nothing.
LEMMA LoadingKeeps ==
  ASSUME AInv, job = NoJob, UNCHANGED <<disk, serving, job, command, started, races>>, Loads,
         sessions' \in [Admins -> {<<>>, marker'}], BrowsersTyped', OnlyShown
  PROVE  AInv'
<1>1. DiskTyped /\ ServerTyped /\ made \in Nat /\ races \in Nat
  BY DEF AInv, Typed, DiskTyped
<1>2. ServerTyped'
  BY <1>1, LoadsFits DEF ServerTyped
<1>3. StoreStays /\ made' = made /\ races' = races
  BY DEF StoreStays, disk
<1>4. ASSUME races' = 0 PROVE Paired(mem.state, mem.key)' /\ Alone' /\ JobFits'
  <2>1. Pairs /\ JobFits /\ Alone
    BY <1>3, <1>4 DEF AInv, Calm
  <2>2. Paired(mem.state, mem.key)' /\ mem'.state = mem'.contents
    BY <1>1, <2>1, LoadsFits DEF Paired, Opens
  <2>3. Alone'
    BY <2>1, CommittingStays
  <2>4. JobFits'
    BY <2>2, NoJobTells DEF JobFits
  <2> QED
    BY <2>2, <2>3, <2>4
<1> QED
  BY <1>1, <1>2, <1>3, <1>4, StoreStaysKeeps

\* A step of a browser alone.
LEMMA BrowsingKeeps ==
  ASSUME AInv, UNCHANGED <<disk, server, command, started, races>>, BrowsersTyped', OnlyShown
  PROVE  AInv'
<1>1. made \in Nat /\ races \in Nat /\ ServerTyped
  BY DEF AInv, Typed, DiskTyped
<1>2. ServerTyped'
  BY <1>1 DEF ServerTyped, server
<1>3. StoreStays /\ made' = made /\ races' = races
  BY DEF StoreStays, disk
<1>4. ASSUME races' = 0 PROVE Paired(mem.state, mem.key)' /\ Alone' /\ JobFits'
  <2>1. Pairs /\ JobFits /\ Alone
    BY <1>3, <1>4 DEF AInv, Calm
  <2>2. Paired(mem.state, mem.key)'
    BY <2>1 DEF Pairs, Paired, Opens, server
  <2>3. Alone'
    BY <2>1, CommittingStays DEF server
  <2>4. JobFits'
    BY <2>1 DEF JobFits, server, disk, Paired, Opens, Follows, SameView, Revision, ChangesSettings, Nothing
  <2> QED
    BY <2>2, <2>3, <2>4
<1> QED
  BY <1>1, <1>2, <1>3, <1>4, StoreStaysKeeps

LEMMA PageFits ==
  ASSUME NEW auth \in {"none", "setup", "ready", "in"}, NEW view \in {Nothing} \cup Views
  PROVE  /\ [auth |-> auth, view |-> view] \in PageStates
         /\ [auth |-> auth, view |-> view].view = view
BY DEF PageStates

LEMMA RequestFits ==
  ASSUME NEW at \in {"none", "sent", "authorized", "running", "refreshing"}, NEW op \in AdminOperations,
         NEW seen \in {Nothing} \cup Views
  PROVE  /\ Request(at, op, seen) \in RequestStates
         /\ Request(at, op, seen).at = at /\ Request(at, op, seen).op = op
         /\ Request(at, op, seen).seen = seen
BY DEF Request, RequestStates

LEMMA NoRequestFits ==
  /\ NoRequest \in RequestStates
  /\ NoRequest.at = "none" /\ NoRequest.op = "none" /\ NoRequest.seen = Nothing
  /\ ~ChangesSettings(NoRequest.op)
BY DEF NoRequest, Request, RequestStates, AdminOperations, ChangesSettings

LEMMA OnesBrowser ==
  ASSUME BrowsersTyped, NEW a \in Admins
  PROVE  /\ page[a] \in PageStates /\ request[a] \in RequestStates
         /\ page[a].view \in {Nothing} \cup Views /\ request[a].seen \in {Nothing} \cup Views
         /\ page[a].view \in Seen /\ request[a].seen \in Seen
         /\ ChangesSettings(request[a].op) => request[a].seen # Nothing
         /\ request[a].at \in {"sent", "authorized"} => request[a].op # "none"
         /\ page = [page EXCEPT ![a] = page[a]] /\ request = [request EXCEPT ![a] = request[a]]
BY DEF BrowsersTyped, PageStates, RequestStates, Seen

\* What the page and the request of one administrator become.
LEMMA BrowserStep ==
  ASSUME BrowsersTyped, NEW a \in Admins, NEW p \in PageStates, NEW r \in RequestStates,
         page' = [page EXCEPT ![a] = p], request' = [request EXCEPT ![a] = r],
         ChangesSettings(r.op) => r.seen # Nothing, r.at \in {"sent", "authorized"} => r.op # "none",
         job'.seen \in Seen \cup {Nothing}, r.seen \in Seen \cup {Nothing},
         p.view \in Seen \cup {Nothing} \/ (Readable /\ job = NoJob /\ p.view = Shown(Current))
  PROVE  BrowsersTyped' /\ OnlyShown
<1>1. /\ page' \in [Admins -> PageStates] /\ request' \in [Admins -> RequestStates]
      /\ \A b \in Admins \ {a} : page'[b] = page[b] /\ request'[b] = request[b]
      /\ page'[a] = p /\ request'[a] = r
  BY DEF BrowsersTyped
<1>2. BrowsersTyped'
  BY <1>1 DEF BrowsersTyped, ChangesSettings, Nothing
<1>3. OnlyShown
  <2> SUFFICES ASSUME NEW view \in Seen'
               PROVE  view \in Seen \cup {Nothing} \/ (Readable /\ job = NoJob /\ view = Shown(Current))
    BY DEF OnlyShown
  <2>1. CASE view = job'.seen
    BY <2>1
  <2>2. ASSUME NEW b \in Admins, view = page'[b].view \/ view = request'[b].seen
        PROVE  view \in Seen \cup {Nothing} \/ (Readable /\ job = NoJob /\ view = Shown(Current))
    <3>1. CASE b = a
      BY <1>1, <2>2, <3>1
    <3>2. CASE b # a
      BY <1>1, <2>2, <3>2 DEF Seen
    <3> QED
      BY <3>1, <3>2
  <2> QED
    BY <2>1, <2>2 DEF Seen
<1> QED
  BY <1>2, <1>3

-----------------------------------------------------------------------------
(* The requests and the pages of an administrator *)

LEMMA ArrivesKeeps ==
  ASSUME AInv, NEW a \in Admins, Arrives(a)
  PROVE  AInv'
<1>1. /\ ServerTyped /\ BrowsersTyped /\ job = NoJob /\ job' = job /\ request[a].at = "sent"
      /\ UNCHANGED <<disk, serving, job, command, started, races>> /\ Loads /\ Notices
  BY DEF AInv, Typed, Arrives, bounds
<1>2. PICK p \in {page[a], [auth |-> "ready", view |-> Nothing]} : page' = [page EXCEPT ![a] = p]
  BY <1>1, OnesBrowser DEF Arrives
<1>3. PICK r \in {NoRequest, [request[a] EXCEPT !.at = "authorized"]} : request' = [request EXCEPT ![a] = r]
  BY <1>1 DEF Arrives
<1>4. p \in PageStates /\ p.view \in Seen \cup {Nothing}
  BY <1>1, OnesBrowser, PageFits
<1>5. /\ r \in RequestStates /\ r.seen \in Seen \cup {Nothing}
      /\ ChangesSettings(r.op) => r.seen # Nothing
      /\ r.at \in {"sent", "authorized"} => r.op # "none"
  <2>1. CASE r = NoRequest
    BY <2>1, NoRequestFits
  <2>2. CASE r = [request[a] EXCEPT !.at = "authorized"]
    <3>1. r \in RequestStates /\ r.op = request[a].op /\ r.seen = request[a].seen
      BY <1>1, <2>2, OnesBrowser DEF RequestStates
    <3> QED
      BY <1>1, <3>1, OnesBrowser
  <2> QED
    BY <2>1, <2>2
<1>6. job'.seen \in Seen \cup {Nothing}
  BY <1>1 DEF Seen
<1>7. BrowsersTyped' /\ OnlyShown
  BY <1>1, <1>2, <1>3, <1>4, <1>5, <1>6, BrowserStep
<1> QED
  BY <1>1, <1>7, NoticesFits, LoadingKeeps

LEMMA LoginsKeeps ==
  ASSUME AInv, NEW a \in Admins, Logins(a)
  PROVE  AInv'
<1>1. /\ ServerTyped /\ BrowsersTyped /\ job = NoJob /\ job' = job
      /\ request[a].at = "authorized" /\ request[a].op = "login"
      /\ UNCHANGED <<disk, serving, job, command, started, races>> /\ Loads
  BY DEF AInv, Typed, Logins, bounds
<1>2. PICK p \in {page[a], [page[a] EXCEPT !.auth = "in"]} : page' = [page EXCEPT ![a] = p]
  BY <1>1, OnesBrowser DEF Logins
<1>3. PICK r \in {NoRequest, [request[a] EXCEPT !.at = "refreshing"]} : request' = [request EXCEPT ![a] = r]
  BY <1>1 DEF Logins
<1>4. p \in PageStates /\ p.view \in Seen \cup {Nothing}
  BY <1>1, OnesBrowser DEF PageStates
<1>5. /\ r \in RequestStates /\ r.seen \in Seen \cup {Nothing}
      /\ ChangesSettings(r.op) => r.seen # Nothing
      /\ r.at \in {"sent", "authorized"} => r.op # "none"
  <2>1. CASE r = NoRequest
    BY <2>1, NoRequestFits
  <2>2. CASE r = [request[a] EXCEPT !.at = "refreshing"]
    <3>1. r \in RequestStates /\ r.op = request[a].op /\ r.seen = request[a].seen
      BY <1>1, <2>2, OnesBrowser DEF RequestStates
    <3> QED
      BY <1>1, <3>1, OnesBrowser
  <2> QED
    BY <2>1, <2>2
<1>6. job'.seen \in Seen \cup {Nothing}
  BY <1>1 DEF Seen
<1>7. BrowsersTyped' /\ OnlyShown
  BY <1>1, <1>2, <1>3, <1>4, <1>5, <1>6, BrowserStep
<1>8. sessions' \in [Admins -> {<<>>, marker'}]
  <2>1. CASE Notices
    BY <1>1, <2>1, NoticesFits
  <2>2. CASE marker' = MarkerOf(Current) /\ sessions' = [SessionsNow EXCEPT ![a] = marker']
    BY <1>1, <2>2, RefreshedSessions DEF SessionsNow
  <2> QED
    BY <2>1, <2>2 DEF Logins
<1> QED
  BY <1>1, <1>7, <1>8, LoadingKeeps

LEMMA SessionExpiresKeeps ==
  ASSUME AInv, NEW a \in Admins, SessionExpires(a)
  PROVE  AInv'
<1>1. /\ ServerTyped /\ BrowsersTyped /\ made \in Nat /\ races \in Nat
      /\ UNCHANGED <<disk, serving, mem, marker, job, browsers, command, started, races>>
      /\ sessions' = [sessions EXCEPT ![a] = <<>>]
  BY DEF AInv, Typed, DiskTyped, SessionExpires
<1>2. ServerTyped' /\ BrowsersTyped'
  BY <1>1 DEF ServerTyped, BrowsersTyped, browsers
<1>3. StoreStays /\ made' = made /\ OnlyShown
  BY <1>1 DEF StoreStays, disk, OnlyShown, Seen, browsers
<1>4. ASSUME races' = 0 PROVE Paired(mem.state, mem.key)' /\ Alone' /\ JobFits'
  <2>1. Pairs /\ JobFits /\ Alone
    BY <1>1, <1>4 DEF AInv, Calm
  <2>2. Paired(mem.state, mem.key)'
    BY <1>1, <2>1 DEF Pairs, Paired, Opens
  <2>3. Alone'
    BY <1>1, <2>1, CommittingStays
  <2>4. JobFits'
    BY <1>1, <2>1 DEF JobFits, disk, Paired, Opens, Follows, SameView, Revision, ChangesSettings, Nothing
  <2> QED
    BY <2>2, <2>3, <2>4
<1> QED
  BY <1>1, <1>2, <1>3, <1>4, StoreStaysKeeps

LEMMA LoadsPageKeeps ==
  ASSUME AInv, NEW a \in Admins, LoadsPage(a)
  PROVE  AInv'
<1>1. /\ ServerTyped /\ BrowsersTyped /\ job = NoJob /\ job' = job /\ request' = request
      /\ UNCHANGED <<disk, serving, job, command, started, races>> /\ Loads /\ Notices
  BY DEF AInv, Typed, LoadsPage, bounds
<1>2. PICK auth \in {"in", "setup", "ready"} : page' = [page EXCEPT ![a] = [auth |-> auth, view |-> Nothing]]
  BY DEF LoadsPage
<1>3. [auth |-> auth, view |-> Nothing] \in PageStates /\ [auth |-> auth, view |-> Nothing].view = Nothing
  BY PageFits
<1>4. request' = [request EXCEPT ![a] = request[a]]
  BY <1>1, OnesBrowser
<1>6. job'.seen \in Seen \cup {Nothing}
  BY <1>1 DEF Seen
<1>7. BrowsersTyped' /\ OnlyShown
  BY <1>1, <1>2, <1>3, <1>4, <1>6, OnesBrowser, BrowserStep
<1> QED
  BY <1>1, <1>7, NoticesFits, LoadingKeeps

LEMMA SignsInKeeps ==
  ASSUME AInv, NEW a \in Admins, SignsIn(a)
  PROVE  AInv'
<1>1. /\ BrowsersTyped /\ job' = job /\ page' = page
      /\ UNCHANGED <<disk, server, command, started, races>>
  BY DEF AInv, Typed, SignsIn, server
<1>2. PICK op \in {"setup", "login"} : request' = [request EXCEPT ![a] = Request("authorized", op, Nothing)]
  BY DEF SignsIn
<1> DEFINE r == Request("authorized", op, Nothing)
<1>3. r \in RequestStates /\ r.op = op /\ r.op # "none" /\ r.seen = Nothing /\ request' = [request EXCEPT ![a] = r]
  BY <1>2, RequestFits DEF AdminOperations
<1> HIDE DEF r
<1>4. page' = [page EXCEPT ![a] = page[a]]
  BY <1>1, OnesBrowser
<1>5. ~ChangesSettings(op)
  BY DEF ChangesSettings
<1>6. job'.seen \in Seen \cup {Nothing}
  BY <1>1 DEF Seen
<1>7. BrowsersTyped' /\ OnlyShown
  BY <1>1, <1>3, <1>4, <1>5, <1>6, OnesBrowser, BrowserStep
<1> QED
  BY <1>1, <1>7, BrowsingKeeps

LEMMA AsksKeeps ==
  ASSUME AInv, NEW a \in Admins, NEW op \in {"settings", "rollback", "setKey", "dropKey"}, Asks(a, op)
  PROVE  AInv'
<1> DEFINE r == Request("sent", op, page[a].view)
<1>1. /\ BrowsersTyped /\ job' = job /\ page' = page /\ page[a].view # Nothing
      /\ UNCHANGED <<disk, server, command, started, races>>
      /\ request' = [request EXCEPT ![a] = r]
  BY DEF AInv, Typed, Asks, server
<1>2. page[a].view \in {Nothing} \cup Views /\ page[a].view \in Seen
  BY <1>1, OnesBrowser
<1>3. r \in RequestStates /\ r.op = op /\ r.seen = page[a].view
  BY <1>2, RequestFits DEF AdminOperations
<1> HIDE DEF r
<1>4. page' = [page EXCEPT ![a] = page[a]]
  BY <1>1, OnesBrowser
<1>6. job'.seen \in Seen \cup {Nothing}
  BY <1>1 DEF Seen
<1>7. BrowsersTyped' /\ OnlyShown
  BY <1>1, <1>2, <1>3, <1>4, <1>6, OnesBrowser, BrowserStep
<1> QED
  BY <1>1, <1>7, BrowsingKeeps

LEMMA RefreshesKeeps ==
  ASSUME AInv, NEW a \in Admins, Refreshes(a)
  PROVE  AInv'
<1>1. /\ DiskTyped /\ ServerTyped /\ BrowsersTyped /\ job = NoJob /\ job' = job
      /\ UNCHANGED <<disk, serving, job, command, started, races>> /\ Loads /\ Notices
      /\ request' = [request EXCEPT ![a] = NoRequest] /\ line \in Nat
  BY DEF AInv, Typed, DiskTyped, Refreshes, bounds
<1>2. CASE page' = [page EXCEPT ![a] = [auth |-> "ready", view |-> Nothing]]
  <2>1. [auth |-> "ready", view |-> Nothing] \in PageStates
    BY PageFits
  <2>2. BrowsersTyped' /\ OnlyShown
    BY <1>1, <1>2, <2>1, NoRequestFits, BrowserStep DEF Seen
  <2> QED
    BY <1>1, <2>2, NoticesFits, LoadingKeeps
<1>3. CASE page' = page
  <2>1. page' = [page EXCEPT ![a] = page[a]]
    BY <1>1, <1>3, OnesBrowser
  <2>2. BrowsersTyped' /\ OnlyShown
    BY <1>1, <2>1, OnesBrowser, NoRequestFits, BrowserStep DEF Seen
  <2> QED
    BY <1>1, <2>2, NoticesFits, LoadingKeeps
<1>4. CASE page' = [page EXCEPT ![a].view = Reads(a)] /\ Reads(a) # Nothing
  <2>1. Readable /\ Reads(a) = Shown(Current)
    BY <1>4 DEF Reads
  <2>2. Shown(Current) \in Views
    BY <1>1, <2>1, RequiredFits, ShownFits
  <2>3. PICK p : p = [page[a] EXCEPT !.view = Shown(Current)]
    OBVIOUS
  <2>4. p \in PageStates /\ p.view = Shown(Current) /\ page' = [page EXCEPT ![a] = p]
    BY <1>1, <1>4, <2>1, <2>2, <2>3, OnesBrowser DEF PageStates
  <2>5. BrowsersTyped' /\ OnlyShown
    BY <1>1, <2>1, <2>4, NoRequestFits, BrowserStep DEF Seen
  <2> QED
    BY <1>1, <2>5, NoticesFits, LoadingKeeps
<1> QED
  BY <1>2, <1>3, <1>4 DEF Refreshes

LEMMA SignsOutKeeps ==
  ASSUME AInv, NEW a \in Admins, SignsOut(a)
  PROVE  AInv'
<1>1. /\ ServerTyped /\ BrowsersTyped /\ job = NoJob /\ job' = job /\ request' = request
      /\ UNCHANGED <<disk, serving, job, command, started, races>> /\ Loads
      /\ marker' = MarkerOf(Current) /\ sessions' = [SessionsNow EXCEPT ![a] = <<>>]
  BY DEF AInv, Typed, SignsOut
<1>2. PICK p : p = [page[a] EXCEPT !.auth = "ready"]
  OBVIOUS
<1>3. p \in PageStates /\ p.view = page[a].view /\ page' = [page EXCEPT ![a] = p]
  BY <1>1, <1>2, OnesBrowser DEF PageStates, SignsOut
<1>4. request' = [request EXCEPT ![a] = request[a]]
  BY <1>1, OnesBrowser
<1>6. job'.seen \in Seen \cup {Nothing}
  BY <1>1 DEF Seen
<1>7. BrowsersTyped' /\ OnlyShown
  BY <1>1, <1>3, <1>4, <1>6, OnesBrowser, BrowserStep
<1>8. sessions' \in [Admins -> {<<>>, marker'}]
  BY <1>1, RefreshedSessions DEF SessionsNow
<1> QED
  BY <1>1, <1>7, <1>8, LoadingKeeps

-----------------------------------------------------------------------------
(* The commits of the server, its starts and its ends *)

\* Overlapping is counted: without it nobody else is committing.
LEMMA OverlapsFits ==
  ASSUME NEW who, Overlaps(who), races \in Nat
  PROVE  /\ races' \in Nat /\ (races' = 0 => races = 0)
         /\ races' = 0 => Committing \ {who} = {}
BY DEF Overlaps

LEMMA RunsKeeps ==
  ASSUME AInv, NEW a \in Admins, Runs(a)
  PROVE  AInv'
<1>1. /\ DiskTyped /\ ServerTyped /\ BrowsersTyped /\ job = NoJob /\ made \in Nat /\ races \in Nat
      /\ serving' = serving /\ serving
      /\ request[a].at = "authorized" /\ request[a].op # "login" /\ page' = page /\ StoreStays
  BY DEF AInv, Typed, DiskTyped, Runs, StoreStays
<1>2. page' = [page EXCEPT ![a] = page[a]]
  BY <1>1, OnesBrowser
<1>3. sessions' \in [Admins -> {<<>>, marker'}]
  <2>1. CASE Notices
    BY <1>1, <2>1, NoticesFits
  <2>2. CASE UNCHANGED <<sessions, marker>>
    BY <1>1, <2>2 DEF ServerTyped
  <2> QED
    BY <2>1, <2>2 DEF Runs
<1>4. CASE Rejected(a)
  <2>1. /\ request' = [request EXCEPT ![a] = NoRequest] /\ job' = job /\ made' = made /\ races' = races
        /\ mem' = mem \/ Loads
    BY <1>4 DEF Runs
  <2>2. BrowsersTyped' /\ OnlyShown
    BY <1>1, <1>2, <2>1, OnesBrowser, NoRequestFits, BrowserStep DEF Seen
  <2>3. ServerTyped'
    BY <1>1, <1>3, <2>1, LoadsFits DEF ServerTyped
  <2>4. ASSUME races' = 0 PROVE Paired(mem.state, mem.key)' /\ Alone' /\ JobFits'
    <3>1. Pairs /\ JobFits /\ Alone
      BY <2>1, <2>4 DEF AInv, Calm
    <3>2. Paired(mem.state, mem.key)' /\ mem'.state = mem'.contents
      <4>1. CASE Loads
        BY <1>1, <3>1, <4>1, LoadsFits DEF Paired, Opens
      <4>2. CASE mem' = mem
        BY <1>1, <3>1, <4>2 DEF Pairs, Paired, Opens, JobFits
      <4> QED
        BY <2>1, <4>1, <4>2
    <3>3. Alone'
      BY <1>1, <2>1, <3>1, CommittingStays DEF StoreStays
    <3>4. JobFits'
      BY <1>1, <2>1, <3>2, NoJobTells DEF JobFits
    <3> QED
      BY <3>2, <3>3, <3>4
  <2> QED
    BY <1>1, <2>1, <2>2, <2>3, <2>4, StoreStaysKeeps
<1>5. CASE ~Rejected(a)
  <2> DEFINE op == request[a].op
             seen == request[a].seen
             next == Changed(Current, Required.key, a, op)
             r == [request[a] EXCEPT !.at = "running"]
  <2>1. /\ Loads /\ Overlaps(TheServer)
        /\ job' = [at |-> "read", who |-> a, op |-> op, seen |-> seen, next |-> next]
        /\ made' \in Nat /\ request' = [request EXCEPT ![a].at = "running"]
    BY <1>1, <1>5 DEF Runs
  <2>2. Readable /\ (ChangesSettings(op) => ~Conflicts(Current, seen))
    BY <1>5 DEF Rejected
  <2>3. /\ op \in AdminOperations \ {"none", "login"} /\ seen \in {Nothing} \cup Views /\ seen \in Seen
        /\ ChangesSettings(op) => seen # Nothing
    BY <1>1, OnesBrowser DEF RequestStates
  <2>4. Current \in Documents /\ Required.key \in Nat /\ dir.state \in Documents
    BY <1>1, <2>2, RequiredFits
  <2>5. /\ next \in Documents /\ Follows(Current, next)
        /\ Paired(Current, Required.key) => Paired(next, Required.key)
        /\ ~ChangesSettings(op) => next.history = Current.history
    BY <1>1, <2>3, <2>4, ChangedFits
  <2>6. request' = [request EXCEPT ![a] = r]
    BY <1>1, <2>1 DEF BrowsersTyped
  <2>7. r \in RequestStates /\ r.op = op /\ r.seen = seen
    BY <1>1, OnesBrowser DEF RequestStates
  <2> HIDE DEF op, seen, next, r
  <2>8. job' \in Jobs /\ job'.at = "read" /\ job'.op = op /\ job'.seen = seen /\ job'.next = next
    BY <2>1, <2>3, <2>5 DEF Jobs
  <2>9. BrowsersTyped' /\ OnlyShown
    <3>1. r.op # "none" /\ (ChangesSettings(r.op) => r.seen # Nothing) /\ job'.seen \in Seen
      BY <2>3, <2>7, <2>8
    <3>2. page[a] \in PageStates /\ page[a].view \in Seen
      BY <1>1, OnesBrowser
    <3> QED
      BY <1>1, <1>2, <2>3, <2>6, <2>7, <3>1, <3>2, BrowserStep
  <2>10. mem' = Required /\ mem'.contents = dir.state /\ mem'.state = Current
    BY <1>1, <2>1, <2>2, LoadsFits, RequiredFits DEF Current
  <2>11. ServerTyped'
    <3>1. mem'.state # Nothing
      BY <2>4, <2>10, DocumentTells
    <3> QED
      BY <1>1, <1>3, <2>1, <2>8, <3>1, LoadsFits DEF ServerTyped
  <2>12. races' \in Nat /\ (races' = 0 => races = 0 /\ Committing \ {TheServer} = {})
    BY <1>1, <2>1, OverlapsFits
  <2>13. ASSUME races' = 0 PROVE Paired(mem.state, mem.key)' /\ Alone' /\ JobFits'
    <3>1. Pairs /\ JobFits /\ Alone
      BY <2>12, <2>13 DEF AInv, Calm
    <3>2. Current = dir.state /\ Required.key = dir.key
      BY <1>1, <2>2, <3>1, RequiredCalm
    <3>3. Paired(mem.state, mem.key)' /\ Paired(next, dir.key)
      BY <2>5, <2>10, <3>1, <3>2 DEF Pairs, Paired, Opens
    <3>4. Alone'
      <4>1. \A c \in Commands : command[c].at # "read"
        BY <1>1, <2>12, <2>13 DEF Committing, TheServer, Commands
      <4>2. Committing' \subseteq {TheServer}
        BY <1>1, <4>1 DEF Committing, StoreStays
      <4> QED
        BY <4>2 DEF Alone
    <3>5. JobFits'
      <4>1. dir' = dir /\ dir.state # Nothing
        BY <1>1, <2>4, DocumentTells DEF StoreStays
      <4>2. IF ChangesSettings(op) THEN seen # Nothing /\ seen.revision = Revision(dir.state)
            ELSE next.history = dir.state.history
        BY <2>2, <2>3, <2>5, <3>2 DEF Conflicts
      <4>3. job' # NoJob
        BY <2>8, NoJobTells
      <4> QED
        BY <2>5, <2>8, <2>10, <3>2, <3>3, <4>1, <4>2, <4>3
        DEF JobFits, Paired, Opens, Follows, SameView, ChangesSettings, Revision
    <3> QED
      BY <3>3, <3>4, <3>5
  <2> QED
    BY <1>1, <2>1, <2>9, <2>11, <2>12, <2>13, StoreStaysKeeps
<1> QED
  BY <1>4, <1>5

LEMMA SeenFits ==
  ASSUME ServerTyped, BrowsersTyped, NEW view \in Seen, view # Nothing
  PROVE  view \in Views
<1>1. job.seen \in {Nothing} \cup Views
  BY NoJobTells DEF ServerTyped, Jobs
<1> QED
  BY <1>1, OnesBrowser DEF Seen

LEMMA ReplacedFits ==
  ASSUME DiskTyped, NEW new \in Documents, dir' = [dir EXCEPT !.state = new]
  PROVE  /\ dir' \in Dirs /\ dir'.state = new /\ dir'.key = dir.key
         /\ dir'.state # Nothing /\ dir' # Absent
BY DocumentTells DEF DiskTyped, Dirs, Absent, Dir

\* A document that follows the one on disk takes its place: what the views know
\* stays true.
LEMMA GrowingKeepsViews ==
  ASSUME ServerTyped, BrowsersTyped, ViewsKnown, line' = line, Seen' \subseteq Seen,
         dir.state \in Documents, dir'.state \in Documents, Follows(dir.state, dir'.state),
         \A c \in Commands : command'[c].at # "moved"
  PROVE  ViewsKnown'
<1> SUFFICES ASSUME NEW view \in Seen', view # Nothing, view.line = line
             PROVE  Knows(view, dir'.state)
  BY DEF ViewsKnown, Knows, Nothing, Revision
<1>1. view \in Views /\ Knows(view, dir.state)
  BY SeenFits DEF ViewsKnown
<1> QED
  BY <1>1, KnowsOn

LEMMA JobFields ==
  ASSUME ServerTyped, job # NoJob
  PROVE  /\ job \in Jobs /\ job.next \in Documents /\ job.who \in Admins /\ job.at \in {"read", "written"}
         /\ job.seen \in {Nothing} \cup Views /\ mem.state # Nothing /\ serving
         /\ job.op # "none" /\ job.op # "login"
BY DEF ServerTyped, Jobs

\* While the server commits, no command does, and none has moved the store away.
LEMMA CommitsAlone ==
  ASSUME DiskTyped, Alone, JobFits, CommandsFit, job # NoJob, ServerTyped
  PROVE  \A c \in Commands : command[c].at \notin {"read", "moved"}
<1>1. TheServer \in Committing
  BY DEF Committing
<1>2. ASSUME NEW c \in Commands PROVE command[c].at # "read"
  BY <1>1, <1>2 DEF Alone, Committing, TheServer, Commands
<1>3. dir.state # Nothing
  BY JobFields, DocumentTells DEF JobFits
<1>4. dir # Absent
  BY <1>3, DirFits
<1> QED
  BY <1>2, <1>4 DEF CommandsFit

LEMMA CommitsKeep ==
  ASSUME AInv, Commits
  PROVE  AInv'
<1>1. /\ DiskTyped /\ ServerTyped /\ BrowsersTyped /\ CommandsTyped /\ Gaps /\ Past /\ job.at = "read"
      /\ dir' = [dir EXCEPT !.state = job.next] /\ job' = [job EXCEPT !.at = "written"]
      /\ mem' = [mem EXCEPT !.state = job.next]
      /\ UNCHANGED <<lock, archive, made, line, lost, serving, marker, sessions, page, request, command,
                     started, races>>
  BY DEF AInv, Typed, Commits, browsers, bounds
<1>2. job # NoJob
  BY <1>1, NoJobTells
<1>3. /\ job.next \in Documents /\ job \in Jobs
  BY <1>1, <1>2, JobFields
<1>4. /\ dir' \in Dirs /\ dir'.state = job.next /\ dir'.key = dir.key
      /\ dir'.state # Nothing /\ dir' # Absent
  BY <1>1, <1>3, ReplacedFits
<1>5. DiskTyped'
  BY <1>1, <1>4 DEF DiskTyped
<1>6. /\ job' \in Jobs /\ job'.at = "written" /\ job'.next = job.next /\ job'.seen = job.seen /\ job'.op = job.op
  BY <1>1, <1>3 DEF Jobs
<1>7. mem'.state = job.next /\ mem'.key = mem.key /\ mem'.contents = mem.contents
  BY <1>1 DEF ServerTyped
<1>8. ServerTyped'
  <2>1. mem' \in [state : {Nothing} \cup Documents, key : Nat, contents : {Nothing} \cup Documents]
    BY <1>1, <1>3 DEF ServerTyped
  <2>2. serving /\ mem'.state # Nothing
    BY <1>1, <1>2, <1>3, <1>7, DocumentTells, JobFields
  <2> QED
    BY <1>1, <1>6, <2>1, <2>2 DEF ServerTyped
<1>9. BrowsersTyped' /\ CommandsTyped'
  BY <1>1 DEF BrowsersTyped, CommandsTyped
<1>10. Gaps'
  BY <1>1, <1>4 DEF Gaps, NoGap
<1>11. Seen' = Seen /\ Past'
  BY <1>1, <1>6 DEF Seen, Past
<1>12. ASSUME races' = 0 PROVE Calm'
  <2>1. Pairs /\ Alone /\ JobFits /\ CommandsFit /\ ViewsKnown
    BY <1>1, <1>12 DEF AInv, Calm
  <2>2. /\ dir.state # Nothing /\ mem.state = dir.state /\ Paired(job.next, dir.key)
        /\ Follows(dir.state, job.next)
    BY <1>1, <2>1 DEF JobFits
  <2>3. mem.key = dir.key
    BY <2>1, <2>2 DEF Pairs, Paired
  <2>4. Pairs'
    BY <1>1, <1>4, <1>7, <2>1, <2>2, <2>3 DEF Pairs, Paired, Opens
  <2>5. \A c \in Commands : command[c].at \notin {"read", "moved"}
    BY <1>1, <1>2, <2>1, CommitsAlone
  <2>6. Alone'
    BY <1>1, <1>2, <1>6, <2>1, NoJobTells DEF Alone, Committing
  <2>7. JobFits'
    BY <1>4, <1>6, <1>7, NoJobTells DEF JobFits
  <2>8. CommandsFit'
    BY <1>1, <2>5 DEF CommandsFit
  <2>9. ViewsKnown'
    BY <1>1, <1>3, <1>4, <1>11, <2>1, <2>2, <2>5, DirFits, GrowingKeepsViews
  <2> QED
    BY <2>4, <2>6, <2>7, <2>8, <2>9 DEF Calm
<1> QED
  BY <1>5, <1>8, <1>9, <1>10, <1>11, <1>12 DEF AInv, Typed

LEMMA CommitFailsKeeps ==
  ASSUME AInv, CommitFails
  PROVE  AInv'
<1>1. /\ ServerTyped /\ BrowsersTyped /\ job.at = "read" /\ job' = NoJob /\ made \in Nat /\ races \in Nat
      /\ request' = [request EXCEPT ![job.who] = NoRequest]
      /\ UNCHANGED <<disk, serving, mem, marker, sessions, page, command, started, races>>
  BY DEF AInv, Typed, DiskTyped, CommitFails
<1>2. job # NoJob /\ job.who \in Admins
  BY <1>1, NoJobTells, JobFields
<1>3. page' = [page EXCEPT ![job.who] = page[job.who]]
  BY <1>1, <1>2, OnesBrowser
<1>4. job'.seen = Nothing
  BY <1>1, NoJobTells
<1>5. BrowsersTyped' /\ OnlyShown
  BY <1>1, <1>2, <1>3, <1>4, OnesBrowser, NoRequestFits, BrowserStep
<1>6. StoreStays /\ made' = made
  BY <1>1 DEF StoreStays, disk
<1>7. ServerTyped'
  BY <1>1 DEF ServerTyped
<1>8. ASSUME races' = 0 PROVE Paired(mem.state, mem.key)' /\ Alone' /\ JobFits'
  <2>1. Pairs /\ Alone /\ JobFits
    BY <1>1, <1>8 DEF AInv, Calm
  <2>2. Paired(mem.state, mem.key)' /\ mem'.state = mem'.contents
    BY <1>1, <2>1 DEF Pairs, Paired, Opens, JobFits
  <2>3. Alone'
    BY <1>1, <2>1 DEF Alone, Committing
  <2>4. JobFits'
    BY <1>1, <2>2, NoJobTells DEF JobFits
  <2> QED
    BY <2>2, <2>3, <2>4
<1> QED
  BY <1>1, <1>5, <1>6, <1>7, <1>8, StoreStaysKeeps

LEMMA RepliesKeep ==
  ASSUME AInv, Replies
  PROVE  AInv'
<1>1. /\ DiskTyped /\ ServerTyped /\ BrowsersTyped /\ job.at = "written" /\ job' = NoJob
      /\ made \in Nat /\ races \in Nat /\ mem' = [mem EXCEPT !.contents = dir.state]
      /\ request' = [request EXCEPT ![job.who].at = "refreshing"]
      /\ UNCHANGED <<disk, serving, command, started, races>>
  BY DEF AInv, Typed, DiskTyped, Replies, bounds
<1>2. job # NoJob /\ job.who \in Admins /\ mem.state # Nothing
  BY <1>1, NoJobTells, JobFields
<1>3. PICK p \in {page[job.who], [page[job.who] EXCEPT !.auth = "in"]} : page' = [page EXCEPT ![job.who] = p]
  BY <1>1, <1>2, OnesBrowser DEF Replies
<1>4. p \in PageStates /\ p.view \in Seen
  BY <1>1, <1>2, OnesBrowser DEF PageStates
<1>5. PICK r : r = [request[job.who] EXCEPT !.at = "refreshing"]
  OBVIOUS
<1>6. /\ r \in RequestStates /\ r.op = request[job.who].op /\ r.seen = request[job.who].seen
      /\ request' = [request EXCEPT ![job.who] = r]
  BY <1>1, <1>2, <1>5, OnesBrowser DEF RequestStates
<1>7. BrowsersTyped' /\ OnlyShown
  <2>1. job'.seen = Nothing
    BY <1>1, NoJobTells
  <2>2. ChangesSettings(r.op) => r.seen # Nothing
    BY <1>1, <1>2, <1>6, OnesBrowser
  <2>3. r.at \notin {"sent", "authorized"}
    BY <1>1, <1>2, <1>5, OnesBrowser DEF RequestStates
  <2> QED
    BY <1>1, <1>2, <1>3, <1>4, <1>6, <2>1, <2>2, <2>3, OnesBrowser, BrowserStep
<1>8. mem' \in [state : {Nothing} \cup Documents, key : Nat, contents : {Nothing} \cup Documents]
      /\ mem'.state = mem.state /\ mem'.key = mem.key /\ mem'.contents = dir.state
  BY <1>1, DirFits DEF ServerTyped
<1>9. sessions' \in [Admins -> {<<>>, marker'}]
  <2>1. CASE UNCHANGED <<marker, sessions>>
    BY <1>1, <2>1 DEF ServerTyped
  <2>2. CASE marker' = MarkerOf(job.next) /\ sessions' = [RefreshedFor(job.next) EXCEPT ![job.who] = marker']
    BY <1>1, <2>2, RefreshedSessions
  <2> QED
    BY <2>1, <2>2 DEF Replies
<1>10. ServerTyped'
  BY <1>1, <1>2, <1>8, <1>9 DEF ServerTyped
<1>11. StoreStays /\ made' = made
  BY <1>1 DEF StoreStays, disk
<1>12. ASSUME races' = 0 PROVE Paired(mem.state, mem.key)' /\ Alone' /\ JobFits'
  <2>1. Pairs /\ Alone /\ JobFits
    BY <1>1, <1>12 DEF AInv, Calm
  <2>2. Paired(mem.state, mem.key)' /\ mem'.state = mem'.contents
    BY <1>1, <1>8, <2>1 DEF Pairs, Paired, Opens, JobFits
  <2>3. Alone'
    BY <1>1, <2>1 DEF Alone, Committing
  <2>4. JobFits'
    BY <1>1, <2>2, NoJobTells DEF JobFits
  <2> QED
    BY <2>2, <2>3, <2>4
<1> QED
  BY <1>1, <1>7, <1>10, <1>11, <1>12, StoreStaysKeeps

LEMMA StopsKeep ==
  ASSUME AInv, Stops
  PROVE  AInv'
<1>1. /\ ServerTyped /\ BrowsersTyped /\ made \in Nat /\ races \in Nat
      /\ serving' = FALSE /\ mem' = NoMem /\ job' = NoJob /\ sessions' = [a \in Admins |-> <<>>]
      /\ request' = [a \in Admins |-> NoRequest] /\ UNCHANGED <<disk, page, command, started, races>>
  BY DEF AInv, Typed, DiskTyped, Stops
<1>2. BrowsersTyped'
  BY <1>1, NoRequestFits DEF BrowsersTyped, ChangesSettings
<1>3. OnlyShown
  BY <1>1, NoRequestFits, NoJobTells DEF OnlyShown, Seen
<1>4. /\ mem'.state = Nothing /\ mem'.contents = Nothing
      /\ mem' \in [state : {Nothing} \cup Documents, key : Nat, contents : {Nothing} \cup Documents]
  BY <1>1 DEF NoMem, Mem
<1>5. ServerTyped'
  BY <1>1, <1>4 DEF ServerTyped
<1>6. StoreStays /\ made' = made
  BY <1>1 DEF StoreStays, disk
<1>7. ASSUME races' = 0 PROVE Paired(mem.state, mem.key)' /\ Alone' /\ JobFits'
  <2>1. Alone
    BY <1>1, <1>7 DEF AInv, Calm
  <2>2. Alone'
    BY <1>1, <2>1 DEF Alone, Committing
  <2>3. JobFits'
    BY <1>1, <1>4, NoJobTells DEF JobFits
  <2>4. Paired(mem.state, mem.key)'
    BY <1>4 DEF Paired, Nothing
  <2> QED
    BY <2>2, <2>3, <2>4
<1> QED
  BY <1>1, <1>2, <1>3, <1>5, <1>6, <1>7, StoreStaysKeeps

\* Another store in the directory: nothing that is shown is of it.
LEMMA NewLineKeepsViews ==
  ASSUME DiskTyped, ServerTyped, BrowsersTyped, Past, line' = line + 1, Seen' \subseteq Seen \cup {Nothing}
  PROVE  Past' /\ ViewsKnown'
<1>1. ASSUME NEW view \in Seen', view # Nothing PROVE view.line \in Nat /\ view.line <= line
  <2>1. view \in Seen /\ view \in Views
    BY <1>1, SeenFits
  <2> QED
    BY <1>1, <2>1 DEF Views, Past
<1>2. line \in Nat
  BY DEF DiskTyped
<1>3. \A view \in Seen' : view # Nothing => view.line <= line' /\ view.line # line'
  BY <1>1, <1>2
<1>4. Past'
  BY <1>3 DEF Past, Nothing
<1>5. ViewsKnown'
  BY <1>3 DEF ViewsKnown, Nothing
<1> QED
  BY <1>4, <1>5

LEMMA CreatesFits ==
  ASSUME DiskTyped, NEW next \in Nat \ {0}, Creates(next)
  PROVE  /\ dir.state = Nothing /\ dir' \in Dirs /\ dir'.state \in Documents /\ dir'.state # Nothing
         /\ dir'.key = next /\ Paired(dir'.state, dir'.key) /\ made' = next /\ line' = line + 1 /\ dir' # Absent
<1>1. dir = Absent /\ dir' = Dir(Fresh(next), next) /\ made' = next /\ line' = line + 1
  BY DEF Creates
<1>2. Fresh(next) \in Documents /\ Paired(Fresh(next), next)
  BY FreshFits
<1>3. dir' \in Dirs /\ dir'.state = Fresh(next) /\ dir'.key = next
  BY <1>1, <1>2 DEF Dirs, Dir
<1>4. dir'.state # Nothing
  BY <1>2, <1>3, DocumentTells
<1> QED
  BY <1>1, <1>2, <1>3, <1>4, DirFits

\* A store begins where there was none.
LEMMA CreatesKeeps ==
  ASSUME AInv, NEW next \in Nat \ {0}, Creates(next), \A c \in Commands : command[c].at # "moved",
         UNCHANGED <<lock, archive, lost, command, races, job>>,
         started' \in Nat, \A c \in Commands : c > started' => c > started,
         ServerTyped', BrowsersTyped', Seen' \subseteq Seen \cup {Nothing},
         races' = 0 => Paired(mem.state, mem.key)' /\ (job' = NoJob => mem'.state = mem'.contents)
  PROVE  AInv'
<1>1. DiskTyped /\ ServerTyped /\ BrowsersTyped /\ CommandsTyped /\ Past
  BY DEF AInv, Typed
<1>2. /\ dir.state = Nothing /\ dir' \in Dirs /\ dir'.state \in Documents /\ dir'.state # Nothing
      /\ dir'.key = next /\ Paired(dir'.state, dir'.key) /\ made' = next /\ line' = line + 1
  BY <1>1, CreatesFits
<1>3. DiskTyped'
  BY <1>1, <1>2 DEF DiskTyped
<1>4. CommandsTyped'
  BY <1>1 DEF CommandsTyped
<1>5. Gaps'
  BY <1>2 DEF Gaps, NoGap
<1>6. Past' /\ ViewsKnown'
  BY <1>1, <1>2, NewLineKeepsViews
<1>7. ASSUME races' = 0 PROVE Calm'
  <2>1. Pairs /\ Alone /\ JobFits /\ CommandsFit
    BY <1>7 DEF AInv, Calm
  <2>2. job = NoJob
    BY <1>1, <1>2, <2>1, JobFields, DocumentTells DEF JobFits
  <2>3. \A c \in Commands : command[c].at \notin {"read", "state", "moved"}
    BY <1>2, <2>1 DEF Pairs, CommandsFit
  <2>4. job' = NoJob
    BY <2>2
  <2>5. Pairs'
    BY <1>2, <1>7, <2>1, <2>3 DEF Pairs, Paired, Opens
  <2>6. Alone'
    BY <2>1, <2>2, <2>4, CommittingStays
  <2>7. JobFits'
    BY <1>7, <2>4, NoJobTells DEF JobFits
  <2>8. CommandsFit'
    BY <2>3 DEF CommandsFit
  <2> QED
    BY <1>6, <2>5, <2>6, <2>7, <2>8 DEF Calm
<1> QED
  BY <1>3, <1>4, <1>5, <1>6, <1>7 DEF AInv, Typed

LEMMA ServerStartsKeep ==
  ASSUME AInv, Starts
  PROVE  AInv'
<1>1. /\ DiskTyped /\ ServerTyped /\ BrowsersTyped /\ ~serving /\ serving' = TRUE /\ made \in Nat /\ races \in Nat
      /\ mem' = Mem(dir'.state, dir'.key, dir'.state) /\ sessions' = [a \in Admins |-> <<>>]
      /\ UNCHANGED <<lock, archive, lost, job, page, request, command, started, races>>
  BY DEF AInv, Typed, DiskTyped, Starts, browsers, bounds
<1>2. job = NoJob
  BY <1>1 DEF ServerTyped
<1>3. BrowsersTyped' /\ Seen' = Seen
  BY <1>1 DEF BrowsersTyped, Seen
<1>4. ASSUME dir'.state \in Documents, dir'.key \in Nat
      PROVE  ServerTyped' /\ mem'.state = dir'.state /\ mem'.key = dir'.key /\ mem'.contents = dir'.state
  <2>1. /\ mem'.state = dir'.state /\ mem'.key = dir'.key /\ mem'.contents = dir'.state
        /\ mem' \in [state : {Nothing} \cup Documents, key : Nat, contents : {Nothing} \cup Documents]
    BY <1>1, <1>4 DEF Mem
  <2> QED
    BY <1>1, <1>2, <2>1 DEF ServerTyped
<1>5. CASE dir = Absent
  <2>1. Creates(made + 1) /\ \A c \in Commands : command[c].at # "moved"
    BY <1>5 DEF Starts
  <2>2. made + 1 \in Nat \ {0}
    BY <1>1
  <2>3. dir'.state \in Documents /\ dir'.key \in Nat /\ Paired(dir'.state, dir'.key)
    BY <1>1, <2>1, <2>2, CreatesFits
  <2>4. ServerTyped' /\ mem'.state = mem'.contents /\ Paired(mem.state, mem.key)'
    BY <1>4, <2>3 DEF Paired, Opens
  <2> QED
    BY <1>1, <1>2, <1>3, <2>1, <2>2, <2>4, CreatesKeeps DEF DiskTyped
<1>6. CASE dir # Absent
  <2>1. dir.state # Nothing /\ UNCHANGED <<dir, made, line>>
    BY <1>6 DEF Starts
  <2>2. dir'.state \in Documents /\ dir'.key \in Nat
    BY <1>1, <2>1, DirFits
  <2>3. ServerTyped' /\ mem'.state = dir.state /\ mem'.key = dir.key /\ mem'.contents = dir.state
    BY <1>4, <2>1, <2>2
  <2>4. StoreStays
    BY <1>1, <2>1 DEF StoreStays
  <2>5. ASSUME races' = 0 PROVE Paired(mem.state, mem.key)' /\ Alone' /\ JobFits'
    <3>1. Pairs /\ Alone
      BY <1>1, <2>5 DEF AInv, Calm
    <3>2. Paired(mem.state, mem.key)'
      BY <2>3, <3>1 DEF Pairs, Paired, Opens
    <3>3. Alone'
      BY <1>1, <3>1, CommittingStays
    <3>4. JobFits'
      BY <1>1, <1>2, <2>3, NoJobTells DEF JobFits
    <3> QED
      BY <3>2, <3>3, <3>4
  <2>6. OnlyShown
    BY <1>3 DEF OnlyShown
  <2> QED
    BY <1>1, <1>3, <2>1, <2>3, <2>4, <2>5, <2>6, StoreStaysKeeps
<1> QED
  BY <1>5, <1>6

LEMMA StartDiesKeeps ==
  ASSUME AInv, StartDies
  PROVE  AInv'
<1>1. /\ DiskTyped /\ ServerTyped /\ BrowsersTyped /\ CommandsTyped /\ Past /\ made \in Nat /\ dir = Absent
      /\ dir' = Dir(Nothing, made + 1) /\ made' = made + 1 /\ lost' = TRUE
      /\ \A c \in Commands : command[c].at # "moved" /\ ~serving
      /\ UNCHANGED <<lock, archive, line, serving, mem, marker, sessions, job, page, request, command,
                     started, races>>
  BY DEF AInv, Typed, DiskTyped, StartDies, server, browsers
<1>2. /\ dir.state = Nothing /\ dir' \in Dirs /\ dir'.state = Nothing
  BY <1>1, DirFits DEF Dirs, Dir
<1>3. DiskTyped'
  BY <1>1, <1>2 DEF DiskTyped
<1>4. ServerTyped' /\ BrowsersTyped' /\ CommandsTyped'
  BY <1>1 DEF ServerTyped, BrowsersTyped, CommandsTyped
<1>5. Gaps'
  BY <1>1 DEF Gaps, NoGap
<1>6. Seen' = Seen /\ Past'
  BY <1>1 DEF Seen, Past
<1>7. ASSUME races' = 0 PROVE Calm'
  <2>1. Pairs /\ Alone /\ JobFits /\ CommandsFit /\ ViewsKnown
    BY <1>1, <1>7 DEF AInv, Calm
  <2>2. job = NoJob
    BY <1>1, <1>2, <2>1, JobFields, DocumentTells DEF JobFits
  <2>3. \A c \in Commands : command[c].at \notin {"read", "state", "moved"}
    BY <1>1, <1>2, <2>1 DEF Pairs, CommandsFit
  <2>4. Pairs'
    BY <1>1, <1>2, <2>1, <2>3 DEF Pairs, Paired, Opens
  <2>5. Alone'
    BY <1>1, <2>1, CommittingStays
  <2>6. JobFits'
    BY <1>1, <2>1, <2>2, NoJobTells DEF JobFits
  <2>7. CommandsFit'
    BY <1>1, <2>3 DEF CommandsFit
  <2>8. ViewsKnown'
    BY <1>1, <1>2 DEF ViewsKnown, Knows, Nothing
  <2> QED
    BY <2>4, <2>5, <2>6, <2>7, <2>8 DEF Calm
<1> QED
  BY <1>3, <1>4, <1>5, <1>6, <1>7 DEF AInv, Typed

-----------------------------------------------------------------------------
(* The commands *)

LEMMA CommandFits ==
  ASSUME NEW at \in {"none", "read", "locked", "state", "key", "staged", "moved"},
         NEW op \in {"none", "reset", "backup", "restore"},
         NEW doc \in {Nothing} \cup Documents, NEW key \in Nat, NEW kept \in Dirs
  PROVE  /\ Command(at, op, doc, key, kept) \in Processes
         /\ Command(at, op, doc, key, kept).at = at /\ Command(at, op, doc, key, kept).op = op
         /\ Command(at, op, doc, key, kept).doc = doc /\ Command(at, op, doc, key, kept).key = key
         /\ Command(at, op, doc, key, kept).kept = kept
BY DEF Command, Processes

LEMMA AbsentFits == Absent \in Dirs /\ Absent.state = Nothing /\ Absent.key = 0
BY DEF Absent, Dir, Dirs

LEMMA NoCommandFits ==
  /\ NoCommand \in Processes /\ NoCommand.at = "none" /\ NoCommand.kept = Absent /\ Process(NoCommand)
<1>1. NoCommand \in Processes /\ NoCommand.at = "none" /\ NoCommand.kept = Absent
  BY AbsentFits DEF NoCommand, Command, Processes
<1> QED
  BY <1>1 DEF Process

LEMMA OnesCommand ==
  ASSUME CommandsTyped, NEW c \in Commands
  PROVE  /\ command[c] \in Processes /\ Process(command[c])
         /\ command[c].at \in {"none", "read", "locked", "state", "key", "staged", "moved"}
         /\ command[c].doc \in {Nothing} \cup Documents /\ command[c].key \in Nat
         /\ command[c].kept \in Dirs
         /\ command[c].at \in Holding => lock = c
BY DEF CommandsTyped, Processes

\* Only one command holds the lock.
LEMMA HoldsAlone ==
  ASSUME CommandsTyped, NEW c \in Commands, NEW d \in Commands,
         command[c].at \in Holding, command[d].at \in Holding
  PROVE  c = d
BY DEF CommandsTyped

LEMMA CommandsTypedStep ==
  ASSUME CommandsTyped, NEW c \in Commands, NEW p \in Processes, Process(p),
         command' = [command EXCEPT ![c] = p], p.at \in Holding => lock' = c,
         lock' = lock \/ lock \in {Free, c},
         started' = started \/ (started' = c /\ c = started + 1),
         p = NoCommand \/ command[c] # NoCommand \/ started' = c, started \in Nat
  PROVE  CommandsTyped' /\ command'[c] = p /\ \A d \in Commands \ {c} : command'[d] = command[d]
<1>1. /\ command' \in [Commands -> Processes] /\ command'[c] = p
      /\ \A d \in Commands \ {c} : command'[d] = command[d]
  BY DEF CommandsTyped
<1>2. ASSUME NEW d \in Commands
      PROVE  Process(command'[d]) /\ (command'[d].at \in Holding => lock' = d)
  <2>1. CASE d = c
    BY <1>1, <2>1
  <2>2. CASE d # c
    <3>1. Process(command[d]) /\ (command[d].at \in Holding => lock = d)
      BY DEF CommandsTyped
    <3>2. command[d].at \in Holding => lock \notin {Free, c}
      BY <2>2, <3>1 DEF Free, Commands
    <3> QED
      BY <1>1, <2>2, <3>1, <3>2
  <2> QED
    BY <2>1, <2>2
<1>3. ASSUME NEW d \in Commands, d > started' PROVE command'[d] = NoCommand
  <2>0. started \in Nat /\ d \in Nat
    BY DEF Commands
  <2>1. CASE d = c
    BY <1>1, <1>3, <2>0, <2>1 DEF CommandsTyped
  <2>2. CASE d # c
    <3>1. d > started
      BY <1>3, <2>0
    <3> QED
      BY <1>1, <2>2, <3>1 DEF CommandsTyped
  <2> QED
    BY <2>1, <2>2
<1> QED
  BY <1>1, <1>2, <1>3 DEF CommandsTyped, Process, Holding

LEMMA KeepsFits ==
  ASSUME ServerTyped, BrowsersTyped, Keeps
  PROVE  /\ ServerTyped' /\ BrowsersTyped' /\ Seen' = Seen /\ job' = job /\ mem' = mem
<1>1. UNCHANGED <<serving, mem, marker, sessions, job, page, request>>
  BY DEF Keeps, server, browsers
<1> QED
  BY <1>1 DEF ServerTyped, BrowsersTyped, Seen

\* What a process that holds a document must hold, for the calm part.
Fitting(p, state, key) ==
  /\ Paired(p.kept.state, p.kept.key)
  /\ p.at = "state" => state # Nothing /\ Paired(p.doc, key)
  /\ p.at \in {"key", "staged", "moved"} => Paired(p.doc, p.key)
  /\ p.at = "read" =>
       /\ state # Nothing /\ Paired(p.doc, key)
       /\ SameView(state, p.doc) /\ p.doc.server = state.server

\* A step of a command that leaves the store in its place.
LEMMA CommandStepKeeps ==
  ASSUME AInv, NEW c \in Commands, NEW p \in Processes, Process(p), Keeps,
         command' = [command EXCEPT ![c] = p], p.at \in Holding => lock' = c,
         lock' \in {Free, Stale} \cup Commands,
         lock' = lock \/ lock \in {Free, c},
         started' = started \/ (started' = c /\ c = started + 1),
         p = NoCommand \/ command[c] # NoCommand \/ started' = c,
         UNCHANGED <<dir, line>>, made' \in Nat, lost' \in BOOLEAN, lost => lost',
         archive'.state \in Documents, archive'.key \in Nat,
         races' \in Nat, races' = 0 => races = 0,
         command[c].at = "moved" => p.at = "moved" \/ dir.state # Nothing \/ lost' \/ line = 0,
         p.at = "moved" => dir = Absent /\ p.kept = Absent /\ command[c].at # "moved",
         races' = 0 /\ Calm => /\ Fitting(p, dir.state, dir.key) /\ Paired(archive'.state, archive'.key)
                               /\ p.at = "read" => Committing \subseteq {c}
  PROVE  AInv'
<1>1. /\ DiskTyped /\ ServerTyped /\ BrowsersTyped /\ CommandsTyped /\ Gaps /\ Past /\ started \in Nat
  BY DEF AInv, Typed, DiskTyped
<1>2. CommandsTyped' /\ command'[c] = p /\ \A d \in Commands \ {c} : command'[d] = command[d]
  BY <1>1, CommandsTypedStep
<1>3. DiskTyped'
  BY <1>1 DEF DiskTyped, Commands
<1>4. ServerTyped' /\ BrowsersTyped' /\ Seen' = Seen /\ job' = job /\ mem' = mem
  BY <1>1, KeepsFits
<1>5. Past'
  BY <1>1, <1>4 DEF Past
<1>6. Gaps'
  <2>1. p.at = "moved" /\ line > 0 => lost
    <3> SUFFICES ASSUME p.at = "moved", line > 0, ~lost PROVE FALSE
      OBVIOUS
    <3>1. dir.state = Nothing
      BY AbsentFits
    <3>2. PICK d \in Commands : command[d].at = "moved"
      BY <1>1, <3>1 DEF Gaps, NoGap
    <3>3. d # c
      BY <3>2
    <3>4. lock' = c /\ lock = d
      BY <1>1, <3>2 DEF CommandsTyped, Holding
    <3> QED
      BY <1>1, <3>2, <3>3, <3>4, HoldsAlone DEF Free, Commands, Holding
  <2>2. NoGap'
    <3> SUFFICES ASSUME line > 0, dir.state = Nothing, ~lost' PROVE \E d \in Commands : command'[d].at = "moved"
      BY DEF NoGap
    <3>1. PICK d \in Commands : command[d].at = "moved"
      BY <1>1 DEF Gaps, NoGap
    <3>2. CASE d = c
      BY <1>1, <1>2, <3>1, <3>2 DEF DiskTyped
    <3>3. CASE d # c
      BY <1>2, <3>1, <3>3
    <3> QED
      BY <3>2, <3>3
  <2>3. ASSUME NEW d \in Commands, command'[d].at = "moved"
        PROVE  /\ dir.state = Nothing => dir = Absent
               /\ command'[d].kept.state = Nothing /\ line > 0 => lost'
    <3>1. CASE d = c
      BY <1>2, <2>1, <2>3, <3>1
    <3>2. CASE d # c
      BY <1>1, <1>2, <2>3, <3>2 DEF Gaps
    <3> QED
      BY <3>1, <3>2
  <2> QED
    BY <2>2, <2>3 DEF Gaps
<1>7. ASSUME races' = 0 PROVE Calm'
  <2>1. Calm /\ Pairs /\ Alone /\ JobFits /\ CommandsFit /\ ViewsKnown
    BY <1>7 DEF AInv, Calm
  <2>2. /\ Fitting(p, dir.state, dir.key) /\ Paired(archive'.state, archive'.key)
        /\ p.at = "read" => Committing \subseteq {c}
    BY <1>7, <2>1
  <2>3. Pairs'
    <3>1. ASSUME NEW d \in Commands
          PROVE  /\ Paired(command'[d].kept.state, command'[d].kept.key)
                 /\ command'[d].at = "state" => dir.state # Nothing /\ Paired(command'[d].doc, dir.key)
                 /\ command'[d].at \in {"key", "staged", "moved"} => Paired(command'[d].doc, command'[d].key)
      <4>1. CASE d = c
        BY <1>2, <2>2, <4>1 DEF Fitting
      <4>2. CASE d # c
        BY <1>2, <2>1, <4>2 DEF Pairs
      <4> QED
        BY <4>1, <4>2
    <3> QED
      BY <1>4, <2>1, <2>2, <3>1 DEF Pairs, Paired, Opens
  <2>4. Alone'
    <3>1. Committing' \subseteq Committing \cup {c}
      BY <1>2, <1>4 DEF Committing
    <3>2. CASE p.at = "read"
      <4>1. Committing' \subseteq {c}
        BY <2>2, <3>1, <3>2
      <4> QED
        BY <4>1 DEF Alone
    <3>3. CASE p.at # "read"
      <4>1. Committing' \subseteq Committing
        BY <1>2, <1>4, <3>3 DEF Committing
      <4> QED
        BY <2>1, <4>1 DEF Alone
    <3> QED
      BY <3>2, <3>3
  <2>5. JobFits'
    BY <1>4, <2>1 DEF JobFits, Paired, Opens, Follows, SameView, Revision, ChangesSettings, Nothing
  <2>6. CommandsFit'
    <3>1. ASSUME NEW d \in Commands
          PROVE  /\ command'[d].at = "read" =>
                      /\ dir.state # Nothing /\ Paired(command'[d].doc, dir.key)
                      /\ SameView(dir.state, command'[d].doc) /\ command'[d].doc.server = dir.state.server
                 /\ command'[d].at = "moved" => dir = Absent
      <4>1. CASE d = c
        BY <1>2, <2>2, <4>1 DEF Fitting
      <4>2. CASE d # c
        BY <1>2, <2>1, <4>2 DEF CommandsFit
      <4> QED
        BY <4>1, <4>2
    <3> QED
      BY <3>1 DEF CommandsFit, Paired, Opens, SameView
  <2>7. ViewsKnown'
    <3> SUFFICES ASSUME NEW view \in Seen, view # Nothing, view.line = line
                 PROVE  /\ Knows(view, dir.state)
                        /\ \A d \in Commands : command'[d].at = "moved" => Knows(view, command'[d].kept.state)
      BY <1>4 DEF ViewsKnown, Knows, Nothing, Revision
    <3>1. /\ Knows(view, dir.state)
          /\ \A d \in Commands : command[d].at = "moved" => Knows(view, command[d].kept.state)
      BY <2>1 DEF ViewsKnown
    <3>2. p.at = "moved" => Knows(view, p.kept.state)
      BY AbsentFits DEF Knows
    <3> QED
      BY <1>2, <3>1, <3>2
  <2> QED
    BY <2>3, <2>4, <2>5, <2>6, <2>7 DEF Calm
<1> QED
  BY <1>2, <1>3, <1>4, <1>5, <1>6, <1>7 DEF AInv, Typed

LEMMA DiskFits ==
  ASSUME AInv
  PROVE  /\ DiskTyped /\ ServerTyped /\ BrowsersTyped /\ CommandsTyped /\ Gaps
         /\ made \in Nat /\ line \in Nat /\ races \in Nat /\ started \in Nat /\ lost \in BOOLEAN
         /\ lock \in {Free, Stale} \cup Commands /\ archive.state \in Documents /\ archive.key \in Nat
         /\ races = 0 => Calm
BY DEF AInv, Typed, DiskTyped

LEMMA ResetReadsKeeps ==
  ASSUME AInv, NEW c \in Commands, ResetReads(c)
  PROVE  AInv'
<1> DEFINE doc == Reset(dir.state, dir.key)
           p == Command("read", "reset", doc, 0, Absent)
<1>1. /\ dir.state # Nothing /\ dir.key # 0 /\ Overlaps(c) /\ c = started + 1 /\ started' = c
      /\ command' = [command EXCEPT ![c] = p] /\ made' = made + 1
      /\ UNCHANGED <<dir, lock, archive, line, lost>> /\ Keeps
  BY DEF ResetReads, Begins
<1>2. dir.state \in Documents /\ dir.key \in Nat \ {0} /\ made' \in Nat
  BY <1>1, DiskFits, DirFits
<1>3. /\ doc \in Documents /\ SameView(dir.state, doc) /\ doc.server = dir.state.server
      /\ Paired(dir.state, dir.key) => Paired(doc, dir.key)
  BY <1>2, DiskFits, ResetFits
<1> HIDE DEF doc
<1>4. /\ p \in Processes /\ p.at = "read" /\ p.op = "reset" /\ p.doc = doc /\ p.kept = Absent
  BY <1>3, AbsentFits DEF Command, Processes
<1> HIDE DEF p
<1>5. Process(p) /\ p.at \notin Holding
  BY <1>3, <1>4, DocumentTells DEF Process, Holding
<1>6. races' \in Nat /\ (races' = 0 => races = 0 /\ Committing \ {c} = {})
  BY <1>1, DiskFits, OverlapsFits
<1>7. ASSUME races' = 0, Calm
      PROVE  /\ Fitting(p, dir.state, dir.key) /\ Paired(archive'.state, archive'.key)
             /\ p.at = "read" => Committing \subseteq {c}
  BY <1>1, <1>3, <1>4, <1>6, <1>7, AbsentFits DEF Calm, Pairs, Fitting, Paired
<1>8. command[c].at # "moved"
  <2>1. command[c] = NoCommand
    BY <1>1, DiskFits DEF CommandsTyped
  <2> QED
    BY <2>1, NoCommandFits
<1> QED
  BY <1>1, <1>2, <1>4, <1>5, <1>6, <1>7, <1>8, DiskFits, CommandStepKeeps

LEMMA LocksKeep ==
  ASSUME AInv, NEW c \in Commands, Locks(c)
  PROVE  AInv'
<1>1. PICK op \in {"backup", "restore"} : Begin(c, op, "locked")
  BY DEF Locks
<1> DEFINE p == Command("locked", op, Nothing, 0, Absent)
<1>2. /\ lock = Free /\ lock' = c /\ c = started + 1 /\ started' = c
      /\ command' = [command EXCEPT ![c] = p]
      /\ UNCHANGED <<dir, archive, made, line, lost, races>> /\ Keeps
  BY <1>1 DEF Locks, Begin, Begins
<1>3. /\ p \in Processes /\ p.at = "locked" /\ p.op = op /\ p.kept = Absent
  BY AbsentFits DEF Command, Processes
<1> HIDE DEF p
<1>4. Process(p)
  BY <1>3 DEF Process
<1>5. ASSUME Calm
      PROVE  /\ Fitting(p, dir.state, dir.key) /\ Paired(archive'.state, archive'.key)
             /\ p.at = "read" => Committing \subseteq {c}
  BY <1>2, <1>3, <1>5, AbsentFits DEF Calm, Pairs, Fitting, Paired
<1>6. command[c].at # "moved"
  <2>1. command[c] = NoCommand
    BY <1>2, DiskFits DEF CommandsTyped
  <2> QED
    BY <2>1, NoCommandFits
<1> QED
  BY <1>2, <1>3, <1>4, <1>5, <1>6, DiskFits, CommandStepKeeps

\* A command that is over, and leaves the store as it is.
LEMMA EndedCommandKeeps ==
  ASSUME AInv, NEW c \in Commands, Keeps, command' = [command EXCEPT ![c] = NoCommand],
         lock' = lock \/ (lock' \in {Free, Stale} /\ lock = c),
         UNCHANGED <<dir, line, made, started, races>>, lost' \in BOOLEAN, lost => lost',
         archive'.state \in Documents, archive'.key \in Nat,
         command[c].at = "moved" => dir.state # Nothing \/ lost' \/ line = 0,
         races = 0 /\ Calm => Paired(archive'.state, archive'.key)
  PROVE  AInv'
<1>1. /\ NoCommand \in Processes /\ Process(NoCommand) /\ NoCommand.at = "none" /\ NoCommand.kept = Absent
  BY NoCommandFits
<1>2. NoCommand.at \notin Holding
  BY <1>1 DEF Holding
<1>3. ASSUME races = 0, Calm
      PROVE  Fitting(NoCommand, dir.state, dir.key) /\ Paired(archive'.state, archive'.key)
  BY <1>1, <1>3, AbsentFits DEF Fitting, Paired
<1> QED
  BY <1>1, <1>2, <1>3, DiskFits, CommandStepKeeps DEF Free, Stale

\* A command that goes on, with the lock it holds.
LEMMA GoingOnKeeps ==
  ASSUME AInv, NEW c \in Commands, NEW p \in Processes, Process(p), Keeps,
         command' = [command EXCEPT ![c] = p], command[c].at \in Holding, p.at \in Holding,
         command[c].at # "moved", UNCHANGED <<dir, lock, archive, made, line, lost, started, races>>,
         p.at = "moved" => dir = Absent /\ p.kept = Absent,
         Calm => Fitting(p, dir.state, dir.key)
  PROVE  AInv'
<1>1. lock = c /\ p.at # "read"
  BY DiskFits DEF CommandsTyped, Holding
<1>2. Calm => Paired(archive'.state, archive'.key)
  BY DEF Calm, Pairs
<1>3. command[c] # NoCommand
  BY NoCommandFits DEF Holding
<1> QED
  BY <1>1, <1>2, <1>3, DiskFits, CommandStepKeeps

LEMMA BackupReadsStateKeeps ==
  ASSUME AInv, NEW c \in Commands, BackupReadsState(c)
  PROVE  AInv'
<1>1. /\ command[c].at = "locked" /\ command[c].at \in Holding /\ lock = c
      /\ UNCHANGED <<dir, archive, made, line, lost, started, races>> /\ Keeps
  BY DiskFits, OnesCommand DEF BackupReadsState, bounds, Holding
<1>2. CASE dir.state = Nothing
  <2>1. command' = [command EXCEPT ![c] = NoCommand] /\ lock' = Free
    BY <1>2 DEF BackupReadsState, Ends
  <2> QED
    BY <1>1, <2>1, DiskFits, EndedCommandKeeps DEF Calm, Pairs
<1>3. CASE dir.state # Nothing
  <2> DEFINE p == Command("state", "backup", dir.state, 0, Absent)
  <2>1. command' = [command EXCEPT ![c] = p] /\ lock' = lock
    BY <1>3 DEF BackupReadsState
  <2>2. p \in Processes /\ p.at = "state" /\ p.op = "backup" /\ p.doc = dir.state /\ p.kept = Absent
    BY DiskFits, DirFits, AbsentFits DEF Command, Processes
  <2> HIDE DEF p
  <2>3. Process(p) /\ p.at \in Holding
    BY <1>3, <2>2 DEF Process, Holding
  <2>4. ASSUME Calm PROVE Fitting(p, dir.state, dir.key)
    BY <1>3, <2>2, <2>4, AbsentFits DEF Calm, Pairs, Fitting, Paired
  <2> QED
    BY <1>1, <2>1, <2>2, <2>3, <2>4, GoingOnKeeps
<1> QED
  BY <1>2, <1>3

LEMMA BackupReadsKeyKeeps ==
  ASSUME AInv, NEW c \in Commands, BackupReadsKey(c)
  PROVE  AInv'
<1>1. /\ command[c].at = "state" /\ command[c].at \in Holding /\ lock = c
      /\ UNCHANGED <<dir, archive, made, line, lost, started, races>> /\ Keeps
  BY DiskFits, OnesCommand DEF BackupReadsKey, bounds, Holding
<1>2. CASE dir.key = 0
  <2>1. command' = [command EXCEPT ![c] = NoCommand] /\ lock' = Free
    BY <1>2 DEF BackupReadsKey, Ends
  <2> QED
    BY <1>1, <2>1, DiskFits, EndedCommandKeeps DEF Calm, Pairs
<1>3. CASE dir.key # 0
  <2> DEFINE p == Command("key", "backup", command[c].doc, dir.key, Absent)
  <2>1. command' = [command EXCEPT ![c] = p] /\ lock' = lock
    BY <1>3 DEF BackupReadsKey
  <2>2. /\ p \in Processes /\ p.at = "key" /\ p.op = "backup" /\ p.doc = command[c].doc /\ p.kept = Absent
        /\ p.key = dir.key
    BY DiskFits, DirFits, OnesCommand, AbsentFits DEF Command, Processes
  <2> HIDE DEF p
  <2>3. Process(p) /\ p.at \in Holding
    BY <1>1, <2>2, DiskFits, OnesCommand DEF Process, Holding
  <2>4. ASSUME Calm PROVE Fitting(p, dir.state, dir.key)
    BY <1>1, <2>2, <2>4, AbsentFits DEF Calm, Pairs, Fitting, Paired
  <2> QED
    BY <1>1, <2>1, <2>2, <2>3, <2>4, GoingOnKeeps
<1> QED
  BY <1>2, <1>3

LEMMA BackupWritesKeeps ==
  ASSUME AInv, NEW c \in Commands, BackupWrites(c)
  PROVE  AInv'
<1>1. /\ command[c].at = "key" /\ command[c].at \in Holding /\ lock = c
      /\ archive' = [kind |-> "archive", state |-> command[c].doc, key |-> command[c].key]
      /\ command' = [command EXCEPT ![c] = NoCommand] /\ lock' = Free
      /\ UNCHANGED <<dir, made, line, lost, started, races>> /\ Keeps
  BY DiskFits, OnesCommand DEF BackupWrites, bounds, Holding, Ends
<1>2. command[c].doc \in Documents /\ command[c].key \in Nat
  BY <1>1, DiskFits, OnesCommand DEF Process
<1>3. archive'.state = command[c].doc /\ archive'.key = command[c].key
  BY <1>1
<1>4. Calm => Paired(archive'.state, archive'.key)
  BY <1>1, <1>3 DEF Calm, Pairs
<1> QED
  BY <1>1, <1>2, <1>3, <1>4, DiskFits, EndedCommandKeeps

LEMMA StagesKeeps ==
  ASSUME AInv, NEW c \in Commands, Stages(c)
  PROVE  AInv'
<1>1. /\ command[c].at = "locked" /\ command[c].at \in Holding /\ lock = c
      /\ UNCHANGED <<dir, archive, made, line, lost, started, races>> /\ Keeps
  BY DiskFits, OnesCommand DEF Stages, bounds, Holding
<1>2. CASE Ends(c)
  BY <1>1, <1>2, DiskFits, EndedCommandKeeps DEF Calm, Pairs, Ends
<1>3. CASE ~Ends(c)
  <2>1. PICK at \in {"moved", "staged"} :
          /\ command' = [command EXCEPT ![c] = Command(at, "restore", archive.state, archive.key, Absent)]
          /\ at = "moved" => dir = Absent
          /\ lock' = lock
    BY <1>3 DEF Stages
  <2> DEFINE p == Command(at, "restore", archive.state, archive.key, Absent)
  <2>2. /\ p \in Processes /\ p.at = at /\ p.op = "restore" /\ p.doc = archive.state /\ p.kept = Absent
        /\ p.key = archive.key /\ command' = [command EXCEPT ![c] = p]
    BY <2>1, DiskFits, AbsentFits DEF Command, Processes
  <2> HIDE DEF p
  <2>3. Process(p) /\ p.at \in Holding
    BY <2>2, DiskFits, DocumentTells DEF Process, Holding
  <2>4. ASSUME Calm PROVE Fitting(p, dir.state, dir.key)
    BY <2>2, <2>4, AbsentFits DEF Calm, Pairs, Fitting, Paired
  <2> QED
    BY <1>1, <2>1, <2>2, <2>3, <2>4, GoingOnKeeps
<1> QED
  BY <1>2, <1>3

LEMMA CommandDiesKeeps ==
  ASSUME AInv, NEW c \in Commands, CommandDies(c)
  PROVE  AInv'
<1>1. /\ command' = [command EXCEPT ![c] = NoCommand] /\ lost' = (lost \/ command[c].at = "moved")
      /\ lock' = (IF lock = c THEN Stale ELSE lock)
      /\ UNCHANGED <<dir, archive, made, line, started, races>> /\ Keeps
  BY DEF CommandDies
<1> QED
  BY <1>1, DiskFits, EndedCommandKeeps DEF Calm, Pairs

LEMMA ResetCreatesKeeps ==
  ASSUME AInv, NEW c \in Commands, ResetCreates(c)
  PROVE  AInv'
<1>1. /\ c = started + 1 /\ started' = c /\ \A d \in Commands : command[d].at # "moved"
      /\ Creates(made + 1) /\ UNCHANGED <<lock, archive, lost, command, races>> /\ Keeps
  BY DEF ResetCreates, Begins
<1>2. ServerTyped' /\ BrowsersTyped' /\ Seen' = Seen /\ job' = job /\ mem' = mem
  BY <1>1, DiskFits, KeepsFits
<1>3. made + 1 \in Nat \ {0} /\ started' \in Nat /\ \A d \in Commands : d > started' => d > started
  BY <1>1, DiskFits DEF Commands
<1>4. ASSUME races' = 0 PROVE Paired(mem.state, mem.key)' /\ (job' = NoJob => mem'.state = mem'.contents)
  <2>1. Pairs /\ JobFits
    BY <1>1, <1>4, DiskFits DEF Calm
  <2> QED
    BY <1>2, <2>1 DEF Pairs, Paired, Opens, JobFits
<1> QED
  BY <1>1, <1>2, <1>3, <1>4, CreatesKeeps

\* A step of a command that puts something else in the place of the store.
LEMMA CommandReplacesKeeps ==
  ASSUME AInv, NEW c \in Commands, NEW p \in Processes, Process(p), Keeps,
         command[c] # NoCommand, command' = [command EXCEPT ![c] = p],
         p.at \in Holding => lock' = c, lock' \in {Free, Stale} \cup Commands,
         lock' = lock \/ lock \in {Free, c},
         dir' \in Dirs, line' \in Nat, UNCHANGED <<archive, made, lost, started>>,
         races' \in Nat, races' = 0 => races = 0, Past', Gaps',
         races' = 0 /\ Calm =>
           /\ Committing \subseteq {c} /\ p.at # "read"
           /\ Paired(dir'.state, dir'.key) /\ Paired(p.kept.state, p.kept.key)
           /\ p.at \in {"key", "staged", "moved"} => Paired(p.doc, p.key)
           /\ p.at # "state"
           /\ \A d \in Commands \ {c} :
                /\ command[d].at # "moved"
                /\ command[d].at = "state" => dir'.state # Nothing /\ dir'.key = dir.key
           /\ p.at = "moved" => dir' = Absent
           /\ ViewsKnown'
  PROVE  AInv'
<1>1. CommandsTyped' /\ command'[c] = p /\ \A d \in Commands \ {c} : command'[d] = command[d]
  BY DiskFits, CommandsTypedStep
<1>2. DiskTyped'
  BY DiskFits DEF DiskTyped
<1>3. ServerTyped' /\ BrowsersTyped' /\ Seen' = Seen /\ job' = job /\ mem' = mem
  BY DiskFits, KeepsFits
<1>4. ASSUME races' = 0 PROVE Calm'
  <2>1. Calm /\ Pairs /\ JobFits
    BY <1>4, DiskFits DEF Calm
  <2>2. /\ Committing \subseteq {c} /\ p.at # "read"
        /\ Paired(dir'.state, dir'.key) /\ Paired(p.kept.state, p.kept.key)
        /\ p.at \in {"key", "staged", "moved"} => Paired(p.doc, p.key)
        /\ p.at # "state"
        /\ \A d \in Commands \ {c} :
             /\ command[d].at # "moved"
             /\ command[d].at = "state" => dir'.state # Nothing /\ dir'.key = dir.key
        /\ p.at = "moved" => dir' = Absent
        /\ ViewsKnown'
    BY <1>4, <2>1
  <2>3. job = NoJob /\ \A d \in Commands \ {c} : command[d].at # "read"
    BY <2>2 DEF Committing, TheServer, Commands
  <2>4. Pairs'
    <3>1. ASSUME NEW d \in Commands
          PROVE  /\ Paired(command'[d].kept.state, command'[d].kept.key)
                 /\ command'[d].at = "state" => dir'.state # Nothing /\ Paired(command'[d].doc, dir'.key)
                 /\ command'[d].at \in {"key", "staged", "moved"} => Paired(command'[d].doc, command'[d].key)
      <4>1. CASE d = c
        BY <1>1, <2>2, <4>1
      <4>2. CASE d # c
        BY <1>1, <2>1, <2>2, <4>2 DEF Pairs
      <4> QED
        BY <4>1, <4>2
    <3> QED
      BY <1>3, <2>1, <2>2, <3>1 DEF Pairs, Paired, Opens
  <2>5. Alone'
    BY <1>1, <1>3, <2>2, <2>3 DEF Alone, Committing
  <2>6. JobFits'
    BY <1>3, <2>1, <2>3, NoJobTells DEF JobFits
  <2>7. CommandsFit'
    BY <1>1, <2>2, <2>3 DEF CommandsFit
  <2> QED
    BY <2>2, <2>4, <2>5, <2>6, <2>7 DEF Calm
<1> QED
  BY <1>1, <1>2, <1>3, <1>4 DEF AInv, Typed

LEMMA ResetWritesKeeps ==
  ASSUME AInv, NEW c \in Commands, ResetWrites(c)
  PROVE  AInv'
<1>1. /\ command[c].op = "reset" /\ command[c].at = "read" /\ Overlaps(c) /\ Keeps
      /\ dir' = [dir EXCEPT !.state = command[c].doc]
      /\ command' = [command EXCEPT ![c] = NoCommand] /\ lock' = lock
      /\ UNCHANGED <<archive, made, line, lost, started>>
  BY DEF ResetWrites, EndsUnlocked
<1>2. command[c].doc \in Documents
  BY <1>1, DiskFits, OnesCommand DEF Process
<1>3. /\ dir' \in Dirs /\ dir'.state = command[c].doc /\ dir'.key = dir.key
      /\ dir'.state # Nothing /\ dir' # Absent
  BY <1>1, <1>2, DiskFits, ReplacedFits
<1>4. /\ NoCommand \in Processes /\ NoCommand.at = "none" /\ NoCommand.kept = Absent /\ Process(NoCommand)
      /\ NoCommand.at \notin Holding /\ command[c] # NoCommand
  BY <1>1, NoCommandFits DEF Holding
<1>5. /\ command'[c] = NoCommand /\ \A d \in Commands \ {c} : command'[d] = command[d]
  BY <1>1, DiskFits DEF CommandsTyped
<1>6. Gaps'
  BY <1>1, <1>3, <1>4, <1>5, DiskFits DEF Gaps, NoGap
<1>7. Seen' = Seen
  BY <1>1, DiskFits, KeepsFits
<1>8. Past'
  BY <1>1, <1>7 DEF AInv, Past
<1>9. races' \in Nat /\ (races' = 0 => races = 0 /\ Committing \ {c} = {})
  BY <1>1, DiskFits, OverlapsFits
<1>10. ASSUME races' = 0, Calm
       PROVE  /\ Committing \subseteq {c} /\ NoCommand.at # "read"
              /\ Paired(dir'.state, dir'.key) /\ Paired(NoCommand.kept.state, NoCommand.kept.key)
              /\ dir'.state # Nothing /\ dir'.key = dir.key
              /\ \A d \in Commands \ {c} : command[d].at # "moved"
              /\ ViewsKnown'
  <2>1. Pairs /\ JobFits /\ CommandsFit /\ ViewsKnown
    BY <1>10 DEF Calm
  <2>2. /\ dir.state # Nothing /\ Paired(command[c].doc, dir.key)
        /\ SameView(dir.state, command[c].doc) /\ command[c].doc.server = dir.state.server
    BY <1>1, <2>1 DEF CommandsFit
  <2>3. dir.state \in Documents /\ dir # Absent
    BY <2>2, DiskFits, DirFits
  <2>4. \A d \in Commands : command[d].at # "moved"
    BY <2>1, <2>3 DEF CommandsFit
  <2>5. Follows(dir.state, dir'.state)
    BY <1>3, <2>2, <2>3, DocumentHas DEF Follows, SameView
  <2>6. \A d \in Commands : command'[d].at # "moved"
    BY <1>4, <1>5, <2>4
  <2>7. ViewsKnown'
    BY <1>1, <1>2, <1>3, <1>7, <2>1, <2>3, <2>5, <2>6, DiskFits, GrowingKeepsViews
  <2> QED
    BY <1>3, <1>4, <1>9, <1>10, <2>2, <2>4, <2>7, AbsentFits DEF Paired
<1> QED
  BY <1>1, <1>3, <1>4, <1>6, <1>8, <1>9, <1>10, DiskFits, CommandReplacesKeeps

LEMMA MovesAwayKeeps ==
  ASSUME AInv, NEW c \in Commands, MovesAway(c)
  PROVE  AInv'
<1> DEFINE p == Command("moved", "restore", command[c].doc, command[c].key, dir)
<1>1. /\ command[c].at = "staged" /\ Overlaps(c) /\ dir' = Absent /\ command' = [command EXCEPT ![c] = p]
      /\ UNCHANGED <<lock, archive, made, line, lost, started>> /\ Keeps
  BY DEF MovesAway
<1>2. /\ command[c].at \in Holding /\ lock = c /\ command[c].doc \in Documents /\ command[c].key \in Nat
  BY <1>1, DiskFits, OnesCommand DEF Holding, Process
<1>3. dir \in Dirs
  BY DiskFits DEF DiskTyped
<1>4. /\ p \in Processes /\ p.at = "moved" /\ p.op = "restore" /\ p.doc = command[c].doc
      /\ p.key = command[c].key /\ p.kept = dir
  BY <1>2, <1>3 DEF Command, Processes
<1> HIDE DEF p
<1>5. Process(p) /\ p.at \in Holding
  BY <1>2, <1>4, DocumentTells DEF Process, Holding
<1>6. \A d \in Commands \ {c} : command[d].at \notin Holding
  BY <1>2, DiskFits, HoldsAlone
<1>7. /\ command'[c] = p /\ \A d \in Commands \ {c} : command'[d] = command[d]
  BY <1>1, DiskFits DEF CommandsTyped
<1>8. Gaps'
  <2>1. dir.state = Nothing /\ line > 0 => lost
    BY <1>1, <1>6, DiskFits DEF Gaps, NoGap, Holding
  <2>2. NoGap'
    BY <1>4, <1>7 DEF NoGap
  <2>3. \A d \in Commands : command'[d].at = "moved" => d = c
    BY <1>6, <1>7 DEF Holding
  <2> QED
    BY <1>1, <1>4, <1>7, <2>1, <2>2, <2>3 DEF Gaps
<1>9. Seen' = Seen
  BY <1>1, DiskFits, KeepsFits
<1>10. Past'
  BY <1>1, <1>9 DEF AInv, Past
<1>11. races' \in Nat /\ (races' = 0 => races = 0 /\ Committing \ {c} = {})
  BY <1>1, DiskFits, OverlapsFits
<1>12. ASSUME races' = 0, Calm
       PROVE  /\ Committing \subseteq {c}
              /\ Paired(dir'.state, dir'.key) /\ Paired(p.kept.state, p.kept.key) /\ Paired(p.doc, p.key)
              /\ \A d \in Commands \ {c} : command[d].at \notin {"state", "moved"}
              /\ ViewsKnown'
  <2>1. Paired(dir'.state, dir'.key) /\ Paired(p.kept.state, p.kept.key) /\ Paired(p.doc, p.key)
    BY <1>1, <1>4, <1>12, AbsentFits DEF Calm, Pairs, Paired
  <2>2. \A d \in Commands : command'[d].at = "moved" => command'[d].kept = dir
    BY <1>4, <1>6, <1>7 DEF Holding
  <2>3. ViewsKnown'
    <3> SUFFICES ASSUME NEW view \in Seen, view # Nothing, view.line = line
                 PROVE  /\ Knows(view, dir'.state)
                        /\ \A d \in Commands : command'[d].at = "moved" => Knows(view, command'[d].kept.state)
      BY <1>1, <1>9 DEF ViewsKnown, Knows, Nothing, Revision
    <3>1. Knows(view, dir.state)
      BY <1>12 DEF Calm, ViewsKnown
    <3>2. Knows(view, dir'.state)
      BY <1>1, AbsentFits DEF Knows
    <3> QED
      BY <2>2, <3>1, <3>2
  <2> QED
    BY <1>6, <1>11, <1>12, <2>1, <2>3 DEF Holding
<1>13. command[c] # NoCommand
  BY <1>1, NoCommandFits
<1>14. dir' \in Dirs /\ line' \in Nat /\ lock' = c /\ lock' \in {Free, Stale} \cup Commands
  BY <1>1, <1>2, DiskFits, AbsentFits
<1> QED
  BY <1>1, <1>2, <1>4, <1>5, <1>8, <1>10, <1>11, <1>12, <1>13, <1>14, CommandReplacesKeeps

LEMMA MovesInKeeps ==
  ASSUME AInv, NEW c \in Commands, MovesIn(c)
  PROVE  AInv'
<1>1. /\ command[c].at = "moved" /\ dir = Absent /\ Overlaps(c)
      /\ dir' = Dir(command[c].doc, command[c].key) /\ line' = line + 1
      /\ command' = [command EXCEPT ![c] = NoCommand] /\ lock' = Free
      /\ UNCHANGED <<archive, made, lost, started>> /\ Keeps
  BY DEF MovesIn, Ends
<1>2. /\ command[c].at \in Holding /\ lock = c /\ command[c].doc \in Documents /\ command[c].key \in Nat
  BY <1>1, DiskFits, OnesCommand DEF Holding, Process
<1>3. /\ dir' \in Dirs /\ dir'.state = command[c].doc /\ dir'.key = command[c].key /\ dir'.state # Nothing
  BY <1>1, <1>2, DocumentTells DEF Dir, Dirs
<1>4. /\ NoCommand \in Processes /\ NoCommand.at = "none" /\ NoCommand.kept = Absent /\ Process(NoCommand)
      /\ NoCommand.at \notin Holding /\ command[c] # NoCommand
  BY <1>1, NoCommandFits DEF Holding
<1>5. \A d \in Commands \ {c} : command[d].at \notin Holding
  BY <1>2, DiskFits, HoldsAlone
<1>6. /\ command'[c] = NoCommand /\ \A d \in Commands \ {c} : command'[d] = command[d]
  BY <1>1, DiskFits DEF CommandsTyped
<1>7. Gaps'
  BY <1>3, <1>4, <1>5, <1>6 DEF Gaps, NoGap, Holding
<1>8. Seen' = Seen
  BY <1>1, DiskFits, KeepsFits
<1>9. Past' /\ ViewsKnown'
  BY <1>1, <1>8, DiskFits, NewLineKeepsViews DEF AInv
<1>10. races' \in Nat /\ (races' = 0 => races = 0 /\ Committing \ {c} = {})
  BY <1>1, DiskFits, OverlapsFits
<1>11. ASSUME races' = 0, Calm
       PROVE  /\ Committing \subseteq {c} /\ NoCommand.at # "read"
              /\ Paired(dir'.state, dir'.key) /\ Paired(NoCommand.kept.state, NoCommand.kept.key)
              /\ \A d \in Commands \ {c} : command[d].at \notin {"state", "moved"}
  BY <1>1, <1>3, <1>4, <1>5, <1>10, <1>11, AbsentFits DEF Calm, Pairs, Paired, Holding
<1>12. line' \in Nat
  BY <1>1, DiskFits
<1> QED
  BY <1>1, <1>2, <1>3, <1>4, <1>7, <1>9, <1>10, <1>11, <1>12, DiskFits, CommandReplacesKeeps

LEMMA FailsKeeps ==
  ASSUME AInv, NEW c \in Commands, Fails(c)
  PROVE  AInv'
<1>1. /\ command[c].at \in Holding /\ dir' = (IF command[c].at = "moved" THEN MovedBack(c) ELSE dir)
      /\ command' = [command EXCEPT ![c] = NoCommand] /\ lock' = Free
      /\ UNCHANGED <<archive, made, line, lost, started, races>> /\ Keeps
  BY DEF Fails, Ends, Holding
<1>2. lock = c /\ command[c].kept \in Dirs
  BY <1>1, DiskFits, OnesCommand
<1>3. CASE command[c].at = "moved" /\ dir = Absent
  <2>1. dir' = command[c].kept
    BY <1>1, <1>3 DEF MovedBack
  <2>2. /\ NoCommand \in Processes /\ NoCommand.at = "none" /\ NoCommand.kept = Absent /\ Process(NoCommand)
        /\ NoCommand.at \notin Holding /\ command[c] # NoCommand
    BY <1>3, NoCommandFits DEF Holding
  <2>3. \A d \in Commands \ {c} : command[d].at \notin Holding
    BY <1>1, DiskFits, HoldsAlone
  <2>4. /\ command'[c] = NoCommand /\ \A d \in Commands \ {c} : command'[d] = command[d]
    BY <1>1, DiskFits DEF CommandsTyped
  <2>5. \A d \in Commands : command'[d].at # "moved"
    BY <2>2, <2>3, <2>4 DEF Holding
  <2>6. Gaps'
    <3>1. command[c].kept.state = Nothing /\ line > 0 => lost
      BY <1>3, DiskFits DEF Gaps
    <3> QED
      BY <1>1, <2>1, <2>5, <3>1 DEF Gaps, NoGap
  <2>7. Seen' = Seen
    BY <1>1, DiskFits, KeepsFits
  <2>8. Past'
    BY <1>1, <2>7 DEF AInv, Past
  <2>9. ASSUME races' = 0, Calm
        PROVE  /\ Committing \subseteq {c} /\ NoCommand.at # "read"
               /\ Paired(dir'.state, dir'.key) /\ Paired(NoCommand.kept.state, NoCommand.kept.key)
               /\ \A d \in Commands \ {c} : command[d].at \notin {"state", "moved"}
               /\ ViewsKnown'
    <3>1. Pairs /\ JobFits /\ CommandsFit /\ ViewsKnown
      BY <2>9 DEF Calm
    <3>2. job = NoJob
      BY <1>3, <3>1, DiskFits, JobFields, DocumentTells, AbsentFits DEF JobFits
    <3>3. \A d \in Commands : command[d].at # "read"
      BY <1>3, <3>1, AbsentFits DEF CommandsFit
    <3>4. Committing \subseteq {c}
      BY <3>2, <3>3 DEF Committing
    <3>5. ViewsKnown'
      <4> SUFFICES ASSUME NEW view \in Seen, view # Nothing, view.line = line
                   PROVE  Knows(view, dir'.state)
        BY <1>1, <2>5, <2>7 DEF ViewsKnown, Knows, Nothing, Revision
      <4> QED
        BY <1>3, <2>1, <3>1 DEF ViewsKnown
    <3> QED
      BY <2>1, <2>2, <2>3, <3>1, <3>4, <3>5, AbsentFits DEF Pairs, Paired, Holding
  <2> QED
    BY <1>1, <1>2, <2>1, <2>2, <2>6, <2>8, <2>9, DiskFits, CommandReplacesKeeps
<1>4. CASE ~(command[c].at = "moved" /\ dir = Absent)
  <2>1. dir' = dir
    BY <1>1, <1>4 DEF MovedBack
  <2>2. command[c].at = "moved" => dir.state # Nothing
    BY <1>4, DiskFits DEF Gaps
  <2> QED
    BY <1>1, <1>2, <2>1, <2>2, DiskFits, EndedCommandKeeps DEF Calm, Pairs
<1> QED
  BY <1>3, <1>4

-----------------------------------------------------------------------------
(* The invariant, and what it says of the checked properties *)

LEMMA SettledFits ==
  ASSUME NEW n \in Nat \ {0}
  PROVE  /\ Settled(n) \in Documents /\ Paired(Settled(n), n)
         /\ Settled(n).history = <<Default>> /\ Settled(n).sync = 0 /\ Settled(n).code = 0
         /\ Settled(n).server = n /\ Settled(n).auth.kind = "password"
<1> DEFINE auth == [kind |-> "password", n |-> n]
<1>1. auth \in [kind : {"setup", "password"}, n : Nat] /\ auth.kind = "password"
  OBVIOUS
<1> HIDE DEF auth
<1>2. Settled(n) = [Fresh(n) EXCEPT !.auth = auth, !.code = 0]
  BY DEF Settled, auth
<1>3. /\ Fresh(n) \in Docs /\ Fresh(n).history = <<Default>> /\ Fresh(n).sync = 0
      /\ Fresh(n).server = n /\ Fresh(n).secret = 0
  BY FreshFits, DocumentIs DEF Fresh
<1>4. Settled(n) \in Docs
  <2>1. \A someone \in [kind : {"setup", "password"}, n : Nat], code \in Nat :
          [Fresh(n) EXCEPT !.auth = someone, !.code = code] \in Docs
    BY <1>3, DocsStay
  <2>2. [Fresh(n) EXCEPT !.auth = auth, !.code = 0] \in Docs
    BY <1>1, <2>1
  <2> QED
    BY <1>2, <2>2
<1>5. /\ Settled(n).auth = auth /\ Settled(n).code = 0 /\ Settled(n).history = <<Default>>
      /\ Settled(n).sync = 0 /\ Settled(n).server = n /\ Settled(n).secret = 0
  BY <1>2, <1>3 DEF Docs
<1>6. Settled(n) \in Documents
  <2>1. Len(Settled(n).history) - 1 <= Settled(n).sync
    BY <1>5
  <2>2. Settled(n).auth.kind # "setup" /\ Settled(n).code = 0
    BY <1>1, <1>5
  <2> QED
    BY <1>4, <2>1, <2>2, DocumentFits
<1> QED
  BY <1>1, <1>5, <1>6 DEF Paired, Opens

LEMMA OtherFits ==
  ASSUME NEW n \in Nat \ {0}
  PROVE  Other(n).state \in Documents /\ Other(n).key = n /\ Paired(Other(n).state, n)
<1> DEFINE doc == [Settled(n) EXCEPT !.secret = n, !.sync = 1]
<1>1. Other(n).state = doc /\ Other(n).key = n
  BY DEF Other
<1>2. Settled(n) \in Documents /\ Settled(n) \in Docs
  BY SettledFits, DocumentIs
<1>3. doc \in Docs
  BY <1>2, DocsStay
<1>4. /\ doc.secret = n /\ doc.sync = 1 /\ doc.history = <<Default>> /\ doc.code = 0 /\ doc.server = n
      /\ doc.auth = Settled(n).auth
  BY <1>2, SettledFits DEF Docs
<1> HIDE DEF doc
<1>5. doc \in Documents
  <2>1. Len(doc.history) - 1 <= doc.sync
    BY <1>4
  <2>2. doc.auth.kind # "setup" /\ doc.code = 0
    BY <1>4, SettledFits
  <2> QED
    BY <1>3, <2>1, <2>2, DocumentFits
<1> QED
  BY <1>1, <1>4, <1>5 DEF Paired, Opens

LEMMA InitAInv == AdminInit => AInv
<1> SUFFICES ASSUME AdminInit PROVE AInv
  OBVIOUS
<1>1. /\ dir \in {Absent, Dir(Settled(1), 1)} /\ line = (IF dir = Absent THEN 0 ELSE 1)
      /\ archive = Other(2) /\ made = 2 /\ lock = Free /\ lost = FALSE
      /\ serving = (dir # Absent) /\ job = NoJob
      /\ mem = (IF serving THEN Mem(dir.state, dir.key, dir.state) ELSE NoMem)
      /\ sessions = [a \in Admins |-> marker]
      /\ page = [a \in Admins |-> IF serving THEN [auth |-> "in", view |-> Shown(dir.state)]
                                  ELSE [auth |-> "none", view |-> Nothing]]
      /\ request = [a \in Admins |-> NoRequest] /\ command = [c \in Commands |-> NoCommand]
      /\ started = 0 /\ races = 0
  BY DEF AdminInit
<1>2. /\ dir \in Dirs /\ Paired(dir.state, dir.key) /\ (dir # Absent => dir.state \in Documents)
      /\ (dir = Absent => dir.state = Nothing) /\ line \in Nat
      /\ (line > 0 => dir.state # Nothing)
  <2>1. CASE dir = Absent
    BY <1>1, <2>1, AbsentFits DEF Paired
  <2>2. CASE dir = Dir(Settled(1), 1)
    <3>1. Settled(1) \in Documents /\ Paired(Settled(1), 1)
      BY SettledFits
    <3>2. dir \in Dirs /\ dir.state = Settled(1) /\ dir.key = 1
      BY <2>2, <3>1 DEF Dirs, Dir
    <3>3. dir.state # Nothing
      BY <3>1, <3>2, DocumentTells
    <3> QED
      BY <1>1, <3>1, <3>2, <3>3, AbsentFits
  <2> QED
    BY <1>1, <2>1, <2>2
<1>3. archive.state \in Documents /\ archive.key \in Nat /\ Paired(archive.state, archive.key)
  BY <1>1, OtherFits
<1>4. DiskTyped
  BY <1>1, <1>2, <1>3 DEF DiskTyped
<1>5. /\ mem \in [state : {Nothing} \cup Documents, key : Nat, contents : {Nothing} \cup Documents]
      /\ mem.state = mem.contents /\ Paired(mem.state, mem.key)
  <2>1. CASE dir = Absent
    <3>1. mem = NoMem
      BY <1>1, <2>1
    <3> QED
      BY <3>1 DEF NoMem, Mem, Paired
  <2>2. CASE dir # Absent
    <3>1. mem = Mem(dir.state, dir.key, dir.state) /\ dir.state \in Documents /\ dir.key \in Nat
      BY <1>1, <1>2, <1>4, <2>2, DirFits
    <3>2. mem.state = dir.state /\ mem.key = dir.key /\ mem.contents = dir.state
      BY <3>1 DEF Mem
    <3> QED
      BY <1>2, <3>1, <3>2 DEF Mem
  <2> QED
    BY <2>1, <2>2
<1>6. ServerTyped
  BY <1>1, <1>5 DEF ServerTyped
<1>7. ASSUME NEW a \in Admins
      PROVE  /\ page[a] \in PageStates
             /\ page[a].view = Nothing \/ (dir.state \in Documents /\ page[a].view = Shown(dir.state))
  <2>1. CASE dir = Absent
    BY <1>1, <2>1, PageFits
  <2>2. CASE dir # Absent
    <3>1. page[a] = [auth |-> "in", view |-> Shown(dir.state)] /\ dir.state \in Documents
      BY <1>1, <1>2, <2>2
    <3>2. Shown(dir.state) \in Views
      BY <1>2, <3>1, ShownFits
    <3> QED
      BY <3>1, <3>2, PageFits
  <2> QED
    BY <2>1, <2>2
<1>8. BrowsersTyped
  <2>1. page \in [Admins -> PageStates]
    BY <1>1, <1>7
  <2> QED
    BY <1>1, <2>1, NoRequestFits DEF BrowsersTyped
<1>9. CommandsTyped
  BY <1>1, NoCommandFits DEF CommandsTyped, Holding
<1>10. Gaps
  BY <1>1, <1>2, NoCommandFits DEF Gaps, NoGap
<1>11. ASSUME NEW view \in Seen, view # Nothing
       PROVE  view.line = line /\ Knows(view, dir.state)
  <2>1. dir.state \in Documents /\ view = Shown(dir.state)
    BY <1>1, <1>7, <1>11, NoRequestFits, NoJobTells DEF Seen
  <2> QED
    BY <1>2, <2>1, ShownFits
<1>12. Past /\ ViewsKnown
  BY <1>1, <1>2, <1>11, NoCommandFits DEF Past, ViewsKnown
<1>13. Pairs
  BY <1>1, <1>2, <1>3, <1>5, NoCommandFits, AbsentFits DEF Pairs, Paired
<1>14. Alone /\ JobFits /\ CommandsFit
  BY <1>1, <1>5, NoCommandFits, NoJobTells DEF Alone, Committing, JobFits, CommandsFit
<1> QED
  BY <1>4, <1>6, <1>8, <1>9, <1>10, <1>12, <1>13, <1>14 DEF AInv, Typed, Calm

LEMMA BrowsesKeeps ==
  ASSUME AInv, NEW a \in Admins, Browses(a)
  PROVE  AInv'
<1>1. CASE \E op \in {"settings", "rollback", "setKey", "dropKey"} : Asks(a, op)
  BY <1>1, AsksKeeps
<1> QED
  BY <1>1, LoadsPageKeeps, SignsInKeeps, RefreshesKeeps, SignsOutKeeps
  DEF Browses, SavesSettings, RollsBack, StoresKey, DeletesKey

LEMMA CommandedKeeps ==
  ASSUME AInv, NEW c \in Commands, Commanded(c)
  PROVE  AInv'
<1>1. CASE Maintains(c)
  BY <1>1, BackupReadsStateKeeps, BackupReadsKeyKeeps, BackupWritesKeeps, StagesKeeps, MovesAwayKeeps,
     MovesInKeeps, FailsKeeps DEF Maintains
<1> QED
  BY <1>1, ResetReadsKeeps, ResetWritesKeeps, ResetCreatesKeeps, LocksKeep, CommandDiesKeeps DEF Commanded

LEMMA StutterKeepsAdmin ==
  ASSUME AInv, UNCHANGED adminVars
  PROVE  AInv'
<1>1. /\ UNCHANGED <<disk, serving, mem, marker, sessions, job, page, request, command, started, races>>
  BY DEF adminVars, server, browsers, bounds
<1>2. BrowsersTyped' /\ OnlyShown
  BY <1>1, DiskFits DEF BrowsersTyped, OnlyShown, Seen
<1> QED
  BY <1>1, <1>2, BrowsingKeeps DEF server

LEMMA NextAInv == AInv /\ [AdminNext]_adminVars => AInv'
<1> SUFFICES ASSUME AInv, [AdminNext]_adminVars PROVE AInv'
  OBVIOUS
<1>1. ASSUME NEW a \in Admins, Browses(a) \/ Handles(a) PROVE AInv'
  BY <1>1, BrowsesKeeps, ArrivesKeeps, RunsKeeps, LoginsKeeps, SessionExpiresKeeps DEF Handles
<1>2. ASSUME NEW c \in Commands, Commanded(c) PROVE AInv'
  BY <1>2, CommandedKeeps
<1>3. CASE Starts \/ StartDies \/ Stops \/ Commits \/ CommitFails \/ Replies
  BY <1>3, ServerStartsKeep, StartDiesKeeps, StopsKeep, CommitsKeep, CommitFailsKeeps, RepliesKeep
<1>4. CASE UNCHANGED adminVars
  BY <1>4, StutterKeepsAdmin
<1> QED
  BY <1>1, <1>2, <1>3, <1>4 DEF AdminNext

\* What is checked of the states, from the invariant.
LEMMA InvariantSays == AInv => AdminInv
<1> SUFFICES ASSUME AInv PROVE AdminInv
  OBVIOUS
<1>1. AdminTypeOK
  <2>1. \A doc \in {dir.state, mem.state, archive.state} : doc # Nothing => Parses(doc)
    BY DiskFits, DirFits DEF ServerTyped, Documents
  <2>2. dir.key \in Nat /\ lock \in {Free, Stale} \cup Commands /\ lost \in BOOLEAN
    BY DiskFits, DirFits
  <2>3. job.at \in {"none", "read", "written"} /\ job.who \in Admins \cup {Nothing}
    BY DiskFits DEF ServerTyped, Jobs, NoJob
  <2>4. \A a \in Admins :
          /\ page[a].auth \in {"none", "setup", "ready", "in"}
          /\ request[a].at \in {"none", "sent", "authorized", "running", "refreshing"}
    BY DiskFits DEF BrowsersTyped, PageStates, RequestStates
  <2> QED
    BY <2>1, <2>2, <2>3, <2>4 DEF AdminTypeOK
<1>2. NoGap
  BY DiskFits DEF Gaps
<1>3. ASSUME races = 0 PROVE KeyOpens /\ RevisionNamesContent
  <2>1. Pairs /\ ViewsKnown
    BY <1>3, DiskFits DEF Calm
  <2>2. KeyOpens
    BY <2>1, DiskFits, DocumentTells DEF Pairs, Paired, KeyOpens
  <2>3. ASSUME NEW a \in Admins, page[a].view # Nothing, page[a].view.line = line, dir.state # Nothing
        PROVE  /\ page[a].view.sync = dir.state.sync => page[a].view = Shown(dir.state)
               /\ page[a].view.revision = Revision(dir.state) => page[a].view.settings = SettingsOf(dir.state)
    <3>1. dir.state \in Documents /\ page[a].view \in Views /\ Knows(page[a].view, dir.state)
      BY <2>1, <2>3, DiskFits, DirFits, OnesBrowser DEF ViewsKnown
    <3>2. page[a].view.sync = dir.state.sync => page[a].view = Shown(dir.state)
      BY <2>3, <3>1, DiskFits, ShownIs
    <3>3. page[a].view.settings = dir.state.history[page[a].view.revision + 1]
      BY <3>1, DocumentTells DEF Knows
    <3>4. Revision(dir.state) + 1 = Len(dir.state.history)
      BY <3>1, DocumentHas DEF Revision
    <3> QED
      BY <3>2, <3>3, <3>4 DEF SettingsOf
  <2> QED
    BY <2>2, <2>3 DEF RevisionNamesContent
<1> QED
  BY <1>1, <1>2, <1>3 DEF AdminInv

LEMMA AdminInvariant == AdminSpec => []AInv
<1> QED
  BY InitAInv, NextAInv, PTL DEF AdminSpec

\* Whatever the pages, the server and the commands do, in any order and wherever one of
\* them dies: a document is beside the key that opens it, a revision names one content,
\* and a store is only missing while a restore is between its two renames, or died there.
THEOREM StoreIsWhole == AdminSpec => []AdminInv
<1> QED
  BY AdminInvariant, InvariantSays, PTL

-----------------------------------------------------------------------------
(* What a step does to the document *)


LEMMA WhoWrites ==
  ASSUME AInv, AdminNext, line' = line, dir.state # Nothing, dir'.state # Nothing, dir' # dir
  PROVE  Commits \/ \E c \in Commands : ResetWrites(c)
<1>1. ASSUME NEW a \in Admins, Browses(a) \/ Handles(a) PROVE dir' = dir
  BY <1>1 DEF Browses, Handles, LoadsPage, SignsIn, Refreshes, SavesSettings, RollsBack, StoresKey, DeletesKey,
              Asks, SignsOut, Arrives, Runs, Logins, SessionExpires, disk
<1>2. ASSUME NEW c \in Commands, Commanded(c), ~ResetWrites(c) PROVE FALSE
  <2>1. CASE ResetCreates(c)
    BY <2>1, AbsentFits DEF ResetCreates, Creates
  <2>2. CASE MovesAway(c)
    BY <2>2, AbsentFits DEF MovesAway
  <2>3. CASE MovesIn(c)
    BY <2>3, AbsentFits DEF MovesIn
  <2>4. CASE Fails(c)
    BY <2>4, AbsentFits DEF Fails, MovedBack
  <2>5. CASE ResetReads(c) \/ Locks(c) \/ CommandDies(c)
    BY <2>5 DEF ResetReads, Locks, CommandDies
  <2>6. CASE BackupReadsState(c) \/ BackupReadsKey(c) \/ BackupWrites(c) \/ Stages(c)
    BY <2>6 DEF BackupReadsState, BackupReadsKey, BackupWrites, Stages
  <2> QED
    BY <1>2, <2>1, <2>2, <2>3, <2>4, <2>5, <2>6 DEF Commanded, Maintains
<1>3. CASE Starts \/ StartDies
  BY <1>3, AbsentFits DEF Starts, StartDies, Creates
<1>4. CASE Stops \/ CommitFails \/ Replies
  BY <1>4 DEF Stops, CommitFails, Replies, disk
<1> QED
  BY <1>1, <1>2, <1>3, <1>4 DEF AdminNext

\* No step takes back that two processes wrote from the same reading.
LEMMA RacesStay ==
  ASSUME AInv, [AdminNext]_adminVars, races' = 0
  PROVE  races = 0
<1>1. races \in Nat
  BY DiskFits
<1>2. ASSUME NEW who, Overlaps(who) PROVE races = 0
  BY <1>1, <1>2, OverlapsFits
<1>3. ASSUME NEW a \in Admins, Browses(a) \/ Handles(a) PROVE races = 0
  <2>1. CASE Runs(a)
    <3>1. CASE Rejected(a)
      BY <2>1, <3>1 DEF Runs
    <3>2. CASE ~Rejected(a)
      BY <1>2, <2>1, <3>2 DEF Runs
    <3> QED
      BY <3>1, <3>2
  <2> QED
    BY <1>3, <2>1 DEF Browses, Handles, LoadsPage, SignsIn, Refreshes, SavesSettings, RollsBack, StoresKey,
              DeletesKey, Asks, SignsOut, Arrives, Logins, SessionExpires, bounds
<1>4. ASSUME NEW c \in Commands, Commanded(c) PROVE races = 0
  <2>1. CASE ResetReads(c) \/ ResetWrites(c) \/ MovesAway(c) \/ MovesIn(c)
    BY <1>2, <2>1 DEF ResetReads, ResetWrites, MovesAway, MovesIn
  <2>2. CASE ResetCreates(c) \/ Locks(c) \/ CommandDies(c) \/ Fails(c)
    BY <2>2 DEF ResetCreates, Locks, CommandDies, Fails
  <2>3. CASE BackupReadsState(c) \/ BackupReadsKey(c) \/ BackupWrites(c) \/ Stages(c)
    BY <2>3 DEF BackupReadsState, BackupReadsKey, BackupWrites, Stages, bounds
  <2> QED
    BY <1>4, <2>1, <2>2, <2>3 DEF Commanded, Maintains
<1>5. CASE Starts \/ StartDies \/ Stops \/ Commits \/ CommitFails \/ Replies
  BY <1>5 DEF Starts, StartDies, Stops, Commits, CommitFails, Replies, bounds
<1> QED
  BY <1>3, <1>4, <1>5 DEF AdminNext, adminVars, bounds

\* A document that takes the place of another, and may have been built on a page.
Overwrites ==
  races' = 0 /\ line' = line /\ dir.state # Nothing /\ dir'.state # Nothing
Overwritten ==
  /\ Grows(dir.state, dir'.state)
  /\ dir'.state.history # dir.state.history /\ job.seen.line = line =>
       job.seen.settings = SettingsOf(dir.state)

LEMMA CommitsOverwrite ==
  ASSUME AInv, Calm, Commits, dir.state # Nothing, line' = line
  PROVE  Overwritten
<1>1. /\ job # NoJob /\ job.at = "read" /\ dir' = [dir EXCEPT !.state = job.next]
  BY NoJobTells DEF Commits
<1>2. dir.state \in Documents /\ job.next \in Documents /\ dir'.state = job.next
      /\ job.seen \in {Nothing} \cup Views
  BY <1>1, DiskFits, JobFields, DirFits, ReplacedFits
<1>3. /\ Follows(dir.state, job.next)
      /\ IF ChangesSettings(job.op)
         THEN job.seen # Nothing /\ job.seen.revision = Revision(dir.state)
         ELSE job.next.history = dir.state.history
  BY <1>1 DEF Calm, JobFits
<1>4. Grows(dir.state, dir'.state)
  BY <1>2, <1>3, FollowsGrows
<1>5. ASSUME job.next.history # dir.state.history, job.seen.line = line
      PROVE  job.seen.settings = SettingsOf(dir.state)
  <2>1. job.seen # Nothing /\ job.seen.revision = Revision(dir.state)
    BY <1>3, <1>5
  <2>2. Knows(job.seen, dir.state)
    BY <1>5, <2>1 DEF Calm, ViewsKnown, Seen
  <2>3. job.seen.settings = dir.state.history[Revision(dir.state) + 1]
    BY <1>2, <2>1, <2>2, DocumentTells DEF Knows
  <2>4. Revision(dir.state) + 1 = Len(dir.state.history)
    BY <1>2, DocumentHas DEF Revision
  <2> QED
    BY <2>3, <2>4 DEF SettingsOf
<1> QED
  BY <1>2, <1>4, <1>5 DEF Overwritten

LEMMA ResetsOverwrite ==
  ASSUME AInv, Calm, NEW c \in Commands, ResetWrites(c), dir.state # Nothing
  PROVE  Overwritten
<1>1. command[c].at = "read" /\ dir' = [dir EXCEPT !.state = command[c].doc]
  BY DEF ResetWrites
<1>2. command[c].doc \in Documents
  BY <1>1, DiskFits, OnesCommand DEF Process
<1>3. dir.state \in Documents /\ dir'.state = command[c].doc
  BY <1>1, <1>2, DiskFits, DirFits, ReplacedFits
<1>4. SameView(dir.state, command[c].doc) /\ command[c].doc.server = dir.state.server
  BY <1>1 DEF Calm, CommandsFit
<1>5. Follows(dir.state, command[c].doc) /\ command[c].doc.history = dir.state.history
  BY <1>2, <1>3, <1>4, DocumentHas DEF Follows, SameView
<1> QED
  BY <1>2, <1>3, <1>5, FollowsGrows DEF Overwritten

LEMMA StepOverwrites ==
  ASSUME AInv, [AdminNext]_adminVars, Overwrites
  PROVE  Overwritten
<1>1. Calm /\ dir.state \in Documents
  BY RacesStay, DiskFits, DirFits DEF Overwrites
<1>2. CASE dir' = dir
  <2>1. Grows(dir.state, dir.state)
    BY <1>1, FollowsItself, FollowsGrows
  <2> QED
    BY <1>2, <2>1 DEF Overwritten
<1>3. CASE dir' # dir
  <2>1. AdminNext
    BY <1>3 DEF adminVars, disk
  <2>2. Commits \/ \E c \in Commands : ResetWrites(c)
    BY <1>3, <2>1, WhoWrites DEF Overwrites
  <2> QED
    BY <1>1, <2>2, CommitsOverwrite, ResetsOverwrite DEF Overwrites
<1> QED
  BY <1>2, <1>3

\* No change is lost and no page changes what it did not show: a document is only
\* replaced by one that grew from it, and the settings only by an administrator who
\* had them in front of them.
THEOREM NoChangeIsLost == AdminSpec => NothingIsOverwritten
<1>1. AInv /\ [AdminNext]_adminVars =>
        [Overwrites => Overwritten]_adminVars
  BY StepOverwrites
<1>2. [Overwrites => Overwritten]_adminVars =>
        [races' = 0 /\ line' = line /\ dir.state # Nothing /\ dir'.state # Nothing =>
           /\ Grows(dir.state, dir'.state)
           /\ dir'.state.history # dir.state.history /\ job.seen.line = line =>
                job.seen.settings = SettingsOf(dir.state)]_adminVars
  BY Zenon DEF Overwrites, Overwritten
<1> QED
  BY <1>1, <1>2, AdminInvariant, PTL DEF AdminSpec, NothingIsOverwritten

-----------------------------------------------------------------------------
(* What a step authorizes *)

Authorizes(a) == request[a].at = "sent" /\ request'[a].at = "authorized"

\* Only a request that arrives is authorized.
LEMMA WhoAuthorizes ==
  ASSUME AInv, AdminNext, NEW a \in Admins, Authorizes(a)
  PROVE  Arrives(a) /\ Readable /\ SessionsNow[a] # <<>>
<1>1. /\ request \in [Admins -> RequestStates] /\ NoRequest.at = "none" /\ Busy(a)
  BY DiskFits, NoRequestFits DEF BrowsersTyped, Busy, Authorizes
<1>2. request'[a] # request[a]
  BY DEF Authorizes
<1>3. \A b \in Admins : \A r : request' = [request EXCEPT ![b] = r] => a = b /\ r = request'[a]
  BY <1>1, <1>2
<1>4. \A b \in Admins : \A at : request' = [request EXCEPT ![b].at = at] => a = b /\ at = "authorized"
  BY <1>1, <1>2 DEF RequestStates, Authorizes
<1>5. ASSUME NEW b \in Admins, Browses(b) PROVE FALSE
  <2>1. CASE LoadsPage(b) \/ SignsOut(b)
    BY <1>2, <2>1 DEF LoadsPage, SignsOut
  <2>2. CASE Refreshes(b)
    BY <1>1, <1>3, <2>2 DEF Refreshes, Authorizes
  <2>3. CASE SignsIn(b)
    BY <1>1, <1>3, <2>3 DEF SignsIn
  <2>4. ASSUME NEW op, Asks(b, op) PROVE FALSE
    BY <1>1, <1>3, <2>4 DEF Asks
  <2> QED
    BY <1>5, <2>1, <2>2, <2>3, <2>4 DEF Browses, SavesSettings, RollsBack, StoresKey, DeletesKey
<1>6. ASSUME NEW b \in Admins, Handles(b) PROVE b = a /\ Arrives(b) /\ Readable /\ SessionsNow[b] # <<>>
  <2>1. CASE SessionExpires(b)
    BY <1>2, <2>1 DEF SessionExpires, browsers
  <2>2. CASE Runs(b)
    BY <1>1, <1>3, <1>4, <2>2 DEF Runs, Authorizes
  <2>3. CASE Logins(b)
    BY <1>1, <1>3, <1>4, <2>3 DEF Logins, Authorizes
  <2>4. CASE Arrives(b)
    BY <1>1, <1>3, <1>4, <2>4 DEF Arrives, Authorizes
  <2> QED
    BY <1>6, <2>1, <2>2, <2>3, <2>4 DEF Handles
<1>7. ASSUME NEW c \in Commands, Commanded(c) PROVE FALSE
  BY <1>2, <1>7 DEF Commanded, Maintains, ResetReads, ResetWrites, ResetCreates, Locks, CommandDies,
     BackupReadsState, BackupReadsKey, BackupWrites, Stages, MovesAway, MovesIn, Fails, Keeps, browsers
<1>8. CASE Starts \/ StartDies \/ Commits
  BY <1>2, <1>8 DEF Starts, StartDies, Commits, browsers
<1>9. CASE Stops
  BY <1>1, <1>9 DEF Stops, Authorizes
<1>10. CASE CommitFails \/ Replies
  <2>1. job.who \in Admins
    BY <1>10, NoJobTells, DiskFits, JobFields DEF CommitFails, Replies
  <2> QED
    BY <1>1, <1>3, <1>4, <1>10, <2>1 DEF CommitFails, Replies, Authorizes
<1> QED
  BY <1>5, <1>6, <1>7, <1>8, <1>9, <1>10 DEF AdminNext

LEMMA StepAuthorizes ==
  ASSUME AInv, [AdminNext]_adminVars, races = 0, NEW a \in Admins, Authorizes(a)
  PROVE  sessions[a] = MarkerOf(dir.state)
<1>1. AdminNext
  BY DEF Authorizes, adminVars, browsers
<1>2. Arrives(a) /\ Readable /\ SessionsNow[a] # <<>>
  BY <1>1, WhoAuthorizes
<1>3. Current = dir.state
  BY <1>2, DiskFits, RequiredCalm DEF Calm, Arrives
<1>4. marker = MarkerOf(dir.state) /\ sessions[a] # <<>>
  BY <1>2, <1>3 DEF SessionsNow, RefreshedFor
<1> QED
  BY <1>4, DiskFits DEF ServerTyped

\* A request is authorized only in a session that began under the password on disk,
\* so a reset or a restore ends every session at once.
THEOREM SessionsEnd == AdminSpec => ResetEndsSessions
<1>1. AInv /\ [AdminNext]_adminVars =>
        [races = 0 => \A a \in Admins : Authorizes(a) => sessions[a] = MarkerOf(dir.state)]_adminVars
  BY StepAuthorizes
<1>2. [races = 0 => \A a \in Admins : Authorizes(a) => sessions[a] = MarkerOf(dir.state)]_adminVars =>
        [races = 0 => \A a \in Admins :
           request[a].at = "sent" /\ request'[a].at = "authorized" => sessions[a] = MarkerOf(dir.state)]_adminVars
  BY Zenon DEF Authorizes
<1> QED
  BY <1>1, <1>2, AdminInvariant, PTL DEF AdminSpec, ResetEndsSessions
=============================================================================
