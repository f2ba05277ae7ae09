------------------------------ MODULE SyncAdmin ------------------------------
(* The administration of a Cinba Sync server: the store on disk and its copy  *)
(* in the server's memory, the administrators' sessions and pages, and the    *)
(* commands that reset, back up and restore the store from other processes.   *)
(*                                                                            *)
(* A document is state.json.  A secret in it (the displayed setup code, a     *)
(* shared credential) is the number of the key that sealed it, 0 when there   *)
(* is none; a password or a setup code is the number it was made with; the    *)
(* shared settings are a value, history holds one for each revision from 0.   *)
(* The code of the server between two awaits is one step, except a commit:    *)
(* what it read, the replacement of state.json and the reading of it back.    *)
(* A commit overlaps another process's only as often as MaxRaces allows.      *)
EXTENDS Naturals, Sequences, FiniteSets
CONSTANTS Admins, MaxAsks, MaxCommands, MaxMishaps, MaxRaces

ASSUME LimitsAreNumbers ==
  {MaxAsks, MaxCommands, MaxMishaps, MaxRaces} \subseteq Nat

VARIABLES
  dir,       \* the store's directory: state.json and credential-key
  lock,      \* the maintenance lock: Free, the command that created it, or Stale
  archive,   \* the file of the last backup
  made,      \* keys, passwords and setup codes made so far
  serving,   \* the server runs
  mem,       \* the store in its memory
  marker, sessions,  \* AdministratorAuthService
  job,       \* the mutation that is being committed
  page, request,  \* what a browser shows; what it asked
  command,   \* the processes of the commands
  line,      \* history: how often another authority or backup took the place of dir
  lost,      \* history: a command died and left no store, or half of one
  asks, started, mishaps, races  \* history: what is bounded

disk == <<dir, lock, archive, made, line, lost>>
server == <<serving, mem, marker, sessions, job>>
browsers == <<page, request>>
bounds == <<asks, started, mishaps, races>>
adminVars == <<disk, server, browsers, command, bounds>>

Nothing == [kind |-> "none"]
Default == "default"
\* Commands are numbered in the order they are started in.
Commands == 1..MaxCommands
TheServer == 0
Free == 0
Stale == MaxCommands + 1
Settings == {Default} \union Admins

\* initialState
Fresh(n) ==
  [kind |-> "doc", server |-> n, auth |-> [kind |-> "setup", n |-> n], code |-> n,
   history |-> <<Default>>, sync |-> 0, secret |-> 0]
Opens(doc, key) == {doc.code, doc.secret} \subseteq {0, key}
MarkerOf(doc) == <<doc.server, doc.auth>>
Revision(doc) == Len(doc.history) - 1
SettingsOf(doc) == doc.history[Len(doc.history)]
Dir(doc, key) == [state |-> doc, key |-> key]
Absent == Dir(Nothing, 0)
Mem(doc, key, contents) == [state |-> doc, key |-> key, contents |-> contents]
NoMem == Mem(Nothing, 0, Nothing)
Shown(doc) == [kind |-> "view", revision |-> Revision(doc), settings |-> SettingsOf(doc),
               sync |-> doc.sync, secret |-> doc.secret # 0, line |-> line, server |-> doc.server]

Request(at, op, seen) == [at |-> at, op |-> op, seen |-> seen]
NoRequest == Request("none", "none", Nothing)
NoJob == [at |-> "none", who |-> Nothing, op |-> "none", next |-> Nothing, seen |-> Nothing]
Command(at, op, doc, key, kept) == [at |-> at, op |-> op, doc |-> doc, key |-> key, kept |-> kept]
NoCommand == Command("none", "none", Nothing, 0, Absent)
Busy(a) == request[a] # NoRequest

\* A store that was set up, and the backup of another one, there to be restored.
Settled(n) == [Fresh(n) EXCEPT !.auth = [kind |-> "password", n |-> n], !.code = 0]
Other(n) == [kind |-> "archive", state |-> [Settled(n) EXCEPT !.secret = n, !.sync = 1], key |-> n]
\* Nothing is there yet, or both administrators are signed in.
AdminInit ==
  /\ dir \in {Absent, Dir(Settled(1), 1)} /\ line = (IF dir = Absent THEN 0 ELSE 1)
  /\ archive = Other(2) /\ made = 2 /\ lock = Free /\ lost = FALSE
  /\ serving = (dir # Absent) /\ job = NoJob
  /\ mem = (IF serving THEN Mem(dir.state, dir.key, dir.state) ELSE NoMem)
  /\ marker = (IF serving THEN MarkerOf(dir.state) ELSE <<>>) /\ sessions = [a \in Admins |-> marker]
  /\ page = [a \in Admins |-> IF serving THEN [auth |-> "in", view |-> Shown(dir.state)]
                              ELSE [auth |-> "none", view |-> Nothing]]
  /\ request = [a \in Admins |-> NoRequest]
  /\ command = [c \in Commands |-> NoCommand]
  /\ asks = 0 /\ started = 0 /\ mishaps = 0 /\ races = 0

-----------------------------------------------------------------------------
(* The store *)

\* requireState: what memory holds after it looked at the disk, NoMem when it throws.
Required ==
  IF dir.state = Nothing THEN NoMem
  ELSE IF dir.state = mem.contents THEN mem
  ELSE IF Opens(dir.state, dir.key) THEN Mem(dir.state, dir.key, dir.state)
  ELSE NoMem
Readable == Required # NoMem
Current == Required.state
Loads == mem' = IF Readable THEN Required ELSE mem

\* Whoever has read a document and is not done with writing it.
Committing == (IF job # NoJob THEN {TheServer} ELSE {})
              \union {c \in Commands : command[c].at = "read"}
Overlaps(who) ==
  IF Committing \ {who} = {} THEN UNCHANGED races ELSE races < MaxRaces /\ races' = races + 1

\* createSyncStore in an empty directory writes the key, then the document; the
\* file system or the process may fail between the two.
Creates(next) ==
  /\ dir = Absent /\ dir' = Dir(Fresh(next), next) /\ made' = next /\ line' = line + 1

-----------------------------------------------------------------------------
(* The server *)

Starts ==
  /\ ~serving /\ serving' = TRUE
  /\ IF dir = Absent THEN Creates(made + 1) /\ \A c \in Commands : command[c].at # "moved"
     ELSE dir.state # Nothing /\ dir.key # 0 /\ Opens(dir.state, dir.key) /\ UNCHANGED <<dir, made, line>>
  /\ mem' = Mem(dir'.state, dir'.key, dir'.state) /\ marker' = MarkerOf(dir'.state)
  /\ sessions' = [a \in Admins |-> <<>>]
  /\ UNCHANGED <<lock, archive, lost, job, browsers, command, bounds>>

\* The process dies after it wrote the key: no store opens such a directory.
StartDies ==
  /\ ~serving /\ dir = Absent /\ \A c \in Commands : command[c].at # "moved"
  /\ mishaps < MaxMishaps /\ mishaps' = mishaps + 1
  /\ dir' = Dir(Nothing, made + 1) /\ made' = made + 1 /\ lost' = TRUE
  /\ UNCHANGED <<lock, archive, line, server, browsers, command, asks, started, races>>

\* What the pages asked fails with it; so does what they ask until it is back.
Stops ==
  /\ serving /\ mishaps < MaxMishaps /\ mishaps' = mishaps + 1
  /\ serving' = FALSE /\ mem' = NoMem /\ job' = NoJob /\ sessions' = [a \in Admins |-> <<>>] /\ marker' = <<>>
  /\ request' = [a \in Admins |-> NoRequest]
  /\ UNCHANGED <<disk, page, command, asks, started, races>>

\* refreshAuthenticationState: another password or setup code ends every session.
RefreshedFor(doc) == IF marker = MarkerOf(doc) THEN sessions ELSE [a \in Admins |-> <<>>]
\* Mutant: the sessions are as the service remembers them.
Remembered == sessions
SessionsNow == RefreshedFor(Current)
Notices == IF Readable THEN sessions' = SessionsNow /\ marker' = MarkerOf(Current) ELSE UNCHANGED <<sessions, marker>>

SessionExpires(a) ==
  /\ sessions[a] # <<>> /\ mishaps < MaxMishaps /\ mishaps' = mishaps + 1
  /\ sessions' = [sessions EXCEPT ![a] = <<>>]
  /\ UNCHANGED <<disk, serving, mem, marker, job, browsers, command, asks, started, races>>

\* A management request: authorizeWrite when its headers arrive, its body later.
Unauthorized(a) == Readable /\ SessionsNow[a] = <<>>
Arrives(a) ==
  /\ serving /\ job = NoJob /\ request[a].at = "sent"
  /\ Loads /\ Notices
  /\ \/ /\ Readable /\ SessionsNow[a] # <<>>
        /\ request' = [request EXCEPT ![a].at = "authorized"] /\ UNCHANGED page
     \/ /\ Unauthorized(a)
        /\ request' = [request EXCEPT ![a] = NoRequest]
        /\ page' = [page EXCEPT ![a] = [auth |-> "ready", view |-> Nothing]]
     \/ /\ ~Readable
        /\ request' = [request EXCEPT ![a] = NoRequest] /\ UNCHANGED page
  /\ UNCHANGED <<disk, serving, job, command, bounds>>

\* updateSettings and rollbackSettings change only what the page was built on.
\* Mutant: only a page newer than the document conflicts.
ConflictsIfAhead(doc, seen) == Revision(doc) < seen.revision
Conflicts(doc, seen) == Revision(doc) # seen.revision
ChangesSettings(op) == op \in {"settings", "rollback"}
Revised(doc, value) == [doc EXCEPT !.history = Append(@, value), !.sync = @ + 1]
Changed(doc, key, a, op) ==
  CASE op = "settings" -> Revised(doc, a)
    [] op = "rollback" -> Revised(doc, doc.history[1])
    [] op = "setKey"   -> [doc EXCEPT !.secret = key, !.sync = @ + 1]
    [] op = "dropKey"  -> [doc EXCEPT !.secret = 0, !.sync = @ + 1]
    [] op = "setup"    -> [doc EXCEPT !.auth = [kind |-> "password", n |-> made + 1], !.code = 0]

\* enqueue refuses while a command maintains the store.
ReadOnly == lock # Free
Rejected(a) ==
  LET r == request[a] IN
    \/ ReadOnly \/ ~Readable
    \/ ChangesSettings(r.op) /\ Conflicts(Current, r.seen)
    \/ r.op = "setup" /\ Current.auth.kind # "setup"

\* The body is there: the mutation runs up to the replacement of the file.
Runs(a) ==
  LET r == request[a] IN
  /\ serving /\ job = NoJob /\ r.at = "authorized" /\ r.op # "login"
  /\ IF r.op = "setup" THEN Notices ELSE UNCHANGED <<sessions, marker>>
  /\ IF Rejected(a)
     THEN /\ request' = [request EXCEPT ![a] = NoRequest] /\ UNCHANGED <<job, made, races>>
          /\ IF ReadOnly /\ r.op # "setup" THEN UNCHANGED mem ELSE Loads
     ELSE
        /\ Loads /\ Overlaps(TheServer)
        /\ job' = [at |-> "read", who |-> a, op |-> r.op, seen |-> r.seen,
                   next |-> Changed(Current, Required.key, a, r.op)]
        /\ made' = (IF r.op = "setup" THEN made + 1 ELSE made)
        /\ request' = [request EXCEPT ![a].at = "running"]
  /\ UNCHANGED <<dir, lock, archive, line, lost, serving, page, command, asks, started, mishaps>>

\* replaceJsonAtomically; the rename may fail, and the mutation with it.
Commits ==
  /\ job.at = "read"
  /\ dir' = [dir EXCEPT !.state = job.next] /\ job' = [job EXCEPT !.at = "written"]
  /\ mem' = [mem EXCEPT !.state = job.next]
  /\ UNCHANGED <<lock, archive, made, line, lost, serving, marker, sessions, browsers, command, bounds>>
CommitFails ==
  /\ job.at = "read" /\ mishaps < MaxMishaps /\ mishaps' = mishaps + 1 /\ job' = NoJob
  /\ request' = [request EXCEPT ![job.who] = NoRequest]
  /\ UNCHANGED <<disk, serving, mem, marker, sessions, page, command, asks, started, races>>

\* commit() reads the file back; then the answer.  After a setup the session
\* begins under the marker of that moment.
Replies ==
  /\ job.at = "written" /\ job' = NoJob
  /\ mem' = [mem EXCEPT !.contents = dir.state]
  /\ request' = [request EXCEPT ![job.who].at = "refreshing"]
  /\ IF job.op = "setup"
     THEN /\ marker' = MarkerOf(job.next)
          /\ sessions' = [RefreshedFor(job.next) EXCEPT ![job.who] = marker']
          /\ page' = [page EXCEPT ![job.who].auth = "in"]
     ELSE UNCHANGED <<marker, sessions, page>>
  /\ UNCHANGED <<disk, serving, command, bounds>>

Logins(a) ==
  /\ serving /\ job = NoJob /\ request[a].at = "authorized" /\ request[a].op = "login"
  /\ Loads
  /\ \/ /\ Readable /\ Current.auth.kind = "password"
        /\ marker' = MarkerOf(Current) /\ sessions' = [SessionsNow EXCEPT ![a] = marker']
        /\ request' = [request EXCEPT ![a].at = "refreshing"]
        /\ page' = [page EXCEPT ![a].auth = "in"]
     \/ /\ Readable => Current.auth.kind # "password"
        /\ Notices /\ request' = [request EXCEPT ![a] = NoRequest] /\ UNCHANGED page
  /\ UNCHANGED <<disk, serving, job, command, bounds>>

-----------------------------------------------------------------------------
(* The page in an administrator's browser *)

\* The page asks for its status when it is loaded.
LoadsPage(a) ==
  /\ serving /\ job = NoJob /\ ~Busy(a) /\ page[a].auth # "in" /\ Readable
  /\ Loads /\ Notices
  /\ page' = [page EXCEPT ![a] = [auth |-> IF SessionsNow[a] # <<>> THEN "in"
                                           ELSE IF Current.auth.kind = "setup" THEN "setup" ELSE "ready",
                                  view |-> Nothing]]
  /\ page' # page
  /\ UNCHANGED <<disk, serving, job, request, command, bounds>>

\* These two carry no session: the server reads the body first.
SignsIn(a) ==
  /\ serving /\ ~Busy(a) /\ page[a].auth \in {"setup", "ready"} /\ asks < MaxAsks /\ asks' = asks + 1
  /\ request' = [request EXCEPT ![a] =
       Request("authorized", IF page[a].auth = "setup" THEN "setup" ELSE "login", Nothing)]
  /\ UNCHANGED <<disk, server, page, command, started, mishaps, races>>

\* mutate(): a form sends what it edited and the revision the page shows.
Asks(a, op) ==
  /\ serving /\ ~Busy(a) /\ page[a].auth = "in" /\ page[a].view # Nothing
  /\ asks < MaxAsks /\ asks' = asks + 1
  /\ request' = [request EXCEPT ![a] = Request("sent", op, page[a].view)]
  /\ UNCHANGED <<disk, server, page, command, started, mishaps, races>>
SavesSettings(a) == Asks(a, "settings")
StoresKey(a) == Asks(a, "setKey")
DeletesKey(a) == Asks(a, "dropKey") /\ page[a].view.secret
\* To a revision that is not the one shown as current: here, to the first.
RollsBack(a) == Asks(a, "rollback") /\ page[a].view.revision # 0

\* authorizeRead, then what it shows; an error other than 401 leaves the page.
\* After its own request, or when Refresh is pressed.
Reads(a) == IF Readable /\ SessionsNow[a] # <<>> THEN Shown(Current) ELSE Nothing
Refreshes(a) ==
  /\ serving /\ job = NoJob /\ page[a].auth = "in"
  /\ request[a].at = "refreshing" \/ (~Busy(a) /\ Reads(a) # page[a].view)
  /\ Loads /\ Notices
  /\ request' = [request EXCEPT ![a] = NoRequest]
  /\ page' = (IF Unauthorized(a) THEN [page EXCEPT ![a] = [auth |-> "ready", view |-> Nothing]]
              ELSE IF Reads(a) # Nothing THEN [page EXCEPT ![a].view = Reads(a)] ELSE page)
  /\ UNCHANGED <<disk, serving, job, command, bounds>>

\* logout
SignsOut(a) ==
  /\ serving /\ job = NoJob /\ ~Busy(a) /\ page[a].auth = "in" /\ Readable /\ SessionsNow[a] # <<>>
  /\ asks < MaxAsks /\ asks' = asks + 1
  /\ Loads /\ marker' = MarkerOf(Current) /\ sessions' = [SessionsNow EXCEPT ![a] = <<>>]
  /\ page' = [page EXCEPT ![a].auth = "ready"]
  /\ UNCHANGED <<disk, serving, job, request, command, started, mishaps, races>>

-----------------------------------------------------------------------------
(* The commands, each in a process of its own *)

Begins(c) == c = started + 1 /\ started' = c
Begin(c, op, at) ==
  /\ Begins(c)
  /\ command' = [command EXCEPT ![c] = Command(at, op, Nothing, 0, Absent)]
\* A reset has no lock to release.
EndsUnlocked(c) == command' = [command EXCEPT ![c] = NoCommand] /\ UNCHANGED lock
Ends(c) == command' = [command EXCEPT ![c] = NoCommand] /\ lock' = Free
Keeps == UNCHANGED <<server, browsers>>

\* reset-password has a store of its own, and takes no lock.
Reset(doc, key) == [doc EXCEPT !.auth = [kind |-> "setup", n |-> made + 1], !.code = key]
ResetReads(c) ==
  /\ dir.state # Nothing /\ dir.key # 0 /\ Opens(dir.state, dir.key) /\ Overlaps(c)
  /\ Begins(c)
  /\ command' = [command EXCEPT ![c] = Command("read", "reset", Reset(dir.state, dir.key), 0, Absent)]
  /\ made' = made + 1
  /\ UNCHANGED <<dir, lock, archive, line, lost, asks, mishaps>> /\ Keeps
ResetWrites(c) ==
  /\ command[c].op = "reset" /\ command[c].at = "read" /\ Overlaps(c)
  /\ dir' = [dir EXCEPT !.state = command[c].doc] /\ EndsUnlocked(c)
  /\ UNCHANGED <<archive, made, line, lost, asks, started, mishaps>> /\ Keeps
\* In an empty directory it creates a store, and resets that.
ResetCreates(c) ==
  /\ Begins(c)
  /\ \A d \in Commands : command[d].at # "moved"
  /\ Creates(made + 1) /\ UNCHANGED <<lock, archive, lost, command, asks, mishaps, races>> /\ Keeps

\* acquireMaintenance: the file is made "wx" and nobody takes it over.
Locks(c) ==
  /\ lock = Free /\ lock' = c
  /\ \E op \in {"backup", "restore"} : Begin(c, op, "locked")
  /\ UNCHANGED <<dir, archive, made, line, lost, asks, mishaps, races>> /\ Keeps

Backs(c) == command[c].op = "backup"
BackupReadsState(c) ==
  /\ Backs(c) /\ command[c].at = "locked"
  /\ IF dir.state = Nothing THEN Ends(c)
     ELSE command' = [command EXCEPT ![c] = Command("state", "backup", dir.state, 0, Absent)] /\ UNCHANGED lock
  /\ UNCHANGED <<dir, archive, made, line, lost, bounds>> /\ Keeps
BackupReadsKey(c) ==
  /\ Backs(c) /\ command[c].at = "state"
  /\ IF dir.key = 0 THEN Ends(c)
     ELSE command' = [command EXCEPT ![c] = Command("key", "backup", command[c].doc, dir.key, Absent)] /\ UNCHANGED lock
  /\ UNCHANGED <<dir, archive, made, line, lost, bounds>> /\ Keeps
BackupWrites(c) ==
  /\ Backs(c) /\ command[c].at = "key"
  /\ archive' = [kind |-> "archive", state |-> command[c].doc, key |-> command[c].key] /\ Ends(c)
  /\ UNCHANGED <<dir, made, line, lost, bounds>> /\ Keeps

\* validatePayload and the validation of the staged copy; without --force only
\* an empty target.
Stages(c) ==
  /\ command[c].op = "restore" /\ command[c].at = "locked"
  /\ IF ~Opens(archive.state, archive.key) THEN Ends(c)
     ELSE \/ dir # Absent /\ Ends(c)
          \/ /\ command' = [command EXCEPT ![c] = Command(IF dir = Absent THEN "moved" ELSE "staged",
                                                        "restore", archive.state, archive.key, Absent)]
             /\ UNCHANGED lock
  /\ UNCHANGED <<dir, archive, made, line, lost, bounds>> /\ Keeps
MovesAway(c) ==
  /\ command[c].at = "staged" /\ Overlaps(c)
  /\ dir' = Absent
  /\ command' = [command EXCEPT ![c] = Command("moved", "restore", command[c].doc, command[c].key, dir)]
  /\ UNCHANGED <<lock, archive, made, line, lost, asks, started, mishaps>> /\ Keeps
\* The rename of the staged copy fails on a directory that is not empty.
MovesIn(c) ==
  /\ command[c].at = "moved" /\ dir = Absent /\ Overlaps(c)
  /\ dir' = Dir(command[c].doc, command[c].key) /\ line' = line + 1 /\ Ends(c)
  /\ UNCHANGED <<archive, made, lost, asks, started, mishaps>> /\ Keeps

\* The catch: the preserved copy is moved back if nothing took its place.
NotMovedBack(c) == dir  \* Mutant
MovedBack(c) == IF dir = Absent THEN command[c].kept ELSE dir
Fails(c) ==
  /\ command[c].at \in {"locked", "state", "key", "staged", "moved"}
  /\ IF command[c].at = "moved" /\ dir # Absent THEN UNCHANGED mishaps
     ELSE mishaps < MaxMishaps /\ mishaps' = mishaps + 1
  /\ dir' = (IF command[c].at = "moved" THEN MovedBack(c) ELSE dir)
  /\ Ends(c)
  /\ UNCHANGED <<archive, made, line, lost, asks, started, races>> /\ Keeps

\* Its process ends: the lock stays, for good.
CommandDies(c) ==
  /\ command[c] # NoCommand /\ mishaps < MaxMishaps /\ mishaps' = mishaps + 1
  /\ lost' = (lost \/ command[c].at = "moved") /\ lock' = (IF lock = c THEN Stale ELSE lock)
  /\ command' = [command EXCEPT ![c] = NoCommand]
  /\ UNCHANGED <<dir, archive, made, line, asks, started, races>> /\ Keeps

-----------------------------------------------------------------------------
Browses(a) ==
  \/ LoadsPage(a) \/ SignsIn(a) \/ Refreshes(a)
  \/ SavesSettings(a) \/ RollsBack(a) \/ StoresKey(a) \/ DeletesKey(a)
  \/ SignsOut(a)
Handles(a) == Arrives(a) \/ Runs(a) \/ Logins(a) \/ SessionExpires(a)
Maintains(c) ==
  \/ BackupReadsState(c) \/ BackupReadsKey(c) \/ BackupWrites(c)
  \/ Stages(c) \/ MovesAway(c) \/ MovesIn(c) \/ Fails(c)
Commanded(c) ==
  \/ ResetReads(c) \/ ResetWrites(c) \/ ResetCreates(c) \/ Locks(c) \/ Maintains(c) \/ CommandDies(c)
AdminNext ==
  \/ \E a \in Admins : Browses(a) \/ Handles(a)
  \/ \E c \in Commands : Commanded(c)
  \/ Starts \/ StartDies \/ Stops \/ Commits \/ CommitFails \/ Replies

AdminSpec == AdminInit /\ [][AdminNext]_adminVars

-----------------------------------------------------------------------------
\* What a server reads back: revisions from 0 without a gap, each with a
\* sync revision of its own, and either an administrator or a setup code.
Docs == [kind : {"doc"}, server : Nat, auth : [kind : {"setup", "password"}, n : Nat], code : Nat,
         history : Seq(Settings) \ {<<>>}, sync : Nat, secret : Nat]
Parses(doc) ==
  doc \in Docs /\ Revision(doc) <= doc.sync /\ (doc.auth.kind = "setup" <=> doc.code # 0)
AdminTypeOK ==
  /\ \A doc \in {dir.state, mem.state, archive.state} : doc # Nothing => Parses(doc)
  /\ dir.key \in Nat /\ lock \in {Free, Stale} \union Commands /\ lost \in BOOLEAN
  /\ job.at \in {"none", "read", "written"} /\ job.who \in Admins \union {Nothing}
  /\ \A a \in Admins :
       /\ page[a].auth \in {"none", "setup", "ready", "in"}
       /\ request[a].at \in {"none", "sent", "authorized", "running", "refreshing"}

\* A document is never beside a key that does not open it: on disk, in memory,
\* in an archive or in the copy a restore preserves.
KeyOpens ==
  /\ dir.state # Nothing => dir.key # 0 /\ Opens(dir.state, dir.key)
  /\ mem.state # Nothing => Opens(mem.state, mem.key)
  /\ Opens(archive.state, archive.key)
  /\ \A c \in Commands : command[c].kept.state # Nothing => Opens(command[c].kept.state, command[c].kept.key)

\* A revision names one content: a page that shows it shows what is on disk
\* (and a Core that is answered 304 has it), unless a restore came between.
RevisionNamesContent ==
  \A view \in {page[a].view : a \in Admins} :
    view # Nothing /\ view.line = line /\ dir.state # Nothing =>
      /\ view.sync = dir.state.sync => view = Shown(dir.state)
      /\ view.revision = Revision(dir.state) => view.settings = SettingsOf(dir.state)

\* A restore that fails leaves the store it found: once there was one, it is
\* missing only while a restore is between its two renames, or died there.
NoGap == line > 0 /\ dir.state = Nothing => lost \/ \E c \in Commands : command[c].at = "moved"

\* Nothing serializes two processes that replace the document from the same
\* reading, or replace it while a restore moves it away: what they leave is out
\* of the first two promises.
AdminInv == AdminTypeOK /\ NoGap /\ (races = 0 => KeyOpens /\ RevisionNamesContent)

\* No change is lost, and no page changes what it did not show: while dir is the
\* same store its history only grows, and a change of the settings replaces
\* those the administrator had in front of them; unless two processes
\* replaced the document from the same reading, which nothing serializes.
Grows(old, new) ==
  /\ Len(old.history) <= Len(new.history) /\ SubSeq(new.history, 1, Len(old.history)) = old.history
  /\ old.sync <= new.sync
NothingIsOverwritten ==
  [][races' = 0 /\ line' = line /\ dir.state # Nothing /\ dir'.state # Nothing =>
       /\ Grows(dir.state, dir'.state)
       /\ dir'.state.history # dir.state.history /\ job.seen.line = line =>
            job.seen.settings = SettingsOf(dir.state)]_adminVars

\* A request is authorized only in a session that began under the password on
\* disk: resetting it, or restoring another store, ends the sessions at once
\* (a reset that overlaps a commit may be taken for the server's own write).
ResetEndsSessions ==
  [][races = 0 => \A a \in Admins :
       request[a].at = "sent" /\ request'[a].at = "authorized" => sessions[a] = MarkerOf(dir.state)]_adminVars

=============================================================================
