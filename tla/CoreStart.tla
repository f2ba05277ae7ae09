------------------------------ MODULE CoreStart ------------------------------
(***************************************************************************)
(* How the clients of one machine share one local Core                     *)
(* (packages/core-manager/src).  Desktop and TUI each call ensureLocalCore *)
(* in a process of their own: they look for a Core at the port, take the   *)
(* start lock, look again, stop a Core of another revision, spawn their    *)
(* own, write down whose it is, and wait for it to answer.  Nothing but    *)
(* files and the port joins them, and each may die between any two calls   *)
(* of the operating system.                                                *)
(*                                                                         *)
(* A caller is a process; a token is the name of whom it was made for.     *)
(***************************************************************************)
EXTENDS Naturals, FiniteSets

CONSTANTS
  Callers,
  Cores,        \* processes that serve; a name is used again once forgotten
  Revisions,
  MaxCrashes,   \* callers that die
  None

ASSUME StartAssumption ==
  /\ MaxCrashes \in Nat
  /\ None \notin Callers \cup Cores \cup Revisions

VARIABLES
  pc,       \* where the caller is
  stage,    \* which of the three inspections it is in
  wants,    \* the revision it starts: that of its own build
  found,    \* what its last probe answered
  seen,     \* owner named in the lock it read
  child,    \* the process it spawned
  lock,     \* the lock file: who made it, and whether the record is in it
  runtime,  \* pid in the runtime record
  control,  \* pid, and so token, in the control record
  core,     \* state of each Core process
  rev,      \* the revision it advertises
  busy,     \* Cores that are not safe to restart
  tokens,   \* Cores that were given a control token by a caller
  crashes,
  mishap    \* history: see RecordsNameCore

callerVars == <<pc, stage, wants, found, seen, child>>
fileVars   == <<lock, runtime, control>>
coreVars   == <<core, rev, busy, tokens>>
pastVars   == <<crashes, mishap>>
vars == <<pc, stage, wants, found, seen, child, lock, runtime, control,
          core, rev, busy, tokens, crashes, mishap>>

Answers == [core : Cores \cup {None}, right : BOOLEAN, safe : BOOLEAN]
Named(c) == [core |-> c, right |-> FALSE, safe |-> TRUE]
Absent == Named(None)
NoLock == [by |-> None, written |-> FALSE]

TypeOK ==
  /\ pc \in [Callers -> {"out", "look", "ask", "create", "read", "steal", "unlink",
                        "write", "send", "drained", "spawn", "record", "token",
                        "ready", "release", "unlock", "dead"}]
  /\ stage \in [Callers -> {"before", "inside", "stop"}]
  /\ wants \in [Callers -> Revisions]
  /\ found \in [Callers -> Answers]
  /\ seen \in [Callers -> Callers \cup {None}]
  /\ child \in [Callers -> Cores \cup {None}]
  /\ lock \in [by : Callers \cup {None}, written : BOOLEAN]
  /\ lock.written => lock.by # None
  /\ runtime \in Cores \cup {None}
  /\ control \in Cores \cup {None}
  /\ core \in [Cores -> {"gone", "starting", "serving", "draining"}]
  /\ rev \in [Cores -> Revisions \cup {None}]
  /\ busy \in SUBSET Cores
  /\ tokens \in SUBSET Cores
  /\ crashes \in Nat
  /\ mishap \in BOOLEAN
  /\ \A m \in Callers :
       /\ pc[m] \in {"ask", "send", "drained"} => found[m].core # None
       /\ pc[m] \in {"record", "token", "ready"} => child[m] # None

Init ==
  /\ pc = [m \in Callers |-> "out"]
  /\ stage = [m \in Callers |-> "before"]
  /\ wants \in [Callers -> Revisions]
  /\ found = [m \in Callers |-> Absent]
  /\ seen = [m \in Callers |-> None]
  /\ child = [m \in Callers |-> None]
  /\ lock = NoLock
  /\ runtime = None /\ control = None
  /\ core = [c \in Cores |-> "gone"]
  /\ rev = [c \in Cores |-> None]
  /\ busy = {} /\ tokens = {}
  /\ crashes = 0 /\ mishap = FALSE

-----------------------------------------------------------------------------
Alive(m) == pc[m] # "dead"

\* From the creation of the lock file to its removal.
Holds(m) == Alive(m) /\ stage[m] # "before"

\* The port has one owner; a draining Core still answers.
Serving == {c \in Cores : core[c] \in {"serving", "draining"}}

\* ownsRecords, and the Core that answers takes the recorded token.
Managed(c) == c \in Serving \cap tokens /\ runtime = c /\ control = c

Forgotten(c) ==
  /\ core[c] = "gone" /\ runtime # c /\ control # c
  /\ \A m \in Callers : child[m] # c /\ found[m].core # c

Goto(m, where) == pc' = [pc EXCEPT ![m] = where]

\* What was answered is not looked at again.
Unseen(m) == found' = [found EXCEPT ![m] = Absent]

\* What a caller does next when its inspection found no Core.
IfAbsent(m) == IF stage[m] = "before" THEN "create" ELSE "spawn"

\* return or throw: only inside the lock is there a finally.
IfOver(m) == IF stage[m] = "before" THEN "out" ELSE "release"

-----------------------------------------------------------------------------
(* ensureLocalCore: the inspections.                                       *)

Call(m) ==
  /\ pc[m] = "out"
  /\ Goto(m, "look")
  /\ UNCHANGED <<stage, wants, found, seen, child>>
  /\ UNCHANGED fileVars /\ UNCHANGED coreVars /\ UNCHANGED pastVars

\* probe(baseUrl) answers, or nothing listens.
Look(m) ==
  /\ pc[m] = "look"
  /\ \/ /\ Serving = {}
        /\ found' = [found EXCEPT ![m] = Absent]
        /\ Goto(m, IfAbsent(m))
     \/ \E c \in Serving :
          /\ found' = [found EXCEPT ![m] = [core |-> c, right |-> rev[c] = wants[m],
                                          safe |-> c \notin busy]]
          /\ Goto(m, "ask")
  /\ UNCHANGED <<stage, wants, seen, child>>
  /\ UNCHANGED fileVars /\ UNCHANGED coreVars /\ UNCHANGED pastVars

\* The request times out at a Core that is there.
LookMisses(m) ==
  /\ pc[m] = "look" /\ Serving # {}
  /\ found' = [found EXCEPT ![m] = Absent]
  /\ Goto(m, IfAbsent(m))
  /\ mishap' = TRUE
  /\ UNCHANGED <<stage, wants, seen, child, crashes>>
  /\ UNCHANGED fileVars /\ UNCHANGED coreVars

\* Another revision that is not ours, or not safe to restart, stays.
Refused(m, c, ours) == ~ours \/ ~found[m].safe \/ c \in busy

\* The records are read and the control status asked for, at whoever is at the
\* port by then; the status may not come.  What the call does with it follows
\* in the same turn.
Ask(m) ==
  /\ pc[m] = "ask"
  /\ \E c \in IF Serving = {} THEN {found[m].core} ELSE Serving, ours \in BOOLEAN :
       /\ ours => Managed(c)
       /\ LET right    == found[m].right
              draining == ours /\ core[c] = "draining"
              leaves   == IF right THEN ~draining ELSE Refused(m, c, ours)
          IN
          \/ /\ stage[m] # "stop" /\ leaves
             /\ Goto(m, IfOver(m)) /\ Unseen(m) /\ UNCHANGED stage
          \/ /\ stage[m] = "before" /\ ~leaves
             /\ Goto(m, "create") /\ Unseen(m) /\ UNCHANGED stage
          \/ /\ stage[m] = "inside" /\ ~leaves
             /\ Goto(m, "look") /\ Unseen(m)
             /\ stage' = [stage EXCEPT ![m] = "stop"]
          \* stopLocalCore: only what is managed is sent a stop request.
          \/ /\ stage[m] = "stop" /\ ours
             /\ Goto(m, "send") /\ UNCHANGED stage
             /\ found' = [found EXCEPT ![m] = Named(c)]
          \/ /\ stage[m] = "stop" /\ ~ours
             /\ Goto(m, "release") /\ Unseen(m) /\ UNCHANGED stage
  /\ UNCHANGED <<wants, seen, child>>
  /\ UNCHANGED fileVars /\ UNCHANGED coreVars /\ UNCHANGED pastVars

-----------------------------------------------------------------------------
(* acquireStartLock.                                                       *)

LockStep(m) ==
  /\ UNCHANGED <<wants, found, child, runtime, control>>
  /\ UNCHANGED coreVars /\ UNCHANGED pastVars

\* openSync(path, "wx")
FreeToTake == lock = NoLock

Create(m) ==
  /\ pc[m] = "create"
  /\ IF FreeToTake
       THEN /\ Goto(m, "write")
            /\ lock' = [by |-> m, written |-> FALSE]
            /\ stage' = [stage EXCEPT ![m] = "inside"]
       ELSE Goto(m, "read") /\ UNCHANGED <<lock, stage>>
  /\ UNCHANGED seen /\ LockStep(m)

\* The record goes into the file that was opened, which may have lost its name.
Write(m) ==
  /\ pc[m] = "write"
  /\ lock' = IF lock.by = m THEN [lock EXCEPT !.written = TRUE] ELSE lock
  /\ Goto(m, "look")
  /\ UNCHANGED <<stage, seen>> /\ LockStep(m)

\* It cannot be written: the error is thrown and the empty file stays.
WriteFails(m) ==
  /\ pc[m] = "write"
  /\ Goto(m, "out") /\ stage' = [stage EXCEPT ![m] = "before"]
  /\ UNCHANGED <<lock, seen>> /\ LockStep(m)

\* MUTANT of Stale: the record of an owner that lives is taken for stale too.
StaleIfWritten == lock.written

\* alive(existing.pid) is false
Stale == lock.written /\ ~Alive(lock.by)

\* An absent, unreadable or living record is waited for, up to the deadline.
Read(m) ==
  /\ pc[m] = "read"
  /\ IF Stale
       THEN Goto(m, "steal") /\ seen' = [seen EXCEPT ![m] = lock.by]
       ELSE Goto(m, "create") /\ UNCHANGED seen
  /\ UNCHANGED <<stage, lock>> /\ LockStep(m)

GiveUp(m) ==
  /\ pc[m] = "read" /\ ~Stale
  /\ Goto(m, "out")
  /\ UNCHANGED <<stage, seen, lock>> /\ LockStep(m)

\* removeOwnedLock compares the token first,
Steal(m) ==
  /\ pc[m] = "steal"
  /\ Goto(m, IF lock.written /\ lock.by = seen[m] THEN "unlink" ELSE "create")
  /\ seen' = [seen EXCEPT ![m] = None]
  /\ UNCHANGED <<stage, lock>> /\ LockStep(m)

\* and unlinks whatever has the name by then.
Unlink(m) ==
  /\ pc[m] = "unlink"
  /\ Goto(m, "create")
  /\ lock' = NoLock
  /\ UNCHANGED <<stage, seen>> /\ LockStep(m)

\* release(), in the finally block
Release(m) ==
  /\ pc[m] = "release"
  /\ IF lock.written /\ lock.by = m
       THEN Goto(m, "unlock") /\ UNCHANGED stage
       ELSE Goto(m, "out") /\ stage' = [stage EXCEPT ![m] = "before"]
  /\ UNCHANGED <<seen, lock>> /\ LockStep(m)

Unlock(m) ==
  /\ pc[m] = "unlock"
  /\ lock' = NoLock
  /\ Goto(m, "out") /\ stage' = [stage EXCEPT ![m] = "before"]
  /\ UNCHANGED seen /\ LockStep(m)

-----------------------------------------------------------------------------
(* stopLocalCore, after its inspection.                                    *)

\* removeRuntime and removeControl compare the pid.
Forget(c) ==
  /\ runtime' = IF runtime = c THEN None ELSE runtime
  /\ control' = IF control = c THEN None ELSE control

\* MUTANT of TakesToken: the token of a stop request is not compared.
TakesAnyToken(c, token) == TRUE

\* tokenMatches at the Core that answers
TakesToken(c, token) == c = token /\ c \in tokens

Send(m) ==
  /\ pc[m] = "send"
  /\ \/ \E c \in Serving :
          /\ TakesToken(c, found[m].core)
          /\ core' = [core EXCEPT ![c] = "draining"]
          /\ \/ Goto(m, "drained") /\ UNCHANGED found
             \/ Goto(m, "release") /\ Unseen(m)   \* its answer is lost
     \/ /\ \A c \in Serving : ~TakesToken(c, found[m].core)
        /\ Goto(m, "release") /\ Unseen(m) /\ UNCHANGED core
  /\ UNCHANGED <<stage, wants, seen, child, rev, busy, tokens>>
  /\ UNCHANGED fileVars /\ UNCHANGED pastVars

\* Health is gone within three seconds, or one probe is missed,
Stopped(m) ==
  /\ pc[m] = "drained"
  /\ mishap' = (mishap \/ Serving # {})
  /\ Forget(found[m].core)
  /\ Goto(m, "spawn") /\ Unseen(m)
  /\ UNCHANGED <<stage, wants, seen, child, lock, crashes>>
  /\ UNCHANGED coreVars

\* or it is not, and a last look decides.
StillDrains(m) ==
  /\ pc[m] = "drained"
  /\ Goto(m, IF Serving = {} THEN "spawn" ELSE "release") /\ Unseen(m)
  /\ UNCHANGED <<stage, wants, seen, child>>
  /\ UNCHANGED fileVars /\ UNCHANGED coreVars /\ UNCHANGED pastVars

-----------------------------------------------------------------------------
(* ensureLocalCore: the new Core.                                          *)

Spawn(m) ==
  /\ pc[m] = "spawn"
  /\ \E c \in Cores :
       /\ Forgotten(c)
       /\ core' = [core EXCEPT ![c] = "starting"]
       /\ rev' = [rev EXCEPT ![c] = wants[m]]
       /\ tokens' = tokens \cup {c}
       /\ child' = [child EXCEPT ![m] = c]
  /\ Goto(m, "record")
  /\ UNCHANGED <<stage, wants, found, seen, busy>>
  /\ UNCHANGED fileVars /\ UNCHANGED pastVars

\* writeRuntime, then writeControl: each replaces its file whole.
Record(m) ==
  /\ \/ /\ pc[m] = "record" /\ Goto(m, "token")
        /\ runtime' = child[m] /\ UNCHANGED control
     \/ /\ pc[m] = "token" /\ Goto(m, "ready")
        /\ control' = child[m] /\ UNCHANGED runtime
  /\ UNCHANGED <<stage, wants, found, seen, child, lock>>
  /\ UNCHANGED coreVars /\ UNCHANGED pastVars

Gone(c) ==
  /\ core' = [core EXCEPT ![c] = "gone"]
  /\ rev' = [rev EXCEPT ![c] = None]
  /\ busy' = busy \ {c} /\ tokens' = tokens \ {c}

\* MUTANT of Kill: the child is left running when its records cannot be written.
KillNobody(c) == UNCHANGED coreVars

\* child.kill()
Kill(c) == Gone(c)

Fails(m) ==
  /\ Forget(child[m])
  /\ Goto(m, "release") /\ child' = [child EXCEPT ![m] = None]
  /\ UNCHANGED <<stage, wants, found, seen, lock, crashes>>

RecordFails(m) ==
  /\ pc[m] \in {"record", "token"}
  /\ Kill(child[m])
  /\ Fails(m) /\ UNCHANGED mishap

\* Some Core answers: it is taken for the child.
Ready(m) ==
  /\ pc[m] = "ready" /\ Serving # {}
  /\ Goto(m, "release") /\ child' = [child EXCEPT ![m] = None]
  /\ UNCHANGED <<stage, wants, found, seen>>
  /\ UNCHANGED fileVars /\ UNCHANGED coreVars /\ UNCHANGED pastVars

ChildExited(m) ==
  /\ pc[m] = "ready" /\ core[child[m]] = "gone"
  /\ Fails(m) /\ UNCHANGED coreVars /\ UNCHANGED mishap

\* readyTimeoutMs: the records go, the child does not.
ReadyTimeout(m) ==
  /\ pc[m] = "ready"
  /\ Fails(m) /\ mishap' = TRUE /\ UNCHANGED coreVars

-----------------------------------------------------------------------------
(* Core processes, and callers that die.                                   *)

CoreStep ==
  UNCHANGED callerVars /\ UNCHANGED fileVars /\ UNCHANGED crashes

\* startService binds the port, or fails to and exits.
Bind(c) ==
  /\ core[c] = "starting"
  /\ IF Serving = {}
       THEN /\ core' = [core EXCEPT ![c] = "serving"]
            /\ UNCHANGED <<rev, busy, tokens>>
       ELSE Gone(c)
  /\ CoreStep /\ UNCHANGED mishap

\* Work begins; a draining Core takes none.
Work(c) ==
  /\ \/ core[c] = "serving" /\ busy' = busy \cup {c}
     \/ c \in busy /\ busy' = busy \ {c}
  /\ UNCHANGED <<core, rev, tokens>>
  /\ CoreStep /\ UNCHANGED mishap

\* Nobody is connected for ten minutes.
IdleStop(c) ==
  /\ core[c] = "serving" /\ c \notin busy
  /\ core' = [core EXCEPT ![c] = "draining"]
  /\ UNCHANGED <<rev, busy, tokens>>
  /\ CoreStep /\ UNCHANGED mishap

\* Drained, forced, failed or crashed.
Exit(c) ==
  /\ core[c] # "gone"
  /\ Gone(c)
  /\ CoreStep /\ UNCHANGED mishap

\* The background service starts a Core that no caller has a token for.
ServiceStarts(c, r) ==
  /\ Forgotten(c) /\ \A d \in Cores : core[d] = "gone" \/ d \in tokens
  /\ core' = [core EXCEPT ![c] = "starting"]
  /\ rev' = [rev EXCEPT ![c] = r]
  /\ UNCHANGED <<busy, tokens>>
  /\ CoreStep /\ mishap' = TRUE

\* A caller dies; what it spawned lives on.
Die(m) ==
  /\ Alive(m) /\ crashes < MaxCrashes
  /\ Goto(m, "dead")
  /\ crashes' = crashes + 1
  /\ mishap' = (mishap \/ pc[m] \in {"record", "token", "ready"})
  /\ Unseen(m)
  /\ seen' = [seen EXCEPT ![m] = None] /\ child' = [child EXCEPT ![m] = None]
  /\ UNCHANGED <<stage, wants>>
  /\ UNCHANGED fileVars /\ UNCHANGED coreVars

Step(m) ==
  \/ Call(m) \/ Look(m) \/ LookMisses(m) \/ Ask(m)
  \/ Create(m) \/ Write(m) \/ WriteFails(m) \/ Read(m) \/ GiveUp(m)
  \/ Steal(m) \/ Unlink(m) \/ Release(m) \/ Unlock(m)
  \/ Send(m) \/ Stopped(m) \/ StillDrains(m)
  \/ Spawn(m) \/ Record(m) \/ RecordFails(m)
  \/ Ready(m) \/ ChildExited(m) \/ ReadyTimeout(m) \/ Die(m)

Next ==
  \/ \E m \in Callers : Step(m)
  \/ \E c \in Cores :
       \/ Bind(c) \/ Work(c) \/ IdleStop(c) \/ Exit(c)
       \/ \E r \in Revisions : ServiceStarts(c, r)

Spec == Init /\ [][Next]_vars

-----------------------------------------------------------------------------
(* Properties.                                                             *)

\* Two callers are never past the lock at once, as long as none has died:
\* "a start lock stays exclusive until its owner releases it".  After a death two callers
\* may both find the lock stale, and the slower then removes that of the faster.
Exclusive ==
  crashes = 0 => \A m, n \in Callers : Holds(m) /\ Holds(n) => m = n

\* A Core that answers can be stopped by every client: both records name it,
\* unless a probe was missed, a child came up after its deadline, the service
\* started its own, or a caller died between its spawn and its answer.  (It
\* needs the lock to be exclusive, which two callers keep it.)
RecordsNameCore ==
  ~mishap /\ (\A m \in Callers : pc[m] \notin {"record", "token", "ready"})
    => \A c \in Serving : Managed(c)

\* No client ever stops a Core that no client started.
StrangersAreSpared ==
  [][pc' # pc => \A c \in Cores :
       core[c] = "serving" /\ core'[c] = "draining" => c \in tokens]_vars

\* Why Exclusive holds: until somebody dies nobody sees a stale record, and
\* the lock file is that of the caller past it.
Owned ==
  crashes = 0 =>
    \A m \in Callers :
      /\ pc[m] \notin {"dead", "steal", "unlink"}
      /\ Holds(m) => lock.by = m
      /\ pc[m] \in {"out", "create", "read"} => ~Holds(m)
      /\ pc[m] \in {"write", "send", "drained", "spawn", "record", "token",
                    "ready", "release", "unlock"} => Holds(m)

IInv == TypeOK /\ Owned
=============================================================================
