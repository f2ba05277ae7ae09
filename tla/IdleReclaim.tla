----------------------------- MODULE IdleReclaim -----------------------------
(***************************************************************************)
(* The once-a-minute maintenance of Core: the Pi of a conversation nobody  *)
(* has used for a while is stopped (packages/server/src/reclaim.ts and     *)
(* sweepIdle in packages/server/src/index.ts), and so is an on-demand Core *)
(* nobody is connected to (packages/server/src/service-idle.ts).           *)
(*                                                                         *)
(* Use is sampled: between two sweeps anything can happen and the sweep    *)
(* sees only where things stand.  A timestamp is kept as its age, counted  *)
(* up to Cap, past which no comparison of the code changes.                *)
(***************************************************************************)
EXTENDS Naturals

CONSTANTS
  Conversations,
  Sockets,    \* connections; a name is used again once nothing refers to it
  Timeout,    \* the quiet period, in ticks (ten minutes)
  Every,      \* ticks between two sweeps (one minute)
  Late,       \* ticks a sweep may be held up by a busy event loop
  Unset

ASSUME TimesAssumption ==
  /\ Timeout \in Nat \ {0} /\ Every \in Nat \ {0} /\ Late \in Nat
  /\ Unset \notin Nat \cup Conversations

VARIABLES
  connected,        \* the set `clients`
  viewing,          \* socket -> the conversation it looks at
  opening,          \* socket -> the conversation being opened for it
  running,          \* conversations with a live Pi
  work,             \* what that Pi is doing
  idleSince,        \* conversation -> age of session.idleSince
  serviceIdleSince, \* age of the moment Core was left alone
  service,
  sinceSweep,       \* ticks since the last maintenance
  quiet,            \* history: ticks since the conversation was last in use
  age,              \* history: ticks since its Pi was started
  alone             \* history: ticks since somebody was connected

useVars   == <<connected, viewing, opening, work>>
sweepVars == <<idleSince, serviceIdleSince, service, sinceSweep>>
reclaimPast  == <<quiet, age, alone>>
reclaimVars == <<connected, viewing, opening, running, work, idleSince,
          serviceIdleSince, service, sinceSweep, quiet, age, alone>>

\* Two sweeps, each as late as can be, past the quiet period.
Cap == Timeout + 2 * (Every + Late) + 1
Ages == 0 .. Cap

ReclaimTypeOK ==
  /\ connected \in SUBSET Sockets
  /\ viewing \in [Sockets -> Conversations \cup {Unset}]
  /\ opening \in [Sockets -> Conversations \cup {Unset}]
  /\ running \in SUBSET Conversations
  /\ work \in [Conversations -> {"none", "busy", "asked"}]
  /\ idleSince \in [Conversations -> Ages \cup {Unset}]
  /\ serviceIdleSince \in Ages \cup {Unset}
  /\ service \in {"accepting", "stopped"}
  /\ sinceSweep \in 0 .. (Every + Late)
  /\ quiet \in [Conversations -> Ages]
  /\ age \in [Conversations -> Ages]
  /\ alone \in Ages

ReclaimInit ==
  /\ connected = {}
  /\ viewing = [s \in Sockets |-> Unset]
  /\ opening = [s \in Sockets |-> Unset]
  /\ running = {}
  /\ work = [c \in Conversations |-> "none"]
  /\ idleSince = [c \in Conversations |-> Unset]
  /\ serviceIdleSince = Unset
  /\ service = "accepting"
  /\ sinceSweep = 0
  /\ quiet = [c \in Conversations |-> 0]
  /\ age = [c \in Conversations |-> 0]
  /\ alone = 0

-----------------------------------------------------------------------------
Watched(c) == \E s \in Sockets : viewing[s] = c

CanStopNow(c) == work[c] = "none"

InUse(c) == Watched(c) \/ ~CanStopNow(c)

Older(t) == IF t = Unset THEN Unset ELSE IF t < Cap THEN t + 1 ELSE Cap

\* MUTANT of Began: the clock is started again at every sweep.
BeganNow(since) == 0

\* state.idleSince ?? now
Began(since) == IF since = Unset THEN 0 ELSE since

\* MUTANT of Elapsed: the period must be exceeded by a whole sweep.
ElapsedLater(since) == since >= Timeout + Every

Elapsed(since) == since >= Timeout

\* assessIdle, the clock it stores back.
IdleClock(c) == IF InUse(c) THEN Unset ELSE Began(idleSince[c])

\* assessIdle, its verdict.
Reclaims(c) == ~InUse(c) /\ Elapsed(Began(idleSince[c]))

SafeToRestart(live) == \A c \in live : CanStopNow(c)

\* MUTANT of LeftAlone: the number of clients is not looked at.
AloneAlways == TRUE

\* assessServiceIdle of an on-demand Core: nobody is connected.
LeftAlone == connected = {}

-----------------------------------------------------------------------------
(* Clients.                                                                *)

\* serviceIdleSince = undefined
ClockAtConnect == Unset

\* onConnection: whatever the clock of the service said is forgotten.
Connect(s) ==
  /\ service = "accepting" /\ s \notin connected
  /\ viewing[s] = Unset /\ opening[s] = Unset
  /\ connected' = connected \cup {s}
  /\ serviceIdleSince' = ClockAtConnect
  /\ alone' = 0
  /\ UNCHANGED <<viewing, opening, running, work, idleSince, service, sinceSweep,
                 quiet, age>>

\* A conversation is being opened for the socket.
AskFor(s, c) ==
  /\ service = "accepting" /\ s \in connected /\ opening[s] = Unset
  /\ opening' = [opening EXCEPT ![s] = c]
  /\ UNCHANGED <<connected, viewing, running, work>>
  /\ UNCHANGED sweepVars /\ UNCHANGED reclaimPast

\* A ManagedSession is made without idleSince.
ClockAtOpen(c) == [idleSince EXCEPT ![c] = Unset]

\* open() entered it into the live map; its client has not been shown it yet.
Open(s) ==
  /\ service = "accepting" /\ opening[s] \notin running \cup {Unset}
  /\ LET c == opening[s] IN
     /\ running' = running \cup {c}
     /\ idleSince' = ClockAtOpen(c)
     /\ quiet' = [quiet EXCEPT ![c] = 0]
     /\ age' = [age EXCEPT ![c] = 0]
  /\ UNCHANGED useVars
  /\ UNCHANGED <<serviceIdleSince, service, sinceSweep, alone>>

\* A conversation the last viewer leaves has its requests denied, and Pi goes
\* on with its turn; it was in use until now.
LeftBy(view, c) == Watched(c) /\ \A s \in Sockets : view[s] # c

Leaving(view) ==
  /\ viewing' = view
  /\ work' = [c \in Conversations |->
                IF LeftBy(view, c) /\ work[c] = "asked" THEN "busy" ELSE work[c]]
  /\ quiet' = [c \in Conversations |->
                 IF (\E s \in Sockets : view[s] = c) \/ Watched(c) THEN 0 ELSE quiet[c]]

\* viewing.set(socket, session.id)
ShownTo(s) == [viewing EXCEPT ![s] = opening[s]]

\* show(), also for a socket that closed while its conversation was opened.
Show(s) ==
  /\ service = "accepting" /\ opening[s] \in running
  /\ Leaving(ShownTo(s))
  /\ opening' = [opening EXCEPT ![s] = Unset]
  /\ UNCHANGED <<connected, running, age, alone>> /\ UNCHANGED sweepVars

\* The socket closes: the last one starts the clock of the service.
Close(s) ==
  /\ service = "accepting" /\ s \in connected
  /\ connected' = connected \ {s}
  /\ serviceIdleSince' = IF connected = {s} THEN 0 ELSE serviceIdleSince
  /\ Leaving([viewing EXCEPT ![s] = Unset])
  /\ alone' = 0
  /\ UNCHANGED <<opening, running, idleSince, service, sinceSweep, age>>

-----------------------------------------------------------------------------
(* The conversation's turn.                                                *)

Works(c, before, after) ==
  /\ service = "accepting" /\ c \in running /\ work[c] = before
  /\ work' = [work EXCEPT ![c] = after]
  /\ quiet' = [quiet EXCEPT ![c] = 0]
  /\ UNCHANGED <<connected, viewing, opening, running, age, alone>>
  /\ UNCHANGED sweepVars

\* Only a client that looks at the conversation sends it a prompt.
Prompt(c)   == Watched(c) /\ Works(c, "none", "busy")
TurnEnds(c) == Works(c, "busy", "none")

\* With nobody looking the request is refused without being put to anyone.
UiRequest(c) == Watched(c) /\ Works(c, "busy", "asked")
Answer(c)    == Watched(c) /\ Works(c, "asked", "busy")

-----------------------------------------------------------------------------
(* Time and maintenance.                                                   *)

Tick ==
  /\ service = "accepting" /\ sinceSweep < Every + Late
  /\ sinceSweep' = sinceSweep + 1
  /\ idleSince' = [c \in Conversations |-> Older(idleSince[c])]
  /\ serviceIdleSince' = Older(serviceIdleSince)
  /\ quiet' = [c \in Conversations |-> IF InUse(c) THEN 0 ELSE Older(quiet[c])]
  /\ age' = [c \in Conversations |-> Older(age[c])]
  /\ alone' = IF connected = {} THEN Older(alone) ELSE 0
  /\ UNCHANGED useVars /\ UNCHANGED <<running, service>>

\* maintain(): sweepIdle over every live conversation, then the service's own
\* clock; a Core that may stop is drained, and being safe stops at once.  (What
\* recycleStale does in between is part of CoreSessions.)
Sweep ==
  /\ service = "accepting" /\ sinceSweep >= Every
  /\ sinceSweep' = 0
  /\ LET kept  == {c \in running : ~Reclaims(c)}
         since == IF LeftAlone THEN Began(serviceIdleSince) ELSE Unset
         stops == LeftAlone /\ SafeToRestart(kept) /\ Elapsed(since)
     IN  /\ running' = IF stops THEN {} ELSE kept
         /\ service' = IF stops THEN "stopped" ELSE service
         /\ serviceIdleSince' = since
  /\ idleSince' = [c \in Conversations |->
                     IF c \in running THEN IdleClock(c) ELSE idleSince[c]]
  /\ UNCHANGED useVars /\ UNCHANGED reclaimPast

ReclaimNext ==
  \/ \E s \in Sockets :
       \/ Connect(s) \/ Open(s) \/ Show(s) \/ Close(s)
       \/ \E c \in Conversations : AskFor(s, c)
  \/ \E c \in Conversations : Prompt(c) \/ TurnEnds(c) \/ UiRequest(c) \/ Answer(c)
  \/ Tick \/ Sweep

ReclaimSpec == ReclaimInit /\ [][ReclaimNext]_reclaimVars

\* Time passes and the interval timer fires.
ReclaimFairSpec == ReclaimSpec /\ WF_reclaimVars(Tick) /\ WF_reclaimVars(Sweep)

-----------------------------------------------------------------------------
(* Properties.                                                             *)

\* A reclaimed process was started at least the quiet period ago: reopening a
\* conversation never inherits the clock of the process before it.
ReclaimedIsOld ==
  [][\A c \in Conversations :
       c \in running /\ c \notin running' /\ service' = "accepting" => age[c] >= Timeout]_reclaimVars

\* How long an unused process can outlive the quiet period: its clock starts
\* one sweep late, and it is read one sweep late.
UnusedIsReclaimed ==
  \A c \in running : quiet[c] < Timeout + 2 * (Every + Late)

\* Core exits only after nobody was connected for the whole period, which,
\* unlike the use of a conversation, is not sampled.
StopsWhenAlone == [][service' # service => alone >= Timeout]_reclaimVars

\* An on-demand Core that is left alone with nothing going on exits.
EventuallyStops ==
  <>[](connected = {} /\ \A c \in Conversations : CanStopNow(c)) => <>(service = "stopped")

\* Why the above hold.  The clock of a process is never older than the process,
\* nor by more than a sweep younger than its disuse, and the sweep that would
\* find it older than the quiet period stops the process; the clock of the
\* service runs only while nobody is connected.
Clocks ==
  \A c \in Conversations :
    /\ InUse(c) => quiet[c] = 0
    /\ c \in running /\ idleSince[c] = Unset => quiet[c] <= sinceSweep
    /\ c \in running /\ idleSince[c] # Unset =>
         /\ idleSince[c] <= age[c]
         /\ idleSince[c] < Timeout + sinceSweep
         /\ quiet[c] <= idleSince[c] + Every + Late

ServiceClock ==
  /\ connected # {} => serviceIdleSince = Unset
  /\ serviceIdleSince # Unset => serviceIdleSince <= alone

ReclaimInv == ReclaimTypeOK /\ Clocks /\ ServiceClock
=============================================================================
