----------------------------- MODULE CoreProofs -----------------------------
(***************************************************************************)
(* How a Core ends, how one begins, and what its clients see.  For any     *)
(* numbers of conversations and sockets, any quiet period, sweep interval  *)
(* and delay: how early and how late a process is reclaimed, and that an   *)
(* on-demand Core exits only after the whole period alone.  Then, for any  *)
(* number of callers, Cores and revisions, what holds of CoreStart.  Last, *)
(* for any number of clients, messages and deltas, what holds of           *)
(* LedgerFeed.                                                             *)
(***************************************************************************)
EXTENDS IdleReclaim, CoreStart, LedgerFeed, SequenceTheorems, WellFoundedInduction, TLAPS

-----------------------------------------------------------------------------
(* The sweeps.                                                             *)

\* What ageing does to a clock: it stays a clock, keeps the order of two
\* clocks, and below the cap counts one tick.
LEMMA OlderClock ==
  \A t \in Ages \cup {Unset} :
    /\ Older(t) \in Ages \cup {Unset}
    /\ t = Unset <=> Older(t) = Unset
    /\ t # Unset => /\ t \in Ages /\ Older(t) \in Ages
                    /\ Older(t) <= t + 1
                    /\ \A u \in Ages : t <= u => Older(t) <= Older(u)
                    /\ t < Cap => Older(t) = t + 1
BY TimesAssumption DEF Older, Ages, Cap

\* The clock that assessIdle and assessServiceIdle go by.
LEMMA BeganClock ==
  \A t \in Ages \cup {Unset} :
    Began(t) \in Ages /\ (t # Unset => Began(t) = t) /\ (t = Unset => Began(t) = 0)
BY TimesAssumption DEF Began, Ages, Cap

\* Core starts with no clock running.
LEMMA ReclaimInitInv == ReclaimInit => ReclaimInv
BY TimesAssumption DEF ReclaimInit, ReclaimInv, ReclaimTypeOK, Clocks, ServiceClock, InUse, Watched, CanStopNow, Ages, Cap

\* What a client's leaving or moving does to the clocks: those it leaves and
\* those it comes to were in use until now.
LEMMA LeavingKeepsClocks ==
  ASSUME ReclaimInv, NEW view \in [Sockets -> Conversations \cup {Unset}], Leaving(view),
         UNCHANGED <<idleSince, age, sinceSweep>>, running' = running
  PROVE  /\ viewing' \in [Sockets -> Conversations \cup {Unset}]
         /\ work' \in [Conversations -> {"none", "busy", "asked"}]
         /\ quiet' \in [Conversations -> Ages]
         /\ Clocks'
<1> USE TimesAssumption DEF ReclaimInv, ReclaimTypeOK, Leaving, Ages
<1>1. quiet' \in [Conversations -> Ages]
  BY DEF Cap
<1>2. work' \in [Conversations -> {"none", "busy", "asked"}]
  OBVIOUS
<1>3. Clocks'
  <2> SUFFICES ASSUME NEW c \in Conversations
               PROVE  /\ InUse(c)' => quiet'[c] = 0
                      /\ c \in running /\ idleSince[c] = Unset => quiet'[c] <= sinceSweep
                      /\ c \in running /\ idleSince[c] # Unset =>
                           /\ idleSince[c] <= age[c]
                           /\ idleSince[c] < Timeout + sinceSweep
                           /\ quiet'[c] <= idleSince[c] + Every + Late
    BY DEF Clocks
  <2>1. quiet'[c] = 0 \/ quiet'[c] = quiet[c]
    OBVIOUS
  <2>2. InUse(c)' => quiet'[c] = 0
    <3>1. CASE \E s \in Sockets : view[s] = c
      BY <3>1
    <3>2. CASE Watched(c)
      BY <3>2
    <3>3. CASE ~(\E s \in Sockets : view[s] = c) /\ ~Watched(c)
      <4>1. ~LeftBy(view, c) /\ work'[c] = work[c]
        BY <3>3 DEF LeftBy
      <4> QED BY <3>3, <4>1 DEF InUse, Watched, CanStopNow, Clocks
    <3> QED BY <3>1, <3>2, <3>3
  <2> QED BY <2>1, <2>2 DEF Clocks
<1> QED BY <1>1, <1>2, <1>3

\* Every step keeps the clocks.
LEMMA ReclaimNextInv == ReclaimInv /\ [ReclaimNext]_reclaimVars => ReclaimInv'
<1> SUFFICES ASSUME ReclaimInv, [ReclaimNext]_reclaimVars PROVE ReclaimInv'
  OBVIOUS
<1> USE TimesAssumption DEF ReclaimInv, ReclaimTypeOK
<1>1. ASSUME NEW s \in Sockets, Connect(s) PROVE ReclaimInv'
  BY <1>1 DEF Connect, ClockAtConnect, Clocks, ServiceClock, InUse, Watched, CanStopNow, Ages, Cap
<1>2. ASSUME NEW s \in Sockets, NEW c \in Conversations, AskFor(s, c) PROVE ReclaimInv'
  BY <1>2 DEF AskFor, sweepVars, reclaimPast, Clocks, ServiceClock, InUse, Watched, CanStopNow
<1>3. ASSUME NEW s \in Sockets, Open(s) PROVE ReclaimInv'
  <2> DEFINE d == opening[s]
  <2>1. d \in Conversations
    BY <1>3 DEF Open
  <2>2. ReclaimTypeOK'
    BY <1>3, <2>1 DEF Open, useVars, ClockAtOpen, Ages, Cap
  <2>3. Clocks'
    <3> SUFFICES ASSUME NEW c \in Conversations
                 PROVE  /\ InUse(c) => quiet'[c] = 0
                        /\ c \in running' /\ idleSince'[c] = Unset => quiet'[c] <= sinceSweep
                        /\ c \in running' /\ idleSince'[c] # Unset =>
                             /\ idleSince'[c] <= age'[c]
                             /\ idleSince'[c] < Timeout + sinceSweep
                             /\ quiet'[c] <= idleSince'[c] + Every + Late
      BY <1>3 DEF Open, useVars, Clocks, InUse, Watched, CanStopNow
    <3>1. CASE c = d
      BY <1>3, <2>1, <3>1 DEF Open, ClockAtOpen, Ages
    <3>2. CASE c # d
      BY <1>3, <2>1, <3>2 DEF Open, ClockAtOpen, Clocks
    <3> QED BY <3>1, <3>2
  <2>4. ServiceClock'
    BY <1>3 DEF Open, useVars, ServiceClock
  <2> QED BY <2>2, <2>3, <2>4
<1>4. ASSUME NEW s \in Sockets, Show(s) PROVE ReclaimInv'
  <2>1. ShownTo(s) \in [Sockets -> Conversations \cup {Unset}]
    BY DEF ShownTo
  <2>2. Leaving(ShownTo(s))
    BY <1>4 DEF Show
  <2>3. /\ viewing' \in [Sockets -> Conversations \cup {Unset}]
        /\ work' \in [Conversations -> {"none", "busy", "asked"}]
        /\ quiet' \in [Conversations -> Ages] /\ Clocks'
    BY <1>4, <2>1, <2>2, LeavingKeepsClocks DEF Show, sweepVars
  <2> QED BY <1>4, <2>3 DEF Show, sweepVars, ServiceClock
<1>5. ASSUME NEW s \in Sockets, Close(s) PROVE ReclaimInv'
  <2>1. /\ viewing' \in [Sockets -> Conversations \cup {Unset}]
        /\ work' \in [Conversations -> {"none", "busy", "asked"}]
        /\ quiet' \in [Conversations -> Ages] /\ Clocks'
    BY <1>5, LeavingKeepsClocks DEF Close
  <2>2. ServiceClock' /\ serviceIdleSince' \in Ages \cup {Unset} /\ alone' \in Ages
    BY <1>5 DEF Close, ServiceClock, Ages, Cap
  <2> QED BY <1>5, <2>1, <2>2 DEF Close
<1>6. ASSUME NEW c \in Conversations, Prompt(c) \/ TurnEnds(c) \/ UiRequest(c) \/ Answer(c)
      PROVE  ReclaimInv'
  <2>1. PICK x, y \in {"none", "busy", "asked"} : Works(c, x, y)
    BY <1>6 DEF Prompt, TurnEnds, UiRequest, Answer
  <2>2. ReclaimTypeOK'
    BY <2>1 DEF Works, sweepVars, Ages, Cap
  <2>3. Clocks'
    <3> SUFFICES ASSUME NEW d \in Conversations
                 PROVE  /\ InUse(d)' => quiet'[d] = 0
                        /\ d \in running /\ idleSince[d] = Unset => quiet'[d] <= sinceSweep
                        /\ d \in running /\ idleSince[d] # Unset =>
                             /\ idleSince[d] <= age[d]
                             /\ idleSince[d] < Timeout + sinceSweep
                             /\ quiet'[d] <= idleSince[d] + Every + Late
      BY <2>1 DEF Works, sweepVars, Clocks
    <3>1. CASE d = c
      BY <2>1, <3>1 DEF Works, Clocks, Ages
    <3>2. CASE d # c
      BY <2>1, <3>2 DEF Works, Clocks, InUse, Watched, CanStopNow
    <3> QED BY <3>1, <3>2
  <2> QED BY <2>1, <2>2, <2>3 DEF Works, sweepVars, ServiceClock
<1>7. CASE Tick
  <2> DEFINE TypesOfClocks ==
        /\ idleSince' \in [Conversations -> Ages \cup {Unset}]
        /\ quiet' \in [Conversations -> Ages] /\ age' \in [Conversations -> Ages]
        /\ serviceIdleSince' \in Ages \cup {Unset} /\ alone' \in Ages
  <2>0. 0 \in Ages /\ Unset \notin Ages
    BY DEF Ages, Cap
  <2>1. ReclaimTypeOK'
    <3>1. \A t \in Ages : Older(t) \in Ages
      BY <2>0, OlderClock
    <3>2. TypesOfClocks
      BY <1>7, <2>0, <3>1, OlderClock DEF Tick
    <3>3. sinceSweep' \in 0 .. (Every + Late)
      BY <1>7 DEF Tick
    <3> QED BY <1>7, <3>2, <3>3 DEF Tick, useVars
  <2>2. Clocks'
    <3> SUFFICES ASSUME NEW c \in Conversations
                 PROVE  /\ InUse(c) => quiet'[c] = 0
                        /\ c \in running /\ idleSince'[c] = Unset => quiet'[c] <= sinceSweep'
                        /\ c \in running /\ idleSince'[c] # Unset =>
                             /\ idleSince'[c] <= age'[c]
                             /\ idleSince'[c] < Timeout + sinceSweep'
                             /\ quiet'[c] <= idleSince'[c] + Every + Late
      BY <1>7 DEF Tick, useVars, Clocks, InUse, Watched, CanStopNow
    <3>1. /\ idleSince'[c] = Older(idleSince[c]) /\ age'[c] = Older(age[c])
          /\ quiet'[c] = IF InUse(c) THEN 0 ELSE Older(quiet[c])
          /\ sinceSweep' = sinceSweep + 1 /\ sinceSweep < Every + Late
      BY <1>7 DEF Tick
    <3>2. /\ idleSince[c] \in Ages \cup {Unset} /\ age[c] \in Ages /\ quiet[c] \in Ages
          /\ quiet'[c] \in Nat /\ quiet'[c] <= quiet[c] + 1
      BY <3>1, OlderClock DEF Ages
    <3>3. CASE idleSince[c] = Unset
      <4>1. idleSince'[c] = Unset
        BY <3>1, <3>3, OlderClock
      <4>2. c \in running => quiet[c] <= sinceSweep
        BY <3>3 DEF Clocks
      <4> QED BY <3>1, <3>2, <4>1, <4>2 DEF Ages
    <3>4. CASE idleSince[c] # Unset /\ c \in running
      <4>1. idleSince[c] < Cap /\ Older(idleSince[c]) = idleSince[c] + 1
        BY <3>1, <3>2, <3>4, OlderClock DEF Clocks, Ages, Cap
      <4>2. idleSince'[c] <= age'[c]
        BY <3>1, <3>2, <3>4, OlderClock DEF Clocks
      <4> QED BY <3>1, <3>2, <3>4, <4>1, <4>2 DEF Clocks, Ages
    <3>5. CASE c \notin running
      BY <3>1, <3>5
    <3> QED BY <3>3, <3>4, <3>5
  <2>3. ServiceClock'
    BY <1>7, OlderClock DEF Tick, useVars, ServiceClock
  <2> QED BY <2>1, <2>2, <2>3
<1>8. CASE Sweep
  <2>1. ReclaimTypeOK'
    BY <1>8, BeganClock DEF Sweep, useVars, reclaimPast, IdleClock
  <2>2. Clocks'
    <3> SUFFICES ASSUME NEW c \in Conversations
                 PROVE  /\ InUse(c) => quiet[c] = 0
                        /\ c \in running' /\ idleSince'[c] = Unset => quiet[c] <= 0
                        /\ c \in running' /\ idleSince'[c] # Unset =>
                             /\ idleSince'[c] <= age[c]
                             /\ idleSince'[c] < Timeout
                             /\ quiet[c] <= idleSince'[c] + Every + Late
      BY <1>8 DEF Sweep, useVars, reclaimPast, Clocks, InUse, Watched, CanStopNow
    <3>1. InUse(c) => quiet[c] = 0
      BY DEF Clocks
    <3>2. CASE c \in running'
      <4>1. c \in running /\ ~Reclaims(c) /\ idleSince'[c] = IdleClock(c)
        BY <1>8, <3>2 DEF Sweep
      <4>2. CASE InUse(c)
        BY <3>1, <4>1, <4>2 DEF IdleClock
      <4>3. CASE ~InUse(c)
        <5>1. idleSince'[c] = Began(idleSince[c]) /\ ~Elapsed(Began(idleSince[c]))
          BY <4>1, <4>3 DEF IdleClock, Reclaims
        <5>2. /\ idleSince[c] \in Ages \cup {Unset} /\ quiet[c] \in Nat /\ age[c] \in Nat
              /\ sinceSweep \in 0 .. (Every + Late)
          BY DEF Ages
        <5>3. CASE idleSince[c] = Unset
          BY <4>1, <5>1, <5>2, <5>3, BeganClock DEF Clocks, Elapsed
        <5>4. CASE idleSince[c] # Unset
          BY <4>1, <5>1, <5>2, <5>4, BeganClock DEF Clocks, Elapsed, Ages
        <5> QED BY <5>3, <5>4
      <4> QED BY <4>2, <4>3
    <3> QED BY <3>1, <3>2
  <2>3. ServiceClock'
    BY <1>8, BeganClock DEF Sweep, useVars, reclaimPast, ServiceClock, LeftAlone, Ages
  <2> QED BY <2>1, <2>2, <2>3
<1>9. CASE UNCHANGED reclaimVars
  BY <1>9 DEF reclaimVars, Clocks, ServiceClock, InUse, Watched, CanStopNow
<1> QED BY <1>1, <1>2, <1>3, <1>4, <1>5, <1>6, <1>7, <1>8, <1>9 DEF ReclaimNext

\* The state of the maintenance keeps its types and its clocks agree, whatever
\* clients and turns do between two sweeps.
THEOREM ClocksHold == ReclaimSpec => []ReclaimInv
BY ReclaimInitInv, ReclaimNextInv, PTL DEF ReclaimSpec

\* No process outlives the quiet period by as much as two (late) sweeps.
THEOREM UnusedReclaimed == ReclaimSpec => []UnusedIsReclaimed
<1>1. ReclaimInv => UnusedIsReclaimed
  <2> SUFFICES ASSUME ReclaimInv, NEW c \in running
               PROVE  quiet[c] < Timeout + 2 * (Every + Late)
    BY DEF UnusedIsReclaimed
  <2>1. /\ c \in Conversations /\ quiet[c] \in Nat /\ sinceSweep \in 0 .. (Every + Late)
        /\ idleSince[c] = Unset \/ idleSince[c] \in Nat
    BY DEF ReclaimInv, ReclaimTypeOK, Ages
  <2> QED BY <2>1, TimesAssumption DEF ReclaimInv, Clocks
<1> QED BY <1>1, ClocksHold, PTL

\* A process is never reclaimed before the quiet period has passed since its
\* own start.
THEOREM YoungAreSpared == ReclaimSpec => ReclaimedIsOld
<1>1. ASSUME ReclaimInv, [ReclaimNext]_reclaimVars, NEW c \in Conversations,
             c \in running, c \notin running', service' = "accepting"
      PROVE  age[c] >= Timeout
  <2>1. Sweep
    BY <1>1 DEF ReclaimNext, Connect, AskFor, Open, Show, Close, Prompt, TurnEnds, UiRequest, Answer,
                Works, Tick, reclaimVars, useVars
  <2>2. Reclaims(c)
    BY <1>1, <2>1 DEF Sweep
  <2>3. idleSince[c] \in Ages \cup {Unset} /\ age[c] \in Nat
    BY <1>1 DEF ReclaimInv, ReclaimTypeOK, Ages
  <2>4. Elapsed(Began(idleSince[c]))
    BY <2>2 DEF Reclaims
  <2>5. idleSince[c] # Unset /\ idleSince[c] >= Timeout
    BY <2>3, <2>4, BeganClock, TimesAssumption DEF Elapsed
  <2> QED BY <1>1, <2>3, <2>5, TimesAssumption DEF ReclaimInv, Clocks, Ages
<1>2. ReclaimInv /\ [ReclaimNext]_reclaimVars =>
        [\A c \in Conversations :
           c \in running /\ c \notin running' /\ service' = "accepting" => age[c] >= Timeout]_reclaimVars
  BY <1>1
<1> QED BY <1>2, ClocksHold, PTL DEF ReclaimSpec, ReclaimedIsOld

\* Core exits only after nobody was connected for the whole period.
THEOREM ExitsAlone == ReclaimSpec => StopsWhenAlone
<1>1. ASSUME ReclaimInv, [ReclaimNext]_reclaimVars, service' # service
      PROVE  alone >= Timeout
  <2>1. Sweep
    BY <1>1 DEF ReclaimNext, Connect, AskFor, Open, Show, Close, Prompt, TurnEnds, UiRequest, Answer,
                Works, Tick, reclaimVars, useVars, sweepVars
  <2>2. LeftAlone /\ Elapsed(Began(serviceIdleSince))
    BY <1>1, <2>1 DEF Sweep
  <2>3. serviceIdleSince \in Ages \cup {Unset} /\ alone \in Nat
    BY <1>1 DEF ReclaimInv, ReclaimTypeOK, Ages
  <2>4. serviceIdleSince # Unset /\ serviceIdleSince >= Timeout
    BY <2>2, <2>3, BeganClock, TimesAssumption DEF Elapsed
  <2> QED BY <1>1, <2>3, <2>4, TimesAssumption DEF ReclaimInv, ServiceClock, Ages
<1>2. ReclaimInv /\ [ReclaimNext]_reclaimVars => [service' # service => alone >= Timeout]_reclaimVars
  BY <1>1
<1> QED BY <1>2, ClocksHold, PTL DEF ReclaimSpec, StopsWhenAlone

-----------------------------------------------------------------------------
(* The start.                                                              *)

USE DEF Goto, fileVars, coreVars, pastVars, callerVars

\* An answer that names nobody, or a Core, is an answer.
LEMMA AnswersAreTyped ==
  /\ \A c \in Cores \cup {None} : Named(c) \in Answers /\ Named(c).core = c
  /\ Absent \in Answers /\ Absent.core = None
BY DEF Answers, Named, Absent

\* Every step of a caller keeps the types of the state.
LEMMA StepKeepsTypes ==
  ASSUME TypeOK, NEW m \in Callers, Step(m)
  PROVE  TypeOK'
<1>1. CASE Call(m)
  BY <1>1, StartAssumption DEF TypeOK, Call
<1>2. CASE Look(m)
  <2>1. CASE Serving = {}
    BY <1>2, <2>1, StartAssumption, AnswersAreTyped DEF TypeOK, Look, IfAbsent
  <2>2. CASE Serving # {}
    <3>1. PICK c \in Cores :
            /\ found' = [found EXCEPT ![m] = [core |-> c, right |-> rev[c] = wants[m],
                                            safe |-> c \notin busy]]
            /\ pc' = [pc EXCEPT ![m] = "ask"]
      BY <1>2, <2>2 DEF Look, Serving
    <3>2. [core |-> c, right |-> rev[c] = wants[m], safe |-> c \notin busy]
            \in Answers
      BY DEF Answers
    <3>. DEFINE answer == [core |-> c, right |-> rev[c] = wants[m], safe |-> c
       \notin busy]
    <3>3. answer.core = c
      OBVIOUS
    <3>. HIDE DEF answer
    <3>4. found' \in [Callers -> Answers]
      BY <3>1, <3>2 DEF TypeOK, answer
    <3>5. found' = [found EXCEPT ![m] = answer]
      BY <3>1 DEF answer
    <3>. QED
      BY <1>2, <3>1, <3>3, <3>4, <3>5, StartAssumption DEF TypeOK, Look
  <2>. QED
    BY <2>1, <2>2
<1>3. CASE LookMisses(m)
  BY <1>3, StartAssumption, AnswersAreTyped DEF TypeOK, LookMisses, IfAbsent, Serving
<1>4. CASE Ask(m)
  <2>1. UNCHANGED <<wants, seen, child, lock, runtime, control, core, rev,
                    busy, tokens, crashes, mishap>>
    BY <1>4 DEF Ask
  <2>2. PICK c \in Cores \cup {None}, where \in {"out", "release", "create", "look",
     "send"} :
          /\ pc' = [pc EXCEPT ![m] = where]
          /\ \/ found' = [found EXCEPT ![m] = Absent]
             \/ /\ found' = [found EXCEPT ![m] = Named(c)]
                /\ c # None
          /\ where = "send" => found' = [found EXCEPT ![m] = Named(c)] /\ c # None
          /\ stage' = stage \/ stage' = [stage EXCEPT ![m] = "stop"]
    <3>1. PICK d \in IF Serving = {} THEN {found[m].core} ELSE Serving, ours \in BOOLEAN :
            /\ ours => Managed(d)
            /\ \/ /\ pc' = [pc EXCEPT ![m] = IfOver(m)] /\ Unseen(m)
                  /\ UNCHANGED stage
               \/ /\ pc' = [pc EXCEPT ![m] = "create"] /\ Unseen(m)
                  /\ UNCHANGED stage
               \/ /\ pc' = [pc EXCEPT ![m] = "look"] /\ Unseen(m)
                  /\ stage' = [stage EXCEPT ![m] = "stop"]
               \/ /\ ours
                  /\ pc' = [pc EXCEPT ![m] = "send"] /\ UNCHANGED stage
                  /\ found' = [found EXCEPT ![m] = Named(d)]
               \/ /\ pc' = [pc EXCEPT ![m] = "release"] /\ Unseen(m)
                  /\ UNCHANGED stage
      BY <1>4, Zenon DEF Ask
    <3>2. d \in Cores \cup {None} /\ (ours => d \in Cores /\ d # None)
      BY <3>1, StartAssumption DEF TypeOK, Managed, Serving, Answers
    <3>3. IfOver(m) \in {"out", "release"}
      BY DEF IfOver
    <3>. QED
      BY <3>1, <3>2, <3>3 DEF Unseen
  <2>. QED
    <3>1. CASE where = "send"
      BY <2>1, <2>2, <3>1, AnswersAreTyped DEF TypeOK
    <3>2. CASE where # "send"
      <4>1. PICK a \in Answers : found' = [found EXCEPT ![m] = a]
        BY <2>2, AnswersAreTyped
      <4>. QED
        BY <2>1, <2>2, <3>2, <4>1 DEF TypeOK
    <3>. QED
      BY <3>1, <3>2
<1>5. CASE Create(m)
  <2>1. CASE FreeToTake
    <3>1. [by |-> m, written |-> FALSE] \in [by : Callers \cup {None}, written : BOOLEAN]
      OBVIOUS
    <3>. DEFINE mine == [by |-> m, written |-> FALSE]
    <3>. HIDE DEF mine
    <3>2. lock' = mine /\ mine \in [by : Callers \cup {None}, written : BOOLEAN]
      BY <1>5, <2>1, <3>1 DEF Create, mine
    <3>. QED
      BY <1>5, <2>1, <3>2 DEF TypeOK, Create, LockStep
  <2>2. CASE ~FreeToTake
    BY <1>5, <2>2 DEF TypeOK, Create, LockStep
  <2>. QED
    BY <2>1, <2>2
<1>6. CASE Write(m)
  BY <1>6, StartAssumption DEF TypeOK, Write, LockStep
<1>7. CASE Read(m)
  BY <1>7, StartAssumption DEF TypeOK, Read, LockStep, Stale
<1>8. CASE GiveUp(m)
  BY <1>8, StartAssumption DEF TypeOK, GiveUp, LockStep, Stale
<1>9. CASE Steal(m)
  BY <1>9, StartAssumption DEF TypeOK, Steal, LockStep
<1>10. CASE Unlink(m)
  BY <1>10, StartAssumption DEF TypeOK, Unlink, LockStep, NoLock
<1>11. CASE Release(m)
  <2>1. CASE lock.written /\ lock.by = m
    BY <1>11, <2>1 DEF TypeOK, Release, LockStep
  <2>2. CASE ~(lock.written /\ lock.by = m)
    BY <1>11, <2>2 DEF TypeOK, Release, LockStep
  <2>. QED
    BY <2>1, <2>2
<1>12. CASE Unlock(m)
  BY <1>12, StartAssumption DEF TypeOK, Unlock, LockStep, NoLock
<1>13. CASE Send(m)
  <2>1. /\ UNCHANGED <<stage, wants, seen, child, lock, runtime, control, rev,
                       busy, tokens, crashes, mishap>>
        /\ core' \in [Cores -> {"gone", "starting", "serving", "draining"}]
    BY <1>13 DEF TypeOK, Send, Serving
  <2>2. \/ found' = found /\ pc' = [pc EXCEPT ![m] = "drained"] /\ pc[m] = "send"
        \/ found' = [found EXCEPT ![m] = Absent] /\ pc' = [pc EXCEPT ![m] = "release"]
    BY <1>13 DEF Send, Unseen
  <2>. QED
    BY <2>1, <2>2, AnswersAreTyped DEF TypeOK
<1>14. CASE Stopped(m)
  BY <1>14, StartAssumption, AnswersAreTyped DEF TypeOK, Stopped, Forget, Unseen
<1>15. CASE StillDrains(m)
  BY <1>15, StartAssumption, AnswersAreTyped DEF TypeOK, StillDrains, Unseen
<1>16. CASE Spawn(m)
  BY <1>16, StartAssumption DEF TypeOK, Spawn
<1>17. CASE Record(m)
  BY <1>17, StartAssumption DEF TypeOK, Record
<1>18. CASE RecordFails(m)
  BY <1>18, StartAssumption DEF TypeOK, RecordFails, Kill, Gone, Fails, Forget
<1>19. CASE Ready(m)
  BY <1>19, StartAssumption DEF TypeOK, Ready
<1>20. CASE ChildExited(m)
  BY <1>20, StartAssumption DEF TypeOK, ChildExited, Fails, Forget
<1>21. CASE ReadyTimeout(m)
  BY <1>21, StartAssumption DEF TypeOK, ReadyTimeout, Fails, Forget
<1>22. CASE Die(m)
  BY <1>22, StartAssumption, AnswersAreTyped DEF TypeOK, Die, Unseen, Alive
<1>23. CASE WriteFails(m)
  BY <1>23 DEF TypeOK, WriteFails, LockStep
<1>24. QED
  BY <1>1, <1>2, <1>3, <1>4, <1>5, <1>6, <1>7, <1>8, <1>9, <1>10, <1>11, <1>12,
     <1>13, <1>14, <1>15, <1>16, <1>17, <1>18, <1>19, <1>20, <1>21, <1>22, <1>23 DEF
     Step

\* A Core's own steps keep the types, and touch neither callers nor the lock.
LEMMA CoresKeepTypes ==
  ASSUME TypeOK, NEW c \in Cores,
         Bind(c) \/ Work(c) \/ IdleStop(c) \/ Exit(c)
           \/ \E r \in Revisions : ServiceStarts(c, r)
  PROVE  TypeOK' /\ UNCHANGED <<pc, stage, lock, crashes>>
<1>1. CASE Bind(c)
  BY <1>1 DEF TypeOK, Bind, Gone, CoreStep
<1>2. CASE Work(c)
  BY <1>2 DEF TypeOK, Work, CoreStep
<1>3. CASE IdleStop(c)
  BY <1>3 DEF TypeOK, IdleStop, CoreStep
<1>4. CASE Exit(c)
  BY <1>4 DEF TypeOK, Exit, Gone, CoreStep
<1>5. ASSUME NEW r \in Revisions, ServiceStarts(c, r)
      PROVE  TypeOK' /\ UNCHANGED <<pc, stage, lock, crashes>>
  BY <1>5 DEF TypeOK, ServiceStarts, CoreStep
<1>. QED
  BY <1>1, <1>2, <1>3, <1>4, <1>5

\* While nobody has died, every step of a caller keeps the lock its holder's:
\* the file is created only where there is none and removed only by its owner.
LEMMA StepKeepsOwned ==
  ASSUME TypeOK, Owned, NEW m \in Callers, Step(m)
  PROVE  Owned'
<1>. SUFFICES ASSUME crashes' = 0
              PROVE  \A n \in Callers :
                       /\ pc'[n] \notin {"dead", "steal", "unlink"}
                       /\ Holds(n)' => lock'.by = n
                       /\ pc'[n] \in {"out", "create", "read"} => ~Holds(n)'
                       /\ pc'[n] \in {"write", "send", "drained", "spawn",
                                      "record", "token", "ready", "release",
                                      "unlock"} => Holds(n)'
  BY DEF Owned
<1>0. crashes = 0
  BY DEF TypeOK, Step, Call, Look, LookMisses, Ask, Create, Write, WriteFails, Read,
     GiveUp, Steal, Unlink, Release, Unlock, Send, Stopped, StillDrains, Spawn,
     Record, RecordFails, Ready, ChildExited, ReadyTimeout, Die, LockStep, Fails
<1>1. CASE Call(m)
  BY <1>0, <1>1 DEF TypeOK, Owned, Holds, Alive, Call
<1>2. CASE Look(m)
  BY <1>0, <1>2 DEF TypeOK, Owned, Holds, Alive, Look, IfAbsent
<1>3. CASE LookMisses(m)
  BY <1>0, <1>3 DEF TypeOK, Owned, Holds, Alive, LookMisses, IfAbsent
<1>4. CASE Ask(m)
  BY <1>0, <1>4 DEF TypeOK, Owned, Holds, Alive, Ask, IfOver
<1>5. CASE Create(m)
  BY <1>0, <1>5, StartAssumption
     DEF TypeOK, Owned, Holds, Alive, Create, LockStep, FreeToTake, NoLock
<1>6. CASE Write(m)
  BY <1>0, <1>6 DEF TypeOK, Owned, Holds, Alive, Write, LockStep
<1>7. CASE Read(m)
  BY <1>0, <1>7 DEF TypeOK, Owned, Holds, Alive, Read, LockStep, Stale
<1>8. CASE GiveUp(m)
  BY <1>0, <1>8 DEF TypeOK, Owned, Holds, Alive, GiveUp, LockStep, Stale
<1>9. CASE Steal(m)
  BY <1>0, <1>9 DEF TypeOK, Owned, Holds, Alive, Steal, LockStep
<1>10. CASE Unlink(m)
  BY <1>0, <1>10 DEF TypeOK, Owned, Holds, Alive, Unlink, LockStep, NoLock
<1>11. CASE Release(m)
  BY <1>0, <1>11 DEF TypeOK, Owned, Holds, Alive, Release, LockStep
<1>12. CASE Unlock(m)
  <2>1. \A n \in Callers : n # m => ~Holds(n)
    BY <1>0, <1>12 DEF Owned, Unlock, TypeOK, Holds, Alive
  <2>2. stage' = [stage EXCEPT ![m] = "before"] /\ pc' = [pc EXCEPT ![m] = "out"]
    BY <1>12 DEF Unlock
  <2>. QED
    BY <1>0, <2>1, <2>2 DEF TypeOK, Owned, Holds, Alive
<1>13. CASE Send(m)
  BY <1>0, <1>13 DEF TypeOK, Owned, Holds, Alive, Send
<1>14. CASE Stopped(m)
  BY <1>0, <1>14 DEF TypeOK, Owned, Holds, Alive, Stopped
<1>15. CASE StillDrains(m)
  BY <1>0, <1>15 DEF TypeOK, Owned, Holds, Alive, StillDrains
<1>16. CASE Spawn(m)
  BY <1>0, <1>16 DEF TypeOK, Owned, Holds, Alive, Spawn
<1>17. CASE Record(m)
  BY <1>0, <1>17 DEF TypeOK, Owned, Holds, Alive, Record
<1>18. CASE RecordFails(m)
  BY <1>0, <1>18 DEF TypeOK, Owned, Holds, Alive, RecordFails, Fails
<1>19. CASE Ready(m)
  BY <1>0, <1>19 DEF TypeOK, Owned, Holds, Alive, Ready
<1>20. CASE ChildExited(m)
  BY <1>0, <1>20 DEF TypeOK, Owned, Holds, Alive, ChildExited, Fails
<1>21. CASE ReadyTimeout(m)
  BY <1>0, <1>21 DEF TypeOK, Owned, Holds, Alive, ReadyTimeout, Fails
<1>22. CASE Die(m)
  BY <1>0, <1>22 DEF TypeOK, Owned, Holds, Alive, Die
<1>23. CASE WriteFails(m)
  BY <1>0, <1>23 DEF TypeOK, Owned, Holds, Alive, WriteFails, LockStep
<1>24. QED
  BY <1>1, <1>2, <1>3, <1>4, <1>5, <1>6, <1>7, <1>8, <1>9, <1>10, <1>11, <1>12,
     <1>13, <1>14, <1>15, <1>16, <1>17, <1>18, <1>19, <1>20, <1>21, <1>22, <1>23 DEF
     Step

\* The inductive invariant, for any number of callers and Cores.
THEOREM IInvHolds == Spec => []IInv
<1>1. Init => IInv
  <2>1. ASSUME Init PROVE TypeOK
    <3>1. NoLock \in [by : Callers \cup {None}, written : BOOLEAN] /\ ~NoLock.written
      BY DEF NoLock
    <3>. QED
      BY <2>1, <3>1, AnswersAreTyped DEF Init, TypeOK
  <2>2. ASSUME Init PROVE Owned
    BY <2>2 DEF Init, Owned, Holds, Alive
  <2>. QED
    BY <2>1, <2>2 DEF IInv
<1>2. IInv /\ [Next]_vars => IInv'
  <2>. SUFFICES ASSUME IInv, [Next]_vars PROVE IInv'
    OBVIOUS
  <2>1. ASSUME NEW m \in Callers, Step(m) PROVE IInv'
    BY <2>1, StepKeepsTypes, StepKeepsOwned DEF IInv
  <2>2. ASSUME NEW c \in Cores,
               Bind(c) \/ Work(c) \/ IdleStop(c) \/ Exit(c)
                 \/ \E r \in Revisions : ServiceStarts(c, r)
        PROVE IInv'
    BY <2>2, CoresKeepTypes DEF IInv, Owned, Holds, Alive
  <2>3. CASE UNCHANGED vars
    BY <2>3 DEF vars, IInv, TypeOK, Owned, Holds, Alive
  <2>. QED
    BY <2>1, <2>2, <2>3 DEF Next
<1>. QED
  BY <1>1, <1>2, PTL DEF Spec

\* The state of the callers, the files and the Cores keeps its types: a caller
\* that waits for a child has one, and one that stops a Core knows which.
THEOREM TypeCorrect == Spec => []TypeOK
BY IInvHolds, PTL DEF IInv

\* At most one caller is past the lock until a caller dies.
THEOREM StartIsExclusive == Spec => []Exclusive
<1>1. IInv => Exclusive
  BY DEF IInv, Owned, Exclusive
<1>. QED
  BY <1>1, IInvHolds, PTL

\* A stop request a client sends is taken by a Core some client started.
THEOREM StrangersStay == Spec => StrangersAreSpared
<1>. DEFINE Spared == pc' # pc => \A c \in Cores :
       core[c] = "serving" /\ core'[c] = "draining" => c \in tokens
<1>1. TypeOK /\ [Next]_vars => [Spared]_vars
  <2>. SUFFICES ASSUME TypeOK, [Next]_vars, pc' # pc,
                       NEW c \in Cores, core[c] = "serving", core'[c] = "draining"
                PROVE  c \in tokens
    OBVIOUS
  <2>1. PICK m \in Callers : Step(m)
    BY CoresKeepTypes DEF Next, vars
  <2>2. CASE Send(m)
    BY <2>2 DEF TypeOK, Send, TakesToken, Serving
  <2>3. CASE Spawn(m)
    BY <2>3 DEF TypeOK, Spawn
  <2>4. CASE RecordFails(m)
    BY <2>4 DEF TypeOK, RecordFails, Kill, Gone
  <2>5. CASE UNCHANGED core
    BY <2>5
  <2>6. Send(m) \/ Spawn(m) \/ RecordFails(m) \/ UNCHANGED core
    BY <2>1
       DEF Step, Call, Look, LookMisses, Ask, Create, Write, WriteFails, Read,
          GiveUp, Steal,
           Unlink, Release, Unlock, Stopped, StillDrains, Record, Ready,
              ChildExited, ReadyTimeout, Die, LockStep
  <2>. QED
    BY <2>2, <2>3, <2>4, <2>5, <2>6
<1>. QED
  BY <1>1, TypeCorrect, PTL DEF Spec, StrangersAreSpared

-----------------------------------------------------------------------------
(* The records name the Core.  That needs the lock to be exclusive: it is     *)
(* while nobody has died, and it is among two callers, of which one is left.  *)

AtMostOneHolds == \A m, n \in Callers : Holds(m) /\ Holds(n) => m = n
Lockless == {"out", "create", "read", "steal", "unlink"}
Inside == {"write", "send", "drained", "spawn", "record", "token", "ready", "release", "unlock"}
Starting(m) == pc[m] \in {"record", "token", "ready"}
AllGoneBut(S) == \A c \in Cores \ S : core[c] = "gone"

\* Where a caller stands tells whether it is past the lock; a crash left a corpse.
Stages ==
  /\ \A m \in Callers : pc[m] \in Lockless => stage[m] = "before"
  /\ \A m \in Callers : pc[m] \in Inside => stage[m] # "before"
  /\ crashes <= MaxCrashes
  /\ crashes # 0 => \E m \in Callers : pc[m] = "dead"

\* Who is about to spawn is alone with no Core; who has spawned, with its child,
\* which the records come to name; otherwise the records name whoever serves.
RecordsFollow ==
  ~mishap =>
    /\ \A c \in Cores : core[c] # "gone" => c \in tokens
    /\ \A m \in Callers : pc[m] = "spawn" => AllGoneBut({})
    /\ \A m \in Callers :
         /\ Starting(m) => AllGoneBut({child[m]})
         /\ pc[m] \in {"token", "ready"} => runtime = child[m]
         /\ pc[m] = "ready" => control = child[m]
    /\ (\A m \in Callers : ~Starting(m)) =>
         \A c \in Cores : core[c] # "gone" => c \in Serving /\ runtime = c /\ control = c

LEMMA StepKeepsStages ==
  ASSUME TypeOK, Stages, NEW m \in Callers, Step(m)
  PROVE  Stages'
<1>. USE DEF Stages, Lockless, Inside, TypeOK
<1>1. ASSUME Die(m) PROVE Stages'
  <2>1. pc'[m] = "dead" /\ crashes' \in Nat /\ crashes' <= MaxCrashes
    BY <1>1, StartAssumption DEF Die
  <2>. QED
    BY <1>1, <2>1 DEF Die
<1>2. ASSUME ~Die(m) PROVE UNCHANGED crashes /\ pc[m] # "dead"
  BY <1>2 DEF Step, Call, Look, LookMisses, Ask, Create, Write, WriteFails, Read,
     GiveUp, Steal, Unlink, Release, Unlock, Send, Stopped, StillDrains, Spawn,
     Record, RecordFails, Ready, ChildExited, ReadyTimeout, LockStep, Fails
<1>3. ASSUME ~Die(m)
      PROVE  /\ \A n \in Callers : n # m => pc'[n] = pc[n] /\ stage'[n] = stage[n]
             /\ pc'[m] \in Lockless => stage'[m] = "before"
             /\ pc'[m] \in Inside => stage'[m] # "before"
  <2>1. CASE Call(m)
    BY <2>1 DEF Call
  <2>2. CASE Look(m)
    BY <2>2 DEF Look, IfAbsent
  <2>3. CASE LookMisses(m)
    BY <2>3 DEF LookMisses, IfAbsent
  <2>4. CASE Ask(m)
    BY <2>4 DEF Ask, IfOver
  <2>5. CASE Create(m) \/ Write(m) \/ WriteFails(m) \/ Read(m) \/ GiveUp(m)
    BY <2>5 DEF Create, Write, WriteFails, Read, GiveUp, LockStep
  <2>6. CASE Steal(m) \/ Unlink(m) \/ Release(m) \/ Unlock(m)
    BY <2>6 DEF Steal, Unlink, Release, Unlock, LockStep
  <2>7. CASE Send(m) \/ Stopped(m) \/ StillDrains(m)
    BY <2>7 DEF Send, Stopped, StillDrains
  <2>8. CASE Spawn(m) \/ Record(m) \/ RecordFails(m)
    BY <2>8 DEF Spawn, Record, RecordFails, Fails
  <2>9. CASE Ready(m) \/ ChildExited(m) \/ ReadyTimeout(m)
    BY <2>9 DEF Ready, ChildExited, ReadyTimeout, Fails
  <2>. QED
    BY <1>3, <2>1, <2>2, <2>3, <2>4, <2>5, <2>6, <2>7, <2>8, <2>9 DEF Step
<1>4. ASSUME ~Die(m) PROVE Stages'
  BY <1>2, <1>3, <1>4
<1>. QED
  BY <1>1, <1>4

\* Whoever is past the lock is alone there.
LEMMA Alone ==
  ASSUME Stages, AtMostOneHolds, NEW m \in Callers, pc[m] # "dead", stage[m] # "before"
  PROVE  \A n \in Callers : n # m => pc[n] \notin Inside
BY DEF Stages, AtMostOneHolds, Holds, Alive, Inside

\* Steps that leave Cores and records alone, and start no spawn.
LEMMA QuietStepsFollow ==
  ASSUME TypeOK, RecordsFollow, NEW m \in Callers,
         UNCHANGED <<core, tokens, runtime, control>>, mishap => mishap',
         \A n \in Callers : n # m => pc'[n] = pc[n] /\ child'[n] = child[n],
         pc'[m] \notin {"spawn", "record", "token", "ready"}, ~Starting(m)
  PROVE  RecordsFollow'
BY DEF TypeOK, RecordsFollow, Starting, AllGoneBut, Serving

\* A caller that looks spawns only where it found no Core.
LEMMA LooksFollow ==
  ASSUME TypeOK, Stages, RecordsFollow, AtMostOneHolds, NEW m \in Callers,
         Look(m) \/ LookMisses(m) \/ Ask(m) \/ StillDrains(m)
  PROVE  RecordsFollow'
<1>. SUFFICES ASSUME ~mishap' PROVE RecordsFollow'
  BY DEF RecordsFollow
<1>1. /\ UNCHANGED <<core, tokens, runtime, control, child, mishap>>
      /\ \A n \in Callers : n # m => pc'[n] = pc[n]
      /\ pc'[m] \notin {"record", "token", "ready"} /\ ~Starting(m)
      /\ pc'[m] = "spawn" => Serving = {} /\ stage[m] # "before" /\ pc[m] # "dead"
  <2>1. CASE Look(m)
    BY <2>1 DEF TypeOK, Look, IfAbsent, Starting
  <2>2. CASE Ask(m)
    BY <2>2 DEF TypeOK, Ask, IfOver, Starting
  <2>3. CASE StillDrains(m)
    BY <2>3 DEF TypeOK, Stages, Inside, StillDrains, Starting
  <2>. QED
    BY <2>1, <2>2, <2>3 DEF LookMisses
<1>2. CASE pc'[m] # "spawn"
  BY <1>1, <1>2, QuietStepsFollow
<1>3. CASE pc'[m] = "spawn"
  <2>1. \A n \in Callers : ~Starting(n)
    BY <1>1, <1>3, Alone DEF Starting, Inside
  <2>2. \A c \in Cores : core[c] = "gone"
    BY <1>1, <1>3, <2>1 DEF RecordsFollow
  <2>. QED
    BY <1>1, <2>1, <2>2 DEF RecordsFollow, Starting, AllGoneBut
<1>. QED
  BY <1>2, <1>3

\* The records of a Core that was seen to be gone are forgotten with it.
LEMMA StopsFollow ==
  ASSUME TypeOK, Stages, RecordsFollow, AtMostOneHolds, NEW m \in Callers,
         Send(m) \/ Stopped(m)
  PROVE  RecordsFollow'
<1>. SUFFICES ASSUME ~mishap' PROVE RecordsFollow'
  BY DEF RecordsFollow
<1>1. /\ \A n \in Callers : n # m => pc'[n] = pc[n] /\ pc[n] \notin Inside
      /\ UNCHANGED <<tokens, child>> /\ ~mishap
      /\ pc'[m] \in {"drained", "release", "spawn"}
      /\ pc[m] \in {"send", "drained"}
  BY Alone DEF TypeOK, Stages, Inside, Send, Stopped
<1>2. \A n \in Callers : ~Starting(n) /\ ~Starting(n)'
  BY <1>1 DEF Starting, Inside
<1>3. CASE Send(m)
  <2>1. /\ UNCHANGED <<runtime, control>> /\ pc'[m] # "spawn"
        /\ \A c \in Cores : core'[c] # "gone" => core[c] # "gone"
        /\ \A c \in Cores : core'[c] = core[c] \/ core'[c] = "draining"
    BY <1>3 DEF TypeOK, Send, Serving
  <2>. QED
    BY <1>1, <1>2, <2>1 DEF RecordsFollow, Starting, AllGoneBut, Serving, Inside
<1>4. CASE Stopped(m)
  <2>1. UNCHANGED core /\ Serving = {}
    BY <1>4 DEF Stopped
  <2>2. \A c \in Cores : core[c] = "gone"
    BY <1>1, <1>2, <2>1 DEF RecordsFollow
  <2>. QED
    BY <1>1, <1>2, <2>1, <2>2 DEF RecordsFollow, Starting, AllGoneBut
<1>. QED
  BY <1>3, <1>4

\* Between a spawn and its answer the records come to name the child.
LEMMA StartsFollow ==
  ASSUME TypeOK, Stages, RecordsFollow, AtMostOneHolds, NEW m \in Callers,
         Spawn(m) \/ Record(m) \/ RecordFails(m) \/ Ready(m) \/ ChildExited(m)
  PROVE  RecordsFollow'
<1>. SUFFICES ASSUME ~mishap' PROVE RecordsFollow'
  BY DEF RecordsFollow
<1>1. /\ \A n \in Callers : n # m => pc'[n] = pc[n] /\ child'[n] = child[n]
      /\ ~mishap /\ pc[m] \in {"spawn", "record", "token", "ready"}
  BY DEF TypeOK, Spawn, Record, RecordFails, Ready, ChildExited, Fails
<1>2. \A n \in Callers : n # m => pc[n] \notin Inside
  BY <1>1, Alone DEF Stages, Inside
<1>3. CASE Spawn(m)
  <2>1. PICK c \in Cores :
          /\ core' = [core EXCEPT ![c] = "starting"] /\ tokens' = tokens \cup {c}
          /\ child' = [child EXCEPT ![m] = c]
    BY <1>3 DEF Spawn
  <2>2. \A d \in Cores : core[d] = "gone"
    BY <1>1, <1>3 DEF RecordsFollow, AllGoneBut, Spawn
  <2>3. pc'[m] = "record" /\ child'[m] = c /\ \A d \in Cores \ {c} : core'[d] = "gone"
    BY <1>3, <2>1, <2>2 DEF Spawn, TypeOK
  <2>. QED
    BY <1>1, <1>2, <2>1, <2>2, <2>3
       DEF TypeOK, RecordsFollow, Starting, AllGoneBut, Inside
<1>4. CASE Record(m)
  <2>1. UNCHANGED <<core, tokens, child>> /\ Starting(m) /\ Starting(m)'
    BY <1>4 DEF TypeOK, Record, Starting
  <2>2. /\ pc'[m] \in {"token", "ready"} => runtime' = child[m]
        /\ pc'[m] = "ready" => control' = child[m]
    BY <1>1, <1>4 DEF TypeOK, RecordsFollow, Record
  <2>. QED
    BY <1>1, <1>2, <2>1, <2>2 DEF RecordsFollow, Starting, AllGoneBut, Inside
<1>5. CASE RecordFails(m)
  <2>1. pc'[m] = "release" /\ \A c \in Cores : core'[c] = "gone"
    BY <1>1, <1>5
       DEF TypeOK, RecordsFollow, AllGoneBut, Starting, RecordFails, Kill, Gone, Fails
  <2>. QED
    BY <1>1, <1>2, <2>1 DEF RecordsFollow, Starting, AllGoneBut, Inside
<1>6. CASE Ready(m)
  <2>1. PICK d \in Serving : TRUE
    BY <1>6 DEF Ready
  <2>2. /\ child[m] = d /\ runtime = d /\ control = d
        /\ \A c \in Cores \ {d} : core[c] = "gone"
    BY <1>1, <1>6, <2>1 DEF RecordsFollow, AllGoneBut, Starting, Serving, Ready
  <2>3. UNCHANGED <<core, tokens, runtime, control>> /\ pc'[m] = "release"
    BY <1>6 DEF Ready, TypeOK
  <2>. QED
    BY <1>1, <1>2, <2>1, <2>2, <2>3
       DEF RecordsFollow, Starting, AllGoneBut, Serving, Inside
<1>7. CASE ChildExited(m)
  <2>1. UNCHANGED core /\ pc'[m] = "release" /\ \A c \in Cores : core[c] = "gone"
    BY <1>1, <1>7 DEF TypeOK, RecordsFollow, AllGoneBut, Starting, ChildExited, Fails
  <2>. QED
    BY <1>1, <1>2, <2>1 DEF RecordsFollow, Starting, AllGoneBut, Inside
<1>. QED
  BY <1>3, <1>4, <1>5, <1>6, <1>7

\* Every step of a caller keeps the records those of the Core.
LEMMA StepKeepsRecords ==
  ASSUME TypeOK, Stages, RecordsFollow, AtMostOneHolds, NEW m \in Callers, Step(m)
  PROVE  RecordsFollow'
<1>1. CASE Call(m) \/ Create(m) \/ Write(m) \/ WriteFails(m) \/ Read(m) \/ GiveUp(m)
             \/ Steal(m) \/ Unlink(m) \/ Release(m) \/ Unlock(m)
  <2>1. /\ UNCHANGED <<core, tokens, runtime, control, child, mishap>>
        /\ \A n \in Callers : n # m => pc'[n] = pc[n]
        /\ pc'[m] \notin {"spawn", "record", "token", "ready"} /\ ~Starting(m)
    BY <1>1 DEF TypeOK, Call, Create, Write, WriteFails, Read, GiveUp, Steal, Unlink,
       Release, Unlock, LockStep, Starting
  <2>. QED
    BY <2>1, QuietStepsFollow
<1>2. CASE Look(m) \/ LookMisses(m) \/ Ask(m) \/ StillDrains(m)
  BY <1>2, LooksFollow
<1>3. CASE Send(m) \/ Stopped(m)
  BY <1>3, StopsFollow
<1>4. CASE Spawn(m) \/ Record(m) \/ RecordFails(m) \/ Ready(m) \/ ChildExited(m)
  BY <1>4, StartsFollow
<1>5. CASE ReadyTimeout(m)
  BY <1>5 DEF ReadyTimeout, RecordsFollow
<1>6. CASE Die(m)
  <2>1. CASE Starting(m)
    BY <1>6, <2>1 DEF Die, Starting, RecordsFollow
  <2>2. CASE ~Starting(m)
    <3>1. /\ UNCHANGED <<core, tokens, runtime, control>> /\ (mishap => mishap')
          /\ \A n \in Callers : n # m => pc'[n] = pc[n] /\ child'[n] = child[n]
          /\ pc'[m] = "dead"
      BY <1>6 DEF TypeOK, Die
    <3>. QED
      BY <2>2, <3>1, QuietStepsFollow
  <2>. QED
    BY <2>1, <2>2
<1>. QED
  BY <1>1, <1>2, <1>3, <1>4, <1>5, <1>6 DEF Step

\* So does every step of a Core: it binds the port only where it is alone.
LEMMA CoresKeepRecords ==
  ASSUME TypeOK, RecordsFollow, NEW c \in Cores,
         Bind(c) \/ Work(c) \/ IdleStop(c) \/ Exit(c)
           \/ \E r \in Revisions : ServiceStarts(c, r)
  PROVE  RecordsFollow'
<1>. USE DEF TypeOK, RecordsFollow, AllGoneBut, Starting, Serving, CoreStep
<1>1. CASE Bind(c)
  BY <1>1 DEF Bind, Gone
<1>2. CASE Work(c)
  BY <1>2 DEF Work
<1>3. CASE IdleStop(c)
  BY <1>3 DEF IdleStop
<1>4. CASE Exit(c)
  BY <1>4 DEF Exit, Gone
<1>5. CASE \E r \in Revisions : ServiceStarts(c, r)
  BY <1>5 DEF ServiceStarts
<1>. QED
  BY <1>1, <1>2, <1>3, <1>4, <1>5

\* A Core that answers is named by both records, with its token, whatever the
\* callers, Cores and revisions: when no caller dies, and among two callers when
\* one does.  (With three, two that find the corpse's lock may both pass it.)
THEOREM CoreIsNamed ==
  ASSUME MaxCrashes = 0 \/ \A a, b, c \in Callers : a = b \/ b = c \/ a = c
  PROVE  Spec => []RecordsNameCore
<1>. DEFINE Inv == Stages /\ RecordsFollow
<1>1. IInv /\ Stages => AtMostOneHolds
  <2>. SUFFICES ASSUME IInv, Stages PROVE AtMostOneHolds
    OBVIOUS
  <2>1. CASE crashes = 0
    BY <2>1 DEF IInv, Owned, AtMostOneHolds
  <2>2. CASE crashes # 0
    <3>1. MaxCrashes # 0
      BY <2>2, StartAssumption DEF IInv, TypeOK, Stages
    <3>2. PICK d \in Callers : pc[d] = "dead"
      BY <2>2 DEF Stages
    <3>. QED
      BY <3>1, <3>2 DEF AtMostOneHolds, Holds, Alive
  <2>. QED
    BY <2>1, <2>2
<1>2. Init => Inv
  <2>1. ASSUME Init PROVE Stages
    BY <2>1, StartAssumption DEF Init, Stages, Lockless, Inside
  <2>2. ASSUME Init PROVE RecordsFollow
    BY <2>2 DEF Init, RecordsFollow, AllGoneBut, Starting
  <2>. QED
    BY <2>1, <2>2
<1>3. IInv /\ Inv /\ [Next]_vars => Inv'
  <2>. SUFFICES ASSUME IInv, Inv, [Next]_vars PROVE Inv'
    OBVIOUS
  <2>0. TypeOK /\ AtMostOneHolds
    BY <1>1 DEF IInv
  <2>1. ASSUME NEW m \in Callers, Step(m) PROVE Inv'
    BY <2>0, <2>1, StepKeepsStages, StepKeepsRecords
  <2>2. ASSUME NEW c \in Cores,
               Bind(c) \/ Work(c) \/ IdleStop(c) \/ Exit(c)
                 \/ \E r \in Revisions : ServiceStarts(c, r)
        PROVE Inv'
    <3>1. RecordsFollow'
      BY <2>0, <2>2, CoresKeepRecords
    <3>2. Stages'
      BY <2>0, <2>2, CoresKeepTypes DEF Stages
    <3>. QED
      BY <3>1, <3>2
  <2>3. CASE UNCHANGED vars
    BY <2>3 DEF vars, Stages, RecordsFollow, AllGoneBut, Starting, Serving
  <2>. QED
    BY <2>1, <2>2, <2>3 DEF Next
<1>4. IInv /\ Inv => RecordsNameCore
  BY DEF IInv, RecordsFollow, RecordsNameCore, Starting, Managed, Serving, TypeOK
<1>. QED
  BY <1>2, <1>3, <1>4, IInvHolds, PTL DEF Spec

-----------------------------------------------------------------------------
(* What clients see of a conversation.  First, what a fold does: the        *)
(* library writes it as the fixed point of a function over the subsets of   *)
(* the indices, the largest index taken off first.  Here such functions     *)
(* are shown to exist and to agree, by an induction over a set of numbers.  *)

\* The induction of the naturals, for a set in place of a predicate.
LEMMA Upward ==
  ASSUME NEW S, 0 \in S, \A n \in Nat : n \in S => n + 1 \in S
  PROVE  \A n \in Nat : n \in S
<1> DEFINE R == OpToRel(<, Nat)
           T == Nat \ S
<1>1. IsWellFoundedOn(R, Nat)
  BY NatLessThanWellFounded
<1>2. \A x, y \in Nat : y < x => <<y, x>> \in R
  BY DEF OpToRel
<1> HIDE DEF R
<1>3. SUFFICES ASSUME T # {} PROVE FALSE
  OBVIOUS
<1>4. PICK n \in T : \A m \in T : <<m, n>> \notin R
  <2>1. T \subseteq Nat
    OBVIOUS
  <2> HIDE DEF T
  <2> QED BY <1>1, <1>3, <2>1, WFMin
<1>5. n \in Nat /\ n # 0 /\ n - 1 \in Nat /\ n - 1 < n /\ n = (n - 1) + 1
  BY <1>4
<1>6. n - 1 \in S
  BY <1>2, <1>4, <1>5
<1> QED BY <1>4, <1>5, <1>6

\* A set of indices has a largest one.
LEMMA Largest ==
  ASSUME NEW n \in Nat, NEW s \in SUBSET (1 .. n), s # {}
  PROVE  Max(s) \in s /\ \A i \in s : i <= Max(s)
<1> DEFINE S == {k \in Nat : \A t \in SUBSET (1 .. k) : t # {} => \E i \in t : \A j \in t : j <= i}
<1>1. 0 \in S
  <2>1. 1 .. 0 = {}
    OBVIOUS
  <2> QED BY <2>1
<1>2. ASSUME NEW k \in Nat, k \in S PROVE k + 1 \in S
  <2> SUFFICES ASSUME NEW t \in SUBSET (1 .. k + 1), t # {}
               PROVE  \E i \in t : \A j \in t : j <= i
    OBVIOUS
  <2>1. CASE k + 1 \in t
    BY <2>1
  <2>2. CASE k + 1 \notin t
    <3>1. t \in SUBSET (1 .. k)
      BY <2>2
    <3> QED BY <1>2, <3>1
  <2> QED BY <2>1, <2>2
<1>3. n \in S
  <2> HIDE DEF S
  <2> QED BY <1>1, <1>2, Upward
<1>4. \E i \in s : \A j \in s : i >= j
  BY <1>3
<1>5. Max(s) \in s /\ \A j \in s : Max(s) >= j
  BY <1>4 DEF Max
<1>6. \A j \in s : j \in Nat
  OBVIOUS
<1> QED BY <1>5, <1>6

\* The largest of the first n indices, and what is left of a set of them.
LEMMA TopIndex ==
  ASSUME NEW n \in Nat
  PROVE  /\ Max(1 .. n + 1) = n + 1
         /\ (1 .. n + 1) \ {Max(1 .. n + 1)} = 1 .. n
         /\ 1 .. n + 1 # {} /\ 1 .. n \in SUBSET (1 .. n + 1)
<1>1. Max(1 .. n + 1) \in 1 .. n + 1 /\ \A i \in 1 .. n + 1 : i <= Max(1 .. n + 1)
  <2>1. n + 1 \in 1 .. n + 1 /\ n + 1 \in Nat
    OBVIOUS
  <2>2. 1 .. n + 1 # {} /\ 1 .. n + 1 \in SUBSET (1 .. n + 1)
    BY <2>1
  <2> QED BY <2>1, <2>2, Largest
<1>2. n + 1 \in 1 .. n + 1 /\ n + 1 >= Max(1 .. n + 1) /\ n + 1 <= Max(1 .. n + 1)
  BY <1>1
<1>3. Max(1 .. n + 1) = n + 1
  BY <1>1, <1>2
<1>4. (1 .. n + 1) \ {n + 1} = 1 .. n
  OBVIOUS
<1> QED BY <1>2, <1>3, <1>4

\* What is left of a set of indices without its largest.
LEMMA LesserSet ==
  ASSUME NEW n \in Nat, NEW s \in SUBSET (1 .. n + 1), s # {}
  PROVE  s \ {Max(s)} \in SUBSET (1 .. n)
<1>1. Max(s) \in s /\ \A i \in s : i <= Max(s)
  <2>1. n + 1 \in Nat
    OBVIOUS
  <2> QED BY <2>1, Largest
<1>2. ASSUME NEW i \in s, i # Max(s) PROVE i \in 1 .. n
  <2>1. i \in 1 .. n + 1 /\ Max(s) \in 1 .. n + 1 /\ i <= Max(s)
    BY <1>1
  <2> QED BY <1>2, <2>1
<1> QED BY <1>2

\* Two lists begin alike.
Alike(p, q, n) == \A i \in 1 .. n : p[i] = q[i]

\* Two functions agree on the beginnings of a list.
Together(g, h, n) == \A s \in SUBSET (1 .. n) : g[s] = h[s]

\* ApplyAll, as such a function.
Applies(it, base, seq, n) ==
  it = [s \in SUBSET (1 .. n) |->
          IF s = {} THEN base ELSE Apply(it[s \ {Max(s)}], seq[Max(s)])]

\* For every length there is one.
LEMMA ApplyExists ==
  ASSUME NEW base, NEW seq
  PROVE  \A n \in Nat : \E it : Applies(it, base, seq, n)
<1> DEFINE S == {n \in Nat : \E it : Applies(it, base, seq, n)}
<1>1. 0 \in S
  <2> DEFINE it == [s \in SUBSET (1 .. 0) |-> base]
  <2>1. \A s \in SUBSET (1 .. 0) : s = {}
    <3>1. 1 .. 0 = {}
      OBVIOUS
    <3> QED BY <3>1
  <2>2. Applies(it, base, seq, 0)
    BY <2>1 DEF Applies
  <2> QED BY <2>2
<1>2. ASSUME NEW n \in Nat, n \in S PROVE n + 1 \in S
  <2>1. PICK g : Applies(g, base, seq, n)
    BY <1>2
  <2> DEFINE h == [s \in SUBSET (1 .. n + 1) |->
                     IF s = {} THEN base ELSE Apply(g[s \ {Max(s)}], seq[Max(s)])]
  <2>2. \A s \in SUBSET (1 .. n) : h[s] = g[s]
    <3>1. \A s \in SUBSET (1 .. n) : s \in SUBSET (1 .. n + 1)
      OBVIOUS
    <3> QED BY <2>1, <3>1 DEF Applies
  <2>3. \A s \in SUBSET (1 .. n + 1) : s # {} => h[s \ {Max(s)}] = g[s \ {Max(s)}]
    BY <2>2, LesserSet
  <2>4. h = [s \in SUBSET (1 .. n + 1) |->
               IF s = {} THEN base ELSE Apply(h[s \ {Max(s)}], seq[Max(s)])]
    <3> HIDE DEF h
    <3>1. h = [s \in SUBSET (1 .. n + 1) |->
                 IF s = {} THEN base ELSE Apply(g[s \ {Max(s)}], seq[Max(s)])]
      BY DEF h
    <3> QED BY <2>3, <3>1
  <2>5. Applies(h, base, seq, n + 1)
    <3> HIDE DEF h
    <3> QED BY <2>4 DEF Applies
  <2> QED BY <2>5
<1>3. \A n \in Nat : n \in S
  <2> HIDE DEF S
  <2> QED BY <1>1, <1>2, Upward
<1> QED BY <1>3

\* Two that unroll over the same beginning agree on it.
LEMMA ApplyAgree ==
  ASSUME NEW base, NEW p, NEW q, NEW n \in Nat, NEW m \in Nat, n <= m,
         Alike(p, q, n), NEW g, Applies(g, base, p, n), NEW h, Applies(h, base, q, m)
  PROVE  Together(g, h, n)
<1> DEFINE S == {k \in Nat : k <= n => \A s \in SUBSET (1 .. k) : g[s] = h[s]}
<1>1. \A s \in SUBSET (1 .. n) :
        s # {} => /\ Max(s) \in 1 .. n /\ s \in SUBSET (1 .. m)
                  /\ g[s] = Apply(g[s \ {Max(s)}], p[Max(s)])
                  /\ h[s] = Apply(h[s \ {Max(s)}], q[Max(s)])
  <2> SUFFICES ASSUME NEW s \in SUBSET (1 .. n), s # {}
               PROVE  /\ Max(s) \in 1 .. n /\ s \in SUBSET (1 .. m)
                      /\ g[s] = Apply(g[s \ {Max(s)}], p[Max(s)])
                      /\ h[s] = Apply(h[s \ {Max(s)}], q[Max(s)])
    OBVIOUS
  <2>1. Max(s) \in s
    BY Largest
  <2>2. s \in SUBSET (1 .. m)
    <3>1. 1 .. n \subseteq 1 .. m
      OBVIOUS
    <3>2. s \subseteq 1 .. n
      OBVIOUS
    <3> HIDE DEF S
    <3> QED BY ONLY <3>1, <3>2
  <2> QED BY <2>1, <2>2 DEF Applies
<1>2. 0 \in S
  <2>1. \A s \in SUBSET (1 .. 0) : s = {}
    <3>1. 1 .. 0 = {}
      OBVIOUS
    <3> QED BY <3>1
  <2>2. g[{}] = base /\ h[{}] = base
    BY DEF Applies
  <2> QED BY <2>1, <2>2
<1>3. ASSUME NEW k \in Nat, k \in S PROVE k + 1 \in S
  <2>1. ASSUME k + 1 <= n, NEW s \in SUBSET (1 .. k + 1) PROVE g[s] = h[s]
    <3>1. CASE s = {}
      BY <3>1 DEF Applies
    <3>2. CASE s # {}
      <4>1. s \ {Max(s)} \in SUBSET (1 .. k)
        BY <3>2, LesserSet
      <4>2. g[s \ {Max(s)}] = h[s \ {Max(s)}]
        <5>1. k <= n
          BY <2>1
        <5> QED BY <1>3, <4>1, <5>1
      <4>3. s \in SUBSET (1 .. n)
        <5>1. 1 .. k + 1 \subseteq 1 .. n
          BY <2>1
        <5> HIDE DEF S
        <5> QED BY <2>1, <5>1
      <4>4. Max(s) \in 1 .. n
        BY <1>1, <3>2, <4>3
      <4>5. p[Max(s)] = q[Max(s)]
        BY <4>4 DEF Alike
      <4>6. g[s] = Apply(g[s \ {Max(s)}], p[Max(s)]) /\ h[s] = Apply(h[s \ {Max(s)}], q[Max(s)])
        BY <1>1, <3>2, <4>3
      <4> QED BY <4>2, <4>5, <4>6
    <3> QED BY <3>1, <3>2
  <2>2. k + 1 \in Nat
    OBVIOUS
  <2> QED BY <2>1, <2>2
<1>4. n \in S
  <2> HIDE DEF S
  <2> QED BY <1>2, <1>3, Upward
<1> QED BY <1>4 DEF Together

\* And the library's fold is its value for all indices.
LEMMA ApplyUnrolls ==
  ASSUME NEW base, NEW T, NEW seq \in Seq(T), NEW it, Applies(it, base, seq, Len(seq))
  PROVE  ApplyAll(base, seq) = it[1 .. Len(seq)]
<1> DEFINE G(g) == g = [s \in SUBSET (1 .. Len(seq)) |->
                          IF s = {} THEN base ELSE Apply(g[s \ {Max(s)}], seq[Max(s)])]
           c == CHOOSE g : G(g)
<1>1. DOMAIN seq = 1 .. Len(seq) /\ Len(seq) \in Nat
  OBVIOUS
<1>2. ApplyAll(base, seq) = c[1 .. Len(seq)]
  BY <1>1 DEF ApplyAll, FoldLeft, MapThenFoldSet
<1>3. G(it)
  BY DEF Applies
<1>4. G(c)
  <2> HIDE DEF G
  <2> QED BY <1>3
<1>5. Applies(c, base, seq, Len(seq))
  <2> HIDE DEF c
  <2> QED BY <1>4 DEF Applies
<1>6. \A s \in SUBSET (1 .. Len(seq)) : c[s] = it[s]
  <2> HIDE DEF c
  <2>1. Len(seq) <= Len(seq) /\ Alike(seq, seq, Len(seq))
    BY <1>1 DEF Alike
  <2>2. Applies(it, base, seq, Len(seq))
    OBVIOUS
  <2> DEFINE n == Len(seq)
  <2>3. n \in Nat /\ n <= n /\ Alike(seq, seq, n)
        /\ Applies(c, base, seq, n) /\ Applies(it, base, seq, n)
    BY <1>1, <1>5, <2>1, <2>2
  <2> HIDE DEF n
  <2>4. Together(c, it, n)
    BY <2>3, ApplyAgree
  <2> QED BY <2>4 DEF n, Together
<1> QED BY <1>2, <1>6

\* Nothing to apply changes nothing.
LEMMA ApplyEmpty == ASSUME NEW base PROVE ApplyAll(base, <<>>) = base
<1>1. <<>> \in Seq({}) /\ Len(<<>>) = 0 /\ 1 .. 0 = {}
  OBVIOUS
<1>2. PICK it : Applies(it, base, <<>>, 0)
  BY ApplyExists
<1>3. ApplyAll(base, <<>>) = it[1 .. 0]
  <2>1. Applies(it, base, <<>>, Len(<<>>))
    BY <1>1, <1>2
  <2>2. ApplyAll(base, <<>>) = it[1 .. Len(<<>>)]
    BY <1>1, <2>1, ApplyUnrolls
  <2> QED BY <1>1, <2>2
<1>4. it[{}] = base
  BY <1>2 DEF Applies
<1> QED BY <1>1, <1>3, <1>4

\* One more is applied last.
LEMMA ApplyAppend ==
  ASSUME NEW base, NEW T, NEW seq \in Seq(T), NEW e \in T
  PROVE  ApplyAll(base, Append(seq, e)) = Apply(ApplyAll(base, seq), e)
<1> DEFINE n == Len(seq)
           q == Append(seq, e)
<1>1. n \in Nat /\ q \in Seq(T) /\ Len(q) = n + 1 /\ q[n + 1] = e
      /\ \A i \in 1 .. n : seq[i] = q[i]
  OBVIOUS
<1> HIDE DEF n, q
<1>2. PICK g : Applies(g, base, seq, n)
  BY <1>1, ApplyExists
<1>3. PICK h : Applies(h, base, q, n + 1)
  <2>1. n + 1 \in Nat
    BY <1>1
  <2> QED BY <2>1, ApplyExists
<1>4. g[1 .. n] = h[1 .. n]
  <2> DEFINE m == n + 1
  <2>1. /\ n \in Nat /\ m \in Nat /\ n <= m /\ Alike(seq, q, n)
        /\ Applies(g, base, seq, n) /\ Applies(h, base, q, m)
    BY <1>1, <1>2, <1>3 DEF Alike
  <2> HIDE DEF m
  <2>2. Together(g, h, n)
    BY <2>1, ApplyAgree
  <2> DEFINE r == 1 .. n
  <2>3. \A s \in SUBSET r : g[s] = h[s]
    BY <2>2 DEF Together
  <2> HIDE DEF r
  <2>4. r \in SUBSET r
    OBVIOUS
  <2>5. g[r] = h[r]
    BY <2>3, <2>4
  <2> QED BY <2>5 DEF r
<1>5. h[1 .. n + 1] = Apply(h[1 .. n], e)
  <2>1. h[1 .. n + 1] = Apply(h[(1 .. n + 1) \ {Max(1 .. n + 1)}], q[Max(1 .. n + 1)])
    BY <1>1, <1>3, TopIndex DEF Applies
  <2> QED BY <1>1, <2>1, TopIndex
<1>6. ApplyAll(base, seq) = g[1 .. n]
  BY <1>2, ApplyUnrolls DEF n
<1>7. ApplyAll(base, q) = h[1 .. n + 1]
  BY <1>1, <1>3, ApplyUnrolls
<1> QED BY <1>4, <1>5, <1>6, <1>7 DEF q

\* The reading of a channel, the same way.
Receives(it, base, seq, n) ==
  it = [s \in SUBSET (1 .. n) |->
          IF s = {} THEN base ELSE Receive(it[s \ {Max(s)}], seq[Max(s)])]

\* For every length there is one.
LEMMA ReadExists ==
  ASSUME NEW base, NEW seq
  PROVE  \A n \in Nat : \E it : Receives(it, base, seq, n)
<1> DEFINE S == {n \in Nat : \E it : Receives(it, base, seq, n)}
<1>1. 0 \in S
  <2> DEFINE it == [s \in SUBSET (1 .. 0) |-> base]
  <2>1. \A s \in SUBSET (1 .. 0) : s = {}
    <3>1. 1 .. 0 = {}
      OBVIOUS
    <3> QED BY <3>1
  <2>2. Receives(it, base, seq, 0)
    BY <2>1 DEF Receives
  <2> QED BY <2>2
<1>2. ASSUME NEW n \in Nat, n \in S PROVE n + 1 \in S
  <2>1. PICK g : Receives(g, base, seq, n)
    BY <1>2
  <2> DEFINE h == [s \in SUBSET (1 .. n + 1) |->
                     IF s = {} THEN base ELSE Receive(g[s \ {Max(s)}], seq[Max(s)])]
  <2>2. \A s \in SUBSET (1 .. n) : h[s] = g[s]
    <3>1. \A s \in SUBSET (1 .. n) : s \in SUBSET (1 .. n + 1)
      OBVIOUS
    <3> QED BY <2>1, <3>1 DEF Receives
  <2>3. \A s \in SUBSET (1 .. n + 1) : s # {} => h[s \ {Max(s)}] = g[s \ {Max(s)}]
    BY <2>2, LesserSet
  <2>4. h = [s \in SUBSET (1 .. n + 1) |->
               IF s = {} THEN base ELSE Receive(h[s \ {Max(s)}], seq[Max(s)])]
    <3> HIDE DEF h
    <3>1. h = [s \in SUBSET (1 .. n + 1) |->
                 IF s = {} THEN base ELSE Receive(g[s \ {Max(s)}], seq[Max(s)])]
      BY DEF h
    <3> QED BY <2>3, <3>1
  <2>5. Receives(h, base, seq, n + 1)
    <3> HIDE DEF h
    <3> QED BY <2>4 DEF Receives
  <2> QED BY <2>5
<1>3. \A n \in Nat : n \in S
  <2> HIDE DEF S
  <2> QED BY <1>1, <1>2, Upward
<1> QED BY <1>3

\* Two that unroll over the same beginning agree on it.
LEMMA ReadAgree ==
  ASSUME NEW base, NEW p, NEW q, NEW n \in Nat, NEW m \in Nat, n <= m,
         Alike(p, q, n), NEW g, Receives(g, base, p, n), NEW h, Receives(h, base, q, m)
  PROVE  Together(g, h, n)
<1> DEFINE S == {k \in Nat : k <= n => \A s \in SUBSET (1 .. k) : g[s] = h[s]}
<1>1. \A s \in SUBSET (1 .. n) :
        s # {} => /\ Max(s) \in 1 .. n /\ s \in SUBSET (1 .. m)
                  /\ g[s] = Receive(g[s \ {Max(s)}], p[Max(s)])
                  /\ h[s] = Receive(h[s \ {Max(s)}], q[Max(s)])
  <2> SUFFICES ASSUME NEW s \in SUBSET (1 .. n), s # {}
               PROVE  /\ Max(s) \in 1 .. n /\ s \in SUBSET (1 .. m)
                      /\ g[s] = Receive(g[s \ {Max(s)}], p[Max(s)])
                      /\ h[s] = Receive(h[s \ {Max(s)}], q[Max(s)])
    OBVIOUS
  <2>1. Max(s) \in s
    BY Largest
  <2>2. s \in SUBSET (1 .. m)
    <3>1. 1 .. n \subseteq 1 .. m
      OBVIOUS
    <3>2. s \subseteq 1 .. n
      OBVIOUS
    <3> HIDE DEF S
    <3> QED BY ONLY <3>1, <3>2
  <2> QED BY <2>1, <2>2 DEF Receives
<1>2. 0 \in S
  <2>1. \A s \in SUBSET (1 .. 0) : s = {}
    <3>1. 1 .. 0 = {}
      OBVIOUS
    <3> QED BY <3>1
  <2>2. g[{}] = base /\ h[{}] = base
    BY DEF Receives
  <2> QED BY <2>1, <2>2
<1>3. ASSUME NEW k \in Nat, k \in S PROVE k + 1 \in S
  <2>1. ASSUME k + 1 <= n, NEW s \in SUBSET (1 .. k + 1) PROVE g[s] = h[s]
    <3>1. CASE s = {}
      BY <3>1 DEF Receives
    <3>2. CASE s # {}
      <4>1. s \ {Max(s)} \in SUBSET (1 .. k)
        BY <3>2, LesserSet
      <4>2. g[s \ {Max(s)}] = h[s \ {Max(s)}]
        <5>1. k <= n
          BY <2>1
        <5> QED BY <1>3, <4>1, <5>1
      <4>3. s \in SUBSET (1 .. n)
        <5>1. 1 .. k + 1 \subseteq 1 .. n
          BY <2>1
        <5> HIDE DEF S
        <5> QED BY <2>1, <5>1
      <4>4. Max(s) \in 1 .. n
        BY <1>1, <3>2, <4>3
      <4>5. p[Max(s)] = q[Max(s)]
        BY <4>4 DEF Alike
      <4>6. g[s] = Receive(g[s \ {Max(s)}], p[Max(s)]) /\ h[s] = Receive(h[s \ {Max(s)}], q[Max(s)])
        BY <1>1, <3>2, <4>3
      <4> QED BY <4>2, <4>5, <4>6
    <3> QED BY <3>1, <3>2
  <2>2. k + 1 \in Nat
    OBVIOUS
  <2> QED BY <2>1, <2>2
<1>4. n \in S
  <2> HIDE DEF S
  <2> QED BY <1>2, <1>3, Upward
<1> QED BY <1>4 DEF Together

\* And the library's fold is its value for all indices.
LEMMA ReadUnrolls ==
  ASSUME NEW base, NEW T, NEW seq \in Seq(T), NEW it, Receives(it, base, seq, Len(seq))
  PROVE  FoldLeft(Receive, base, seq) = it[1 .. Len(seq)]
<1> DEFINE G(g) == g = [s \in SUBSET (1 .. Len(seq)) |->
                          IF s = {} THEN base ELSE Receive(g[s \ {Max(s)}], seq[Max(s)])]
           c == CHOOSE g : G(g)
<1>1. DOMAIN seq = 1 .. Len(seq) /\ Len(seq) \in Nat
  OBVIOUS
<1>2. FoldLeft(Receive, base, seq) = c[1 .. Len(seq)]
  BY <1>1 DEF FoldLeft, MapThenFoldSet
<1>3. G(it)
  BY DEF Receives
<1>4. G(c)
  <2> HIDE DEF G
  <2> QED BY <1>3
<1>5. Receives(c, base, seq, Len(seq))
  <2> HIDE DEF c
  <2> QED BY <1>4 DEF Receives
<1>6. \A s \in SUBSET (1 .. Len(seq)) : c[s] = it[s]
  <2> HIDE DEF c
  <2>1. Len(seq) <= Len(seq) /\ Alike(seq, seq, Len(seq))
    BY <1>1 DEF Alike
  <2>2. Receives(it, base, seq, Len(seq))
    OBVIOUS
  <2> DEFINE n == Len(seq)
  <2>3. n \in Nat /\ n <= n /\ Alike(seq, seq, n)
        /\ Receives(c, base, seq, n) /\ Receives(it, base, seq, n)
    BY <1>1, <1>5, <2>1, <2>2
  <2> HIDE DEF n
  <2>4. Together(c, it, n)
    BY <2>3, ReadAgree
  <2> QED BY <2>4 DEF n, Together
<1> QED BY <1>2, <1>6

\* Nothing to read changes nothing.
LEMMA ReadEmpty == ASSUME NEW base PROVE FoldLeft(Receive, base, <<>>) = base
<1>1. <<>> \in Seq({}) /\ Len(<<>>) = 0 /\ 1 .. 0 = {}
  OBVIOUS
<1>2. PICK it : Receives(it, base, <<>>, 0)
  BY ReadExists
<1>3. FoldLeft(Receive, base, <<>>) = it[1 .. 0]
  <2>1. Receives(it, base, <<>>, Len(<<>>))
    BY <1>1, <1>2
  <2>2. FoldLeft(Receive, base, <<>>) = it[1 .. Len(<<>>)]
    BY <1>1, <2>1, ReadUnrolls
  <2> QED BY <1>1, <2>2
<1>4. it[{}] = base
  BY <1>2 DEF Receives
<1> QED BY <1>1, <1>3, <1>4

\* One more is read last.
LEMMA ReadAppend ==
  ASSUME NEW base, NEW T, NEW seq \in Seq(T), NEW e \in T
  PROVE  FoldLeft(Receive, base, Append(seq, e)) = Receive(FoldLeft(Receive, base, seq), e)
<1> DEFINE n == Len(seq)
           q == Append(seq, e)
<1>1. n \in Nat /\ q \in Seq(T) /\ Len(q) = n + 1 /\ q[n + 1] = e
      /\ \A i \in 1 .. n : seq[i] = q[i]
  OBVIOUS
<1> HIDE DEF n, q
<1>2. PICK g : Receives(g, base, seq, n)
  BY <1>1, ReadExists
<1>3. PICK h : Receives(h, base, q, n + 1)
  <2>1. n + 1 \in Nat
    BY <1>1
  <2> QED BY <2>1, ReadExists
<1>4. g[1 .. n] = h[1 .. n]
  <2> DEFINE m == n + 1
  <2>1. /\ n \in Nat /\ m \in Nat /\ n <= m /\ Alike(seq, q, n)
        /\ Receives(g, base, seq, n) /\ Receives(h, base, q, m)
    BY <1>1, <1>2, <1>3 DEF Alike
  <2> HIDE DEF m
  <2>2. Together(g, h, n)
    BY <2>1, ReadAgree
  <2> DEFINE r == 1 .. n
  <2>3. \A s \in SUBSET r : g[s] = h[s]
    BY <2>2 DEF Together
  <2> HIDE DEF r
  <2>4. r \in SUBSET r
    OBVIOUS
  <2>5. g[r] = h[r]
    BY <2>3, <2>4
  <2> QED BY <2>5 DEF r
<1>5. h[1 .. n + 1] = Receive(h[1 .. n], e)
  <2>1. h[1 .. n + 1] = Receive(h[(1 .. n + 1) \ {Max(1 .. n + 1)}], q[Max(1 .. n + 1)])
    BY <1>1, <1>3, TopIndex DEF Receives
  <2> QED BY <1>1, <2>1, TopIndex
<1>6. FoldLeft(Receive, base, seq) = g[1 .. n]
  BY <1>2, ReadUnrolls DEF n
<1>7. FoldLeft(Receive, base, q) = h[1 .. n + 1]
  BY <1>1, <1>3, ReadUnrolls
<1> QED BY <1>4, <1>5, <1>6, <1>7 DEF q

-----------------------------------------------------------------------------
(* A client whose snapshot was taken with nothing unsent.                  *)

Listed(q) == \E T : q \in Seq(T)

\* Lists remain lists.
LEMMA ListedMore ==
  /\ Listed(<<>>)
  /\ \A q, e : Listed(q) => Listed(Append(q, e)) /\ q \o <<e>> = Append(q, e)
  /\ \A q : Listed(q) /\ q # <<>> => Listed(Tail(q))
<1>1. Listed(<<>>)
  <2>1. <<>> \in Seq({})
    OBVIOUS
  <2> QED BY <2>1 DEF Listed
<1>2. ASSUME NEW q, NEW e, Listed(q) PROVE Listed(Append(q, e)) /\ q \o <<e>> = Append(q, e)
  <2>1. PICK T : q \in Seq(T)
    BY <1>2 DEF Listed
  <2> DEFINE U == T \cup {e}
  <2>2. q \in Seq(U) /\ e \in U
    BY <2>1
  <2> HIDE DEF U
  <2>3. Append(q, e) \in Seq(U) /\ q \o <<e>> = Append(q, e)
    BY <2>2
  <2> QED BY <2>3 DEF Listed
<1>3. ASSUME NEW q, Listed(q), q # <<>> PROVE Listed(Tail(q))
  <2>1. PICK T : q \in Seq(T)
    BY <1>3 DEF Listed
  <2>2. Tail(q) \in Seq(T)
    BY <1>3, <2>1
  <2> QED BY <2>2 DEF Listed
<1> QED BY <1>1, <1>2, <1>3

\* The laws of the folds, for a list of anything.
LEMMA ApplyOneMore ==
  \A l, q, a : Listed(q) => ApplyAll(l, Append(q, a)) = Apply(ApplyAll(l, q), a)
<1> SUFFICES ASSUME NEW l, NEW q, NEW a, Listed(q)
             PROVE  ApplyAll(l, Append(q, a)) = Apply(ApplyAll(l, q), a)
  OBVIOUS
<1>1. PICK T : q \in Seq(T)
  BY DEF Listed
<1> DEFINE U == T \cup {a}
<1>2. q \in Seq(U) /\ a \in U
  BY <1>1
<1> HIDE DEF U
<1> QED BY <1>2, ApplyAppend

\* One action.
LEMMA ApplyOne == \A l, a : ApplyAll(l, <<a>>) = Apply(l, a)
<1> SUFFICES ASSUME NEW l, NEW a PROVE ApplyAll(l, <<a>>) = Apply(l, a)
  OBVIOUS
<1>1. <<a>> = Append(<<>>, a)
  OBVIOUS
<1>2. ApplyAll(l, Append(<<>>, a)) = Apply(ApplyAll(l, <<>>), a)
  BY ApplyOneMore, ListedMore
<1> QED BY <1>1, <1>2, ApplyEmpty

\* Likewise for the messages of a channel.
LEMMA ReadOneMore ==
  \A c, q, m : Listed(q) =>
    FoldLeft(Receive, c, Append(q, m)) = Receive(FoldLeft(Receive, c, q), m)
<1> SUFFICES ASSUME NEW c, NEW q, NEW m, Listed(q)
             PROVE  FoldLeft(Receive, c, Append(q, m)) = Receive(FoldLeft(Receive, c, q), m)
  OBVIOUS
<1>1. PICK T : q \in Seq(T)
  BY DEF Listed
<1> DEFINE U == T \cup {m}
<1>2. q \in Seq(U) /\ m \in U
  BY <1>1
<1> HIDE DEF U
<1> QED BY <1>2, ReadAppend

\* A list of one is not empty.
LEMMA OneIsSome == \A q : Len(q) = 1 => q # <<>>
<1>1. Len(<<>>) = 0
  OBVIOUS
<1> QED BY <1>1

\* The first of several may as well be read before the others.
LEMMA ReadHead ==
  ASSUME NEW base, NEW T, NEW seq \in Seq(T), seq # <<>>
  PROVE  FoldLeft(Receive, Receive(base, Head(seq)), Tail(seq)) = FoldLeft(Receive, base, seq)
<1> DEFINE Law(q) == FoldLeft(Receive, Receive(base, Head(q)), Tail(q)) = FoldLeft(Receive, base, q)
           S == {n \in Nat : \A q \in Seq(T) : Len(q) = n + 1 => Law(q)}
<1>1. ASSUME NEW q \in Seq(T), Len(q) = 1 PROVE Law(q)
  <2> DEFINE e == Head(q)
  <2>1. q = Append(<<>>, e) /\ Tail(q) = <<>> /\ e \in T /\ <<>> \in Seq(T)
    <3> HIDE DEF S
    <3>1. q # <<>> /\ e \in T
      <4>1. q # <<>>
        BY <1>1, OneIsSome
      <4> QED BY <4>1, HeadTailProperties
    <3>2. Tail(q) \in Seq(T) /\ Len(Tail(q)) = 0
      BY <1>1, <3>1
    <3>3. Tail(q) = <<>>
      <4>1. \A r \in Seq(T) : r # <<>> => Len(r) # 0
        BY EmptySeq
      <4> QED BY <3>2, <4>1
    <3>4. q = <<e>>
      BY <1>1, <3>1
    <3> QED BY <3>1, <3>3, <3>4
  <2>5. Head(q) = e
    OBVIOUS
  <2> HIDE DEF e
  <2>2. FoldLeft(Receive, base, Append(<<>>, e)) = Receive(FoldLeft(Receive, base, <<>>), e)
    BY ReadOneMore, ListedMore
  <2>3. FoldLeft(Receive, base, <<>>) = base
    BY ReadEmpty
  <2>4. FoldLeft(Receive, Receive(base, e), <<>>) = Receive(base, e)
    BY ReadEmpty
  <2>6. FoldLeft(Receive, Receive(base, Head(q)), Tail(q)) = Receive(base, e)
    BY <2>1, <2>4, <2>5
  <2>7. FoldLeft(Receive, base, q) = Receive(base, e)
    BY <2>1, <2>2, <2>3
  <2> QED BY <2>6, <2>7
<1>2. ASSUME NEW n \in Nat, n \in S, NEW q \in Seq(T), Len(q) = n + 2 PROVE Law(q)
  <2> DEFINE p == [i \in 1 .. n + 1 |-> q[i]]
             e == q[n + 2]
  <2>1. p \in Seq(T) /\ Len(p) = n + 1 /\ e \in T
    BY <1>2
  <2>2. q = Append(p, e)
    BY <1>2, <2>1
  <2>3. Head(q) = Head(p) /\ Tail(p) \in Seq(T) /\ Tail(q) = Append(Tail(p), e)
    <3> HIDE DEF S, p, e
    <3>1. p # <<>>
      BY <2>1
    <3> QED BY <2>1, <2>2, <3>1
  <2>4. Law(p)
    BY <1>2, <2>1
  <2> HIDE DEF p, e
  <2>5. FoldLeft(Receive, base, Append(p, e)) = Receive(FoldLeft(Receive, base, p), e)
    BY <2>1, ReadAppend
  <2>6. FoldLeft(Receive, Receive(base, Head(p)), Append(Tail(p), e))
          = Receive(FoldLeft(Receive, Receive(base, Head(p)), Tail(p)), e)
    <3> DEFINE b == Receive(base, Head(p))
               t == Tail(p)
    <3>1. t \in Seq(T)
      BY <2>3
    <3> HIDE DEF b, t
    <3>2. FoldLeft(Receive, b, Append(t, e)) = Receive(FoldLeft(Receive, b, t), e)
      BY <2>1, <3>1, ReadAppend
    <3> QED BY <3>2 DEF b, t
  <2> QED BY <2>2, <2>3, <2>4, <2>5, <2>6
<1>3. 0 \in S
  <2> HIDE DEF Law
  <2> QED BY <1>1
<1>4. ASSUME NEW n \in Nat, n \in S PROVE n + 1 \in S
  <2>1. \A q \in Seq(T) : Len(q) = n + 2 => Law(q)
    BY <1>2, <1>4
  <2> HIDE DEF Law
  <2>2. (n + 1) + 1 = n + 2 /\ n + 1 \in Nat
    OBVIOUS
  <2> QED BY <2>1, <2>2
<1>5. \A n \in Nat : n \in S
  <2> HIDE DEF S
  <2> QED BY <1>3, <1>4, Upward
<1>6. Len(seq) - 1 \in Nat /\ Len(seq) = (Len(seq) - 1) + 1
  OBVIOUS
<1>7. Law(seq)
  <2> HIDE DEF Law
  <2> QED BY <1>5, <1>6
<1> QED BY <1>7

\* Likewise, for a list of anything.
LEMMA ReadFirst ==
  \A c, q : Listed(q) /\ q # <<>> =>
    FoldLeft(Receive, Receive(c, Head(q)), Tail(q)) = FoldLeft(Receive, c, q)
<1> SUFFICES ASSUME NEW c, NEW q, Listed(q), q # <<>>
             PROVE  FoldLeft(Receive, Receive(c, Head(q)), Tail(q)) = FoldLeft(Receive, c, q)
  OBVIOUS
<1>1. PICK T : q \in Seq(T)
  BY DEF Listed
<1> QED BY <1>1, ReadHead

\* Channels and the outbox are lists, and only those who look are sent anything.
FeedLists ==
  /\ Listed(outbox)
  /\ channel = [s \in Clients |-> channel[s]] /\ \A s \in Clients : Listed(channel[s])
  /\ mirror = [s \in Clients |-> mirror[s]]
  /\ clean \subseteq watching /\ watching \subseteq Clients

CleanInv == FeedLists /\ CleanFollows

\* What is sent last is read last.
LEMMA CaughtUpAfterSent ==
  ASSUME FeedLists, NEW s \in Clients, NEW m
  PROVE  FoldLeft(Receive, mirror[s], Append(channel[s], m))
           = Receive(FoldLeft(Receive, mirror[s], channel[s]), m)
<1>1. Listed(channel[s])
  BY DEF FeedLists
<1> QED BY <1>1, ReadOneMore

\* An action goes into the ledger and into what everyone will see.
LEMMA EmitFollows ==
  ASSUME CleanInv, NEW a, Emit(<<a>>), UNCHANGED clientVars
  PROVE  CleanInv'
<1>1. outbox' = Append(outbox, a) /\ Listed(outbox')
  BY ListedMore DEF CleanInv, FeedLists, Emit
<1>2. ledger' = Apply(ledger, a)
  BY ApplyOne DEF Emit
<1>3. ASSUME NEW s \in clean PROVE CaughtUp(s)' = ledger'
  <2> DEFINE copy == FoldLeft(Receive, mirror[s], channel[s])
  <2>1. ApplyAll(copy, Append(outbox, a)) = Apply(ApplyAll(copy, outbox), a)
    BY ApplyOneMore DEF CleanInv, FeedLists
  <2>2. ApplyAll(copy, outbox) = ledger
    BY DEF CleanInv, CleanFollows, CaughtUp
  <2>3. CaughtUp(s)' = ApplyAll(copy, outbox')
    BY DEF CaughtUp, clientVars
  <2> HIDE DEF copy
  <2> QED BY <1>1, <1>2, <2>1, <2>2, <2>3
<1>4. FeedLists'
  BY <1>1 DEF CleanInv, FeedLists, clientVars
<1>5. clean' = clean
  BY DEF clientVars
<1> QED BY <1>3, <1>4, <1>5 DEF CleanInv, CleanFollows

\* Those who are not sent anything, and read nothing, will see what they would.
LEMMA SameFeed ==
  ASSUME CleanInv, UNCHANGED <<ledger, outbox, channel, mirror, watching, clean>>
  PROVE  CleanInv'
<1>1. \A s : CaughtUp(s)' = CaughtUp(s)
  BY DEF CaughtUp
<1> QED BY <1>1 DEF CleanInv, FeedLists, CleanFollows

\* A message is sent to some, and the channels of the others stay.
LEMMA SentLists ==
  ASSUME FeedLists, NEW ss, NEW m
  PROVE  /\ Sent(ss, m) = [s \in Clients |-> Sent(ss, m)[s]]
         /\ \A s \in Clients : /\ Listed(Sent(ss, m)[s])
                               /\ s \in ss => Sent(ss, m)[s] = Append(channel[s], m)
                               /\ s \notin ss => Sent(ss, m)[s] = channel[s]
<1>1. \A s \in Clients : Sent(ss, m)[s] = IF s \in ss THEN Append(channel[s], m) ELSE channel[s]
  BY DEF Sent
<1>2. Sent(ss, m) = [s \in Clients |-> Sent(ss, m)[s]]
  BY DEF Sent
<1>3. \A s \in Clients : Listed(Sent(ss, m)[s])
  BY <1>1, ListedMore DEF FeedLists
<1> QED BY <1>1, <1>2, <1>3

\* A batch brings what the outbox would have brought.
LEMMA FlushFollows ==
  ASSUME CleanInv, Flush
  PROVE  CleanInv'
<1>1. ASSUME NEW s \in clean PROVE CaughtUp(s)' = ledger'
  <2> DEFINE copy == FoldLeft(Receive, mirror[s], channel[s])
  <2>1. s \in Clients /\ s \in watching
    BY DEF CleanInv, FeedLists
  <2>2. channel'[s] = Append(channel[s], Batch(outbox))
    BY <2>1, SentLists DEF Flush, CleanInv
  <2>3. FoldLeft(Receive, mirror[s], channel'[s]) = Receive(copy, Batch(outbox))
    BY <2>1, <2>2, CaughtUpAfterSent DEF CleanInv
  <2>4. Receive(copy, Batch(outbox)) = ApplyAll(copy, outbox)
    BY DEF Receive, Batch
  <2>5. CaughtUp(s)' = ApplyAll(FoldLeft(Receive, mirror[s], channel'[s]), <<>>)
    BY DEF CaughtUp, Flush
  <2>6. ApplyAll(copy, outbox) = ledger
    BY DEF CleanInv, CleanFollows, CaughtUp
  <2> HIDE DEF copy
  <2>7. CaughtUp(s)' = ApplyAll(copy, outbox)
    BY <2>3, <2>4, <2>5, ApplyEmpty
  <2> QED BY <2>6, <2>7 DEF Flush
<1>2. FeedLists'
  BY SentLists, ListedMore DEF CleanInv, FeedLists, Flush
<1>3. clean' = clean
  BY DEF Flush
<1> QED BY <1>1, <1>2, <1>3 DEF CleanInv, CleanFollows

\* A snapshot makes the copy the ledger, whatever it was.
LEMMA SnapshotFollows ==
  ASSUME FeedLists, NEW s \in Clients, NEW l,
         channel'[s] = Append(channel[s], Snapshot(l)), mirror' = mirror, outbox' = <<>>
  PROVE  CaughtUp(s)' = l
<1>1. FoldLeft(Receive, mirror[s], Append(channel[s], Snapshot(l)))
        = Receive(FoldLeft(Receive, mirror[s], channel[s]), Snapshot(l))
  BY CaughtUpAfterSent
<1>2. \A c : Receive(c, Snapshot(l)) = l
  BY DEF Receive, Snapshot
<1>3. CaughtUp(s)' = ApplyAll(FoldLeft(Receive, mirror[s], channel'[s]), <<>>)
  BY DEF CaughtUp
<1>4. FoldLeft(Receive, mirror[s], channel'[s]) = l
  BY <1>1, <1>2
<1> QED BY <1>3, <1>4, ApplyEmpty

\* A rebuilt ledger goes to all: those are clean from then on, or none is.
LEMMA RebuildFollows ==
  ASSUME CleanInv, Rebuild, UNCHANGED <<outbox, watching, mirror>>
  PROVE  CleanInv'
<1> DEFINE l == ledger'
<1>1. channel' = Sent(watching, Snapshot(l))
  BY DEF Rebuild
<1> HIDE DEF l
<1>2. FeedLists'
  <2>1. channel' = [s \in Clients |-> channel'[s]] /\ \A s \in Clients : Listed(channel'[s])
    BY <1>1, SentLists DEF CleanInv
  <2>2. clean' \subseteq watching
    BY DEF CleanInv, FeedLists, Rebuild
  <2> QED BY <2>1, <2>2 DEF CleanInv, FeedLists
<1>3. CASE outbox = <<>>
  <2>1. ASSUME NEW s \in clean' PROVE CaughtUp(s)' = l
    <3>1. s \in Clients /\ s \in watching
      BY <1>3, <2>1 DEF CleanInv, FeedLists, Rebuild
    <3>2. channel'[s] = Append(channel[s], Snapshot(l))
      BY <1>1, <3>1, SentLists DEF CleanInv
    <3> QED BY <1>3, <3>1, <3>2, SnapshotFollows DEF CleanInv
  <2> QED BY <1>2, <2>1 DEF CleanInv, CleanFollows, l
<1>4. CASE outbox # <<>>
  <2>1. clean' = {}
    BY <1>4 DEF CleanInv, FeedLists, Rebuild
  <2> QED BY <1>2, <2>1 DEF CleanInv, CleanFollows
<1> QED BY <1>3, <1>4

\* A client is shown the conversation.
LEMMA ShowFollows ==
  ASSUME CleanInv, NEW c \in Clients, ShowLedger(c)
  PROVE  CleanInv'
<1>1. channel' = Sent({c}, Snapshot(ledger)) /\ ledger' = ledger
      /\ mirror' = mirror /\ outbox' = outbox
      /\ watching' = watching \cup {c}
      /\ clean' = IF outbox = <<>> THEN clean \cup {c} ELSE clean \ {c}
  BY DEF ShowLedger
<1>2. FeedLists'
  <2>1. channel' = [s \in Clients |-> channel'[s]] /\ \A s \in Clients : Listed(channel'[s])
    BY <1>1, SentLists DEF CleanInv
  <2>2. clean' \subseteq watching' /\ watching' \subseteq Clients
    BY <1>1 DEF CleanInv, FeedLists
  <2> QED BY <1>1, <2>1, <2>2 DEF CleanInv, FeedLists
<1>3. ASSUME NEW s \in clean', s # c PROVE CaughtUp(s)' = ledger'
  <2>1. s \in clean /\ s \in Clients /\ s \notin {c}
    BY <1>1, <1>3 DEF CleanInv, FeedLists
  <2>2. channel'[s] = channel[s]
    BY <1>1, <2>1, SentLists DEF CleanInv
  <2> QED BY <1>1, <2>1, <2>2 DEF CleanInv, CleanFollows, CaughtUp
<1>4. ASSUME c \in clean' PROVE CaughtUp(c)' = ledger'
  <2>1. outbox = <<>>
    BY <1>1, <1>4
  <2>2. channel'[c] = Append(channel[c], Snapshot(ledger))
    BY <1>1, SentLists DEF CleanInv
  <2> QED BY <1>1, <2>1, <2>2, SnapshotFollows DEF CleanInv
<1> QED BY <1>2, <1>3, <1>4 DEF CleanInv, CleanFollows

\* A client leaves.
LEMMA LeaveFollows ==
  ASSUME CleanInv, NEW c \in Clients, Leave(c)
  PROVE  CleanInv'
<1>1. FeedLists'
  BY ListedMore DEF CleanInv, FeedLists, Leave
<1>2. ASSUME NEW s \in clean' PROVE CaughtUp(s)' = ledger'
  <2>1. s \in clean /\ s # c /\ s \in Clients
    BY DEF CleanInv, FeedLists, Leave
  <2>2. channel'[s] = channel[s] /\ mirror'[s] = mirror[s] /\ outbox' = outbox /\ ledger' = ledger
    BY <2>1 DEF CleanInv, FeedLists, Leave
  <2> QED BY <2>1, <2>2 DEF CleanInv, CleanFollows, CaughtUp
<1> QED BY <1>1, <1>2 DEF CleanInv, CleanFollows

\* A client reads its next message.
LEMMA DeliverFollows ==
  ASSUME CleanInv, NEW c \in Clients, Deliver(c)
  PROVE  CleanInv'
<1>1. channel[c] # <<>> /\ Listed(channel[c]) /\ Listed(Tail(channel[c]))
  BY ListedMore DEF Deliver, CleanInv, FeedLists
<1>2. channel'[c] = Tail(channel[c]) /\ mirror'[c] = Receive(mirror[c], Head(channel[c]))
      /\ (\A s \in Clients : s # c => channel'[s] = channel[s] /\ mirror'[s] = mirror[s])
      /\ channel' = [s \in Clients |-> channel'[s]] /\ mirror' = [s \in Clients |-> mirror'[s]]
  BY DEF Deliver, CleanInv, FeedLists
<1>3. UNCHANGED <<outbox, ledger, clean, watching>>
  BY DEF Deliver
<1>4. FeedLists'
  <2>1. \A s \in Clients : Listed(channel'[s])
    <3>1. \A s \in Clients : Listed(channel[s])
      BY DEF CleanInv, FeedLists
    <3> QED BY <1>1, <1>2, <3>1
  <2>2. Listed(outbox') /\ clean' \subseteq watching' /\ watching' \subseteq Clients
    BY <1>3 DEF CleanInv, FeedLists
  <2>3. channel' = [s \in Clients |-> channel'[s]] /\ mirror' = [s \in Clients |-> mirror'[s]]
    BY <1>2
  <2> QED BY <2>1, <2>2, <2>3 DEF FeedLists
<1>5. ASSUME NEW s \in clean PROVE CaughtUp(s)' = CaughtUp(s)
  <2>1. s \in Clients
    BY DEF CleanInv, FeedLists
  <2>2. CASE s # c
    BY <1>2, <1>3, <2>1, <2>2 DEF CaughtUp
  <2>3. CASE s = c
    <3>1. FoldLeft(Receive, mirror'[c], channel'[c]) = FoldLeft(Receive, mirror[c], channel[c])
      BY <1>1, <1>2, ReadFirst
    <3> QED BY <1>3, <2>3, <3>1 DEF CaughtUp
  <2> QED BY <2>2, <2>3
<1> QED BY <1>3, <1>4, <1>5 DEF CleanInv, CleanFollows

\* What Pi and the turn do to the feed: they put one action into it, or leave
\* it alone.
LEMMA TurnEmits ==
  ASSUME \/ TurnPrompted \/ AgentStart \/ MessageStart \/ MessageUpdate \/ MessageEnd
         \/ AgentSettled \/ ToolStart \/ ConfirmRequested \/ FinishConfirmation \/ ToolEnd
         \/ ReconcileFails
  PROVE  /\ UNCHANGED clientVars
         /\ \/ \E a : Emit(<<a>>)
            \/ UNCHANGED <<ledger, outbox, timer>>
BY DEF TurnPrompted, AgentStart, MessageStart, MessageUpdate, MessageEnd, AgentSettled, ToolStart,
       ConfirmRequested, FinishConfirmation, ToolEnd, ReconcileFails

\* The invariant of the clean clients.
LEMMA CleanSteps == FeedSpec => []CleanInv
<1>1. FeedInit => CleanInv
  BY ListedMore DEF FeedInit, CleanInv, FeedLists, CleanFollows
<1>2. CleanInv /\ [FeedNext]_feedVars => CleanInv'
  <2> SUFFICES ASSUME CleanInv, [FeedNext]_feedVars PROVE CleanInv'
    OBVIOUS
  <2>1. CASE \/ TurnPrompted \/ AgentStart \/ MessageStart \/ MessageUpdate \/ MessageEnd
             \/ AgentSettled \/ ToolStart \/ ConfirmRequested \/ FinishConfirmation \/ ToolEnd
             \/ ReconcileFails
    <3>1. UNCHANGED clientVars
      BY <2>1, TurnEmits
    <3>2. CASE \E a : Emit(<<a>>)
      BY <3>1, <3>2, EmitFollows
    <3>3. CASE UNCHANGED <<ledger, outbox, timer>>
      BY <3>1, <3>3, SameFeed DEF clientVars
    <3> QED BY <2>1, <3>2, <3>3, TurnEmits
  <2>2. CASE Flush
    BY <2>2, FlushFollows
  <2>3. CASE Reconcile
    <3>1. UNCHANGED <<outbox, timer, watching, mirror>>
      BY <2>3 DEF Reconcile
    <3>2. CASE Agrees
      BY <2>3, <3>1, <3>2, SameFeed DEF Reconcile
    <3>3. CASE ~Agrees
      BY <2>3, <3>1, <3>3, RebuildFollows DEF Reconcile
    <3> QED BY <3>2, <3>3
  <2>4. CASE \E s \in Clients : ShowLedger(s) \/ Leave(s) \/ Deliver(s)
    BY <2>4, ShowFollows, LeaveFollows, DeliverFollows
  <2>5. CASE UNCHANGED feedVars
    BY <2>5, SameFeed DEF feedVars
  <2> QED BY <2>1, <2>2, <2>3, <2>4, <2>5 DEF FeedNext
<1> QED BY <1>1, <1>2, PTL DEF FeedSpec

\* A client whose snapshot was taken with nothing unsent ends with exactly the
\* ledger, for any number of clients, messages and deltas, however its messages,
\* the batches of the outbox and the turn interleave.
THEOREM CleanClientsFollow == FeedSpec => []CleanFollows
<1>1. CleanInv => CleanFollows
  BY DEF CleanInv
<1> QED BY <1>1, CleanSteps, PTL

-----------------------------------------------------------------------------
(* A client whose snapshot said what is sent again.  Of a copy three things *)
(* are looked at: the messages from Pi's file, the text of the messages     *)
(* that were streamed, and the cards.                                       *)

Entries ==
  [kind : {"message"}, id : Nat, stable : BOOLEAN, text : Nat]
  \cup {e \in [kind : {"tool"}, id : Nat, status : Statuses, asks : BOOLEAN] :
          e.asks => e.status = "pending"}

IsTool(e)  == e.kind = "tool"
IsLive(e)  == e.kind = "message" /\ ~e.stable
Under(e)   == e.status \notin Ended
OneEach(q) ==
  \A i, j \in DOMAIN q : IsTool(q[i]) /\ IsTool(q[j]) /\ q[i].id = q[j].id => i = j
Copies ==
  {c \in [entries : Seq(Entries), busy : BOOLEAN] : OneEach(c.entries)}

IsStable(e) == e.kind = "message" /\ e.stable
Cards(c)    == {c.entries[i] : i \in {i \in DOMAIN c.entries : IsTool(c.entries[i])}}
Stables(c)  == {c.entries[i] : i \in {i \in DOMAIN c.entries : IsStable(c.entries[i])}}
LiveIds(c)  == {c.entries[i].id : i \in {i \in DOMAIN c.entries : IsLive(c.entries[i])}}
LiveOnce(c) ==
  \A i, j \in DOMAIN c.entries :
    IsLive(c.entries[i]) /\ IsLive(c.entries[j]) /\ c.entries[i].id = c.entries[j].id => i = j
Says(c, n, t) == /\ Find(c.entries, n) # 0
                 /\ c.entries[Find(c.entries, n)].text >= t
Underway(c, k)    == \E e \in Cards(c) : e.id = k /\ Under(e)

\* What c has of the message n, and of the card k, of l.
Reads(l, c, n) == \A t \in Nat : Says(l, n, t) => Says(c, n, t)
Told(l, c, k) ==
  \A e \in Cards(l) : e.id = k =>
    \E f \in Cards(c) : /\ f.id = k /\ (e.asks => f.asks)
                        /\ (e.status \in Ended => f.status = e.status)

HasCard(c, k) == \E e \in Cards(c) : e.id = k

Calling == {"calling", "running", "asking", "answered"}

\* A copy c has all of the ledger l, while Pi is at p with the message n.
Follows(c, l, p, n) ==
  /\ c \in Copies /\ Stables(c) = Stables(l)
  /\ \A m \in Nat : Reads(l, c, m)
  /\ \A k \in Nat : Told(l, c, k) /\ (Underway(c, k) => p \in Calling /\ k = n)
  /\ p = "running" => Underway(c, n)

\* A copy c becomes d by actions of which some were applied to the ledger l, and
\* what they say written to Pi's file f, before c was taken.
Kept(c, d, l, f, p, n) ==
  /\ d \in Copies /\ Stables(d) = Stables(c)
  /\ \A m \in Nat : Reads(l, c, m) => Reads(l, d, m)
  /\ \A k \in Nat :
       /\ HasCard(c, k) => HasCard(d, k)
       /\ ~(p \in Calling /\ k = n) /\ ~Underway(c, k) => ~Underway(d, k)
       /\ Told(l, c, k) /\ (p \in Calling /\ k = n => \A j \in Nat : Underway(c, j) => j = k)
            => Told(l, d, k)
       /\ Told(f, c, k) => Told(f, d, k)
  /\ p = "running" /\ Underway(c, n) => Underway(d, n)

Replays(q, l, f, p, n) == \A c \in Copies : Kept(c, ApplyAll(c, q), l, f, p, n)

FileLedger == Ledger(Truth, FALSE)

Files == Seq([text : Nat, tool : {"none", "pending"} \cup Ended])

\* Pi's file, as far as the turn has come.
FileInv ==
  /\ pi \in {"idle", "prompted", "working", "streaming", "calling", "running", "asking", "answered"}
  /\ count \in Nat /\ written \in Nat
  /\ stored \in Files
  /\ Len(stored) = IF pi = "streaming" THEN count - 1 ELSE count
  /\ \A k \in DOMAIN stored : stored[k].tool = "pending" <=> pi \in Calling /\ k = count
  /\ pi \in Calling => count \in DOMAIN stored

\* Messages of the ledger that are being streamed, or were, are there once.
LiveInv ==
  /\ \A n \in LiveIds(ledger) : n <= count
  /\ LiveOnce(ledger)

FollowInv ==
  /\ FileInv /\ LiveInv
  /\ Follows(ledger, ledger, pi, count)
  /\ \A s \in watching : Follows(CaughtUp(s), ledger, pi, count)
  /\ Replays(outbox, ledger, FileLedger, pi, count)

-----------------------------------------------------------------------------
(* Entries.                                                                *)

\* The last of a sequence that passes a test, or 0.
LEMMA LastFound ==
  ASSUME NEW q \in Seq(Entries), NEW I, I = {i \in 1 .. Len(q) : i \in I},
         NEW r, r = IF I # {} THEN Max(I) ELSE 0
  PROVE  /\ r = 0 => I = {}
         /\ r # 0 => r \in I /\ \A i \in I : i <= r
<1>1. I \in SUBSET (1 .. Len(q)) /\ Len(q) \in Nat
  OBVIOUS
<1>2. I # {} => Max(I) \in I /\ \A i \in I : i <= Max(I)
  BY <1>1, Largest
<1>3. I # {} => Max(I) # 0
  BY <1>1, <1>2
<1> QED BY <1>2, <1>3

\* findMessage.
LEMMA FindIs ==
  ASSUME NEW q \in Seq(Entries), NEW n
  PROVE  /\ Find(q, n) = 0 => \A i \in DOMAIN q : ~(IsLive(q[i]) /\ q[i].id = n)
         /\ Find(q, n) # 0 =>
              /\ Find(q, n) \in DOMAIN q /\ IsLive(q[Find(q, n)]) /\ q[Find(q, n)].id = n
              /\ \A i \in DOMAIN q : IsLive(q[i]) /\ q[i].id = n => i <= Find(q, n)
<1> DEFINE I == {i \in 1 .. Len(q) : q[i].kind = "message" /\ q[i].id = n /\ ~q[i].stable}
           r == Find(q, n)
<1>1. r = IF I # {} THEN Max(I) ELSE 0
  BY DEF Find, SelectLastInSeq
<1>2. I = {i \in 1 .. Len(q) : i \in I} /\ DOMAIN q = 1 .. Len(q)
  OBVIOUS
<1>3. /\ r = 0 => I = {}
      /\ r # 0 => r \in I /\ \A i \in I : i <= r
  <2> HIDE DEF I, r
  <2> QED BY <1>1, <1>2, LastFound
<1> HIDE DEF r
<1>4. \A i \in DOMAIN q : i \in I <=> IsLive(q[i]) /\ q[i].id = n
  BY <1>2 DEF IsLive
<1>5. I \subseteq DOMAIN q
  BY <1>2
<1> HIDE DEF I
<1> QED BY <1>3, <1>4, <1>5 DEF r

\* findTool.
LEMMA FindToolIs ==
  ASSUME NEW q \in Seq(Entries), NEW n
  PROVE  /\ FindTool(q, n) = 0 => \A i \in DOMAIN q : ~(IsTool(q[i]) /\ q[i].id = n)
         /\ FindTool(q, n) # 0 =>
              FindTool(q, n) \in DOMAIN q /\ IsTool(q[FindTool(q, n)]) /\ q[FindTool(q, n)].id = n
<1> DEFINE I == {i \in 1 .. Len(q) : q[i].kind = "tool" /\ q[i].id = n}
           r == FindTool(q, n)
<1>1. r = IF I # {} THEN Max(I) ELSE 0
  BY DEF FindTool, SelectLastInSeq
<1>2. I = {i \in 1 .. Len(q) : i \in I} /\ DOMAIN q = 1 .. Len(q)
  OBVIOUS
<1>3. /\ r = 0 => I = {}
      /\ r # 0 => r \in I /\ \A i \in I : i <= r
  <2> HIDE DEF I, r
  <2> QED BY <1>1, <1>2, LastFound
<1> HIDE DEF r
<1>4. \A i \in DOMAIN q : i \in I <=> IsTool(q[i]) /\ q[i].id = n
  BY <1>2 DEF IsTool
<1>5. I \subseteq DOMAIN q
  BY <1>2
<1> HIDE DEF I
<1> QED BY <1>3, <1>4, <1>5 DEF r

\* The latest card under way.
LEMMA FindActiveIs ==
  ASSUME NEW q \in Seq(Entries)
  PROVE  /\ FindActive(q) = 0 => \A i \in DOMAIN q : ~(IsTool(q[i]) /\ Under(q[i]))
         /\ FindActive(q) # 0 =>
              FindActive(q) \in DOMAIN q /\ IsTool(q[FindActive(q)]) /\ Under(q[FindActive(q)])
<1> DEFINE I == {i \in 1 .. Len(q) : q[i].kind = "tool" /\ q[i].status \notin Ended}
           r == FindActive(q)
<1>1. r = IF I # {} THEN Max(I) ELSE 0
  BY DEF FindActive, SelectLastInSeq
<1>2. I = {i \in 1 .. Len(q) : i \in I} /\ DOMAIN q = 1 .. Len(q)
  OBVIOUS
<1>3. /\ r = 0 => I = {}
      /\ r # 0 => r \in I /\ \A i \in I : i <= r
  <2> HIDE DEF I, r
  <2> QED BY <1>1, <1>2, LastFound
<1> HIDE DEF r
<1>4. \A i \in DOMAIN q : i \in I <=> IsTool(q[i]) /\ Under(q[i])
  BY <1>2 DEF IsTool, Under
<1>5. I \subseteq DOMAIN q
  BY <1>2
<1> HIDE DEF I
<1> QED BY <1>3, <1>4, <1>5 DEF r

\* An entry more, and an entry changed in its place.
LEMMA OneEntryMore ==
  ASSUME NEW q \in Seq(Entries), NEW e \in Entries, NEW r, r = Append(q, e)
  PROVE  /\ r \in Seq(Entries) /\ DOMAIN r = DOMAIN q \cup {Len(q) + 1}
         /\ Len(q) + 1 \notin DOMAIN q /\ r[Len(q) + 1] = e
         /\ \A i \in DOMAIN q : r[i] = q[i] /\ i <= Len(q)
         /\ DOMAIN q \subseteq Nat /\ Len(q) \in Nat
<1>1. Len(q) \in Nat /\ DOMAIN q = 1 .. Len(q)
  OBVIOUS
<1>2. r \in Seq(Entries) /\ Len(r) = Len(q) + 1 /\ r[Len(q) + 1] = e
      /\ (\A i \in 1 .. Len(q) : r[i] = q[i]) /\ DOMAIN r = 1 .. Len(r)
  OBVIOUS
<1> QED BY <1>1, <1>2

\* An entry changed in its place.
LEMMA OneEntryChanged ==
  ASSUME NEW q \in Seq(Entries), NEW k \in DOMAIN q, NEW e \in Entries,
         NEW r, r = [q EXCEPT ![k] = e]
  PROVE  /\ r \in Seq(Entries) /\ DOMAIN r = DOMAIN q /\ r[k] = e
         /\ \A i \in DOMAIN q : i # k => r[i] = q[i]
<1>1. Len(q) \in Nat /\ DOMAIN q = 1 .. Len(q)
  OBVIOUS
<1> QED BY <1>1

\* Where the same entries qualify, the same one is found.
LEMMA FindSame ==
  ASSUME NEW q \in Seq(Entries), NEW r \in Seq(Entries), NEW n,
         \A i : i \in DOMAIN r /\ IsLive(r[i]) /\ r[i].id = n
            <=> i \in DOMAIN q /\ IsLive(q[i]) /\ q[i].id = n
  PROVE  Find(r, n) = Find(q, n)
<1>1. DOMAIN q \subseteq Nat /\ DOMAIN r \subseteq Nat
  <2>1. DOMAIN q = 1 .. Len(q) /\ DOMAIN r = 1 .. Len(r)
    OBVIOUS
  <2> QED BY <2>1
<1> DEFINE f == Find(q, n)
           g == Find(r, n)
<1>2. /\ f = 0 => \A i \in DOMAIN q : ~(IsLive(q[i]) /\ q[i].id = n)
      /\ f # 0 => /\ f \in DOMAIN q /\ IsLive(q[f]) /\ q[f].id = n
                  /\ \A i \in DOMAIN q : IsLive(q[i]) /\ q[i].id = n => i <= f
  BY FindIs
<1>3. /\ g = 0 => \A i \in DOMAIN r : ~(IsLive(r[i]) /\ r[i].id = n)
      /\ g # 0 => /\ g \in DOMAIN r /\ IsLive(r[g]) /\ r[g].id = n
                  /\ \A i \in DOMAIN r : IsLive(r[i]) /\ r[i].id = n => i <= g
  BY FindIs
<1> HIDE DEF f, g
<1>4. f # 0 /\ g # 0 => f <= g /\ g <= f /\ f \in Nat /\ g \in Nat
  BY <1>1, <1>2, <1>3
<1>5. f = g
  BY <1>2, <1>3, <1>4
<1> QED BY <1>5 DEF f, g

\* The parts of a copy.
LEMMA CopyFields ==
  ASSUME NEW c \in Copies
  PROVE  /\ c.entries \in Seq(Entries) /\ c.busy \in BOOLEAN /\ OneEach(c.entries)
         /\ c = [entries |-> c.entries, busy |-> c.busy]
BY DEF Copies

\* A copy of its parts.
LEMMA IsCopy ==
  ASSUME NEW q \in Seq(Entries), OneEach(q), NEW b \in BOOLEAN
  PROVE  Ledger(q, b) \in Copies /\ Ledger(q, b).entries = q /\ Ledger(q, b).busy = b
BY DEF Copies, Ledger

\* What each action does to a copy: message_added.
LEMMA ApplyAdded ==
  ASSUME NEW c \in Copies, NEW n \in Nat, NEW d, d = Apply(c, Added(n))
  PROVE  /\ d \in Copies /\ Cards(d) = Cards(c) /\ Stables(d) = Stables(c)
         /\ LiveIds(d) = LiveIds(c) \cup {n}
         /\ LiveOnce(c) /\ n \notin LiveIds(c) => LiveOnce(d)
         /\ \A t \in Nat : Says(d, n, t) <=> t = 0
         /\ \A m, t \in Nat : m # n => (Says(d, m, t) <=> Says(c, m, t))
<1> DEFINE q == c.entries
           e == Msg(n, FALSE, 0)
           r == Append(q, e)
           k == Len(q) + 1
<1>1. q \in Seq(Entries) /\ c.busy \in BOOLEAN /\ OneEach(q)
  BY CopyFields
<1>2. e \in Entries /\ IsLive(e) /\ ~IsTool(e) /\ ~IsStable(e) /\ e.id = n /\ e.text = 0
  BY DEF Entries, Msg, IsLive, IsTool, IsStable
<1>3. d = Ledger(r, c.busy)
  <2>1. d = [c EXCEPT !.entries = r]
    BY DEF Apply, Added
  <2> HIDE DEF r
  <2> QED BY <2>1, CopyFields DEF Ledger
<1>4. /\ r \in Seq(Entries) /\ DOMAIN r = DOMAIN q \cup {k} /\ k \notin DOMAIN q /\ r[k] = e
      /\ \A i \in DOMAIN q : r[i] = q[i] /\ i <= Len(q)
      /\ DOMAIN q \subseteq Nat /\ k \in Nat /\ k # 0 /\ Len(q) \in Nat /\ k = Len(q) + 1
  <2> HIDE DEF q, e
  <2> QED BY <1>1, <1>2, OneEntryMore
<1> HIDE DEF q, r, e, k
<1>5. OneEach(r)
  BY <1>1, <1>2, <1>4 DEF OneEach
<1>6. d \in Copies /\ d.entries = r
  BY <1>1, <1>3, <1>4, <1>5, IsCopy
<1>7. Cards(d) = Cards(c) /\ Stables(d) = Stables(c)
  BY <1>2, <1>4, <1>6 DEF Cards, Stables, q
<1>8. LiveIds(d) = LiveIds(c) \cup {n}
  BY <1>2, <1>4, <1>6 DEF LiveIds, q
<1>9. LiveOnce(c) /\ n \notin LiveIds(c) => LiveOnce(d)
  BY <1>2, <1>4, <1>6 DEF LiveIds, LiveOnce, q
<1>10. Find(r, n) = k
  <2>1. /\ Find(r, n) = 0 => \A i \in DOMAIN r : ~(IsLive(r[i]) /\ r[i].id = n)
        /\ Find(r, n) # 0 => /\ Find(r, n) \in DOMAIN r
                             /\ \A i \in DOMAIN r : IsLive(r[i]) /\ r[i].id = n => i <= Find(r, n)
    BY <1>4, FindIs
  <2>2. Find(r, n) # 0 /\ k <= Find(r, n)
    BY <1>2, <1>4, <2>1
  <2> QED BY <1>4, <2>1, <2>2
<1>11. \A t \in Nat : Says(d, n, t) <=> t = 0
  BY <1>2, <1>4, <1>6, <1>10 DEF Says
<1>12. ASSUME NEW m \in Nat, NEW t \in Nat, m # n PROVE Says(d, m, t) <=> Says(c, m, t)
  <2>1. \A i : i \in DOMAIN r /\ IsLive(r[i]) /\ r[i].id = m
           <=> i \in DOMAIN q /\ IsLive(q[i]) /\ q[i].id = m
    BY <1>2, <1>4, <1>12
  <2>2. Find(r, m) = Find(q, m)
    BY <1>1, <1>4, <2>1, FindSame
  <2>3. Find(q, m) # 0 => Find(q, m) \in DOMAIN q
    BY <1>1, FindIs
  <2> QED BY <1>4, <1>6, <2>2, <2>3 DEF Says, q
<1> QED BY <1>6, <1>7, <1>8, <1>9, <1>11, <1>12

\* text_appended: the message being streamed says more, if the copy has it.
LEMMA ApplyText ==
  ASSUME NEW c \in Copies, NEW n \in Nat, NEW d, d = Apply(c, Text(n))
  PROVE  /\ d \in Copies /\ Cards(d) = Cards(c) /\ Stables(d) = Stables(c)
         /\ LiveIds(d) = LiveIds(c) /\ (LiveOnce(c) => LiveOnce(d))
         /\ Says(d, n, 0) <=> Says(c, n, 0)
         /\ \A t \in Nat : Says(d, n, t + 1) <=> Says(c, n, t)
         /\ \A m, t \in Nat : m # n => (Says(d, m, t) <=> Says(c, m, t))
<1> DEFINE q == c.entries
           k == Find(q, n)
           e == [q[k] EXCEPT !.text = @ + 1]
           r == [q EXCEPT ![k] = e]
<1>1. q \in Seq(Entries) /\ c.busy \in BOOLEAN /\ OneEach(q)
  BY CopyFields
<1>2. /\ k = 0 => \A i \in DOMAIN q : ~(IsLive(q[i]) /\ q[i].id = n)
      /\ k # 0 => k \in DOMAIN q /\ IsLive(q[k]) /\ q[k].id = n
  <2> HIDE DEF q
  <2> QED BY <1>1, FindIs
<1>3. CASE k = 0
  <2>1. d = c
    BY <1>3 DEF Apply, Text, Added
  <2>2. \A t : ~Says(d, n, t) /\ ~Says(c, n, t)
    BY <1>3, <2>1 DEF Says
  <2> QED BY <2>1, <2>2
<1>4. CASE k # 0
  <2>1. d = [c EXCEPT !.entries[k].text = @ + 1]
    BY <1>4 DEF Apply, Text, Added
  <2>2. q[k] \in Entries /\ k \in DOMAIN q /\ IsLive(q[k]) /\ q[k].id = n
    <3> HIDE DEF q, k
    <3> QED BY <1>1, <1>2, <1>4
  <2>3. /\ e \in Entries /\ IsLive(e) /\ ~IsTool(e) /\ ~IsStable(e) /\ e.id = n
        /\ ~IsTool(q[k]) /\ ~IsStable(q[k]) /\ q[k].text \in Nat /\ e.text = q[k].text + 1
    <3> HIDE DEF q, k
    <3> QED BY <2>2 DEF Entries, IsLive, IsTool, IsStable
  <2>4. d = Ledger(r, c.busy)
    <3>1. c = [entries |-> c.entries, busy |-> c.busy]
      BY CopyFields
    <3>2. d = [c EXCEPT !.entries = r]
      BY <2>1
    <3> HIDE DEF r
    <3> QED BY <3>1, <3>2 DEF Ledger
  <2>5. /\ r \in Seq(Entries) /\ DOMAIN r = DOMAIN q /\ r[k] = e
        /\ \A i \in DOMAIN q : i # k => r[i] = q[i]
    <3> HIDE DEF q, k, e
    <3> QED BY <1>1, <2>2, <2>3, OneEntryChanged
  <2> HIDE DEF q, k, e, r
  <2>6. OneEach(r)
    BY <1>1, <2>2, <2>3, <2>5 DEF OneEach
  <2>7. d \in Copies /\ d.entries = r
    BY <1>1, <2>4, <2>5, <2>6, IsCopy
  <2>8. \A i \in DOMAIN q :
          /\ IsTool(r[i]) <=> IsTool(q[i])
          /\ IsStable(r[i]) <=> IsStable(q[i])
          /\ IsLive(r[i]) <=> IsLive(q[i])
          /\ r[i].id = q[i].id
          /\ i # k => r[i] = q[i]
    BY <2>2, <2>3, <2>5
  <2>9. Cards(d) = Cards(c) /\ Stables(d) = Stables(c)
    BY <2>2, <2>3, <2>5, <2>7, <2>8 DEF Cards, Stables, q
  <2>10. LiveIds(d) = LiveIds(c) /\ (LiveOnce(c) => LiveOnce(d))
    BY <2>5, <2>7, <2>8 DEF LiveIds, LiveOnce, q
  <2>11. \A m \in Nat : Find(r, m) = Find(q, m)
    <3> SUFFICES ASSUME NEW m \in Nat PROVE Find(r, m) = Find(q, m)
      OBVIOUS
    <3>1. \A i : i \in DOMAIN r /\ IsLive(r[i]) /\ r[i].id = m
             <=> i \in DOMAIN q /\ IsLive(q[i]) /\ q[i].id = m
      BY <2>5, <2>8
    <3> QED BY <1>1, <2>5, <3>1, FindSame
  <2>12. Find(r, n) = k /\ Find(q, n) = k
    BY <2>11 DEF k
  <2>13. \A t \in Nat : Says(d, n, t) <=> e.text >= t
    BY <1>4, <2>5, <2>7, <2>12 DEF Says
  <2>14. \A t \in Nat : Says(c, n, t) <=> q[k].text >= t
    BY <1>4, <2>12 DEF Says, q
  <2>15. \A m, t \in Nat : m # n => (Says(d, m, t) <=> Says(c, m, t))
    <3> SUFFICES ASSUME NEW m \in Nat, NEW t \in Nat, m # n PROVE Says(d, m, t) <=> Says(c, m, t)
      OBVIOUS
    <3>1. Find(q, m) # 0 => Find(q, m) \in DOMAIN q /\ q[Find(q, m)].id = m
      BY <1>1, FindIs
    <3>2. Find(q, m) # 0 => Find(q, m) # k
      BY <2>2, <3>1
    <3> QED BY <2>5, <2>7, <2>11, <3>1, <3>2 DEF Says, q
  <2>16. Says(d, n, 0) <=> Says(c, n, 0)
    BY <2>3, <2>13, <2>14
  <2>17. \A t \in Nat : Says(d, n, t + 1) <=> Says(c, n, t)
    BY <2>3, <2>13, <2>14
  <2> QED BY <2>7, <2>9, <2>10, <2>15, <2>16, <2>17
<1> QED BY <1>3, <1>4

\* An action on the cards leaves the messages alone.
LEMMA CardChanged ==
  ASSUME NEW c \in Copies, NEW k \in DOMAIN c.entries, IsTool(c.entries[k]),
         NEW e \in Entries, IsTool(e), e.id = c.entries[k].id,
         NEW d, d = Ledger([c.entries EXCEPT ![k] = e], c.busy)
  PROVE  /\ d \in Copies /\ Stables(d) = Stables(c)
         /\ LiveIds(d) = LiveIds(c) /\ (LiveOnce(c) => LiveOnce(d))
         /\ \A m, t \in Nat : Says(d, m, t) <=> Says(c, m, t)
         /\ Cards(d) = (Cards(c) \ {c.entries[k]}) \cup {e}
<1> DEFINE q == c.entries
           r == [q EXCEPT ![k] = e]
<1>1. q \in Seq(Entries) /\ c.busy \in BOOLEAN /\ OneEach(q)
      /\ k \in DOMAIN q /\ IsTool(q[k]) /\ e.id = q[k].id
  BY CopyFields
<1>2. /\ r \in Seq(Entries) /\ DOMAIN r = DOMAIN q /\ r[k] = e
      /\ \A i \in DOMAIN q : i # k => r[i] = q[i]
  <2> HIDE DEF q
  <2> QED BY <1>1, OneEntryChanged
<1>3. d = Ledger(r, c.busy)
  OBVIOUS
<1> HIDE DEF q, r
<1>4. OneEach(r)
  BY <1>1, <1>2 DEF OneEach
<1>5. d \in Copies /\ d.entries = r
  BY <1>1, <1>2, <1>3, <1>4, IsCopy
<1>6. \A f : IsTool(f) => ~IsStable(f) /\ ~IsLive(f)
  BY DEF IsTool, IsStable, IsLive
<1>7. \A i \in DOMAIN q :
        /\ IsTool(r[i]) <=> IsTool(q[i])
        /\ IsStable(r[i]) <=> IsStable(q[i])
        /\ IsLive(r[i]) <=> IsLive(q[i])
        /\ r[i].id = q[i].id
        /\ i # k => r[i] = q[i]
  BY <1>1, <1>2, <1>6
<1>8. Stables(d) = Stables(c)
  <2>1. \A i \in DOMAIN q : IsStable(q[i]) => r[i] = q[i]
    BY <1>1, <1>6, <1>7
  <2>2. \A i \in DOMAIN r : IsStable(r[i]) => r[i] = q[i]
    BY <1>2, <1>7, <2>1
  <2> QED BY <1>2, <1>5, <1>7, <2>1, <2>2 DEF Stables, q
<1>9. LiveIds(d) = LiveIds(c) /\ (LiveOnce(c) => LiveOnce(d))
  <2>1. LiveIds(d) = LiveIds(c)
    BY <1>2, <1>5, <1>7 DEF LiveIds, q
  <2>2. LiveOnce(c) => LiveOnce(d)
    BY <1>2, <1>5, <1>7 DEF LiveOnce, q
  <2> QED BY <2>1, <2>2
<1>10. ASSUME NEW m \in Nat, NEW t \in Nat PROVE Says(d, m, t) <=> Says(c, m, t)
  <2>1. \A i : i \in DOMAIN r /\ IsLive(r[i]) /\ r[i].id = m
           <=> i \in DOMAIN q /\ IsLive(q[i]) /\ q[i].id = m
    BY <1>2, <1>7
  <2>2. Find(r, m) = Find(q, m)
    BY <1>1, <1>2, <2>1, FindSame
  <2>3. Find(q, m) # 0 => Find(q, m) \in DOMAIN q /\ Find(q, m) # k
    BY <1>1, <1>6, FindIs
  <2> QED BY <1>2, <1>5, <2>2, <2>3 DEF Says, q
<1>11. Cards(d) = (Cards(c) \ {q[k]}) \cup {e}
  <2>1. \A i \in DOMAIN q : IsTool(q[i]) /\ i # k => q[i] # q[k]
    BY <1>1 DEF OneEach
  <2> QED BY <1>1, <1>2, <1>5, <1>7, <2>1 DEF Cards, q
<1> QED BY <1>5, <1>8, <1>9, <1>10, <1>11 DEF q

\* A card more.
LEMMA CardAdded ==
  ASSUME NEW c \in Copies, NEW e \in Entries, IsTool(e), \A f \in Cards(c) : f.id # e.id,
         NEW d, d = Ledger(Append(c.entries, e), c.busy)
  PROVE  /\ d \in Copies /\ Stables(d) = Stables(c)
         /\ LiveIds(d) = LiveIds(c) /\ (LiveOnce(c) => LiveOnce(d))
         /\ \A m, t \in Nat : Says(d, m, t) <=> Says(c, m, t)
         /\ Cards(d) = Cards(c) \cup {e}
<1> DEFINE q == c.entries
           r == Append(q, e)
           k == Len(q) + 1
<1>1. q \in Seq(Entries) /\ c.busy \in BOOLEAN /\ OneEach(q)
  BY CopyFields
<1>2. /\ r \in Seq(Entries) /\ DOMAIN r = DOMAIN q \cup {k} /\ k \notin DOMAIN q /\ r[k] = e
      /\ \A i \in DOMAIN q : r[i] = q[i] /\ i <= Len(q)
  <2> HIDE DEF q
  <2> QED BY <1>1, OneEntryMore
<1>3. d = Ledger(r, c.busy)
  OBVIOUS
<1> HIDE DEF q, r, k
<1>4. OneEach(r)
  <2>1. \A i \in DOMAIN q : IsTool(q[i]) => q[i].id # e.id
    BY DEF Cards, q
  <2> QED BY <1>1, <1>2, <2>1 DEF OneEach
<1>5. d \in Copies /\ d.entries = r
  BY <1>1, <1>2, <1>3, <1>4, IsCopy
<1>6. ~IsStable(e) /\ ~IsLive(e)
  BY DEF IsTool, IsStable, IsLive
<1>7. Stables(d) = Stables(c)
  BY <1>2, <1>5, <1>6 DEF Stables, q
<1>8. LiveIds(d) = LiveIds(c) /\ (LiveOnce(c) => LiveOnce(d))
  BY <1>2, <1>5, <1>6 DEF LiveIds, LiveOnce, q
<1>9. ASSUME NEW m \in Nat, NEW t \in Nat PROVE Says(d, m, t) <=> Says(c, m, t)
  <2>1. \A i : i \in DOMAIN r /\ IsLive(r[i]) /\ r[i].id = m
           <=> i \in DOMAIN q /\ IsLive(q[i]) /\ q[i].id = m
    BY <1>2, <1>6
  <2>2. Find(r, m) = Find(q, m)
    BY <1>1, <1>2, <2>1, FindSame
  <2>3. Find(q, m) # 0 => Find(q, m) \in DOMAIN q
    BY <1>1, FindIs
  <2> QED BY <1>2, <1>5, <2>2, <2>3 DEF Says, q
<1>10. Cards(d) = Cards(c) \cup {e}
  BY <1>2, <1>5 DEF Cards, q
<1> QED BY <1>5, <1>7, <1>8, <1>9, <1>10

\* A card of another status is a card.
LEMMA CardExcept ==
  \A f \in Entries : IsTool(f) =>
    \A s \in Statuses, b \in BOOLEAN :
      [f EXCEPT !.status = s, !.asks = b]
        = [kind |-> "tool", id |-> f.id, status |-> s, asks |-> b]
<1> SUFFICES ASSUME NEW f \in Entries, IsTool(f), NEW s \in Statuses, NEW b \in BOOLEAN
             PROVE  [f EXCEPT !.status = s, !.asks = b]
                      = [kind |-> "tool", id |-> f.id, status |-> s, asks |-> b]
  OBVIOUS
<1> DEFINE T == [kind : {"tool"}, id : Nat, status : Statuses, asks : BOOLEAN]
           g == [f EXCEPT !.status = s, !.asks = b]
           h == [kind |-> "tool", id |-> f.id, status |-> s, asks |-> b]
<1>1. f \in T
  BY DEF Entries, IsTool
<1>2. g \in T /\ h \in T
  BY <1>1
<1>3. g.kind = "tool" /\ g.id = f.id /\ g.status = s /\ g.asks = b
  BY <1>1
<1>4. h.kind = "tool" /\ h.id = f.id /\ h.status = s /\ h.asks = b
  OBVIOUS
<1> HIDE DEF g, h
<1>5. g = h
  BY <1>2, <1>3, <1>4
<1> QED BY <1>5 DEF g, h

\* tool_changed: the card stands so afterwards, whether it was there or not.
LEMMA ApplyTool ==
  ASSUME NEW c \in Copies, NEW n \in Nat, NEW s \in {"running"} \cup Ended,
         NEW d, d = Apply(c, Tool(n, s))
  PROVE  /\ d \in Copies /\ Stables(d) = Stables(c)
         /\ LiveIds(d) = LiveIds(c) /\ (LiveOnce(c) => LiveOnce(d))
         /\ \A m, t \in Nat : Says(d, m, t) <=> Says(c, m, t)
         /\ Cards(d) = {f \in Cards(c) : f.id # n} \cup {Card(n, s)}
<1> DEFINE q == c.entries
           k == FindTool(q, n)
           e == Card(n, s)
           w == Moved(q[k], s)
<1>1. q \in Seq(Entries) /\ c.busy \in BOOLEAN /\ OneEach(q)
      /\ c = [entries |-> q, busy |-> c.busy]
  BY CopyFields
<1>2. /\ k = 0 => \A i \in DOMAIN q : ~(IsTool(q[i]) /\ q[i].id = n)
      /\ k # 0 => k \in DOMAIN q /\ IsTool(q[k]) /\ q[k].id = n
  <2> HIDE DEF q
  <2> QED BY <1>1, FindToolIs
<1>3. e \in Entries /\ IsTool(e) /\ e.id = n
  BY DEF Entries, Card, IsTool, Statuses, Ended
<1>4. CASE k = 0
  <2>1. d = [c EXCEPT !.entries = Append(q, e)]
    BY <1>4 DEF Apply, Text, Added, Tool
  <2>2. d = Ledger(Append(q, e), c.busy)
    <3> HIDE DEF q, e
    <3> QED BY <1>1, <2>1 DEF Ledger
  <2>3. \A f \in Cards(c) : f.id # n
    <3> HIDE DEF k, e
    <3> QED BY <1>2, <1>4 DEF Cards
  <2>4. {f \in Cards(c) : f.id # n} = Cards(c)
    BY <2>3
  <2> HIDE DEF k, e
  <2> QED BY <1>3, <2>2, <2>3, <2>4, CardAdded DEF e
<1>5. CASE k # 0
  <2>1. d = [c EXCEPT !.entries = [q EXCEPT ![k] = w]]
    BY <1>5 DEF Apply, Text, Added, Tool
  <2>2. k \in DOMAIN q /\ IsTool(q[k]) /\ q[k].id = n /\ q[k] \in Entries
    <3> HIDE DEF q, k
    <3> QED BY <1>1, <1>2, <1>5
  <2>3. w = e
    <3>1. s # "pending" /\ s \in Statuses
      BY DEF Ended, Statuses
    <3> HIDE DEF q, k
    <3>2. w = [q[k] EXCEPT !.status = s, !.asks = FALSE]
      BY <3>1 DEF Moved
    <3> QED BY <2>2, <3>1, <3>2, CardExcept DEF Card
  <2>4. d = Ledger([q EXCEPT ![k] = e], c.busy)
    <3>1. d = [c EXCEPT !.entries = [q EXCEPT ![k] = e]]
      <4> HIDE DEF q, k, e, w
      <4> QED BY <2>1, <2>3
    <3> HIDE DEF q, k, e
    <3> QED BY <1>1, <3>1 DEF Ledger
  <2>5. {f \in Cards(c) : f.id # n} = Cards(c) \ {q[k]}
    <3>1. \A i \in DOMAIN q : IsTool(q[i]) /\ q[i].id = n => i = k
      <4> HIDE DEF q, k
      <4> QED BY <1>1, <2>2 DEF OneEach
    <3> HIDE DEF k
    <3> QED BY <2>2, <3>1 DEF Cards
  <2> HIDE DEF k, e
  <2>6. Cards(d) = (Cards(c) \ {q[k]}) \cup {e} /\ d \in Copies /\ Stables(d) = Stables(c)
        /\ LiveIds(d) = LiveIds(c) /\ (LiveOnce(c) => LiveOnce(d))
        /\ \A m, t \in Nat : Says(d, m, t) <=> Says(c, m, t)
    BY <1>3, <2>2, <2>4, CardChanged
  <2> QED BY <2>5, <2>6 DEF e
<1> QED BY <1>4, <1>5

\* confirm_requested: a card under way asks, if there is one.
LEMMA ApplyConfirm ==
  ASSUME NEW c \in Copies, NEW d, d = Apply(c, Confirm)
  PROVE  /\ d \in Copies /\ Stables(d) = Stables(c)
         /\ LiveIds(d) = LiveIds(c) /\ (LiveOnce(c) => LiveOnce(d))
         /\ \A m, t \in Nat : Says(d, m, t) <=> Says(c, m, t)
         /\ \/ d = c /\ \A f \in Cards(c) : ~Under(f)
            \/ \E f \in Cards(c) :
                 /\ Under(f)
                 /\ Cards(d) = (Cards(c) \ {f}) \cup {[kind |-> "tool", id |-> f.id,
                                                       status |-> "pending", asks |-> TRUE]}
<1> DEFINE q == c.entries
           k == FindActive(q)
           e == [kind |-> "tool", id |-> q[k].id, status |-> "pending", asks |-> TRUE]
<1>1. q \in Seq(Entries) /\ c.busy \in BOOLEAN /\ OneEach(q)
      /\ c = [entries |-> q, busy |-> c.busy]
  BY CopyFields
<1>2. /\ k = 0 => \A i \in DOMAIN q : ~(IsTool(q[i]) /\ Under(q[i]))
      /\ k # 0 => k \in DOMAIN q /\ IsTool(q[k]) /\ Under(q[k])
  <2> HIDE DEF q
  <2> QED BY <1>1, FindActiveIs
<1>3. CASE k = 0
  <2>1. d = c
    BY <1>3 DEF Apply, Text, Added, Tool, Confirm
  <2>2. \A f \in Cards(c) : ~Under(f)
    <3> HIDE DEF k
    <3> QED BY <1>2, <1>3 DEF Cards
  <2> QED BY <2>1, <2>2
<1>4. CASE k # 0
  <2>1. d = [c EXCEPT !.entries[k] = [@ EXCEPT !.status = "pending", !.asks = TRUE]]
    BY <1>4 DEF Apply, Text, Added, Tool, Confirm
  <2>2. k \in DOMAIN q /\ IsTool(q[k]) /\ Under(q[k]) /\ q[k] \in Entries
    <3> HIDE DEF q, k
    <3> QED BY <1>1, <1>2, <1>4
  <2>3. [q[k] EXCEPT !.status = "pending", !.asks = TRUE] = e
    <3> HIDE DEF q, k
    <3> QED BY <2>2, CardExcept DEF Statuses
  <2>4. e \in Entries /\ IsTool(e) /\ e.id = q[k].id
    <3> HIDE DEF q, k
    <3> QED BY <2>2 DEF Entries, IsTool, Statuses
  <2>5. d = Ledger([q EXCEPT ![k] = e], c.busy)
    <3>1. d = [c EXCEPT !.entries = [q EXCEPT ![k] = e]]
      BY <2>1, <2>3
    <3> HIDE DEF q, k, e
    <3> QED BY <1>1, <3>1 DEF Ledger
  <2> HIDE DEF k, e
  <2>6. Cards(d) = (Cards(c) \ {q[k]}) \cup {e} /\ d \in Copies /\ Stables(d) = Stables(c)
        /\ LiveIds(d) = LiveIds(c) /\ (LiveOnce(c) => LiveOnce(d))
        /\ \A m, t \in Nat : Says(d, m, t) <=> Says(c, m, t)
    BY <2>2, <2>4, <2>5, CardChanged
  <2>7. q[k] \in Cards(c)
    BY <2>2 DEF Cards
  <2> QED BY <2>2, <2>6, <2>7 DEF e
<1> QED BY <1>3, <1>4

\* busy_changed touches no entry.
LEMMA ApplyBusy ==
  ASSUME NEW c \in Copies, NEW b \in BOOLEAN, NEW d, d = Apply(c, Busy(b))
  PROVE  /\ d \in Copies /\ d.entries = c.entries
         /\ Cards(d) = Cards(c) /\ Stables(d) = Stables(c)
         /\ LiveIds(d) = LiveIds(c) /\ (LiveOnce(c) => LiveOnce(d))
         /\ \A m, t \in Nat : Says(d, m, t) <=> Says(c, m, t)
<1>1. d = [c EXCEPT !.busy = b]
  BY DEF Apply, Added, Text, Tool, Confirm, Busy
<1>2. d = Ledger(c.entries, b)
  BY <1>1, CopyFields DEF Ledger
<1>3. d \in Copies /\ d.entries = c.entries
  BY <1>2, CopyFields, IsCopy
<1> QED BY <1>3 DEF Cards, Stables, LiveIds, LiveOnce, Says

-----------------------------------------------------------------------------
(* The ledger that is rebuilt from Pi's file.                              *)

Piece(file, i) ==
  <<Msg(i, TRUE, file[i].text)>>
    \o (IF file[i].tool = "none" THEN <<>> ELSE <<Card(i, file[i].tool)>>)
OfFile(file) == FlattenSeq([i \in DOMAIN file |-> Piece(file, i)])

ToolsIn(q) == {q[i] : i \in {i \in DOMAIN q : IsTool(q[i])}}
NoLive(q)  == \A i \in DOMAIN q : ~IsLive(q[i])
Called(file, n) == {Card(k, file[k].tool) : k \in {k \in 1 .. n : file[k].tool # "none"}}

\* Two lists of entries, one after the other.
LEMMA Joined ==
  ASSUME NEW q \in Seq(Entries), NEW r \in Seq(Entries), NEW s, s = q \o r,
         OneEach(q), OneEach(r), NoLive(q), NoLive(r),
         \A e \in ToolsIn(q), f \in ToolsIn(r) : e.id # f.id
  PROVE  /\ s \in Seq(Entries) /\ OneEach(s) /\ NoLive(s)
         /\ ToolsIn(s) = ToolsIn(q) \cup ToolsIn(r)
<1> DEFINE m == Len(q)
           n == Len(r)
<1>1. /\ s \in Seq(Entries) /\ Len(s) = m + n /\ m \in Nat /\ n \in Nat
      /\ \A i \in 1 .. m + n : s[i] = IF i <= m THEN q[i] ELSE r[i - m]
      /\ DOMAIN q = 1 .. m /\ DOMAIN r = 1 .. n
  BY ConcatProperties
<1>2. DOMAIN s = 1 .. m + n
  BY <1>1
<1> HIDE DEF m, n
<1>3. /\ \A i \in DOMAIN q : i \in DOMAIN s /\ s[i] = q[i]
      /\ \A i \in DOMAIN r : m + i \in DOMAIN s /\ s[m + i] = r[i]
  BY <1>1, <1>2
<1>4. \A i \in DOMAIN s : \/ i \in DOMAIN q /\ s[i] = q[i]
                          \/ i - m \in DOMAIN r /\ s[i] = r[i - m]
  BY <1>1, <1>2
<1>5. NoLive(s)
  BY <1>4 DEF NoLive
<1>6. ToolsIn(s) = ToolsIn(q) \cup ToolsIn(r)
  <2>1. ASSUME NEW e \in ToolsIn(s) PROVE e \in ToolsIn(q) \cup ToolsIn(r)
    <3>1. PICK i \in DOMAIN s : IsTool(s[i]) /\ e = s[i]
      BY DEF ToolsIn
    <3> QED BY <1>4, <3>1 DEF ToolsIn
  <2>2. ASSUME NEW e \in ToolsIn(q) PROVE e \in ToolsIn(s)
    BY <1>3 DEF ToolsIn
  <2>3. ASSUME NEW e \in ToolsIn(r) PROVE e \in ToolsIn(s)
    <3>1. PICK i \in DOMAIN r : IsTool(r[i]) /\ e = r[i]
      BY DEF ToolsIn
    <3> QED BY <1>3, <3>1 DEF ToolsIn
  <2> QED BY <2>1, <2>2, <2>3
<1>7. ASSUME NEW i \in DOMAIN s, NEW j \in DOMAIN s, IsTool(s[i]), IsTool(s[j]), s[i].id = s[j].id
      PROVE  i = j
  <2>1. CASE i \in DOMAIN q /\ s[i] = q[i] /\ j \in DOMAIN q /\ s[j] = q[j]
    BY <1>7, <2>1 DEF OneEach
  <2>2. CASE i - m \in DOMAIN r /\ s[i] = r[i - m] /\ j - m \in DOMAIN r /\ s[j] = r[j - m]
    <3>1. i - m = j - m
      BY <1>7, <2>2 DEF OneEach
    <3>2. i \in Nat /\ j \in Nat
      BY <1>1, <1>2
    <3> QED BY <1>1, <3>1, <3>2
  <2>3. CASE i \in DOMAIN q /\ s[i] = q[i] /\ j - m \in DOMAIN r /\ s[j] = r[j - m]
    BY <1>7, <2>3 DEF ToolsIn
  <2>4. CASE j \in DOMAIN q /\ s[j] = q[j] /\ i - m \in DOMAIN r /\ s[i] = r[i - m]
    BY <1>7, <2>4 DEF ToolsIn
  <2> QED BY <1>4, <2>1, <2>2, <2>3, <2>4
<1>8. OneEach(s)
  BY <1>7 DEF OneEach
<1> QED BY <1>1, <1>5, <1>6, <1>8

\* What one message of the file becomes.
LEMMA PieceIs ==
  ASSUME NEW file \in Files, NEW k \in DOMAIN file
  PROVE  /\ Piece(file, k) \in Seq(Entries) /\ OneEach(Piece(file, k)) /\ NoLive(Piece(file, k))
         /\ ToolsIn(Piece(file, k)) = IF file[k].tool = "none" THEN {} ELSE {Card(k, file[k].tool)}
<1> DEFINE m == Msg(k, TRUE, file[k].text)
           e == Card(k, file[k].tool)
           p == Piece(file, k)
<1>1. k \in Nat /\ file[k] \in [text : Nat, tool : {"none", "pending"} \cup Ended]
  <2> DEFINE T == [text : Nat, tool : {"none", "pending"} \cup Ended]
  <2>1. file \in Seq(T)
    BY DEF Files
  <2> HIDE DEF T
  <2>2. k \in 1 .. Len(file) /\ Len(file) \in Nat
    BY <2>1
  <2>3. file[k] \in T
    BY <2>1, <2>2, ElementOfSeq
  <2> QED BY <2>2, <2>3 DEF T
<1>2. m \in Entries /\ ~IsTool(m) /\ ~IsLive(m)
  BY <1>1 DEF Entries, Msg, IsTool, IsLive
<1>3. CASE file[k].tool = "none"
  <2>1. p = <<m>>
    BY <1>3 DEF Piece
  <2> HIDE DEF p, m
  <2>2. p \in Seq(Entries) /\ DOMAIN p = {1} /\ p[1] = m
    BY <1>2, <2>1
  <2>3. ToolsIn(p) = {} /\ NoLive(p) /\ OneEach(p)
    BY <1>2, <2>2 DEF ToolsIn, NoLive, OneEach
  <2> QED BY <1>3, <2>2, <2>3 DEF p
<1>4. CASE file[k].tool # "none"
  <2>1. e \in Entries /\ IsTool(e) /\ ~IsLive(e)
    BY <1>1, <1>4 DEF Entries, Card, IsTool, IsLive, Statuses, Ended
  <2>2. p = <<m>> \o <<e>>
    BY <1>4 DEF Piece
  <2> HIDE DEF p, m, e
  <2>3. /\ <<m>> \in Seq(Entries) /\ Len(<<m>>) = 1 /\ <<m>>[1] = m
        /\ <<e>> \in Seq(Entries) /\ Len(<<e>>) = 1 /\ <<e>>[1] = e
    BY <1>2, <2>1
  <2>4. p \in Seq(Entries) /\ DOMAIN p = {1, 2} /\ p[1] = m /\ p[2] = e
    <3> DEFINE a == <<m>>
               b == <<e>>
    <3>1. /\ a \in Seq(Entries) /\ Len(a) = 1 /\ a[1] = m
          /\ b \in Seq(Entries) /\ Len(b) = 1 /\ b[1] = e
      BY <2>3
    <3>2. p = a \o b
      BY <2>2
    <3> HIDE DEF a, b
    <3>3. /\ p \in Seq(Entries) /\ Len(p) = 1 + 1
          /\ \A i \in 1 .. 1 + 1 : p[i] = IF i <= 1 THEN a[i] ELSE b[i - 1]
      BY <3>1, <3>2, ConcatProperties
    <3>4. DOMAIN p = 1 .. 2
      BY <3>3
    <3> QED BY <3>1, <3>3, <3>4
  <2>5. ToolsIn(p) = {e} /\ NoLive(p) /\ OneEach(p)
    BY <1>2, <2>1, <2>4 DEF ToolsIn, NoLive, OneEach
  <2> QED BY <1>4, <2>4, <2>5 DEF p, e
<1> QED BY <1>3, <1>4

\* The cards are those of the tools that were called, each once, and nothing is
\* being streamed.
LEMMA FileIs ==
  ASSUME NEW file \in Files
  PROVE  /\ OfFile(file) \in Seq(Entries) /\ OneEach(OfFile(file)) /\ NoLive(OfFile(file))
         /\ ToolsIn(OfFile(file)) = Called(file, Len(file))
<1> DEFINE n == Len(file)
           p == [i \in DOMAIN file |-> Piece(file, i)]
           Flat(g, m) == g = [i \in 1 .. m |-> IF i = 1 THEN p[i] ELSE g[i - 1] \o p[i]]
<1>1. n \in Nat /\ DOMAIN file = 1 .. n /\ DOMAIN p = 1 .. n
  BY DEF Files
<1>2. CASE n = 0
  <2>1. p = <<>>
    BY <1>1, <1>2
  <2>2. OfFile(file) = <<>>
    BY <2>1 DEF OfFile, FlattenSeq
  <2>3. <<>> \in Seq(Entries) /\ DOMAIN (<<>>) = {} /\ 1 .. 0 = {}
    OBVIOUS
  <2> QED BY <1>2, <2>2, <2>3 DEF OneEach, NoLive, ToolsIn, Called
<1>3. CASE n # 0
  <2> DEFINE c == CHOOSE g : Flat(g, n)
  <2>1. OfFile(file) = c[n]
    <3>1. Len(p) = n
      BY <1>1
    <3> QED BY <1>1, <1>3, <3>1 DEF OfFile, FlattenSeq
  <2>2. \A m \in Nat : \E g : Flat(g, m)
    <3> DEFINE S == {m \in Nat : \E g : Flat(g, m)}
    <3> HIDE DEF p
    <3>1. 0 \in S
      <4> DEFINE g == [i \in 1 .. 0 |-> 0]
      <4>1. \A i \in 1 .. 0 : FALSE
        OBVIOUS
      <4>2. Flat(g, 0)
        BY <4>1
      <4> QED BY <4>2
    <3>2. ASSUME NEW m \in Nat, m \in S PROVE m + 1 \in S
      <4>1. PICK g : Flat(g, m)
        BY <3>2
      <4> DEFINE h == [i \in 1 .. m + 1 |-> IF i = 1 THEN p[i] ELSE g[i - 1] \o p[i]]
      <4>2. \A i \in 1 .. m : h[i] = g[i]
        <5>1. \A i \in 1 .. m : g[i] = IF i = 1 THEN p[i] ELSE g[i - 1] \o p[i]
          BY <4>1
        <5>2. \A i \in 1 .. m : i \in 1 .. m + 1
          OBVIOUS
        <5> QED BY <5>1, <5>2
      <4>3. \A i \in 1 .. m + 1 : i # 1 => h[i - 1] = g[i - 1]
        <5>1. \A i \in 1 .. m + 1 : i # 1 => i - 1 \in 1 .. m
          OBVIOUS
        <5> HIDE DEF h
        <5> QED BY <4>2, <5>1
      <4>4. h = [i \in 1 .. m + 1 |-> IF i = 1 THEN p[i] ELSE g[i - 1] \o p[i]]
        OBVIOUS
      <4> HIDE DEF h
      <4>5. Flat(h, m + 1)
        BY <4>3, <4>4
      <4> HIDE DEF Flat
      <4> QED BY <4>5
    <3>3. \A m \in Nat : m \in S
      <4> HIDE DEF S
      <4> QED BY <3>1, <3>2, Upward
    <3> QED BY <3>3
  <2>3. Flat(c, n)
    <3> HIDE DEF Flat
    <3> QED BY <1>1, <2>2
  <2> HIDE DEF c
  <2> DEFINE Good(m) == /\ c[m] \in Seq(Entries) /\ OneEach(c[m]) /\ NoLive(c[m])
                        /\ ToolsIn(c[m]) = Called(file, m)
             S == {m \in Nat : m < n => Good(m + 1)}
  <2>4. \A m \in 1 .. n :
          /\ p[m] \in Seq(Entries) /\ OneEach(p[m]) /\ NoLive(p[m])
          /\ ToolsIn(p[m]) = IF file[m].tool = "none" THEN {} ELSE {Card(m, file[m].tool)}
    BY <1>1, PieceIs
  <2>5. c[1] = p[1] /\ \A m \in 2 .. n : c[m] = c[m - 1] \o p[m]
    <3> HIDE DEF p
    <3>1. \A m \in 1 .. n : c[m] = IF m = 1 THEN p[m] ELSE c[m - 1] \o p[m]
      BY <2>3
    <3>2. 1 \in 1 .. n /\ \A m \in 2 .. n : m \in 1 .. n /\ m # 1
      BY <1>1, <1>3
    <3> QED BY <3>1, <3>2
  <2> HIDE DEF p, n, Flat
  <2>6. 0 \in S
    <3>1. 1 \in 1 .. n
      BY <1>1, <1>3
    <3>2. Called(file, 1) = IF file[1].tool = "none" THEN {} ELSE {Card(1, file[1].tool)}
      <4>1. 1 .. 1 = {1}
        OBVIOUS
      <4> QED BY <4>1 DEF Called
    <3>3. Good(1)
      BY <2>4, <2>5, <3>1, <3>2
    <3>4. 0 + 1 = 1
      OBVIOUS
    <3> HIDE DEF Good
    <3> QED BY <3>3, <3>4
  <2>7. ASSUME NEW m \in Nat, m \in S PROVE m + 1 \in S
    <3>1. ASSUME m + 1 < n PROVE Good(m + 2)
      <4>1. /\ m < n /\ m + 2 \in 2 .. n /\ m + 2 \in 1 .. n /\ (m + 2) - 1 = m + 1
            /\ m + 1 \in Nat
        BY <1>1, <3>1
      <4>2. Good(m + 1)
        <5> HIDE DEF Good
        <5> QED BY <2>7, <4>1
      <4>3. c[m + 2] = c[m + 1] \o p[m + 2]
        BY <2>5, <4>1
      <4>4. Called(file, m + 2) = Called(file, m + 1) \cup ToolsIn(p[m + 2])
        <5>1. 1 .. m + 2 = (1 .. m + 1) \cup {m + 2}
          OBVIOUS
        <5>2. ToolsIn(p[m + 2]) = IF file[m + 2].tool = "none" THEN {}
                                  ELSE {Card(m + 2, file[m + 2].tool)}
          BY <2>4, <4>1
        <5> QED BY <5>1, <5>2 DEF Called
      <4>5. \A e \in Called(file, m + 1), f \in ToolsIn(p[m + 2]) : e.id # f.id
        <5>1. \A e \in Called(file, m + 1) : e.id \in 1 .. m + 1
          BY DEF Called, Card
        <5>2. \A f \in ToolsIn(p[m + 2]) : f.id = m + 2
          <6>1. \A s : Card(m + 2, s).id = m + 2
            BY DEF Card
          <6>2. ToolsIn(p[m + 2]) = IF file[m + 2].tool = "none" THEN {}
                                    ELSE {Card(m + 2, file[m + 2].tool)}
            BY <2>4, <4>1
          <6> QED BY <6>1, <6>2
        <5>3. m + 2 \notin 1 .. m + 1
          OBVIOUS
        <5> QED BY <5>1, <5>2, <5>3
      <4>6. p[m + 2] \in Seq(Entries) /\ OneEach(p[m + 2]) /\ NoLive(p[m + 2])
        BY <2>4, <4>1
      <4> DEFINE q == c[m + 1]
                 r == p[m + 2]
                 s == c[m + 2]
      <4>7. /\ q \in Seq(Entries) /\ OneEach(q) /\ NoLive(q) /\ ToolsIn(q) = Called(file, m + 1)
            /\ r \in Seq(Entries) /\ OneEach(r) /\ NoLive(r)
            /\ s = q \o r
        BY <4>2, <4>3, <4>6
      <4>8. /\ \A e \in ToolsIn(q), f \in ToolsIn(r) : e.id # f.id
            /\ Called(file, m + 2) = Called(file, m + 1) \cup ToolsIn(r)
        BY <4>4, <4>5, <4>7
      <4> HIDE DEF q, r, s
      <4>9. /\ s \in Seq(Entries) /\ OneEach(s) /\ NoLive(s)
            /\ ToolsIn(s) = ToolsIn(q) \cup ToolsIn(r)
        BY <4>7, <4>8, Joined
      <4> QED BY <4>7, <4>8, <4>9 DEF s
    <3>2. m + 1 \in Nat /\ (m + 1) + 1 = m + 2
      OBVIOUS
    <3> HIDE DEF Good
    <3> QED BY <3>1, <3>2
  <2>8. \A m \in Nat : m \in S
    <3> HIDE DEF S
    <3> QED BY <2>6, <2>7, Upward
  <2>9. n - 1 \in Nat /\ n - 1 < n /\ (n - 1) + 1 = n
    BY <1>1, <1>3
  <2>10. Good(n)
    <3> HIDE DEF Good
    <3> QED BY <2>8, <2>9
  <2> QED BY <2>1, <2>10 DEF n
<1> QED BY <1>2, <1>3

-----------------------------------------------------------------------------
(* What a step of the turn does to two copies, and to an action replayed.  *)

\* The cards of a copy, and whether it asks, are as the types say.
LEMMA CardTypes ==
  ASSUME NEW c \in Copies, NEW e \in Cards(c)
  PROVE  /\ e.id \in Nat /\ (e.asks => Under(e)) /\ e.status \in Statuses
         /\ \A f \in Cards(c) : f.id = e.id => f = e
<1>1. PICK i \in DOMAIN c.entries : IsTool(c.entries[i]) /\ e = c.entries[i]
  BY DEF Cards
<1>2. c.entries \in Seq(Entries) /\ OneEach(c.entries)
  BY CopyFields
<1>3. e \in Entries /\ IsTool(e)
  <2>1. i \in 1 .. Len(c.entries)
    BY <1>1, <1>2
  <2> QED BY <1>1, <1>2, <2>1, ElementOfSeq
<1>4. e.id \in Nat /\ (e.asks => e.status = "pending") /\ e.status \in Statuses
  BY <1>3 DEF Entries, IsTool
<1>5. \A f \in Cards(c) : f.id = e.id => f = e
  BY <1>1, <1>2 DEF Cards, OneEach
<1> QED BY <1>4, <1>5 DEF Under, Ended

SameWords(c, d) == \A m, t \in Nat : Says(d, m, t) <=> Says(c, m, t)

\* Copies with the same cards are told the same.
LEMMA SameCardsSame ==
  ASSUME NEW c, NEW d, Cards(d) = Cards(c), NEW k
  PROVE  /\ Underway(d, k) <=> Underway(c, k)
         /\ HasCard(d, k) <=> HasCard(c, k)
         /\ \A x : (Told(x, d, k) <=> Told(x, c, k)) /\ (Told(d, x, k) <=> Told(c, x, k))
BY DEF Underway, HasCard, Told

\* Copies that say the same read the same.
LEMMA SameWordsSame ==
  ASSUME NEW c, NEW d, SameWords(c, d), NEW m \in Nat
  PROVE  \A x : (Reads(x, d, m) <=> Reads(x, c, m)) /\ (Reads(d, x, m) <=> Reads(c, x, m))
BY DEF Reads, SameWords

\* Words: a copy that reads what the ledger reads goes on doing so, and one that
\* reads what the ledger reads after an action read it before.
Wordy(l, a) ==
  \/ \E n \in Nat : a = Added(n) /\ n \notin LiveIds(l)
  \/ \E n \in Nat : a = Text(n)
  \/ \E b \in BOOLEAN : a = Busy(b)

\* Every copy that says t says less, and says nothing of what it does not have.
LEMMA SaysLess ==
  ASSUME NEW c \in Copies, NEW m \in Nat, NEW t \in Nat, Says(c, m, t)
  PROVE  /\ \A u \in Nat : u <= t => Says(c, m, u)
         /\ m \in LiveIds(c)
<1> DEFINE k == Find(c.entries, m)
<1>1. c.entries \in Seq(Entries)
  BY CopyFields
<1>2. k # 0 /\ c.entries[k].text >= t
  BY DEF Says
<1>3. k \in DOMAIN c.entries /\ IsLive(c.entries[k]) /\ c.entries[k].id = m
  BY <1>1, <1>2, FindIs
<1>4. c.entries[k] \in Entries
  <2>1. k \in 1 .. Len(c.entries)
    BY <1>1, <1>3
  <2> HIDE DEF k
  <2> QED BY <1>1, <2>1, ElementOfSeq
<1>5. c.entries[k].text \in Nat
  <2> HIDE DEF k
  <2> QED BY <1>3, <1>4 DEF Entries, IsLive
<1>6. \A u \in Nat : u <= t => c.entries[k].text >= u
  <2> HIDE DEF k
  <2> QED BY <1>2, <1>5
<1> QED BY <1>2, <1>3, <1>6 DEF Says, LiveIds

\* Such an action leaves the cards and the messages from Pi's file.
LEMMA WordyCopy ==
  ASSUME NEW l \in Copies, NEW a, Wordy(l, a), NEW c \in Copies, NEW d, d = Apply(c, a)
  PROVE  d \in Copies /\ Cards(d) = Cards(c) /\ Stables(d) = Stables(c)
BY ApplyAdded, ApplyText, ApplyBusy DEF Wordy

\* And what was read is read, with the action or without.
LEMMA WordyReads ==
  ASSUME NEW l \in Copies, NEW a, Wordy(l, a), NEW l2, l2 = Apply(l, a),
         NEW c \in Copies, NEW d, d = Apply(c, a), NEW m \in Nat
  PROVE  /\ Reads(l, c, m) => Reads(l2, d, m)
         /\ Reads(l2, c, m) => Reads(l, c, m)
<1>1. CASE \E n \in Nat : a = Added(n) /\ n \notin LiveIds(l)
  <2>1. PICK n \in Nat : a = Added(n) /\ n \notin LiveIds(l)
    BY <1>1
  <2>2. /\ \A t \in Nat : Says(l2, n, t) <=> t = 0
        /\ \A k, t \in Nat : k # n => (Says(l2, k, t) <=> Says(l, k, t))
    BY <2>1, ApplyAdded
  <2>3. /\ \A t \in Nat : Says(d, n, t) <=> t = 0
        /\ \A k, t \in Nat : k # n => (Says(d, k, t) <=> Says(c, k, t))
    BY <2>1, ApplyAdded
  <2>4. \A t \in Nat : ~Says(l, n, t)
    BY <2>1, SaysLess
  <2> QED BY <2>2, <2>3, <2>4 DEF Reads
<1>2. CASE \E n \in Nat : a = Text(n)
  <2>1. PICK n \in Nat : a = Text(n)
    BY <1>2
  <2>2. /\ Says(l2, n, 0) <=> Says(l, n, 0)
        /\ \A t \in Nat : Says(l2, n, t + 1) <=> Says(l, n, t)
        /\ \A k, t \in Nat : k # n => (Says(l2, k, t) <=> Says(l, k, t))
    BY <2>1, ApplyText
  <2>3. /\ Says(d, n, 0) <=> Says(c, n, 0)
        /\ \A t \in Nat : Says(d, n, t + 1) <=> Says(c, n, t)
        /\ \A k, t \in Nat : k # n => (Says(d, k, t) <=> Says(c, k, t))
    BY <2>1, ApplyText
  <2>4. CASE m # n
    BY <2>2, <2>3, <2>4 DEF Reads
  <2>5. CASE m = n
    <3>1. ASSUME Reads(l, c, n), NEW t \in Nat, Says(l2, n, t) PROVE Says(d, n, t)
      <4>1. CASE t = 0
        BY <2>2, <2>3, <3>1, <4>1 DEF Reads
      <4>2. CASE t # 0
        <5>1. t - 1 \in Nat /\ t = (t - 1) + 1
          BY <4>2
        <5> QED BY <2>2, <2>3, <3>1, <5>1 DEF Reads
      <4> QED BY <4>1, <4>2
    <3>2. ASSUME Reads(l2, c, n), NEW t \in Nat, Says(l, n, t) PROVE Says(c, n, t)
      <4>1. Says(l2, n, t + 1) /\ t + 1 \in Nat
        BY <2>2, <3>2
      <4>2. Says(c, n, t + 1)
        BY <3>2, <4>1 DEF Reads
      <4> QED BY <4>1, <4>2, SaysLess
    <3> QED BY <2>5, <3>1, <3>2 DEF Reads
  <2> QED BY <2>4, <2>5
<1>3. CASE \E b \in BOOLEAN : a = Busy(b)
  <2>1. (\A k, t \in Nat : Says(l2, k, t) <=> Says(l, k, t))
        /\ (\A k, t \in Nat : Says(d, k, t) <=> Says(c, k, t))
    BY <1>3, ApplyBusy
  <2> QED BY <2>1 DEF Reads
<1> QED BY <1>1, <1>2, <1>3 DEF Wordy

\* Such an action, while no tool is called.
LEMMA WordyFollows ==
  ASSUME NEW l \in Copies, NEW a, Wordy(l, a), NEW c,
         NEW p, NEW n, NEW p2, NEW n2, p \notin Calling, p2 \notin Calling, Follows(c, l, p, n)
  PROVE  Follows(Apply(c, a), Apply(l, a), p2, n2)
<1> DEFINE d == Apply(c, a)
           l2 == Apply(l, a)
<1>1. c \in Copies /\ p2 # "running"
  BY DEF Follows, Calling
<1>2. /\ d \in Copies /\ Cards(d) = Cards(c) /\ Stables(d) = Stables(c)
      /\ Cards(l2) = Cards(l) /\ Stables(l2) = Stables(l)
  BY <1>1, WordyCopy
<1>3. \A m \in Nat : Reads(l, c, m) => Reads(l2, d, m)
  BY <1>1, WordyReads
<1> HIDE DEF d, l2
<1>4. \A k \in Nat : Told(l2, d, k) /\ ~Underway(d, k)
  <2> SUFFICES ASSUME NEW k \in Nat PROVE Told(l2, d, k) /\ ~Underway(d, k)
    OBVIOUS
  <2>1. Told(l, c, k) /\ ~Underway(c, k)
    BY DEF Follows
  <2> QED BY <1>2, <2>1 DEF Told, Underway
<1>5. Follows(d, l2, p2, n2)
  BY <1>1, <1>2, <1>3, <1>4 DEF Follows
<1> QED BY <1>5 DEF d, l2

\* Such an action, applied again to a copy that may have had it already.
LEMMA WordyKept ==
  ASSUME NEW l \in Copies, NEW a, Wordy(l, a), NEW c \in Copies, NEW d, NEW f,
         NEW p, NEW n, NEW p2, NEW n2, p \notin Calling, p2 \notin Calling, Kept(c, d, l, f, p, n)
  PROVE  Kept(c, Apply(d, a), Apply(l, a), f, p2, n2)
<1> DEFINE e == Apply(d, a)
           l2 == Apply(l, a)
<1>1. d \in Copies /\ p2 # "running"
  BY DEF Kept, Calling
<1>2. /\ e \in Copies /\ Cards(e) = Cards(d) /\ Stables(e) = Stables(d)
      /\ Cards(l2) = Cards(l) /\ Stables(l2) = Stables(l)
  BY <1>1, WordyCopy
<1>3. \A m \in Nat : Reads(l, d, m) => Reads(l2, e, m)
  BY <1>1, WordyReads
<1>4. \A m \in Nat : Reads(l2, c, m) => Reads(l, c, m)
  BY WordyReads
<1> HIDE DEF e, l2
<1>5. \A m \in Nat : Reads(l2, c, m) => Reads(l2, e, m)
  BY <1>3, <1>4 DEF Kept
<1>6. ASSUME NEW k \in Nat
      PROVE  /\ HasCard(c, k) => HasCard(e, k)
             /\ ~Underway(c, k) => ~Underway(e, k)
             /\ Told(l2, c, k) => Told(l2, e, k)
             /\ Told(f, c, k) => Told(f, e, k)
  <2>1. /\ HasCard(c, k) => HasCard(d, k)
        /\ ~Underway(c, k) => ~Underway(d, k)
        /\ Told(l, c, k) => Told(l, d, k)
        /\ Told(f, c, k) => Told(f, d, k)
    BY DEF Kept
  <2>2. /\ Underway(e, k) <=> Underway(d, k)
        /\ HasCard(e, k) <=> HasCard(d, k)
        /\ \A x : (Told(x, e, k) <=> Told(x, d, k))
        /\ \A x : (Told(l2, x, k) <=> Told(l, x, k))
    BY <1>2, SameCardsSame
  <2> QED BY <2>1, <2>2
<1>7. Kept(c, e, l2, f, p2, n2)
  BY <1>1, <1>2, <1>5, <1>6 DEF Kept
<1> QED BY <1>7 DEF e, l2

\* What an action on a card does to the card and to the others.
LEMMA ToolCard ==
  ASSUME NEW c \in Copies, NEW n \in Nat, NEW s \in {"running"} \cup Ended,
         NEW d, d = Apply(c, Tool(n, s))
  PROVE  /\ d \in Copies /\ Stables(d) = Stables(c) /\ SameWords(c, d)
         /\ Underway(d, n) <=> s = "running"
         /\ \A e \in Cards(d) : e.id = n => ~e.asks /\ e.status = s
         /\ \A k \in Nat : HasCard(c, k) => HasCard(d, k)
         /\ HasCard(d, n)
         /\ \A k \in Nat : k # n =>
              /\ Underway(d, k) <=> Underway(c, k)
              /\ \A x : (Told(x, d, k) <=> Told(x, c, k)) /\ (Told(d, x, k) <=> Told(c, x, k))
<1>1. d \in Copies /\ Stables(d) = Stables(c) /\ SameWords(c, d)
  BY ApplyTool DEF SameWords
<1>2. Cards(d) = {f \in Cards(c) : f.id # n} \cup {Card(n, s)}
  BY ApplyTool
<1>3. Card(n, s).id = n /\ ~Card(n, s).asks /\ Card(n, s).status = s
  BY DEF Card
<1>4. \A e \in Cards(d) : e.id = n => e = Card(n, s)
  BY <1>2
<1>5. Card(n, s) \in Cards(d)
  BY <1>2
<1>6. Underway(d, n) <=> s = "running"
  BY <1>3, <1>4, <1>5 DEF Underway, Under, Ended
<1>7. \A k \in Nat : HasCard(c, k) => HasCard(d, k)
  BY <1>2, <1>3, <1>5 DEF HasCard
<1>8. \A e : e.id # n => (e \in Cards(d) <=> e \in Cards(c))
  BY <1>2, <1>3
<1>9. \A k \in Nat : k # n =>
        /\ Underway(d, k) <=> Underway(c, k)
        /\ \A x : (Told(x, d, k) <=> Told(x, c, k)) /\ (Told(d, x, k) <=> Told(c, x, k))
  BY <1>8 DEF Underway, Told
<1>10. HasCard(d, n)
  BY <1>3, <1>5 DEF HasCard
<1> QED BY <1>1, <1>3, <1>4, <1>6, <1>7, <1>9, <1>10

\* tool_changed, for the tool under way.
LEMMA ToolFollows ==
  ASSUME NEW l \in Copies, NEW n \in Nat, NEW s \in {"running"} \cup Ended, NEW c,
         NEW p, p \in Calling, NEW p2, p2 = "running" => s = "running",
         p2 \in Calling \/ s \in Ended, Follows(c, l, p, n)
  PROVE  Follows(Apply(c, Tool(n, s)), Apply(l, Tool(n, s)), p2, n)
<1> DEFINE d == Apply(c, Tool(n, s))
           l2 == Apply(l, Tool(n, s))
<1>1. c \in Copies
  BY DEF Follows
<1>2. /\ d \in Copies /\ Stables(d) = Stables(c) /\ SameWords(c, d)
      /\ Underway(d, n) <=> s = "running"
      /\ \A e \in Cards(d) : e.id = n => ~e.asks /\ e.status = s
      /\ HasCard(d, n)
      /\ \A k \in Nat : k # n =>
           /\ Underway(d, k) <=> Underway(c, k)
           /\ \A x : (Told(x, d, k) <=> Told(x, c, k)) /\ (Told(d, x, k) <=> Told(c, x, k))
  BY <1>1, ToolCard
<1>3. /\ Stables(l2) = Stables(l) /\ SameWords(l, l2)
      /\ \A e \in Cards(l2) : e.id = n => ~e.asks /\ e.status = s
      /\ \A k \in Nat : k # n =>
           \A x : (Told(x, l2, k) <=> Told(x, l, k)) /\ (Told(l2, x, k) <=> Told(l, x, k))
  BY ToolCard
<1> HIDE DEF d, l2
<1>4. \A m \in Nat : Reads(l2, d, m)
  BY <1>2, <1>3 DEF Follows, Reads, SameWords
<1>5. Told(l2, d, n)
  BY <1>2, <1>3 DEF Told, HasCard
<1>6. ASSUME NEW k \in Nat
      PROVE  Told(l2, d, k) /\ (Underway(d, k) => p2 \in Calling /\ k = n)
  <2>1. CASE k = n
    BY <1>2, <1>5, <2>1 DEF Ended
  <2>2. CASE k # n
    BY <1>2, <1>3, <2>2 DEF Follows
  <2> QED BY <2>1, <2>2
<1>7. Follows(d, l2, p2, n)
  BY <1>2, <1>3, <1>4, <1>6 DEF Follows
<1> QED BY <1>7 DEF d, l2

\* tool_changed, applied again to a copy that may have had it already.
LEMMA ToolKept ==
  ASSUME NEW l \in Copies, NEW n \in Nat, NEW s \in {"running"} \cup Ended,
         NEW c \in Copies, NEW d, NEW f, NEW f2,
         NEW p, p \in Calling, NEW p2, p2 = "running" => s = "running",
         p2 \in Calling \/ s \in Ended,
         \A k \in Nat : k # n => \A x : Told(f2, x, k) <=> Told(f, x, k),
         \A e \in Cards(f2) : e.id = n => ~e.asks /\ (e.status \in Ended => e.status = s),
         Kept(c, d, l, f, p, n)
  PROVE  Kept(c, Apply(d, Tool(n, s)), Apply(l, Tool(n, s)), f2, p2, n)
<1> DEFINE e == Apply(d, Tool(n, s))
           l2 == Apply(l, Tool(n, s))
<1>1. d \in Copies
  BY DEF Kept
<1>2. /\ e \in Copies /\ Stables(e) = Stables(d) /\ SameWords(d, e)
      /\ Underway(e, n) <=> s = "running"
      /\ \A g \in Cards(e) : g.id = n => ~g.asks /\ g.status = s
      /\ HasCard(e, n)
      /\ \A k \in Nat : HasCard(d, k) => HasCard(e, k)
      /\ \A k \in Nat : k # n =>
           /\ Underway(e, k) <=> Underway(d, k)
           /\ \A x : (Told(x, e, k) <=> Told(x, d, k)) /\ (Told(e, x, k) <=> Told(d, x, k))
  BY <1>1, ToolCard
<1>3. /\ SameWords(l, l2)
      /\ \A g \in Cards(l2) : g.id = n => ~g.asks /\ g.status = s
      /\ \A k \in Nat : k # n =>
           \A x : (Told(x, l2, k) <=> Told(x, l, k)) /\ (Told(l2, x, k) <=> Told(l, x, k))
  BY ToolCard
<1> HIDE DEF e, l2
<1>4. ASSUME NEW m \in Nat, Reads(l2, c, m) PROVE Reads(l2, e, m)
  <2>1. Reads(l, c, m)
    BY <1>3, <1>4, SameWordsSame
  <2>2. Reads(l, d, m)
    BY <2>1 DEF Kept
  <2> QED BY <1>2, <1>3, <2>2 DEF Reads, SameWords
<1>5. Told(l2, e, n) /\ Told(f2, e, n)
  BY <1>2, <1>3 DEF Told, HasCard
<1>6. ASSUME NEW k \in Nat
      PROVE  /\ HasCard(c, k) => HasCard(e, k)
             /\ ~(p2 \in Calling /\ k = n) /\ ~Underway(c, k) => ~Underway(e, k)
             /\ Told(l2, c, k) => Told(l2, e, k)
             /\ Told(f2, c, k) => Told(f2, e, k)
  <2>1. HasCard(c, k) => HasCard(e, k)
    BY <1>2 DEF Kept
  <2>2. CASE k = n
    BY <1>2, <1>5, <2>1, <2>2 DEF Ended
  <2>3. CASE k # n
    <3>1. /\ ~Underway(c, k) => ~Underway(d, k)
          /\ Told(l, c, k) => Told(l, d, k)
          /\ Told(f, c, k) => Told(f, d, k)
      BY <2>3 DEF Kept
    <3> QED BY <1>2, <1>3, <2>1, <2>3, <3>1
  <2> QED BY <2>2, <2>3
<1>7. Stables(e) = Stables(c)
  BY <1>2 DEF Kept
<1>8. p2 = "running" => Underway(e, n)
  BY <1>2
<1>9. Kept(c, e, l2, f2, p2, n)
  BY <1>2, <1>4, <1>6, <1>7, <1>8 DEF Kept
<1> QED BY <1>9 DEF e, l2

\* What a question does to the cards.
LEMMA ConfirmCard ==
  ASSUME NEW c \in Copies, NEW d, d = Apply(c, Confirm)
  PROVE  /\ d \in Copies /\ Stables(d) = Stables(c) /\ SameWords(c, d)
         /\ \A k \in Nat : (Underway(d, k) <=> Underway(c, k)) /\ (HasCard(d, k) <=> HasCard(c, k))
         /\ \A g \in Cards(c) : \E h \in Cards(d) :
              h.id = g.id /\ (g.asks => h.asks) /\ (~Under(g) => h = g)
         /\ \A h \in Cards(d) : \E g \in Cards(c) :
              h.id = g.id /\ (g.asks => h.asks) /\ (~Under(h) => h = g) /\ (h = g \/ Under(g))
         /\ \A n \in Nat : Underway(c, n) /\ (\A j \in Nat : Underway(c, j) => j = n) =>
              /\ \A h \in Cards(d) : h.id = n => h.asks /\ Under(h)
              /\ \A h \in Cards(d) : h.id # n => h \in Cards(c)
<1>1. d \in Copies /\ Stables(d) = Stables(c) /\ SameWords(c, d)
  BY ApplyConfirm DEF SameWords
<1>2. CASE d = c /\ \A f \in Cards(c) : ~Under(f)
  BY <1>1, <1>2 DEF Underway
<1>3. ASSUME NEW f \in Cards(c), Under(f),
             Cards(d) = (Cards(c) \ {f}) \cup {[kind |-> "tool", id |-> f.id,
                                                status |-> "pending", asks |-> TRUE]}
      PROVE  /\ \A k \in Nat : /\ Underway(d, k) <=> Underway(c, k)
                               /\ HasCard(d, k) <=> HasCard(c, k)
             /\ \A g \in Cards(c) : \E h \in Cards(d) :
                  h.id = g.id /\ (g.asks => h.asks) /\ (~Under(g) => h = g)
             /\ \A h \in Cards(d) : \E g \in Cards(c) :
                  h.id = g.id /\ (g.asks => h.asks) /\ (~Under(h) => h = g) /\ (h = g \/ Under(g))
             /\ \A n \in Nat : Underway(c, n) /\ (\A j \in Nat : Underway(c, j) => j = n) =>
                  /\ \A h \in Cards(d) : h.id = n => h.asks /\ Under(h)
                  /\ \A h \in Cards(d) : h.id # n => h \in Cards(c)
  <2> DEFINE w == [kind |-> "tool", id |-> f.id, status |-> "pending", asks |-> TRUE]
  <2>1. w.id = f.id /\ w.asks /\ Under(w)
    BY DEF Under, Ended
  <2>2. Cards(d) = (Cards(c) \ {f}) \cup {w}
    BY <1>3
  <2> HIDE DEF w
  <2>3. w \in Cards(d) /\ \A h : h # f /\ h # w => (h \in Cards(c) <=> h \in Cards(d))
    BY <2>2
  <2>4. ASSUME NEW k \in Nat
        PROVE  (Underway(d, k) <=> Underway(c, k)) /\ (HasCard(d, k) <=> HasCard(c, k))
    BY <1>3, <2>1, <2>2 DEF Underway, HasCard
  <2>5. \A g \in Cards(c) : \E h \in Cards(d) :
          h.id = g.id /\ (g.asks => h.asks) /\ (~Under(g) => h = g)
    BY <1>3, <2>1, <2>2
  <2>6. \A h \in Cards(d) : \E g \in Cards(c) :
          h.id = g.id /\ (g.asks => h.asks) /\ (~Under(h) => h = g) /\ (h = g \/ Under(g))
    BY <1>3, <2>1, <2>2
  <2>7. ASSUME NEW n \in Nat, Underway(c, n), \A j \in Nat : Underway(c, j) => j = n
        PROVE  /\ \A h \in Cards(d) : h.id = n => h.asks /\ Under(h)
               /\ \A h \in Cards(d) : h.id # n => h \in Cards(c)
    <3>1. f.id = n
      <4>1. f.id \in Nat /\ Underway(c, f.id)
        BY <1>3, CardTypes DEF Underway
      <4> QED BY <2>7, <4>1
    <3>2. \A g \in Cards(c) : g.id = n => g = f
      BY <3>1, CardTypes
    <3> QED BY <2>1, <2>2, <3>1, <3>2
  <2> QED BY <2>4, <2>5, <2>6, <2>7
<1>4. \/ d = c /\ \A f \in Cards(c) : ~Under(f)
      \/ \E f \in Cards(c) :
           /\ Under(f)
           /\ Cards(d) = (Cards(c) \ {f}) \cup {[kind |-> "tool", id |-> f.id,
                                                 status |-> "pending", asks |-> TRUE]}
  BY ApplyConfirm
<1>5. CASE \E f \in Cards(c) :
             /\ Under(f)
             /\ Cards(d) = (Cards(c) \ {f}) \cup {[kind |-> "tool", id |-> f.id,
                                                   status |-> "pending", asks |-> TRUE]}
  BY <1>1, <1>3, <1>5
<1> QED BY <1>2, <1>4, <1>5

\* A question, of two copies with one card under way and the same.
LEMMA ConfirmTold ==
  ASSUME NEW l \in Copies, NEW c \in Copies, NEW n \in Nat,
         NEW l2, l2 = Apply(l, Confirm), NEW d, d = Apply(c, Confirm),
         Underway(l, n), \A j \in Nat : Underway(l, j) => j = n,
         NEW k \in Nat, Told(l, c, k),
         k = n => Underway(c, n) /\ \A j \in Nat : Underway(c, j) => j = n
  PROVE  Told(l2, d, k)
<1>1. /\ \A h \in Cards(l2) : h.id = n => h.asks /\ Under(h)
      /\ \A h \in Cards(l2) : h.id # n => h \in Cards(l)
  BY ConfirmCard
<1>2. /\ \A g \in Cards(c) : \E h \in Cards(d) :
           h.id = g.id /\ (g.asks => h.asks) /\ (~Under(g) => h = g)
      /\ HasCard(d, k) <=> HasCard(c, k)
  BY ConfirmCard
<1>3. CASE k = n
  <2>1. \A h \in Cards(d) : h.id = n => h.asks /\ Under(h)
    BY <1>3, ConfirmCard
  <2>2. HasCard(d, n)
    BY <1>2, <1>3 DEF Underway, HasCard
  <2> QED BY <1>1, <1>3, <2>1, <2>2 DEF Told, HasCard, Under
<1>4. CASE k # n
  <2> SUFFICES ASSUME NEW e \in Cards(l2), e.id = k
               PROVE  \E h \in Cards(d) : /\ h.id = k /\ (e.asks => h.asks)
                                          /\ (e.status \in Ended => h.status = e.status)
    BY DEF Told
  <2>1. e \in Cards(l)
    BY <1>1, <1>4
  <2>2. PICK g \in Cards(c) : /\ g.id = k /\ (e.asks => g.asks)
                              /\ (e.status \in Ended => g.status = e.status)
    BY <2>1 DEF Told
  <2>3. PICK h \in Cards(d) : h.id = g.id /\ (g.asks => h.asks) /\ (~Under(g) => h = g)
    BY <1>2
  <2> QED BY <2>2, <2>3 DEF Under
<1> QED BY <1>3, <1>4

\* confirm_requested.
LEMMA ConfirmFollows ==
  ASSUME NEW l, NEW c, NEW n \in Nat, Follows(l, l, "running", n), Follows(c, l, "running", n)
  PROVE  Follows(Apply(c, Confirm), Apply(l, Confirm), "asking", n)
<1> DEFINE d == Apply(c, Confirm)
           l2 == Apply(l, Confirm)
<1>1. c \in Copies /\ l \in Copies
  BY DEF Follows
<1>2. /\ d \in Copies /\ Stables(d) = Stables(c) /\ SameWords(c, d)
      /\ \A k \in Nat : Underway(d, k) <=> Underway(c, k)
  BY <1>1, ConfirmCard
<1>3. Stables(l2) = Stables(l) /\ SameWords(l, l2)
  BY <1>1, ConfirmCard
<1>4. ASSUME NEW k \in Nat PROVE Told(l2, d, k)
  <2>1. /\ Underway(l, n) /\ (\A j \in Nat : Underway(l, j) => j = n)
        /\ Underway(c, n) /\ (\A j \in Nat : Underway(c, j) => j = n)
        /\ Told(l, c, k)
    BY DEF Follows
  <2> QED BY <1>1, <2>1, ConfirmTold
<1> HIDE DEF d, l2
<1>5. \A m \in Nat : Reads(l2, d, m)
  BY <1>2, <1>3 DEF Follows, Reads, SameWords
<1>6. \A k \in Nat : Underway(d, k) => "asking" \in Calling /\ k = n
  BY <1>2 DEF Follows, Calling
<1>7. Follows(d, l2, "asking", n)
  BY <1>2, <1>3, <1>4, <1>5, <1>6 DEF Follows
<1> QED BY <1>7 DEF d, l2

\* confirm_requested, applied again to a copy that may have had it already.
LEMMA ConfirmKept ==
  ASSUME NEW l, NEW n \in Nat, Follows(l, l, "running", n),
         NEW c \in Copies, NEW d, NEW f, \A e \in Cards(f) : ~e.asks,
         Kept(c, d, l, f, "running", n)
  PROVE  Kept(c, Apply(d, Confirm), Apply(l, Confirm), f, "asking", n)
<1> DEFINE e == Apply(d, Confirm)
           l2 == Apply(l, Confirm)
<1>1. d \in Copies /\ l \in Copies
  BY DEF Kept, Follows
<1>2. /\ e \in Copies /\ Stables(e) = Stables(d) /\ SameWords(d, e)
      /\ \A k \in Nat : (Underway(e, k) <=> Underway(d, k)) /\ (HasCard(e, k) <=> HasCard(d, k))
      /\ \A g \in Cards(d) : \E h \in Cards(e) :
           h.id = g.id /\ (g.asks => h.asks) /\ (~Under(g) => h = g)
  BY <1>1, ConfirmCard
<1>3. /\ SameWords(l, l2)
      /\ \A g \in Cards(l) : \E h \in Cards(l2) :
           h.id = g.id /\ (g.asks => h.asks) /\ (~Under(g) => h = g)
  BY <1>1, ConfirmCard
<1>4. Underway(l, n) /\ (\A j \in Nat : Underway(l, j) => j = n)
  BY DEF Follows
<1>5. \A h \in Cards(l2) : h.id = n => h.asks /\ Under(h)
  BY <1>1, <1>4, ConfirmCard
<1>6. HasCard(l2, n)
  BY <1>1, <1>4, ConfirmCard DEF Underway, HasCard
<1>7. \A k \in Nat : Told(l2, c, k) => Told(l, c, k)
  <2> HIDE DEF l2
  <2> SUFFICES ASSUME NEW k \in Nat, Told(l2, c, k), NEW g \in Cards(l), g.id = k
               PROVE  \E w \in Cards(c) : /\ w.id = k /\ (g.asks => w.asks)
                                          /\ (g.status \in Ended => w.status = g.status)
    BY DEF Told
  <2>1. PICK h \in Cards(l2) : h.id = g.id /\ (g.asks => h.asks) /\ (~Under(g) => h = g)
    BY <1>3
  <2>2. PICK w \in Cards(c) : /\ w.id = k /\ (h.asks => w.asks)
                              /\ (h.status \in Ended => w.status = h.status)
    BY <2>1 DEF Told
  <2> QED BY <2>1, <2>2 DEF Under
<1>8. ASSUME NEW k \in Nat, Told(l2, c, k), k = n => \A j \in Nat : Underway(c, j) => j = k
      PROVE  Told(l2, e, k)
  <2>1. Told(l, c, k)
    BY <1>7, <1>8
  <2>2. Told(l, d, k)
    BY <1>8, <2>1 DEF Kept
  <2>3. CASE k = n
    <3>1. Underway(c, n)
      <4> HIDE DEF l2
      <4>1. PICK h \in Cards(l2) : h.id = n /\ h.asks
        BY <1>5, <1>6 DEF HasCard
      <4>2. PICK w \in Cards(c) : w.id = n /\ w.asks
        BY <1>8, <2>3, <4>1 DEF Told
      <4> QED BY <4>2, CardTypes DEF Underway
    <3>2. Underway(d, n)
      BY <3>1 DEF Kept
    <3>3. \A j \in Nat : Underway(d, j) => j = n
      BY <1>8, <2>3 DEF Kept
    <3> QED BY <1>1, <1>4, <2>2, <2>3, <3>2, <3>3, ConfirmTold
  <2>4. CASE k # n
    BY <1>1, <1>4, <2>2, <2>4, ConfirmTold
  <2> QED BY <2>3, <2>4
<1> HIDE DEF e, l2
<1>9. ASSUME NEW m \in Nat, Reads(l2, c, m) PROVE Reads(l2, e, m)
  <2>1. Reads(l, c, m)
    BY <1>3, <1>9, SameWordsSame
  <2>2. Reads(l, d, m)
    BY <2>1 DEF Kept
  <2> QED BY <1>2, <1>3, <2>2 DEF Reads, SameWords
<1>10. ASSUME NEW k \in Nat, Told(f, c, k) PROVE Told(f, e, k)
  <2>1. Told(f, d, k)
    BY <1>10 DEF Kept
  <2> SUFFICES ASSUME NEW g \in Cards(f), g.id = k
               PROVE  \E h \in Cards(e) : /\ h.id = k /\ (g.asks => h.asks)
                                          /\ (g.status \in Ended => h.status = g.status)
    BY DEF Told
  <2>2. PICK w \in Cards(d) : w.id = k /\ (g.status \in Ended => w.status = g.status)
    BY <2>1 DEF Told
  <2>3. PICK h \in Cards(e) : h.id = w.id /\ (~Under(w) => h = w)
    BY <1>2
  <2> QED BY <2>2, <2>3 DEF Under
<1>11. ASSUME NEW k \in Nat
       PROVE  /\ HasCard(c, k) => HasCard(e, k)
              /\ ~("asking" \in Calling /\ k = n) /\ ~Underway(c, k) => ~Underway(e, k)
              /\ Told(l2, c, k)
                 /\ ("asking" \in Calling /\ k = n => \A j \in Nat : Underway(c, j) => j = k)
                   => Told(l2, e, k)
  BY <1>2, <1>8 DEF Kept, Calling
<1>12. Stables(e) = Stables(c)
  BY <1>2 DEF Kept
<1>13. Kept(c, e, l2, f, "asking", n)
  BY <1>2, <1>9, <1>10, <1>11, <1>12 DEF Kept
<1> QED BY <1>13 DEF e, l2

-----------------------------------------------------------------------------
(* The steps.                                                              *)

\* A ledger that was read from a file streams nothing, and has the cards of the
\* tools that were called.
LEMMA FileCopy ==
  ASSUME NEW file \in Files, NEW l, l = Ledger(OfFile(file), FALSE)
  PROVE  /\ l \in Copies /\ LiveIds(l) = {} /\ LiveOnce(l)
         /\ \A m, t \in Nat : ~Says(l, m, t)
         /\ Cards(l) = Called(file, Len(file))
<1> DEFINE q == OfFile(file)
<1>1. q \in Seq(Entries) /\ OneEach(q) /\ NoLive(q) /\ ToolsIn(q) = Called(file, Len(file))
  BY FileIs
<1> HIDE DEF q
<1>2. l \in Copies /\ l.entries = q
  BY <1>1, IsCopy DEF q
<1>3. LiveIds(l) = {} /\ LiveOnce(l)
  BY <1>1, <1>2 DEF LiveIds, LiveOnce, NoLive
<1>4. \A m, t \in Nat : ~Says(l, m, t)
  BY <1>2, <1>3, SaysLess
<1>5. Cards(l) = Called(file, Len(file))
  BY <1>1, <1>2 DEF Cards, ToolsIn
<1> QED BY <1>2, <1>3, <1>4, <1>5

\* The cards of a file, one by one.
LEMMA CalledIs ==
  ASSUME NEW file \in Files
  PROVE  /\ \A k \in DOMAIN file : file[k].tool \in {"none", "pending"} \cup Ended
         /\ \A e : e \in Called(file, Len(file)) <=>
              \E k \in DOMAIN file : file[k].tool # "none" /\ e = Card(k, file[k].tool)
         /\ \A k, s : Card(k, s).id = k /\ Card(k, s).status = s /\ ~Card(k, s).asks
         /\ DOMAIN file = 1 .. Len(file) /\ Len(file) \in Nat
<1> DEFINE T == [text : Nat, tool : {"none", "pending"} \cup Ended]
<1>1. file \in Seq(T)
  BY DEF Files
<1> HIDE DEF T
<1>2. DOMAIN file = 1 .. Len(file) /\ Len(file) \in Nat /\ \A k \in 1 .. Len(file) : file[k] \in T
  BY <1>1, ElementOfSeq
<1>3. \A k \in DOMAIN file : file[k].tool \in {"none", "pending"} \cup Ended
  BY <1>2 DEF T
<1>4. \A k, s : Card(k, s).id = k /\ Card(k, s).status = s /\ ~Card(k, s).asks
  BY DEF Card
<1>5. \A e : e \in Called(file, Len(file)) <=>
        \E k \in DOMAIN file : file[k].tool # "none" /\ e = Card(k, file[k].tool)
  BY <1>2 DEF Called
<1> QED BY <1>2, <1>3, <1>4, <1>5

\* The one that is rebuilt now: its only card under way is the one of the tool
\* that Pi is calling.
LEMMA FileLedgerIs ==
  ASSUME FileInv
  PROVE  /\ FileLedger \in Copies /\ LiveIds(FileLedger) = {} /\ LiveOnce(FileLedger)
         /\ \A m, t \in Nat : ~Says(FileLedger, m, t)
         /\ Cards(FileLedger) = Called(stored, Len(stored))
         /\ \A e \in Cards(FileLedger) : ~e.asks
         /\ Follows(FileLedger, FileLedger, pi, count)
<1> DEFINE l == FileLedger
<1>1. stored \in Files
  BY DEF FileInv
<1>2. l = Ledger(OfFile(stored), FALSE)
  BY DEF FileLedger, Truth, OfFile, Piece
<1> HIDE DEF l
<1>3. /\ l \in Copies /\ LiveIds(l) = {} /\ LiveOnce(l)
      /\ \A m, t \in Nat : ~Says(l, m, t)
      /\ Cards(l) = Called(stored, Len(stored))
  BY <1>1, <1>2, FileCopy
<1>4. \A e \in Cards(l) : ~e.asks
  BY <1>1, <1>3, CalledIs
<1>5. \A k \in Nat : Underway(l, k) => pi \in Calling /\ k = count
  <2> SUFFICES ASSUME NEW k \in Nat, Underway(l, k) PROVE pi \in Calling /\ k = count
    OBVIOUS
  <2>1. PICK e \in Cards(l) : e.id = k /\ Under(e)
    BY DEF Underway
  <2>2. PICK i \in DOMAIN stored : stored[i].tool # "none" /\ e = Card(i, stored[i].tool)
    BY <1>1, <1>3, <2>1, CalledIs
  <2>3. i = k /\ stored[k].tool = "pending"
    BY <1>1, <2>1, <2>2, CalledIs DEF Under
  <2> QED BY <2>2, <2>3 DEF FileInv
<1>6. pi = "running" => Underway(l, count)
  <2> SUFFICES ASSUME pi = "running" PROVE Underway(l, count)
    OBVIOUS
  <2>1. count \in DOMAIN stored /\ stored[count].tool = "pending"
    BY DEF FileInv, Calling
  <2>2. Card(count, "pending") \in Cards(l)
    BY <1>1, <1>3, <2>1, CalledIs
  <2>3. Card(count, "pending").id = count /\ Under(Card(count, "pending"))
    BY DEF Card, Under, Ended
  <2> QED BY <2>2, <2>3 DEF Underway
<1>7. Follows(l, l, pi, count)
  BY <1>3, <1>5, <1>6 DEF Follows, Reads, Told
<1> QED BY <1>3, <1>4, <1>7 DEF l

\* Pi is at another point, which the cards do not show.
LEMMA FollowsOn ==
  ASSUME NEW c, NEW l, NEW p, NEW n, NEW p2, Follows(c, l, p, n),
         p2 # "running", p \in Calling => p2 \in Calling
  PROVE  Follows(c, l, p2, n)
BY DEF Follows

\* Likewise, of an action replayed: the file may have one call more.
LEMMA KeptOn ==
  ASSUME NEW c, NEW d, NEW l, NEW f, NEW p, NEW n, NEW p2, NEW f2, Kept(c, d, l, f, p, n),
         p2 # "running", p \in Calling => p2 \in Calling,
         \A k \in Nat : \/ \A x : Told(f2, x, k) <=> Told(f, x, k)
                        \/ \A x : Told(f2, x, k) <=> HasCard(x, k)
  PROVE  Kept(c, d, l, f2, p2, n)
<1>1. ASSUME NEW k \in Nat, Told(f2, c, k) PROVE Told(f2, d, k)
  BY <1>1 DEF Kept
<1>2. ASSUME NEW k \in Nat
      PROVE  /\ HasCard(c, k) => HasCard(d, k)
             /\ ~(p2 \in Calling /\ k = n) /\ ~Underway(c, k) => ~Underway(d, k)
             /\ Told(l, c, k) /\ (p2 \in Calling /\ k = n => \A j \in Nat : Underway(c, j) => j = k)
                  => Told(l, d, k)
  BY DEF Kept
<1> QED BY <1>1, <1>2 DEF Kept

\* A snapshot, and what is sent after it.
LEMMA SnapshotOn ==
  ASSUME NEW l, NEW d, NEW f, NEW p, NEW n, Follows(l, l, p, n), Kept(l, d, l, f, p, n)
  PROVE  Follows(d, l, p, n)
<1>1. l \in Copies /\ d \in Copies /\ Stables(d) = Stables(l)
  BY DEF Follows, Kept
<1>2. \A m \in Nat : Reads(l, d, m)
  BY DEF Follows, Kept
<1>3. \A j \in Nat : Underway(l, j) => p \in Calling /\ j = n
  BY DEF Follows
<1>4. ASSUME NEW k \in Nat PROVE Told(l, d, k) /\ (Underway(d, k) => p \in Calling /\ k = n)
  <2>1. Told(l, l, k)
    BY DEF Follows
  <2>2. Told(l, d, k)
    BY <1>3, <2>1 DEF Kept
  <2>3. Underway(d, k) => p \in Calling /\ k = n
    BY <1>3 DEF Kept
  <2> QED BY <2>2, <2>3
<1>5. p = "running" => Underway(d, n)
  BY DEF Follows, Kept
<1> QED BY <1>1, <1>2, <1>4, <1>5 DEF Follows

\* The file takes the place of the ledger.
LEMMA KeptOfFile ==
  ASSUME NEW c, NEW d, NEW l, NEW f, NEW p, NEW n, Kept(c, d, l, f, p, n),
         \A m, t \in Nat : ~Says(f, m, t)
  PROVE  Kept(c, d, f, f, p, n)
<1>1. \A m \in Nat : Reads(f, d, m)
  BY DEF Reads
<1> QED BY <1>1 DEF Kept

\* An empty outbox changes no copy.
LEMMA NothingToApply ==
  ASSUME NEW l, NEW f, NEW p, NEW n
  PROVE  Replays(<<>>, l, f, p, n)
<1>1. \A c \in Copies : ApplyAll(c, <<>>) = c
  BY ApplyEmpty
<1>2. \A c \in Copies : Kept(c, c, l, f, p, n)
  BY DEF Kept
<1> QED BY <1>1, <1>2 DEF Replays

\* Messages are numbered.
LEMMA LiveNat ==
  ASSUME NEW c \in Copies
  PROVE  \A i \in LiveIds(c) : i \in Nat
<1> SUFFICES ASSUME NEW k \in DOMAIN c.entries, IsLive(c.entries[k])
             PROVE  c.entries[k].id \in Nat
  BY DEF LiveIds
<1>1. c.entries \in Seq(Entries)
  BY CopyFields
<1>2. c.entries[k] \in Entries
  BY <1>1, ElementOfSeq
<1> QED BY <1>2 DEF Entries, IsLive

\* The file as the turn writes it.
LEMMA FileSteps ==
  ASSUME FileInv, [FeedNext]_feedVars
  PROVE  FileInv'
<1>1. CASE \/ TurnPrompted \/ AgentStart \/ AgentSettled
  BY <1>1 DEF FileInv, TurnPrompted, AgentStart, AgentSettled, Calling
<1>2. CASE MessageStart
  BY <1>2 DEF FileInv, MessageStart, Calling
<1>3. CASE MessageUpdate
  BY <1>3 DEF FileInv, MessageUpdate, Calling
<1>4. CASE MessageEnd
  <2>1. PICK tool \in {"none", "pending"} :
          /\ stored' = Append(stored, [text |-> written, tool |-> tool])
          /\ pi' = IF tool = "none" THEN "working" ELSE "calling"
    BY <1>4 DEF MessageEnd
  <2> DEFINE T == [text : Nat, tool : {"none", "pending"} \cup Ended]
             m == [text |-> written, tool |-> tool]
  <2>2. stored \in Seq(T) /\ m \in T /\ m.tool = tool
    BY DEF FileInv, Files
  <2>3. stored' = Append(stored, m)
    BY <2>1
  <2> HIDE DEF T, m
  <2>4. /\ stored' \in Seq(T) /\ Len(stored') = Len(stored) + 1
        /\ DOMAIN stored' = 1 .. Len(stored) + 1 /\ DOMAIN stored = 1 .. Len(stored)
        /\ stored'[Len(stored) + 1] = m /\ \A k \in DOMAIN stored : stored'[k] = stored[k]
    BY <2>2, <2>3
  <2>5. count' = count /\ written' = written /\ pi = "streaming" /\ Len(stored) + 1 = count
    BY <1>4 DEF MessageEnd, FileInv
  <2>6. \A k \in DOMAIN stored : stored[k].tool # "pending"
    BY <2>5 DEF FileInv, Calling
  <2>7. \A k \in DOMAIN stored' : stored'[k].tool = "pending" <=> pi' \in Calling /\ k = count'
    <3>1. \A k \in DOMAIN stored' : k = count \/ k \in DOMAIN stored
      BY <2>4, <2>5 DEF FileInv
    <3>2. count \notin DOMAIN stored
      BY <2>4, <2>5 DEF FileInv
    <3> QED BY <2>1, <2>2, <2>4, <2>5, <2>6, <3>1, <3>2 DEF Calling
  <2>8. count' \in DOMAIN stored'
    BY <2>4, <2>5 DEF FileInv
  <2> QED BY <2>1, <2>4, <2>5, <2>7, <2>8 DEF FileInv, Files, T
<1>5. CASE ToolStart \/ ConfirmRequested \/ FinishConfirmation
  BY <1>5 DEF FileInv, ToolStart, ConfirmRequested, FinishConfirmation, Calling
<1>6. CASE ToolEnd
  <2>1. PICK status \in Ended : stored' = [stored EXCEPT ![count].tool = status]
    BY <1>6 DEF ToolEnd
  <2> DEFINE T == [text : Nat, tool : {"none", "pending"} \cup Ended]
             m == [stored[count] EXCEPT !.tool = status]
  <2>2. stored \in Seq(T) /\ count \in DOMAIN stored
    BY <1>6 DEF FileInv, Files, ToolEnd, Calling
  <2>3. stored[count] \in T
    <3> HIDE DEF T
    <3>1. count \in 1 .. Len(stored)
      BY <2>2
    <3> QED BY <2>2, <3>1, ElementOfSeq
  <2>4. m \in T /\ m.tool = status
    BY <2>3
  <2>5. stored' = [stored EXCEPT ![count] = m]
    BY <2>1
  <2> HIDE DEF T, m
  <2>6. /\ stored' \in Seq(T) /\ Len(stored') = Len(stored) /\ DOMAIN stored' = DOMAIN stored
        /\ stored'[count] = m /\ \A k \in DOMAIN stored : k # count => stored'[k] = stored[k]
    BY <2>2, <2>4, <2>5
  <2>7. pi \in Calling /\ pi' = "working" /\ count' = count /\ written' = written
    BY <1>6 DEF ToolEnd, Calling
  <2>8. \A k \in DOMAIN stored' : stored'[k].tool # "pending"
    <3>1. \A k \in DOMAIN stored : k # count => stored[k].tool # "pending"
      BY DEF FileInv
    <3> QED BY <2>4, <2>6, <3>1 DEF Ended
  <2>9. Len(stored') = count
    BY <2>6, <2>7 DEF FileInv, Calling
  <2> QED BY <2>6, <2>7, <2>8, <2>9 DEF FileInv, Files, T, Calling
<1>7. CASE \/ Flush \/ Reconcile \/ ReconcileFails \/ UNCHANGED feedVars
           \/ \E s \in Clients : ShowLedger(s) \/ Leave(s) \/ Deliver(s)
  <2>1. UNCHANGED piVars
    BY <1>7 DEF Flush, Reconcile, ReconcileFails, feedVars, piVars, ShowLedger, Leave, Deliver
  <2> QED BY <2>1 DEF piVars, FileInv
<1> QED BY <1>1, <1>2, <1>3, <1>4, <1>5, <1>6, <1>7 DEF FeedNext

\* A client takes from a file's cards what it has of those of one tool.
LEMMA FileTold ==
  ASSUME NEW f, NEW f2, NEW k, \A e : e.id = k => (e \in Cards(f2) <=> e \in Cards(f))
  PROVE  \A x : Told(f2, x, k) <=> Told(f, x, k)
BY DEF Told

\* An action is sent: into the ledger, what a client will see, and what the next
\* batch makes of any copy.
LEMMA Emitted ==
  ASSUME CleanInv, NEW a, Emit(<<a>>), UNCHANGED clientVars
  PROVE  /\ ledger' = Apply(ledger, a) /\ watching' = watching
         /\ \A s \in watching : CaughtUp(s)' = Apply(CaughtUp(s), a)
         /\ \A c : ApplyAll(c, outbox') = Apply(ApplyAll(c, outbox), a)
<1>1. outbox' = Append(outbox, a) /\ Listed(outbox)
  BY ListedMore DEF CleanInv, FeedLists, Emit
<1>2. ledger' = Apply(ledger, a)
  BY ApplyOne DEF Emit
<1>3. \A c : ApplyAll(c, outbox') = Apply(ApplyAll(c, outbox), a)
  BY <1>1, ApplyOneMore
<1>4. \A s : CaughtUp(s)' = ApplyAll(FoldLeft(Receive, mirror[s], channel[s]), outbox')
  BY DEF CaughtUp, clientVars
<1>5. \A s : CaughtUp(s)' = Apply(CaughtUp(s), a)
  <2> SUFFICES ASSUME NEW s PROVE CaughtUp(s)' = Apply(CaughtUp(s), a)
    OBVIOUS
  <2> DEFINE c == FoldLeft(Receive, mirror[s], channel[s])
  <2>1. CaughtUp(s)' = ApplyAll(c, outbox') /\ CaughtUp(s) = ApplyAll(c, outbox)
    BY <1>4 DEF CaughtUp
  <2> HIDE DEF c
  <2> QED BY <1>3, <2>1
<1> QED BY <1>2, <1>3, <1>5 DEF clientVars

\* What has to hold of the ledger, the clients and the outbox.
AllFollow ==
  /\ LiveInv
  /\ Follows(ledger, ledger, pi, count)
  /\ \A s \in watching : Follows(CaughtUp(s), ledger, pi, count)
  /\ Replays(outbox, ledger, FileLedger, pi, count)

\* An action on the words, or on busy.
LEMMA WordySteps ==
  ASSUME CleanInv, FollowInv, NEW a, Wordy(ledger, a), Emit(<<a>>), UNCHANGED clientVars,
         UNCHANGED stored, pi \notin Calling, pi' \notin Calling, count \in Nat, count' \in Nat,
         a = Added(count') \/ LiveIds(Apply(ledger, a)) = LiveIds(ledger), count' >= count
  PROVE  AllFollow'
<1> DEFINE l == ledger
           l2 == Apply(ledger, a)
           f == FileLedger
           p == pi
           n == count
<1>1. Follows(l, l, p, n)
  BY DEF FollowInv
<1>2. l \in Copies /\ Wordy(l, a)
  BY <1>1 DEF Follows
<1>3. /\ ledger' = l2 /\ watching' = watching
      /\ \A s \in watching : CaughtUp(s)' = Apply(CaughtUp(s), a)
      /\ \A c : ApplyAll(c, outbox') = Apply(ApplyAll(c, outbox), a)
  BY Emitted
<1>4. FileLedger' = f
  BY DEF FileLedger, Truth
<1>5. \A s \in watching : Follows(CaughtUp(s), l, p, n)
  BY DEF FollowInv
<1>6. \A c \in Copies : Kept(c, ApplyAll(c, outbox), l, f, p, n)
  BY DEF FollowInv, Replays
<1>7. LiveInv'
  <2>1. CASE \E m \in Nat : a = Added(m) /\ m \notin LiveIds(l)
    <3>1. PICK m \in Nat : a = Added(m) /\ m \notin LiveIds(l)
      BY <2>1
    <3>2. LiveIds(l2) = LiveIds(l) \cup {m} /\ LiveOnce(l2)
      <4>1. LiveOnce(l)
        BY DEF FollowInv, LiveInv
      <4> HIDE DEF l
      <4> QED BY <1>2, <3>1, <4>1, ApplyAdded DEF l
    <3>3. m <= count' \/ LiveIds(l2) = LiveIds(l)
      <4>1. a.id = m
        BY <3>1 DEF Added
      <4> QED BY <4>1 DEF Added
    <3>4. \A i \in LiveIds(l) : i \in Nat
      BY <1>2, LiveNat
    <3> QED BY <1>3, <3>2, <3>3, <3>4 DEF FollowInv, LiveInv
  <2>2. CASE (\E m \in Nat : a = Text(m)) \/ (\E b \in BOOLEAN : a = Busy(b))
    <3>1. LiveIds(l2) = LiveIds(l) /\ (LiveOnce(l) => LiveOnce(l2))
      <4> HIDE DEF l
      <4>1. CASE \E m \in Nat : a = Text(m)
        BY <1>2, <4>1, ApplyText DEF l
      <4>2. CASE \E b \in BOOLEAN : a = Busy(b)
        BY <1>2, <4>2, ApplyBusy DEF l
      <4> QED BY <2>2, <4>1, <4>2
    <3>2. \A i \in LiveIds(l) : i \in Nat
      BY <1>2, LiveNat
    <3> QED BY <1>3, <3>1, <3>2 DEF FollowInv, LiveInv
  <2> QED BY <1>2, <2>1, <2>2 DEF Wordy
<1> HIDE DEF l, f, p, n
<1>8. Follows(l2, l2, pi', count')
  BY <1>1, <1>2, WordyFollows DEF p, l
<1>9. \A s \in watching : Follows(CaughtUp(s)', l2, pi', count')
  <2> SUFFICES ASSUME NEW s \in watching PROVE Follows(CaughtUp(s)', l2, pi', count')
    OBVIOUS
  <2> DEFINE c == CaughtUp(s)
  <2>1. Follows(c, l, p, n)
    BY <1>5
  <2> HIDE DEF c
  <2>2. Follows(Apply(c, a), Apply(l, a), pi', count')
    BY <1>2, <2>1, WordyFollows DEF p
  <2> QED BY <1>3, <2>2 DEF c, l
<1>10. \A c \in Copies : Kept(c, ApplyAll(c, outbox'), l2, f, pi', count')
  <2> SUFFICES ASSUME NEW c \in Copies PROVE Kept(c, ApplyAll(c, outbox'), l2, f, pi', count')
    OBVIOUS
  <2> DEFINE d == ApplyAll(c, outbox)
  <2>1. Kept(c, d, l, f, p, n)
    BY <1>6
  <2> HIDE DEF d
  <2>2. Kept(c, Apply(d, a), Apply(l, a), f, pi', count')
    BY <1>2, <2>1, WordyKept DEF p
  <2> QED BY <1>3, <2>2 DEF d, l
<1> QED BY <1>3, <1>4, <1>7, <1>8, <1>9, <1>10 DEF AllFollow, Replays

\* The file that the next state has, likewise.
LEMMA NextFile ==
  ASSUME FileInv'
  PROVE  /\ Cards(FileLedger') = Called(stored', Len(stored'))
         /\ \A e \in Cards(FileLedger') : ~e.asks
         /\ \A m, t \in Nat : ~Says(FileLedger', m, t)
<1>1. stored' \in Files
  BY DEF FileInv
<1>2. FileLedger' = Ledger(OfFile(stored'), FALSE)
  BY DEF FileLedger, Truth, OfFile, Piece
<1> DEFINE l == FileLedger'
           file == stored'
<1>3. l = Ledger(OfFile(file), FALSE) /\ file \in Files
  BY <1>1, <1>2
<1> HIDE DEF l, file
<1>4. Cards(l) = Called(file, Len(file)) /\ \A m, t \in Nat : ~Says(l, m, t)
  BY <1>3, FileCopy
<1>5. \A e \in Cards(l) : ~e.asks
  <2>1. \A e \in Called(file, Len(file)) : \E k, t : e = Card(k, t)
    BY <1>3, CalledIs
  <2> QED BY <1>4, <2>1 DEF Card
<1> QED BY <1>4, <1>5 DEF l, file

\* An action on the card of the tool that Pi is calling.
LEMMA ToolSteps ==
  ASSUME CleanInv, FollowInv, FileInv', NEW s \in {"running"} \cup Ended,
         Emit(<<Tool(count, s)>>), UNCHANGED clientVars, UNCHANGED count,
         pi \in Calling, pi' = "running" => s = "running", pi' \in Calling \/ s \in Ended,
         \A k \in Nat : k # count =>
           \A e : e.id = k => (e \in Cards(FileLedger') <=> e \in Cards(FileLedger)),
         \A e \in Cards(FileLedger') : e.id = count => (e.status \in Ended => e.status = s)
  PROVE  AllFollow'
<1> DEFINE a == Tool(count, s)
           l == ledger
           l2 == Apply(ledger, a)
           f == FileLedger
           f2 == FileLedger'
           p == pi
           n == count
<1>1. n \in Nat
  BY DEF FollowInv, FileInv
<1>2. l \in Copies /\ Follows(l, l, p, n)
  BY DEF FollowInv, Follows
<1>3. /\ ledger' = l2 /\ watching' = watching
      /\ \A c \in watching : CaughtUp(c)' = Apply(CaughtUp(c), a)
      /\ \A c : ApplyAll(c, outbox') = Apply(ApplyAll(c, outbox), a)
  BY Emitted
<1>4. \A e \in Cards(f2) : ~e.asks
  BY NextFile
<1>5. \A c \in watching : Follows(CaughtUp(c), l, p, n)
  BY DEF FollowInv
<1>6. \A c \in Copies : Kept(c, ApplyAll(c, outbox), l, f, p, n)
  BY DEF FollowInv, Replays
<1>7. LiveInv'
  <2>1. LiveIds(l2) = LiveIds(l) /\ (LiveOnce(l) => LiveOnce(l2))
    <3> HIDE DEF l
    <3> QED BY <1>1, <1>2, ApplyTool DEF l
  <2> QED BY <1>3, <2>1 DEF FollowInv, LiveInv
<1>8. /\ \A k \in Nat : k # n => \A x : Told(f2, x, k) <=> Told(f, x, k)
      /\ \A e \in Cards(f2) : e.id = n => ~e.asks /\ (e.status \in Ended => e.status = s)
  BY <1>4, FileTold
<1>9. /\ p \in Calling /\ (pi' = "running" => s = "running") /\ (pi' \in Calling \/ s \in Ended)
      /\ count' = n
  OBVIOUS
<1> HIDE DEF l, f, f2, p, n
<1>10. Follows(l2, l2, pi', count')
  <2>1. Follows(Apply(l, Tool(n, s)), Apply(l, Tool(n, s)), pi', n)
    BY <1>1, <1>2, <1>9, ToolFollows
  <2> QED BY <1>9, <2>1 DEF l, n
<1>11. ASSUME NEW c \in watching PROVE Follows(CaughtUp(c)', l2, pi', count')
  <2> DEFINE d == CaughtUp(c)
  <2>1. Follows(d, l, p, n)
    BY <1>5
  <2> HIDE DEF d
  <2>2. Follows(Apply(d, Tool(n, s)), Apply(l, Tool(n, s)), pi', n)
    BY <1>1, <1>2, <1>9, <2>1, ToolFollows
  <2> QED BY <1>3, <1>9, <2>2 DEF d, l, n
<1>12. ASSUME NEW c \in Copies PROVE Kept(c, ApplyAll(c, outbox'), l2, f2, pi', count')
  <2> DEFINE d == ApplyAll(c, outbox)
  <2>1. Kept(c, d, l, f, p, n)
    BY <1>6
  <2> HIDE DEF d
  <2>2. Kept(c, Apply(d, Tool(n, s)), Apply(l, Tool(n, s)), f2, pi', n)
    BY <1>1, <1>2, <1>8, <1>9, <2>1, ToolKept
  <2> QED BY <1>3, <1>9, <2>2 DEF d, l, n
<1>13. \A c \in Copies : Kept(c, ApplyAll(c, outbox'), l2, FileLedger', pi', count')
  BY <1>12 DEF f2
<1> QED BY <1>3, <1>7, <1>10, <1>11, <1>13 DEF AllFollow, Replays

\* A question of the tool that is running.
LEMMA ConfirmSteps ==
  ASSUME CleanInv, FollowInv, Emit(<<Confirm>>), UNCHANGED clientVars, UNCHANGED <<count, stored>>,
         pi = "running", pi' = "asking"
  PROVE  AllFollow'
<1> DEFINE l == ledger
           l2 == Apply(ledger, Confirm)
           f == FileLedger
           n == count
<1>1. n \in Nat /\ Follows(l, l, "running", n) /\ l \in Copies
  BY DEF FollowInv, FileInv, Follows
<1>2. /\ ledger' = l2 /\ watching' = watching
      /\ \A c \in watching : CaughtUp(c)' = Apply(CaughtUp(c), Confirm)
      /\ \A c : ApplyAll(c, outbox') = Apply(ApplyAll(c, outbox), Confirm)
  BY Emitted
<1>3. FileLedger' = f /\ \A e \in Cards(f) : ~e.asks
  BY FileLedgerIs DEF FileLedger, Truth, FollowInv
<1>4. /\ \A c \in watching : Follows(CaughtUp(c), l, "running", n)
      /\ \A c \in Copies : Kept(c, ApplyAll(c, outbox), l, f, "running", n)
  BY DEF FollowInv, Replays
<1>5. LiveInv'
  <2>1. LiveIds(l2) = LiveIds(l) /\ (LiveOnce(l) => LiveOnce(l2))
    <3> HIDE DEF l
    <3> QED BY <1>1, ApplyConfirm DEF l
  <2> QED BY <1>2, <2>1 DEF FollowInv, LiveInv
<1>6. count' = n
  OBVIOUS
<1> HIDE DEF l, f, n
<1>7. Follows(l2, l2, pi', count')
  <2>1. Follows(Apply(l, Confirm), Apply(l, Confirm), "asking", n)
    BY <1>1, ConfirmFollows
  <2> QED BY <1>6, <2>1 DEF l
<1>8. ASSUME NEW c \in watching PROVE Follows(CaughtUp(c)', l2, pi', count')
  <2> DEFINE d == CaughtUp(c)
  <2>1. Follows(d, l, "running", n)
    BY <1>4
  <2> HIDE DEF d
  <2>2. Follows(Apply(d, Confirm), Apply(l, Confirm), "asking", n)
    BY <1>1, <2>1, ConfirmFollows
  <2> QED BY <1>2, <1>6, <2>2 DEF d, l
<1>9. ASSUME NEW c \in Copies PROVE Kept(c, ApplyAll(c, outbox'), l2, f, pi', count')
  <2> DEFINE d == ApplyAll(c, outbox)
  <2>1. Kept(c, d, l, f, "running", n)
    BY <1>4
  <2> HIDE DEF d
  <2>2. Kept(c, Apply(d, Confirm), Apply(l, Confirm), f, "asking", n)
    BY <1>1, <1>3, <2>1, ConfirmKept
  <2> QED BY <1>2, <1>6, <2>2 DEF d, l
<1> QED BY <1>2, <1>3, <1>5, <1>7, <1>8, <1>9 DEF AllFollow, Replays

\* Nothing is sent, and the turn goes on.
LEMMA QuietSteps ==
  ASSUME FollowInv, UNCHANGED <<ledger, outbox, channel, mirror, watching, count>>,
         pi' # "running", pi \in Calling => pi' \in Calling,
         \A k \in Nat : \/ \A x : Told(FileLedger', x, k) <=> Told(FileLedger, x, k)
                        \/ \A x : Told(FileLedger', x, k) <=> HasCard(x, k)
  PROVE  AllFollow'
<1>1. \A s \in watching : CaughtUp(s)' = CaughtUp(s)
  BY DEF CaughtUp
<1>2. Follows(ledger, ledger, pi', count)
  BY FollowsOn DEF FollowInv
<1>3. ASSUME NEW s \in watching PROVE Follows(CaughtUp(s), ledger, pi', count)
  <2> DEFINE c == CaughtUp(s)
  <2>1. Follows(c, ledger, pi, count)
    BY DEF FollowInv
  <2> HIDE DEF c
  <2>2. Follows(c, ledger, pi', count)
    BY <2>1, FollowsOn
  <2> QED BY <2>2 DEF c
<1>4. ASSUME NEW c \in Copies
      PROVE  Kept(c, ApplyAll(c, outbox), ledger, FileLedger', pi', count)
  <2> DEFINE d == ApplyAll(c, outbox)
             f == FileLedger
             f2 == FileLedger'
  <2>1. Kept(c, d, ledger, f, pi, count)
    BY DEF FollowInv, Replays
  <2>2. \A k \in Nat : \/ \A x : Told(f2, x, k) <=> Told(f, x, k)
                       \/ \A x : Told(f2, x, k) <=> HasCard(x, k)
    OBVIOUS
  <2> HIDE DEF d, f, f2
  <2>3. Kept(c, d, ledger, f2, pi', count)
    BY <2>1, <2>2, KeptOn
  <2> QED BY <2>3 DEF d, f2
<1>5. LiveInv'
  BY DEF FollowInv, LiveInv
<1> QED BY <1>1, <1>2, <1>3, <1>4, <1>5 DEF AllFollow, Replays

\* Nothing at all happens to what is looked at.
LEMMA StillFollows ==
  ASSUME FollowInv, UNCHANGED <<ledger, outbox, channel, mirror, watching>>, UNCHANGED piVars
  PROVE  AllFollow'
<1>1. \A s \in watching : CaughtUp(s)' = CaughtUp(s)
  BY DEF CaughtUp
<1>2. FileLedger' = FileLedger
  BY DEF FileLedger, Truth, piVars
<1> QED BY <1>1, <1>2 DEF FollowInv, AllFollow, LiveInv, Replays, piVars

\* The steps of the turn.
LEMMA TurnFollows ==
  ASSUME CleanInv, FollowInv, FileInv',
         \/ TurnPrompted \/ AgentStart \/ MessageStart \/ MessageUpdate \/ AgentSettled
  PROVE  AllFollow'
<1>1. count \in Nat
  BY DEF FollowInv, FileInv
<1>2. ledger \in Copies
  BY DEF FollowInv, Follows
<1>3. CASE TurnPrompted \/ AgentStart \/ AgentSettled
  <2>1. PICK b \in BOOLEAN : Emit(<<Busy(b)>>)
    BY <1>3 DEF TurnPrompted, AgentStart, AgentSettled
  <2>2. /\ UNCHANGED clientVars /\ UNCHANGED <<stored, count>>
        /\ pi \notin Calling /\ pi' \notin Calling
    BY <1>3 DEF TurnPrompted, AgentStart, AgentSettled, Calling
  <2>3. Wordy(ledger, Busy(b)) /\ LiveIds(Apply(ledger, Busy(b))) = LiveIds(ledger)
    BY <1>2, ApplyBusy DEF Wordy
  <2> DEFINE a == Busy(b)
  <2>4. Emit(<<a>>) /\ Wordy(ledger, a) /\ LiveIds(Apply(ledger, a)) = LiveIds(ledger)
    BY <2>1, <2>3
  <2> HIDE DEF a
  <2> QED BY <1>1, <2>2, <2>4, WordySteps
<1>4. CASE MessageStart
  <2> DEFINE a == Added(count + 1)
  <2>1. /\ Emit(<<a>>) /\ UNCHANGED clientVars /\ UNCHANGED stored /\ count' = count + 1
        /\ pi \notin Calling /\ pi' \notin Calling
    BY <1>4 DEF MessageStart, Calling
  <2>2. count + 1 \in Nat /\ count + 1 \notin LiveIds(ledger)
    BY <1>1 DEF FollowInv, LiveInv
  <2>3. Wordy(ledger, a) /\ a = Added(count')
    BY <2>1, <2>2 DEF Wordy
  <2> HIDE DEF a
  <2> QED BY <1>1, <2>1, <2>2, <2>3, WordySteps
<1>5. CASE MessageUpdate
  <2> DEFINE a == Text(count)
  <2>1. /\ Emit(<<a>>) /\ UNCHANGED clientVars /\ UNCHANGED <<stored, count>>
        /\ pi \notin Calling /\ pi' \notin Calling
    BY <1>5 DEF MessageUpdate, Calling
  <2>2. Wordy(ledger, a) /\ LiveIds(Apply(ledger, a)) = LiveIds(ledger)
    BY <1>1, <1>2, ApplyText DEF Wordy
  <2> HIDE DEF a
  <2> QED BY <1>1, <2>1, <2>2, WordySteps
<1> QED BY <1>3, <1>4, <1>5

\* A message goes into the file, and the tool it calls with it.
LEMMA MessageEndFollows ==
  ASSUME FollowInv, FileInv', MessageEnd
  PROVE  AllFollow'
<1>1. PICK tool \in {"none", "pending"} :
        /\ stored' = Append(stored, [text |-> written, tool |-> tool])
        /\ pi' = IF tool = "none" THEN "working" ELSE "calling"
  BY DEF MessageEnd
<1> DEFINE m == [text |-> written, tool |-> tool]
           n == Len(stored) + 1
<1>2. stored \in Files /\ stored' \in Files /\ count \in Nat
  BY DEF FollowInv, FileInv
<1>3. /\ n \in Nat /\ Len(stored') = n
      /\ DOMAIN stored' = 1 .. n /\ DOMAIN stored = 1 .. Len(stored)
      /\ stored'[n] = m /\ \A k \in DOMAIN stored : stored'[k] = stored[k]
      /\ m.tool = tool
  <2> DEFINE T == [text : Nat, tool : {"none", "pending"} \cup Ended]
  <2>1. stored \in Seq(T) /\ m \in T /\ m.tool = tool
    BY <1>2 DEF FollowInv, FileInv, Files
  <2>2. stored' = Append(stored, m)
    BY <1>1
  <2> HIDE DEF T, m
  <2> QED BY <2>1, <2>2
<1>4. DOMAIN stored' = DOMAIN stored \cup {n} /\ n \notin DOMAIN stored
  BY <1>3
<1> HIDE DEF m, n
<1>5. /\ Cards(FileLedger) = Called(stored, Len(stored))
      /\ Cards(FileLedger') = Called(stored', Len(stored'))
  BY FileLedgerIs, NextFile DEF FollowInv
<1>6. /\ \A e : e \in Cards(FileLedger) <=>
           \E k \in DOMAIN stored : stored[k].tool # "none" /\ e = Card(k, stored[k].tool)
      /\ \A e : e \in Cards(FileLedger') <=>
           \E k \in DOMAIN stored' : stored'[k].tool # "none" /\ e = Card(k, stored'[k].tool)
  <2> DEFINE file == stored'
  <2>1. \A e : e \in Called(file, Len(file)) <=>
           \E k \in DOMAIN file : file[k].tool # "none" /\ e = Card(k, file[k].tool)
    <3>1. file \in Files
      BY <1>2
    <3> HIDE DEF file
    <3> QED BY <3>1, CalledIs
  <2>2. \A e : e \in Called(stored, Len(stored)) <=>
           \E k \in DOMAIN stored : stored[k].tool # "none" /\ e = Card(k, stored[k].tool)
    BY <1>2, CalledIs
  <2> QED BY <1>5, <2>1, <2>2
<1>7. \A k, t : Card(k, t).id = k /\ Card(k, t).status = t /\ ~Card(k, t).asks
  BY DEF Card
<1>8. ASSUME NEW k \in Nat, k # n \/ tool = "none"
      PROVE  \A x : Told(FileLedger', x, k) <=> Told(FileLedger, x, k)
  <2>1. \A e : e.id = k => (e \in Cards(FileLedger') <=> e \in Cards(FileLedger))
    <3>1. ASSUME NEW e, e.id = k, e \in Cards(FileLedger') PROVE e \in Cards(FileLedger)
      <4>1. PICK j \in DOMAIN stored' : stored'[j].tool # "none" /\ e = Card(j, stored'[j].tool)
        BY <1>6, <3>1
      <4>2. j = k /\ j \in DOMAIN stored
        BY <1>3, <1>4, <1>7, <1>8, <3>1, <4>1
      <4> QED BY <1>3, <1>6, <4>1, <4>2
    <3>2. ASSUME NEW e, e.id = k, e \in Cards(FileLedger) PROVE e \in Cards(FileLedger')
      <4>1. PICK j \in DOMAIN stored : stored[j].tool # "none" /\ e = Card(j, stored[j].tool)
        BY <1>6, <3>2
      <4>2. j \in DOMAIN stored' /\ stored'[j] = stored[j]
        BY <1>3, <1>4, <4>1
      <4> QED BY <1>6, <4>1, <4>2
    <3> QED BY <3>1, <3>2
  <2> QED BY <2>1, FileTold
<1>9. ASSUME tool # "none"
      PROVE  \A x : Told(FileLedger', x, n) <=> HasCard(x, n)
  <2>1. tool = "pending" /\ "pending" \notin Ended
    BY <1>9 DEF Ended
  <2>2. Card(n, "pending") \in Cards(FileLedger')
    BY <1>3, <1>4, <1>6, <2>1
  <2>3. \A e \in Cards(FileLedger') : e.id = n => e = Card(n, "pending")
    BY <1>3, <1>6, <1>7, <2>1
  <2> QED BY <1>7, <2>1, <2>2, <2>3 DEF Told, HasCard
<1>10. UNCHANGED <<ledger, outbox, channel, mirror, watching, count>>
  BY DEF MessageEnd, clientVars
<1>11. pi' # "running" /\ pi \notin Calling
  BY <1>1 DEF MessageEnd, Calling
<1>12. \A k \in Nat : (\A x : Told(FileLedger', x, k) <=> Told(FileLedger, x, k))
                      \/ (\A x : Told(FileLedger', x, k) <=> HasCard(x, k))
  BY <1>8, <1>9
<1> QED BY <1>10, <1>11, <1>12, QuietSteps

\* The tool runs, asks and is answered.
LEMMA CallFollows ==
  ASSUME CleanInv, FollowInv, FileInv', ToolStart \/ ConfirmRequested \/ FinishConfirmation
  PROVE  AllFollow'
<1>1. UNCHANGED <<stored, count>> /\ UNCHANGED clientVars /\ FileLedger' = FileLedger
  BY DEF ToolStart, ConfirmRequested, FinishConfirmation, FileLedger, Truth
<1>2. \A e \in Cards(FileLedger) : e.id = count /\ pi \in Calling => e.status \notin Ended
  <2> SUFFICES ASSUME NEW e \in Cards(FileLedger), e.id = count, pi \in Calling
               PROVE  e.status \notin Ended
    OBVIOUS
  <2>1. stored \in Files /\ stored[count].tool = "pending"
    BY DEF FollowInv, FileInv
  <2>2. \E k \in DOMAIN stored : stored[k].tool # "none" /\ e = Card(k, stored[k].tool)
    BY <2>1, FileLedgerIs, CalledIs DEF FollowInv
  <2> QED BY <2>1, <2>2 DEF Card, Ended
<1>3. CASE ConfirmRequested
  BY <1>1, <1>3, ConfirmSteps DEF ConfirmRequested
<1>4. CASE ToolStart
  <2>1. Emit(<<Tool(count, "running")>>) /\ pi \in Calling /\ pi' \in Calling
    BY <1>4 DEF ToolStart, Calling
  <2> QED BY <1>1, <1>2, <2>1, ToolSteps
<1>5. CASE FinishConfirmation
  <2>1. pi \in Calling /\ pi' \in Calling /\ pi' # "running"
    BY <1>5 DEF FinishConfirmation, Calling
  <2>2. CASE \E s \in {"running"} \cup Ended : Emit(<<Tool(count, s)>>)
    BY <1>1, <1>2, <2>1, <2>2, ToolSteps
  <2>3. CASE UNCHANGED <<ledger, outbox, timer>>
    <3>1. UNCHANGED <<ledger, outbox, channel, mirror, watching, count>>
      BY <1>1, <2>3 DEF clientVars
    <3>2. \A k \in Nat : (\A x : Told(FileLedger', x, k) <=> Told(FileLedger, x, k))
                         \/ (\A x : Told(FileLedger', x, k) <=> HasCard(x, k))
      BY <1>1
    <3> QED BY <2>1, <3>1, <3>2, QuietSteps
  <2> QED BY <1>5, <2>2, <2>3 DEF FinishConfirmation, Ended
<1> QED BY <1>3, <1>4, <1>5

\* The tool ends, in the file and in the ledger.
LEMMA ToolEndFollows ==
  ASSUME CleanInv, FollowInv, FileInv', ToolEnd
  PROVE  AllFollow'
<1>1. PICK s \in Ended : /\ stored' = [stored EXCEPT ![count].tool = s]
                         /\ Emit(<<Tool(count, s)>>)
  BY DEF ToolEnd
<1>2. UNCHANGED clientVars /\ UNCHANGED count /\ pi \in Calling /\ pi' = "working"
  BY DEF ToolEnd, Calling
<1>3. stored \in Files /\ stored' \in Files /\ count \in DOMAIN stored
  BY <1>2 DEF FollowInv, FileInv
<1>4. /\ DOMAIN stored' = DOMAIN stored /\ stored'[count].tool = s
      /\ \A k \in DOMAIN stored : k # count => stored'[k] = stored[k]
  <2> DEFINE T == [text : Nat, tool : {"none", "pending"} \cup Ended]
             m == [stored[count] EXCEPT !.tool = s]
  <2>1. stored \in Seq(T)
    BY <1>3 DEF Files
  <2>2. stored[count] \in T
    <3> HIDE DEF T
    <3>1. count \in 1 .. Len(stored)
      BY <1>3, <2>1
    <3> QED BY <2>1, <3>1, ElementOfSeq
  <2>3. m.tool = s
    BY <2>2
  <2>4. stored' = [stored EXCEPT ![count] = m]
    BY <1>1
  <2> HIDE DEF T, m
  <2> QED BY <1>3, <2>1, <2>3, <2>4
<1>5. /\ \A e : e \in Cards(FileLedger) <=>
           \E k \in DOMAIN stored : stored[k].tool # "none" /\ e = Card(k, stored[k].tool)
      /\ \A e : e \in Cards(FileLedger') <=>
           \E k \in DOMAIN stored' : stored'[k].tool # "none" /\ e = Card(k, stored'[k].tool)
  <2> DEFINE file == stored'
  <2>1. \A e : e \in Called(file, Len(file)) <=>
           \E k \in DOMAIN file : file[k].tool # "none" /\ e = Card(k, file[k].tool)
    <3>1. file \in Files
      BY <1>3
    <3> HIDE DEF file
    <3> QED BY <3>1, CalledIs
  <2>2. \A e : e \in Called(stored, Len(stored)) <=>
           \E k \in DOMAIN stored : stored[k].tool # "none" /\ e = Card(k, stored[k].tool)
    BY <1>3, CalledIs
  <2>3. /\ Cards(FileLedger) = Called(stored, Len(stored))
        /\ Cards(FileLedger') = Called(stored', Len(stored'))
    BY FileLedgerIs, NextFile DEF FollowInv
  <2> QED BY <2>1, <2>2, <2>3
<1>6. \A k, t : Card(k, t).id = k /\ Card(k, t).status = t
  BY DEF Card
<1>7. ASSUME NEW k \in Nat, k # count, NEW e, e.id = k
      PROVE  e \in Cards(FileLedger') <=> e \in Cards(FileLedger)
  BY <1>4, <1>5, <1>6, <1>7
<1>8. ASSUME NEW e \in Cards(FileLedger'), e.id = count
      PROVE  e.status \in Ended => e.status = s
  <2>1. PICK k \in DOMAIN stored' : e = Card(k, stored'[k].tool)
    BY <1>5
  <2>2. k = count
    BY <1>6, <1>8, <2>1
  <2> QED BY <1>4, <1>6, <2>1, <2>2
<1> QED BY <1>1, <1>2, <1>7, <1>8, ToolSteps

-----------------------------------------------------------------------------
(* What goes to the clients.                                               *)

\* The batch goes out to all who look.
LEMMA FlushSteps ==
  ASSUME CleanInv, FollowInv, Flush
  PROVE  AllFollow'
<1>1. /\ outbox' = <<>> /\ channel' = Sent(watching, Batch(outbox))
      /\ UNCHANGED <<ledger, watching, mirror>> /\ UNCHANGED piVars
  BY DEF Flush
<1>2. ASSUME NEW s \in watching PROVE CaughtUp(s)' = CaughtUp(s)
  <2> DEFINE copy == FoldLeft(Receive, mirror[s], channel[s])
  <2>1. s \in Clients
    BY DEF CleanInv, FeedLists
  <2>2. channel'[s] = Append(channel[s], Batch(outbox))
    BY <1>1, <2>1, SentLists DEF CleanInv
  <2>3. FoldLeft(Receive, mirror[s], channel'[s]) = Receive(copy, Batch(outbox))
    BY <2>1, <2>2, CaughtUpAfterSent DEF CleanInv
  <2>4. Receive(copy, Batch(outbox)) = ApplyAll(copy, outbox)
    BY DEF Receive, Batch
  <2>5. CaughtUp(s)' = ApplyAll(FoldLeft(Receive, mirror[s], channel'[s]), <<>>)
    BY <1>1 DEF CaughtUp
  <2>6. CaughtUp(s) = ApplyAll(copy, outbox)
    BY DEF CaughtUp
  <2> HIDE DEF copy
  <2> QED BY <2>3, <2>4, <2>5, <2>6, ApplyEmpty
<1>3. \A s \in watching : Follows(CaughtUp(s)', ledger, pi, count)
  BY <1>2 DEF FollowInv
<1>4. Replays(outbox', ledger', FileLedger', pi', count')
  BY <1>1, NothingToApply
<1> QED BY <1>1, <1>3, <1>4 DEF FollowInv, LiveInv, AllFollow, piVars

\* Whoever gets a snapshot will see it, and what is sent after it.
LEMMA SnapshotThen ==
  ASSUME FeedLists, NEW s \in Clients, NEW l,
         channel'[s] = Append(channel[s], Snapshot(l)), mirror' = mirror, outbox' = outbox
  PROVE  CaughtUp(s)' = ApplyAll(l, outbox)
<1>1. FoldLeft(Receive, mirror[s], Append(channel[s], Snapshot(l)))
        = Receive(FoldLeft(Receive, mirror[s], channel[s]), Snapshot(l))
  BY CaughtUpAfterSent
<1>2. \A c : Receive(c, Snapshot(l)) = l
  BY DEF Receive, Snapshot
<1>3. CaughtUp(s)' = ApplyAll(FoldLeft(Receive, mirror[s], channel'[s]), outbox)
  BY DEF CaughtUp
<1>4. FoldLeft(Receive, mirror[s], channel'[s]) = l
  BY <1>1, <1>2
<1> QED BY <1>3, <1>4

\* The file becomes the ledger: the actions of the outbox find a copy that has them.
LEMMA RebuildSteps ==
  ASSUME CleanInv, FollowInv, Rebuild, UNCHANGED <<outbox, watching, mirror>>, UNCHANGED piVars
  PROVE  AllFollow'
<1> DEFINE l == ledger
           f == FileLedger
           p == pi
           n == count
<1>1. ledger' = f /\ channel' = Sent(watching, Snapshot(f))
  BY DEF Rebuild, FileLedger
<1>2. FileLedger' = f /\ pi' = p /\ count' = n
  BY DEF FileLedger, Truth, piVars
<1>3. /\ f \in Copies /\ LiveIds(f) = {} /\ LiveOnce(f) /\ \A m, t \in Nat : ~Says(f, m, t)
      /\ Follows(f, f, p, n)
  BY FileLedgerIs DEF FollowInv
<1>4. \A c \in Copies : Kept(c, ApplyAll(c, outbox), l, f, p, n)
  BY DEF FollowInv, Replays
<1> HIDE DEF l, f, p, n
<1>5. ASSUME NEW c \in Copies PROVE Kept(c, ApplyAll(c, outbox), f, f, p, n)
  <2> DEFINE d == ApplyAll(c, outbox)
  <2>1. Kept(c, d, l, f, p, n)
    BY <1>4
  <2> HIDE DEF d
  <2>2. Kept(c, d, f, f, p, n)
    BY <1>3, <2>1, KeptOfFile
  <2> QED BY <2>2 DEF d
<1>6. Follows(ApplyAll(f, outbox), f, p, n)
  <2> DEFINE d == ApplyAll(f, outbox)
  <2>1. Kept(f, d, f, f, p, n)
    BY <1>3, <1>5
  <2> HIDE DEF d
  <2>2. Follows(d, f, p, n)
    BY <1>3, <2>1, SnapshotOn
  <2> QED BY <2>2 DEF d
<1>7. ASSUME NEW s \in watching PROVE Follows(CaughtUp(s)', f, p, n)
  <2>1. s \in Clients
    BY DEF CleanInv, FeedLists
  <2>2. channel'[s] = Append(channel[s], Snapshot(f))
    BY <1>1, <2>1, SentLists DEF CleanInv
  <2>3. CaughtUp(s)' = ApplyAll(f, outbox)
    BY <2>1, <2>2, SnapshotThen DEF CleanInv
  <2> QED BY <1>6, <2>3
<1>8. LiveInv'
  BY <1>1, <1>3 DEF LiveInv
<1> QED BY <1>1, <1>2, <1>3, <1>5, <1>7, <1>8 DEF AllFollow, Replays

\* Another client looks: what is unsent will be applied to its snapshot once more.
LEMMA ShowSteps ==
  ASSUME CleanInv, FollowInv, NEW c \in Clients, ShowLedger(c)
  PROVE  AllFollow'
<1>1. /\ channel' = Sent({c}, Snapshot(ledger)) /\ watching' = watching \cup {c}
      /\ UNCHANGED <<ledger, mirror, outbox>> /\ UNCHANGED piVars
  BY DEF ShowLedger
<1>2. FileLedger' = FileLedger
  BY <1>1 DEF FileLedger, Truth, piVars
<1>3. Follows(ledger, ledger, pi, count) /\ ledger \in Copies
  BY DEF FollowInv, Follows
<1>4. Follows(ApplyAll(ledger, outbox), ledger, pi, count)
  <2> DEFINE d == ApplyAll(ledger, outbox)
             f == FileLedger
  <2>1. Kept(ledger, d, ledger, f, pi, count)
    BY <1>3 DEF FollowInv, Replays
  <2> HIDE DEF d, f
  <2>2. Follows(d, ledger, pi, count)
    BY <1>3, <2>1, SnapshotOn
  <2> QED BY <2>2 DEF d
<1>5. CaughtUp(c)' = ApplyAll(ledger, outbox)
  <2>1. channel'[c] = Append(channel[c], Snapshot(ledger))
    BY <1>1, SentLists DEF CleanInv
  <2> QED BY <1>1, <2>1, SnapshotThen DEF CleanInv
<1>6. ASSUME NEW s \in watching, s # c PROVE CaughtUp(s)' = CaughtUp(s)
  <2>1. s \in Clients /\ s \notin {c}
    BY <1>6 DEF CleanInv, FeedLists
  <2>2. channel'[s] = channel[s]
    BY <1>1, <2>1, SentLists DEF CleanInv
  <2> QED BY <1>1, <2>2 DEF CaughtUp
<1>7. \A s \in watching' : Follows(CaughtUp(s)', ledger, pi, count)
  BY <1>1, <1>4, <1>5, <1>6 DEF FollowInv
<1> QED BY <1>1, <1>2, <1>7 DEF FollowInv, LiveInv, AllFollow, Replays, piVars

\* A client leaves, or reads its next message: the others see what they saw.
LEMMA LeaveSteps ==
  ASSUME CleanInv, FollowInv, NEW c \in Clients, Leave(c)
  PROVE  AllFollow'
<1>1. /\ watching' = watching \ {c} /\ UNCHANGED <<ledger, outbox>> /\ UNCHANGED piVars
  BY DEF Leave
<1>2. FileLedger' = FileLedger
  BY <1>1 DEF FileLedger, Truth, piVars
<1>3. ASSUME NEW s \in watching' PROVE CaughtUp(s)' = CaughtUp(s)
  <2>1. s \in Clients /\ s # c
    BY <1>1 DEF CleanInv, FeedLists
  <2>2. channel'[s] = channel[s] /\ mirror'[s] = mirror[s]
    BY <2>1 DEF CleanInv, FeedLists, Leave
  <2> QED BY <1>1, <2>2 DEF CaughtUp
<1> QED BY <1>1, <1>2, <1>3 DEF FollowInv, LiveInv, AllFollow, Replays, piVars

\* What a client reads first, it would have read first.
LEMMA DeliverSteps ==
  ASSUME CleanInv, FollowInv, NEW c \in Clients, Deliver(c)
  PROVE  AllFollow'
<1>1. channel[c] # <<>> /\ Listed(channel[c])
  BY DEF Deliver, CleanInv, FeedLists
<1>2. /\ channel'[c] = Tail(channel[c]) /\ mirror'[c] = Receive(mirror[c], Head(channel[c]))
      /\ \A s \in Clients : s # c => channel'[s] = channel[s] /\ mirror'[s] = mirror[s]
  BY DEF Deliver, CleanInv, FeedLists
<1>3. UNCHANGED <<ledger, outbox, watching>> /\ UNCHANGED piVars
  BY DEF Deliver
<1>4. FileLedger' = FileLedger
  BY <1>3 DEF FileLedger, Truth, piVars
<1>5. ASSUME NEW s \in watching PROVE CaughtUp(s)' = CaughtUp(s)
  <2>1. s \in Clients
    BY DEF CleanInv, FeedLists
  <2>2. FoldLeft(Receive, mirror'[s], channel'[s]) = FoldLeft(Receive, mirror[s], channel[s])
    <3>1. CASE s = c
      BY <1>1, <1>2, <3>1, ReadFirst
    <3>2. CASE s # c
      BY <1>2, <2>1, <3>2
    <3> QED BY <3>1, <3>2
  <2> QED BY <1>3, <2>2 DEF CaughtUp
<1> QED BY <1>3, <1>4, <1>5 DEF FollowInv, LiveInv, AllFollow, Replays, piVars

-----------------------------------------------------------------------------
(* What follows of it.                                                     *)

\* A copy that follows the ledger shows all of it.
LEMMA FollowsIsShown ==
  ASSUME NEW c, NEW l \in Copies, NEW p, NEW n, Follows(c, l, p, n), LiveOnce(l),
         NEW i \in DOMAIN l.entries
  PROVE  \E j \in DOMAIN c.entries : Shown(l.entries[i], c.entries[j])
<1> DEFINE e == l.entries[i]
<1>1. l.entries \in Seq(Entries) /\ c \in Copies /\ c.entries \in Seq(Entries)
  BY CopyFields DEF Follows
<1>2. e \in Entries
  <2>1. i \in 1 .. Len(l.entries)
    BY <1>1
  <2> QED BY <1>1, <2>1, ElementOfSeq
<1>3. CASE IsTool(e)
  <2>1. e \in Cards(l)
    BY <1>3 DEF Cards
  <2>2. e.id \in Nat
    BY <1>2, <1>3 DEF Entries, IsTool
  <2>3. PICK f \in Cards(c) : /\ f.id = e.id /\ (e.asks => f.asks)
                              /\ (e.status \in Ended => f.status = e.status)
    BY <2>1, <2>2 DEF Follows, Told
  <2>4. PICK j \in DOMAIN c.entries : IsTool(c.entries[j]) /\ f = c.entries[j]
    BY DEF Cards
  <2>5. Shown(e, f)
    BY <1>3, <2>3, <2>4 DEF Shown, IsTool
  <2> QED BY <2>4, <2>5
<1>4. CASE IsStable(e)
  <2>1. e \in Stables(l)
    BY <1>4 DEF Stables
  <2>2. e \in Stables(c)
    BY <2>1 DEF Follows
  <2>3. PICK j \in DOMAIN c.entries : c.entries[j] = e
    BY <2>2 DEF Stables
  <2>4. e.text \in Nat
    BY <1>2, <1>4 DEF Entries, IsStable
  <2>5. Shown(e, e)
    BY <1>4, <2>4 DEF Shown, IsStable
  <2> QED BY <2>3, <2>5
<1>5. CASE IsLive(e)
  <2> DEFINE m == e.id
             k == Find(l.entries, m)
             j == Find(c.entries, m)
  <2>1. m \in Nat /\ e.text \in Nat
    BY <1>2, <1>5 DEF Entries, IsLive
  <2>2. k # 0 /\ k \in DOMAIN l.entries /\ IsLive(l.entries[k]) /\ l.entries[k].id = m
    BY <1>1, <1>5, FindIs
  <2>3. k = i
    <3> HIDE DEF k
    <3> QED BY <1>5, <2>2 DEF LiveOnce
  <2>4. Says(l, m, e.text)
    BY <2>1, <2>2, <2>3 DEF Says
  <2>5. Says(c, m, e.text)
    <3> HIDE DEF m
    <3> QED BY <2>1, <2>4 DEF Follows, Reads
  <2>6. /\ j # 0 /\ c.entries[j].text >= e.text
        /\ j \in DOMAIN c.entries /\ IsLive(c.entries[j]) /\ c.entries[j].id = m
    BY <1>1, <2>5, FindIs DEF Says
  <2>7. Shown(e, c.entries[j])
    <3> HIDE DEF j
    <3>1. e.stable \in BOOLEAN /\ c.entries[j].stable \in BOOLEAN
      <4>1. c.entries[j] \in Entries
        <5>1. j \in 1 .. Len(c.entries)
          BY <1>1, <2>6
        <5> QED BY <1>1, <5>1, ElementOfSeq
      <4> QED BY <1>2, <1>5, <2>6, <4>1 DEF Entries, IsLive
    <3> QED BY <1>5, <2>6, <3>1 DEF Shown, IsLive
  <2> QED BY <2>6, <2>7
<1>6. IsTool(e) \/ IsStable(e) \/ IsLive(e)
  BY <1>2 DEF Entries, IsTool, IsStable, IsLive
<1> QED BY <1>3, <1>4, <1>5, <1>6

\* Whoever looks misses nothing, for any number of clients, messages and deltas:
\* every message of the ledger reaches its copy with at least the text it has
\* there, every question is asked there too, and a tool that has ended has ended
\* there as it did, whatever was on its way when it was shown the conversation
\* or the ledger was rebuilt.
THEOREM WatchersMissNothing == FeedSpec => []NothingIsMissed
<1>1. FeedInit => FollowInv
  <2> SUFFICES ASSUME FeedInit PROVE FollowInv
    OBVIOUS
  <2>1. FileInv
    BY DEF FeedInit, FileInv, Files, Calling
  <2>2. ledger = FileLedger
    <3>1. DOMAIN stored = {} /\ stored = <<>>
      BY DEF FeedInit
    <3>2. FlattenSeq([i \in DOMAIN stored |-> Piece(stored, i)]) = <<>>
      BY <3>1 DEF FlattenSeq
    <3> QED BY <3>2 DEF FeedInit, FileLedger, Truth, Piece
  <2>3. LiveInv /\ Follows(ledger, ledger, pi, count)
    BY <2>1, <2>2, FileLedgerIs DEF LiveInv
  <2>4. Replays(outbox, ledger, FileLedger, pi, count)
    BY NothingToApply DEF FeedInit
  <2> QED BY <2>1, <2>3, <2>4 DEF FeedInit, FollowInv
<1>2. CleanInv /\ FollowInv /\ [FeedNext]_feedVars => FollowInv'
  <2> SUFFICES ASSUME CleanInv, FollowInv, [FeedNext]_feedVars PROVE FollowInv'
    OBVIOUS
  <2>1. FileInv'
    BY FileSteps DEF FollowInv
  <2>2. AllFollow'
    <3>1. CASE \/ TurnPrompted \/ AgentStart \/ MessageStart \/ MessageUpdate \/ AgentSettled
      BY <2>1, <3>1, TurnFollows
    <3>2. CASE MessageEnd
      BY <2>1, <3>2, MessageEndFollows
    <3>3. CASE ToolStart \/ ConfirmRequested \/ FinishConfirmation
      BY <2>1, <3>3, CallFollows
    <3>4. CASE ToolEnd
      BY <2>1, <3>4, ToolEndFollows
    <3>5. CASE Flush
      BY <3>5, FlushSteps
    <3>6. CASE Reconcile
      <4>1. UNCHANGED <<outbox, watching, mirror>> /\ UNCHANGED piVars
        BY <3>6 DEF Reconcile
      <4>2. CASE Agrees
        BY <3>6, <4>1, <4>2, StillFollows DEF Reconcile
      <4>3. CASE ~Agrees
        BY <3>6, <4>1, <4>3, RebuildSteps DEF Reconcile
      <4> QED BY <4>2, <4>3
    <3>7. CASE ReconcileFails \/ UNCHANGED feedVars
      BY <3>7, StillFollows DEF ReconcileFails, feedVars, clientVars, piVars
    <3>8. CASE \E s \in Clients : ShowLedger(s) \/ Leave(s) \/ Deliver(s)
      BY <3>8, ShowSteps, LeaveSteps, DeliverSteps
    <3> QED BY <3>1, <3>2, <3>3, <3>4, <3>5, <3>6, <3>7, <3>8 DEF FeedNext
  <2> QED BY <2>1, <2>2 DEF FollowInv, AllFollow
<1>3. FollowInv => NothingIsMissed
  <2> SUFFICES ASSUME FollowInv, NEW s \in watching, NEW i \in DOMAIN ledger.entries
               PROVE  \E j \in DOMAIN CaughtUp(s).entries :
                        Shown(ledger.entries[i], CaughtUp(s).entries[j])
    BY DEF NothingIsMissed
  <2> DEFINE c == CaughtUp(s)
  <2>1. Follows(c, ledger, pi, count) /\ ledger \in Copies /\ LiveOnce(ledger)
    BY DEF FollowInv, LiveInv, Follows
  <2> HIDE DEF c
  <2>2. \E j \in DOMAIN c.entries : Shown(ledger.entries[i], c.entries[j])
    BY <2>1, FollowsIsShown
  <2> QED BY <2>2 DEF c
<1> QED BY <1>1, <1>2, <1>3, CleanSteps, PTL DEF FeedSpec

=============================================================================
