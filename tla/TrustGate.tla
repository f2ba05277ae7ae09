------------------------------ MODULE TrustGate ------------------------------
(***************************************************************************)
(* Before Pi starts in a directory with project resources, a person says   *)
(* whether to trust them.  Translated from                                 *)
(* packages/server/src/project-trust-gate.ts (ensure, finish, respond,     *)
(* cancel) and its callers in packages/server/src/index.ts (openWithTrust, *)
(* the handlers that await a session file first, the close of a socket).   *)
(*                                                                         *)
(* A question is named after the start that asked it: requestId is a       *)
(* counter, so no two questions share a name.                              *)
(***************************************************************************)
CONSTANTS
  Sockets,  \* WebSocket connections, each used once
  Dirs,     \* working directories
  Starts,   \* calls of openWithTrust
  None

ASSUME GateConstants == None \notin Starts \cup Sockets \cup Dirs

VARIABLES
  conn,         \* socket -> has it connected, has it closed
  resources,    \* directories that hold project resources now
  decision,     \* directory -> what the trust file says
  byId,         \* questions nobody has answered (the map `byId`)
  byDirectory,  \* directory -> its unanswered question
  start         \* start -> how far it is

vars == <<conn, resources, decision, byId, byDirectory, start>>

Answers == {"yes", "no"}

\* on: the question it waits for; trust: the flag Pi is launched with.
StartType == [pc : {"new", "find", "wait", "launched", "refused"},
              who : Sockets \cup {None}, dir : Dirs \cup {None},
              on : Starts \cup {None}, trust : Answers \cup {"unset"}]

NewStart == [pc |-> "new", who |-> None, dir |-> None, on |-> None, trust |-> "unset"]

TypeOK ==
  /\ conn \in [Sockets -> {"new", "open", "closed"}]
  /\ resources \in SUBSET Dirs
  /\ decision \in [Dirs -> Answers \cup {"unset"}]
  /\ byId \in SUBSET Starts
  /\ byDirectory \in [Dirs -> Starts \cup {None}]
  /\ start \in [Starts -> StartType]

Init ==
  /\ conn = [s \in Sockets |-> "new"]
  /\ resources \in SUBSET Dirs
  /\ decision = [d \in Dirs |-> "unset"]
  /\ byId = {}
  /\ byDirectory = [d \in Dirs |-> None]
  /\ start = [a \in Starts |-> NewStart]

-----------------------------------------------------------------------------
(* The gate.                                                               *)

\* Nobody is being asked about this directory yet.
AsksFor(d) == byDirectory[d] = None

\* MUTANT of Passes: an unanswered question does not hold a start back.
PassesUnlessRefused(d) == d \notin resources \/ decision[d] # "no"

\* ensure() returns without asking.
Passes(d) == d \notin resources \/ decision[d] # "unset"

\* ensure(d, s), for the start a: on with the recorded decision, wait for the
\* question already asked, or ask.
Ensured(a, s, d) ==
  IF Passes(d)
  THEN /\ start' = [start EXCEPT
             ![a] = [NewStart EXCEPT !.pc = "launched", !.who = s, !.dir = d,
                                     !.trust = IF d \in resources THEN decision[d]
                                               ELSE "unset"]]
       /\ UNCHANGED <<byId, byDirectory>>
  ELSE LET q == IF AsksFor(d) THEN a ELSE byDirectory[d] IN
       /\ start' = [start EXCEPT
             ![a] = [NewStart EXCEPT !.pc = "wait", !.who = s, !.dir = d, !.on = q]]
       /\ byId' = byId \cup {q}
       /\ byDirectory' = [byDirectory EXCEPT ![d] = q]

\* The starts waiting for a question of qs go on with the same outcome.
Released(qs, pc, trust) ==
  [a \in Starts |->
     IF start[a].pc = "wait" /\ start[a].on \in qs
     THEN [start[a] EXCEPT !.pc = pc, !.trust = trust]
     ELSE start[a]]

\* finish() for each question of qs.
Finished(qs, pc, trust) ==
  /\ byId' = byId \ qs
  /\ byDirectory' = [d \in Dirs |-> IF byDirectory[d] \in qs THEN None ELSE byDirectory[d]]
  /\ start' = Released(qs, pc, trust)

-----------------------------------------------------------------------------
(* Clients.                                                                *)

Connect(s) ==
  /\ conn[s] = "new"
  /\ conn' = [conn EXCEPT ![s] = "open"]
  /\ UNCHANGED <<resources, decision, byId, byDirectory, start>>

\* onConnection looks for the client's default conversation at once.
Arrive(a, s, d) ==
  /\ conn[s] = "new" /\ start[a].pc = "new"
  /\ conn' = [conn EXCEPT ![s] = "open"]
  /\ start' = [start EXCEPT ![a] = [NewStart EXCEPT !.pc = "find", !.who = s, !.dir = d]]
  /\ UNCHANGED <<resources, decision, byId, byDirectory>>

\* create_session calls ensure at once.
Create(a, s, d) ==
  /\ conn[s] = "open" /\ start[a].pc = "new"
  /\ Ensured(a, s, d)
  /\ UNCHANGED <<conn, resources, decision>>

\* An open_session or a deletion awaits session files first.
Begin(a, s, d) ==
  /\ conn[s] = "open" /\ start[a].pc = "new"
  /\ start' = [start EXCEPT ![a] = [NewStart EXCEPT !.pc = "find", !.who = s, !.dir = d]]
  /\ UNCHANGED <<conn, resources, decision, byId, byDirectory>>

\* The file is there: ensure().
Found(a) ==
  /\ start[a].pc = "find"
  /\ Ensured(a, start[a].who, start[a].dir)
  /\ UNCHANGED <<conn, resources, decision>>

\* It is not, and this handler has no other conversation to open.
NotFound(a) ==
  /\ start[a].pc = "find"
  /\ start' = [start EXCEPT ![a] = [@ EXCEPT !.pc = "refused"]]
  /\ UNCHANGED <<conn, resources, decision, byId, byDirectory>>

\* respond_project_trust: only the client that was asked is heard; the answer
\* is remembered, then everyone goes on.
Respond(s, q, answer) ==
  /\ conn[s] = "open" /\ q \in byId /\ start[q].who = s
  /\ decision' = [decision EXCEPT ![start[q].dir] = answer]
  /\ Finished({q}, "launched", answer)
  /\ UNCHANGED <<conn, resources>>

\* MUTANT of Asked: a leaver's questions are left to the next client.
AskedNothing(s) == {}

\* The unanswered questions put to s.
Asked(s) == {q \in byId : start[q].who = s}

\* The socket closes: cancel().
Leave(s) ==
  /\ conn[s] = "open"
  /\ conn' = [conn EXCEPT ![s] = "closed"]
  /\ Finished(Asked(s), "refused", "unset")
  /\ UNCHANGED <<resources, decision>>

\* Core stops: its sockets close, and the questions and whoever waits for them
\* go with it.
Stop ==
  /\ conn' = [s \in Sockets |-> IF conn[s] = "open" THEN "closed" ELSE conn[s]]
  /\ byId' = {} /\ byDirectory' = [d \in Dirs |-> None]
  /\ start' = [a \in Starts |->
       IF start[a].pc \in {"find", "wait"} THEN [start[a] EXCEPT !.pc = "refused"] ELSE start[a]]
  /\ UNCHANGED <<resources, decision>>

-----------------------------------------------------------------------------
(* The disk.                                                               *)

\* Project resources come and go with the user's checkout.
ResourcesChange(d) ==
  /\ resources' = IF d \in resources THEN resources \ {d} ELSE resources \cup {d}
  /\ UNCHANGED <<conn, decision, byId, byDirectory, start>>

\* Pi, run in a terminal, records decisions in the same file.
DecidedElsewhere(d, answer) ==
  /\ decision[d] # answer
  /\ decision' = [decision EXCEPT ![d] = answer]
  /\ UNCHANGED <<conn, resources, byId, byDirectory, start>>

Next ==
  \/ \E s \in Sockets : Connect(s) \/ Leave(s)
  \/ \E a \in Starts : Found(a) \/ NotFound(a)
  \/ \E a \in Starts, s \in Sockets, d \in Dirs : Arrive(a, s, d) \/ Create(a, s, d) \/ Begin(a, s, d)
  \/ Stop
  \/ \E s \in Sockets, q \in Starts, answer \in Answers : Respond(s, q, answer)
  \/ \E d \in Dirs : ResourcesChange(d)
  \/ \E d \in Dirs, answer \in Answers : DecidedElsewhere(d, answer)

Spec == Init /\ [][Next]_vars

-----------------------------------------------------------------------------
(* Properties.                                                             *)

\* The two maps of the gate hold the same questions, one for a directory: a
\* question in one only could be answered and never asked again, or the reverse.
MapsAgree ==
  /\ \A q \in byId : start[q].dir \in Dirs /\ byDirectory[start[q].dir] = q
  /\ \A d \in Dirs : byDirectory[d] # None => byDirectory[d] \in byId /\ start[byDirectory[d]].dir = d

\* Whoever waits, waits for a question that is still in the gate and is about
\* its own directory; the question's own asker waits with them.
WaitersAreHeld ==
  /\ \A a \in Starts :
       start[a].pc = "wait" => start[a].on \in byId /\ start[start[a].on].dir = start[a].dir
  /\ \A q \in byId : start[q].pc = "wait" /\ start[q].on = q

\* Pi starts beside project resources only under a decision on record, and with
\* that decision.
StartsFollowDecision ==
  [][\A a \in Starts :
        start[a].pc # "launched" /\ start'[a].pc = "launched" =>
          LET d == start'[a].dir IN
          IF d \in resources \/ start[a].pc = "wait"
          THEN decision'[d] # "unset" /\ start'[a].trust = decision'[d]
          ELSE start'[a].trust = "unset"]_vars

\* A start never waits for a client that left after it was asked, and one that
\* waits goes on only by that client's own answer or departure, or ends with Core.
WaitEndsWithAsker ==
  [][\A a \in Starts :
        LET q == start[a].on IN
        start[a].pc = "wait" =>
          LET s == start[q].who IN
          /\ conn[s] = "open" /\ conn'[s] = "closed" => start'[a].pc = "refused"
          /\ start'[a].pc # "wait" => conn[s] = "open" \/ Stop]_vars
=============================================================================
