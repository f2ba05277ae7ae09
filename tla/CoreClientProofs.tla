-------------------------- MODULE CoreClientProofs ---------------------------
(***************************************************************************)
(* First the trust gate, for any number of clients, directories and        *)
(* starts: its two maps agree, and nobody waits for a question that is     *)
(* gone.  Then what clients and Core do with their sockets: it keeps its   *)
(* types, and is one step of the gate or none, so that the theorems of the *)
(* gate hold whatever pages and terminals do, and however the wire fails.  *)
(* Last, what is on the wires: the two ends agree on the conversation, and *)
(* nothing that was asked is forgotten.                                    *)
(***************************************************************************)
EXTENDS CoreClient, TLAPS, SequenceTheorems

-----------------------------------------------------------------------------
(* The trust gate.                                                         *)

\* A start that awaits session files knows for whom and where.
FindersAreNamed ==
  \A a \in Starts : start[a].pc = "find" => start[a].who \in Sockets /\ start[a].dir \in Dirs

IInv == TypeOK /\ MapsAgree /\ WaitersAreHeld /\ FindersAreNamed

LEMMA NewStartType ==
  /\ NewStart \in StartType
  /\ \A pc \in {"new", "find", "wait", "launched", "refused"}, s \in Sockets, d \in Dirs :
       [NewStart EXCEPT !.pc = pc, !.who = s, !.dir = d] \in StartType
BY DEF NewStart, StartType, Answers

\* A start that did not wait begins to wait, launches, or does neither; if it
\* waits, it is for the one question of its directory.
LEMMA EnsuredKeeps ==
  ASSUME IInv, NEW a \in Starts, NEW s \in Sockets, NEW d \in Dirs,
         start[a].pc \in {"new", "find"}, Ensured(a, s, d),
         decision' = decision, resources' = resources, conn' = conn
  PROVE  IInv'
<1>0. /\ TypeOK /\ MapsAgree /\ WaitersAreHeld /\ FindersAreNamed
      /\ a \notin byId /\ \A b \in Starts : start[b].pc = "wait" => start[b].on # a
  BY DEF IInv, WaitersAreHeld
<1>1. CASE Passes(d)
  <2> DEFINE r == [NewStart EXCEPT !.pc = "launched", !.who = s, !.dir = d,
                                   !.trust = IF d \in resources THEN decision[d] ELSE "unset"]
  <2>1. /\ start' = [start EXCEPT ![a] = r]
        /\ UNCHANGED <<byId, byDirectory>>
    BY <1>1 DEF Ensured
  <2>2. r \in StartType /\ r.pc = "launched"
    BY <1>0 DEF NewStart, StartType, Answers, TypeOK
  <2> HIDE DEF r
  <2>3. \A b \in Starts \ {a} : start'[b] = start[b]
    BY <1>0, <2>1 DEF TypeOK
  <2>4. start'[a] = r
    BY <1>0, <2>1 DEF TypeOK
  <2>5. TypeOK'
    BY <1>0, <2>1, <2>2 DEF TypeOK
  <2>6. MapsAgree'
    BY <1>0, <2>1, <2>3 DEF TypeOK, MapsAgree
  <2>7. WaitersAreHeld'
    BY <1>0, <2>1, <2>2, <2>3, <2>4 DEF TypeOK, WaitersAreHeld
  <2>8. FindersAreNamed'
    BY <1>0, <2>2, <2>3, <2>4 DEF FindersAreNamed
  <2> QED BY <2>5, <2>6, <2>7, <2>8 DEF IInv
<1>2. CASE ~Passes(d)
  <2> DEFINE q == IF AsksFor(d) THEN a ELSE byDirectory[d]
             r == [NewStart EXCEPT !.pc = "wait", !.who = s, !.dir = d, !.on = q]
  <2>1. /\ start' = [start EXCEPT ![a] = r]
        /\ byId' = byId \cup {q}
        /\ byDirectory' = [byDirectory EXCEPT ![d] = q]
    BY <1>2 DEF Ensured
  <2>2. q \in Starts /\ (q = a \/ (q \in byId /\ start[q].dir = d))
        /\ (q = a => byDirectory[d] = None)
        /\ (q # a => byDirectory[d] = q)
    BY <1>0 DEF AsksFor, MapsAgree, TypeOK
  <2> HIDE DEF q
  <2>3. r \in StartType /\ r.pc = "wait" /\ r.on = q /\ r.dir = d
    BY <2>2 DEF NewStart, StartType
  <2> HIDE DEF r
  <2>4. /\ \A b \in Starts \ {a} : start'[b] = start[b]
        /\ start'[a] = r
        /\ byDirectory'[d] = q
        /\ \A e \in Dirs \ {d} : byDirectory'[e] = byDirectory[e]
    BY <1>0, <2>1 DEF TypeOK
  <2>5. TypeOK'
    BY <1>0, <2>1, <2>2, <2>3 DEF TypeOK
  <2>6. start'[q].dir = d
    BY <2>2, <2>3, <2>4
  <2>7. MapsAgree'
    <3>1. ASSUME NEW p \in byId' PROVE start'[p].dir \in Dirs /\ byDirectory'[start'[p].dir] = p
      <4>1. CASE p = q
        BY <2>4, <2>6, <4>1
      <4>2. CASE p # q
        <5>1. p \in byId /\ p # a /\ p \in Starts
          BY <1>0, <2>1, <3>1, <4>2 DEF TypeOK
        <5>2. start'[p] = start[p] /\ start[p].dir \in Dirs /\ byDirectory[start[p].dir] = p
          BY <1>0, <2>4, <5>1 DEF MapsAgree
        <5>3. start[p].dir # d
          BY <2>2, <4>2, <5>1, <5>2, GateConstants
        <5> QED BY <2>4, <5>2, <5>3
      <4> QED BY <4>1, <4>2
    <3>2. ASSUME NEW e \in Dirs, byDirectory'[e] # None
          PROVE  byDirectory'[e] \in byId' /\ start'[byDirectory'[e]].dir = e
      <4>1. CASE e = d
        BY <2>1, <2>4, <2>6, <4>1
      <4>2. CASE e # d
        <5>1. byDirectory'[e] = byDirectory[e] /\ byDirectory[e] \in byId
              /\ start[byDirectory[e]].dir = e
          BY <1>0, <2>4, <3>2, <4>2 DEF MapsAgree
        <5>2. byDirectory[e] \in Starts \ {a}
          BY <1>0, <5>1 DEF TypeOK
        <5> QED BY <2>1, <2>4, <5>1, <5>2
      <4> QED BY <4>1, <4>2
    <3> QED BY <3>1, <3>2 DEF MapsAgree
  <2>8. WaitersAreHeld'
    <3>1. ASSUME NEW b \in Starts, start'[b].pc = "wait"
          PROVE  start'[b].on \in byId' /\ start'[start'[b].on].dir = start'[b].dir
      <4>1. CASE b = a
        BY <2>1, <2>3, <2>4, <2>6, <4>1
      <4>2. CASE b # a
        <5>1. start'[b] = start[b] /\ start[b].on \in byId /\ start[b].on # a
              /\ start[start[b].on].dir = start[b].dir
          BY <1>0, <2>4, <3>1, <4>2 DEF WaitersAreHeld
        <5>2. start[b].on \in Starts \ {a}
          BY <1>0, <5>1 DEF TypeOK
        <5> QED BY <2>1, <2>4, <5>1, <5>2
      <4> QED BY <4>1, <4>2
    <3>2. ASSUME NEW p \in byId' PROVE start'[p].pc = "wait" /\ start'[p].on = p
      <4>1. CASE p = a
        BY <1>0, <2>1, <2>3, <2>4, <3>2, <4>1
      <4>2. CASE p # a
        <5>1. p \in byId /\ p \in Starts
          BY <1>0, <2>1, <2>2, <3>2, <4>2 DEF TypeOK
        <5> QED BY <1>0, <2>4, <4>2, <5>1 DEF WaitersAreHeld
      <4> QED BY <4>1, <4>2
    <3> QED BY <3>1, <3>2 DEF WaitersAreHeld
  <2>9. FindersAreNamed'
    BY <1>0, <2>3, <2>4 DEF FindersAreNamed
  <2> QED BY <2>5, <2>7, <2>8, <2>9 DEF IInv
<1> QED BY <1>1, <1>2

\* Ending some questions lets everyone who waited for them go, and nobody else.
LEMMA FinishedKeeps ==
  ASSUME IInv, NEW qs \in SUBSET Starts, NEW pc \in {"launched", "refused"},
         NEW trust \in Answers \cup {"unset"}, Finished(qs, pc, trust),
         conn' \in [Sockets -> {"new", "open", "closed"}], resources' = resources,
         decision' \in [Dirs -> Answers \cup {"unset"}]
  PROVE  IInv'
<1>0. TypeOK /\ MapsAgree /\ WaitersAreHeld /\ FindersAreNamed
  BY DEF IInv
<1>1. \A a \in Starts :
        IF start[a].pc = "wait" /\ start[a].on \in qs
        THEN start'[a] = [start[a] EXCEPT !.pc = pc, !.trust = trust]
        ELSE start'[a] = start[a]
  BY DEF Finished, Released
<1>2. \A a \in Starts :
        /\ start'[a] \in StartType
        /\ start'[a].dir = start[a].dir /\ start'[a].on = start[a].on
        /\ start'[a].who = start[a].who
        /\ start'[a].pc = "find" => start[a].pc = "find"
        /\ start'[a].pc = "wait" <=> start[a].pc = "wait" /\ start[a].on \notin qs
  <2> TAKE a \in Starts
  <2>1. start[a] \in StartType
    BY <1>0 DEF TypeOK
  <2> QED BY <1>1, <2>1 DEF StartType
<1>3. TypeOK'
  <2>1. start' \in [Starts -> StartType]
    BY <1>2 DEF Finished, Released
  <2> QED BY <1>0, <2>1 DEF TypeOK, Finished
<1>4. MapsAgree'
  BY <1>0, <1>2 DEF MapsAgree, Finished, TypeOK
<1>5. WaitersAreHeld'
  BY <1>0, <1>2 DEF WaitersAreHeld, Finished, TypeOK
<1>6. FindersAreNamed'
  BY <1>0, <1>2 DEF FindersAreNamed
<1> QED BY <1>3, <1>4, <1>5, <1>6 DEF IInv

LEMMA InitIInv == Init => IInv
<1> SUFFICES ASSUME Init PROVE IInv
  OBVIOUS
<1>1. NewStart \in StartType /\ NewStart.pc = "new"
  BY NewStartType DEF NewStart
<1>2. TypeOK
  BY <1>1 DEF Init, TypeOK
<1>3. \A a \in Starts : start[a].pc = "new"
  BY <1>1 DEF Init
<1>4. MapsAgree /\ WaitersAreHeld /\ FindersAreNamed
  BY <1>3 DEF Init, MapsAgree, WaitersAreHeld, FindersAreNamed
<1> QED BY <1>2, <1>4 DEF IInv

\* A start that begins, or gives up, holds nothing in the gate.
LEMMA AsideKeeps ==
  ASSUME IInv, NEW a \in Starts, NEW r \in StartType, start[a].pc # "wait", r.pc # "wait",
         r.pc = "find" => r.who \in Sockets /\ r.dir \in Dirs,
         start' = [start EXCEPT ![a] = r],
         conn' \in [Sockets -> {"new", "open", "closed"}],
         UNCHANGED <<resources, decision, byId, byDirectory>>
  PROVE  IInv'
<1>0. TypeOK /\ MapsAgree /\ WaitersAreHeld /\ FindersAreNamed /\ a \notin byId
  BY DEF IInv, WaitersAreHeld
<1>1. start'[a] = r /\ \A b \in Starts \ {a} : start'[b] = start[b]
  BY <1>0 DEF TypeOK
<1>2. TypeOK'
  BY <1>0 DEF TypeOK
<1>3. MapsAgree'
  BY <1>0, <1>1 DEF MapsAgree, TypeOK
<1>4. WaitersAreHeld'
  BY <1>0, <1>1 DEF WaitersAreHeld, TypeOK
<1>5. FindersAreNamed'
  BY <1>0, <1>1 DEF FindersAreNamed
<1> QED BY <1>2, <1>3, <1>4, <1>5 DEF IInv

\* A Core that stops takes the questions and all who wait along.
LEMMA StopKeeps == ASSUME IInv, Stop PROVE IInv'
<1>0. TypeOK /\ FindersAreNamed
  BY DEF IInv
<1>1. ASSUME NEW a \in Starts PROVE start'[a] \in StartType /\ start'[a].pc \notin {"find", "wait"}
  <2>1. start[a] \in StartType
    BY <1>0 DEF TypeOK
  <2>2. start'[a] = IF start[a].pc \in {"find", "wait"} THEN [start[a] EXCEPT !.pc = "refused"]
                    ELSE start[a]
    BY DEF Stop
  <2> QED BY <2>1, <2>2 DEF StartType
<1>2. TypeOK'
  <2>1. start' \in [Starts -> StartType]
    BY <1>1 DEF Stop
  <2>2. conn' \in [Sockets -> {"new", "open", "closed"}]
    BY <1>0 DEF Stop, TypeOK
  <2> QED BY <1>0, <2>1, <2>2 DEF TypeOK, Stop
<1>3. MapsAgree' /\ WaitersAreHeld' /\ FindersAreNamed'
  BY <1>1 DEF Stop, MapsAgree, WaitersAreHeld, FindersAreNamed
<1> QED BY <1>2, <1>3 DEF IInv

LEMMA NextIInv == IInv /\ [Next]_vars => IInv'
<1> SUFFICES ASSUME IInv, [Next]_vars PROVE IInv'
  OBVIOUS
<1>0. TypeOK
  BY DEF IInv
<1>1. ASSUME NEW s \in Sockets, Connect(s) PROVE IInv'
  BY <1>0, <1>1 DEF Connect, IInv, TypeOK, MapsAgree, WaitersAreHeld, FindersAreNamed
<1>2. ASSUME NEW s \in Sockets, Leave(s) PROVE IInv'
  <2>1. Asked(s) \in SUBSET Starts /\ Finished(Asked(s), "refused", "unset")
    BY <1>0, <1>2 DEF Asked, Leave, TypeOK
  <2>2. /\ conn' \in [Sockets -> {"new", "open", "closed"}]
        /\ resources' = resources /\ decision' \in [Dirs -> Answers \cup {"unset"}]
    BY <1>0, <1>2 DEF Leave, TypeOK
  <2> QED BY <2>1, <2>2, FinishedKeeps
<1>3. ASSUME NEW a \in Starts, Found(a) PROVE IInv'
  <2>1. start[a] \in StartType /\ start[a].pc = "find"
    BY <1>0, <1>3 DEF Found, TypeOK
  <2>2. start[a].who \in Sockets /\ start[a].dir \in Dirs
    BY <2>1 DEF IInv, FindersAreNamed
  <2> QED BY <1>3, <2>1, <2>2, EnsuredKeeps DEF Found
<1>4. ASSUME NEW a \in Starts, NotFound(a) PROVE IInv'
  <2> DEFINE r == [start[a] EXCEPT !.pc = "refused"]
  <2>1. r \in StartType /\ r.pc = "refused" /\ start[a].pc # "wait"
    BY <1>0, <1>4 DEF NotFound, TypeOK, StartType
  <2>2. start' = [start EXCEPT ![a] = r]
    BY <1>4 DEF NotFound
  <2> HIDE DEF r
  <2>3. conn' \in [Sockets -> {"new", "open", "closed"}]
    BY <1>0, <1>4 DEF NotFound, TypeOK
  <2> QED BY <1>4, <2>1, <2>2, <2>3, AsideKeeps DEF NotFound
<1>5. ASSUME NEW a \in Starts, NEW s \in Sockets, NEW d \in Dirs, Create(a, s, d) PROVE IInv'
  BY <1>5, EnsuredKeeps DEF Create
<1>6. ASSUME NEW a \in Starts, NEW s \in Sockets, NEW d \in Dirs, Arrive(a, s, d) \/ Begin(a, s, d)
      PROVE  IInv'
  <2> DEFINE r == [NewStart EXCEPT !.pc = "find", !.who = s, !.dir = d]
  <2>1. r \in StartType /\ r.pc = "find" /\ r.who = s /\ r.dir = d
    BY NewStartType DEF NewStart
  <2>2. start' = [start EXCEPT ![a] = r] /\ start[a].pc # "wait"
    BY <1>6 DEF Arrive, Begin
  <2> HIDE DEF r
  <2>3. conn' \in [Sockets -> {"new", "open", "closed"}]
    BY <1>0, <1>6 DEF Arrive, Begin, TypeOK
  <2> QED BY <1>6, <2>1, <2>2, <2>3, AsideKeeps DEF Arrive, Begin
<1>7. ASSUME NEW s \in Sockets, NEW q \in Starts, NEW answer \in Answers, Respond(s, q, answer)
      PROVE  IInv'
  <2>1. {q} \in SUBSET Starts /\ Finished({q}, "launched", answer)
    BY <1>7 DEF Respond
  <2>2. /\ conn' \in [Sockets -> {"new", "open", "closed"}]
        /\ resources' = resources /\ decision' \in [Dirs -> Answers \cup {"unset"}]
    BY <1>0, <1>7 DEF Respond, TypeOK
  <2> QED BY <2>1, <2>2, FinishedKeeps
<1>8. ASSUME NEW d \in Dirs, ResourcesChange(d) PROVE IInv'
  BY <1>0, <1>8 DEF ResourcesChange, IInv, TypeOK, MapsAgree, WaitersAreHeld, FindersAreNamed
<1>9. ASSUME NEW d \in Dirs, NEW answer \in Answers, DecidedElsewhere(d, answer) PROVE IInv'
  BY <1>0, <1>9 DEF DecidedElsewhere, IInv, TypeOK, MapsAgree, WaitersAreHeld, FindersAreNamed
<1>10. CASE UNCHANGED vars
  BY <1>0, <1>10 DEF vars, IInv, TypeOK, MapsAgree, WaitersAreHeld, FindersAreNamed
<1>11. CASE Stop
  BY <1>11, StopKeeps
<1> QED
  BY <1>1, <1>2, <1>3, <1>4, <1>5, <1>6, <1>7, <1>8, <1>9, <1>10, <1>11 DEF Next

-----------------------------------------------------------------------------
\* The inductive invariant holds of every reachable state.
THEOREM GateInvariant == Spec => []IInv
<1>1. Init => IInv
  BY InitIInv
<1>2. IInv /\ [Next]_vars => IInv'
  BY NextIInv
<1> QED BY <1>1, <1>2, PTL DEF Spec

\* The gate's two maps always hold the same questions (ensure, finish).
THEOREM GateMapsAgree == Spec => []MapsAgree
<1>1. IInv => MapsAgree
  BY DEF IInv
<1> QED BY <1>1, GateInvariant, PTL

\* Nobody waits for a question that left the gate: an answer or a departure
\* releases every start that joined the question (ensure's existing.promise).
THEOREM NobodyIsForgotten == Spec => []WaitersAreHeld
<1>1. IInv => WaitersAreHeld
  BY DEF IInv
<1> QED BY <1>1, GateInvariant, PTL

\* What the lemma below says of one step.
AskerEndsWait ==
  \A a \in Starts :
    LET q == start[a].on IN
    start[a].pc = "wait" =>
      LET s == start[q].who IN
      /\ conn[s] = "open" /\ conn'[s] = "closed" => start'[a].pc = "refused"
      /\ start'[a].pc # "wait" => conn[s] = "open" \/ Stop

LEMMA NextAskerEndsWait == IInv /\ [Next]_vars => AskerEndsWait
<1> SUFFICES ASSUME IInv, [Next]_vars, NEW a \in Starts, start[a].pc = "wait"
             PROVE  LET s == start[start[a].on].who IN
                    /\ conn[s] = "open" /\ conn'[s] = "closed" => start'[a].pc = "refused"
                    /\ start'[a].pc # "wait" => conn[s] = "open" \/ Stop
  BY DEF AskerEndsWait
<1> DEFINE q == start[a].on
           s == start[q].who
<1>0. TypeOK /\ q \in byId /\ q \in Starts
  BY DEF IInv, TypeOK, WaitersAreHeld
<1> HIDE DEF q
<1>1. ASSUME NEW x \in Sockets, Connect(x)
      PROVE  start' = start /\ (conn[s] = "open" => conn'[s] # "closed")
  BY <1>0, <1>1 DEF Connect, TypeOK
<1>2. ASSUME NEW x \in Sockets, Leave(x)
      PROVE  /\ conn[s] = "open" /\ conn'[s] = "closed" => start'[a].pc = "refused"
             /\ start'[a].pc # "wait" => conn[s] = "open"
  <2>1. start[a] \in StartType
    BY <1>0 DEF TypeOK
  <2>2. start'[a] = IF q \in Asked(x)
                    THEN [start[a] EXCEPT !.pc = "refused", !.trust = "unset"]
                    ELSE start[a]
    BY <1>2 DEF Leave, Finished, Released, q
  <2>3. CASE s = x
    <3>1. q \in Asked(x)
      BY <1>0, <2>3 DEF Asked
    <3>2. start'[a].pc = "refused"
      BY <2>1, <2>2, <3>1 DEF StartType
    <3> QED BY <1>2, <2>3, <3>2 DEF Leave
  <2>4. CASE s # x
    <3>1. q \notin Asked(x)
      BY <2>4 DEF Asked
    <3>2. start'[a] = start[a]
      BY <2>2, <3>1
    <3>3. conn[s] = "open" => conn'[s] # "closed"
      BY <1>0, <1>2, <2>4 DEF Leave, TypeOK
    <3> QED BY <3>2, <3>3
  <2> QED BY <2>3, <2>4
<1>3. ASSUME NEW b \in Starts, \E x, d : Ensured(b, x, d), start[b].pc # "wait"
      PROVE  start'[a] = start[a]
  <2>1. \A c \in Starts \ {b} : start'[c] = start[c]
    BY <1>0, <1>3 DEF Ensured, TypeOK
  <2> QED BY <1>3, <2>1
<1>4. ASSUME NEW x \in Sockets, NEW p \in Starts, NEW answer \in Answers, Respond(x, p, answer)
      PROVE  conn' = conn /\ (start'[a].pc # "wait" => conn[s] = "open")
  <2>1. start'[a] = IF q \in {p}
                    THEN [start[a] EXCEPT !.pc = "launched", !.trust = answer]
                    ELSE start[a]
    BY <1>4 DEF Respond, Finished, Released, q
  <2>2. q = p => conn[s] = "open"
    BY <1>4 DEF Respond
  <2> QED BY <1>4, <2>1, <2>2 DEF Respond
<1>5. ASSUME NEW b \in Starts, Found(b) PROVE start'[a] = start[a] /\ conn' = conn
  BY <1>3, <1>5 DEF Found
<1>6. ASSUME NEW b \in Starts, NEW x \in Sockets, NEW d \in Dirs, Create(b, x, d)
      PROVE  start'[a] = start[a] /\ conn' = conn
  BY <1>3, <1>6 DEF Create
<1>7. ASSUME NEW b \in Starts, NotFound(b) \/ \E x \in Sockets, d \in Dirs : Begin(b, x, d)
      PROVE  start'[a] = start[a] /\ conn' = conn
  BY <1>0, <1>7 DEF NotFound, Begin, TypeOK
<1>11. ASSUME NEW b \in Starts, NEW x \in Sockets, NEW d \in Dirs, Arrive(b, x, d)
      PROVE  start'[a] = start[a] /\ (conn[s] = "open" => conn'[s] # "closed")
  BY <1>0, <1>11 DEF Arrive, TypeOK
<1>12. ASSUME Stop PROVE start'[a].pc = "refused"
  <2>1. start[a] \in StartType
    BY <1>0 DEF TypeOK
  <2> QED BY <1>12, <2>1 DEF Stop, StartType
<1>8. ASSUME NEW d \in Dirs, ResourcesChange(d) \/ \E x \in Answers : DecidedElsewhere(d, x)
      PROVE  start'[a] = start[a] /\ conn' = conn
  BY <1>8 DEF ResourcesChange, DecidedElsewhere
<1>9. CASE UNCHANGED vars
  BY <1>9 DEF vars
<1>10. CASE start'[a] = start[a] /\ conn' = conn
  BY <1>10
<1> QED
  BY <1>1, <1>2, <1>4, <1>5, <1>6, <1>7, <1>8, <1>9, <1>10, <1>11, <1>12 DEF Next, q

\* A wait ends with the asked client's own answer or its departure, or with Core,
\* and its departure always ends it (respond, cancel).
THEOREM AskerDecides == Spec => WaitEndsWithAsker
<1>1. IInv /\ [Next]_vars => [AskerEndsWait]_vars
  BY NextAskerEndsWait
<1> QED BY <1>1, GateInvariant, PTL DEF Spec, WaitEndsWithAsker, AskerEndsWait

\* What a step may launch.
Follows(a) ==
  start[a].pc # "launched" /\ start'[a].pc = "launched" =>
    LET d == start'[a].dir IN
    IF d \in resources \/ start[a].pc = "wait"
    THEN decision'[d] # "unset" /\ start'[a].trust = decision'[d]
    ELSE start'[a].trust = "unset"

LEMMA EnsuredFollows ==
  ASSUME TypeOK, NEW a \in Starts, NEW b \in Starts, NEW s \in Sockets, NEW d \in Dirs,
         start[b].pc \in {"new", "find"}, Ensured(b, s, d), decision' = decision
  PROVE  Follows(a)
<1>1. CASE a # b
  <2>1. start'[a] = start[a]
    BY <1>1 DEF Ensured, TypeOK
  <2> QED BY <2>1 DEF Follows
<1>2. CASE a = b /\ Passes(d)
  <2> DEFINE r == [NewStart EXCEPT !.pc = "launched", !.who = s, !.dir = d,
                                   !.trust = IF d \in resources THEN decision[d] ELSE "unset"]
  <2>1. start'[a] = r
    BY <1>2 DEF Ensured, TypeOK
  <2>2. r.dir = d /\ r.trust = IF d \in resources THEN decision[d] ELSE "unset"
    BY DEF NewStart
  <2> QED BY <1>2, <2>1, <2>2 DEF Follows, Passes
<1>3. CASE a = b /\ ~Passes(d)
  <2> DEFINE q == IF AsksFor(d) THEN b ELSE byDirectory[d]
             r == [NewStart EXCEPT !.pc = "wait", !.who = s, !.dir = d, !.on = q]
  <2>0. start'[a] = r
    BY <1>3 DEF Ensured, TypeOK
  <2>1. start'[a].pc = "wait"
    BY <2>0 DEF NewStart
  <2> QED BY <2>1 DEF Follows
<1> QED BY <1>1, <1>2, <1>3

LEMMA FinishedFollows ==
  ASSUME IInv, NEW a \in Starts, NEW qs \in SUBSET Starts, NEW pc \in {"launched", "refused"},
         NEW trust \in Answers \cup {"unset"}, Finished(qs, pc, trust),
         pc = "launched" => trust # "unset" /\ \A q \in qs : decision'[start[q].dir] = trust
  PROVE  Follows(a)
<1>1. start[a] \in StartType
  BY DEF IInv, TypeOK
<1>2. start'[a] = IF start[a].pc = "wait" /\ start[a].on \in qs
                  THEN [start[a] EXCEPT !.pc = pc, !.trust = trust] ELSE start[a]
  BY DEF Finished, Released
<1>3. CASE start[a].pc = "wait" /\ start[a].on \in qs
  <2>1. start'[a].pc = pc /\ start'[a].trust = trust /\ start'[a].dir = start[a].dir
    BY <1>1, <1>2, <1>3 DEF StartType
  <2>2. start[start[a].on].dir = start[a].dir
    BY <1>3 DEF IInv, WaitersAreHeld
  <2> QED BY <1>3, <2>1, <2>2 DEF Follows
<1>4. CASE ~(start[a].pc = "wait" /\ start[a].on \in qs)
  BY <1>2, <1>4 DEF Follows
<1> QED BY <1>3, <1>4

LEMMA NextFollows == ASSUME IInv, [Next]_vars, NEW a \in Starts PROVE Follows(a)
<1>0. TypeOK
  BY DEF IInv
<1>1. ASSUME NEW s \in Sockets, Leave(s) PROVE Follows(a)
  <2>1. Asked(s) \in SUBSET Starts
    BY <1>0 DEF Asked, TypeOK
  <2> QED BY <1>1, <2>1, FinishedFollows DEF Leave
<1>2. ASSUME NEW b \in Starts, Found(b) PROVE Follows(a)
  <2>1. start[b].who \in Sockets /\ start[b].dir \in Dirs
    BY <1>2 DEF IInv, FindersAreNamed, Found
  <2> QED BY <1>0, <1>2, <2>1, EnsuredFollows DEF Found
<1>3. ASSUME NEW b \in Starts, NEW s \in Sockets, NEW d \in Dirs, Create(b, s, d) PROVE Follows(a)
  BY <1>0, <1>3, EnsuredFollows DEF Create
<1>4. ASSUME NEW s \in Sockets, NEW q \in Starts, NEW answer \in Answers, Respond(s, q, answer)
      PROVE  Follows(a)
  <2>1. start[q].dir \in Dirs
    BY <1>4 DEF IInv, MapsAgree, Respond
  <2>2. decision'[start[q].dir] = answer
    BY <1>0, <1>4, <2>1 DEF Respond, TypeOK
  <2>3. answer # "unset" /\ Finished({q}, "launched", answer)
    BY <1>4 DEF Answers, Respond
  <2> QED BY <2>2, <2>3, FinishedFollows
<1>5. ASSUME NEW b \in Starts, NotFound(b) \/ \E s \in Sockets, d \in Dirs : Arrive(b, s, d) \/ Begin(b, s, d)
      PROVE  Follows(a)
  <2>1. start'[b].pc \in {"refused", "find"}
    <3>1. CASE NotFound(b)
      BY <1>0, <3>1 DEF NotFound, TypeOK, StartType
    <3>2. ASSUME NEW s \in Sockets, NEW d \in Dirs, Arrive(b, s, d) \/ Begin(b, s, d)
          PROVE  start'[b].pc = "find"
      <4>1. start'[b] = [NewStart EXCEPT !.pc = "find", !.who = s, !.dir = d]
        BY <1>0, <3>2 DEF Arrive, Begin, TypeOK
      <4> QED BY <4>1 DEF NewStart
    <3> QED BY <1>5, <3>1, <3>2
  <2>2. a # b => start'[a] = start[a]
    BY <1>0, <1>5 DEF NotFound, Arrive, Begin, TypeOK
  <2> QED BY <2>1, <2>2 DEF Follows
<1>6. CASE Stop
  <2>1. start[a] \in StartType
    BY <1>0 DEF TypeOK
  <2>2. start'[a].pc = "refused" \/ start'[a] = start[a]
    BY <1>6, <2>1 DEF Stop, StartType
  <2> QED BY <2>2 DEF Follows
<1>7. CASE \/ \E s \in Sockets : Connect(s)
           \/ \E d \in Dirs : ResourcesChange(d) \/ \E answer \in Answers : DecidedElsewhere(d, answer)
           \/ UNCHANGED vars
  BY <1>7 DEF Connect, ResourcesChange, DecidedElsewhere, vars, Follows
<1> QED BY <1>1, <1>2, <1>3, <1>4, <1>5, <1>6, <1>7 DEF Next

\* Pi is only ever launched beside project resources with the decision on record
\* (ensure, respond and their callers).
THEOREM LaunchesFollowDecision == Spec => StartsFollowDecision
<1>1. IInv /\ [Next]_vars => [\A a \in Starts : Follows(a)]_vars
  BY NextFollows
<1> QED BY <1>1, GateInvariant, PTL DEF Spec, StartsFollowDecision, Follows

-----------------------------------------------------------------------------
(* Pages, terminals, wires and Core.                                       *)

Wires == /\ down \in [Sockets -> Seq(ToClient)]
         /\ away \in [Sockets -> Seq(ToCore)]

CoreTypes ==
  /\ up \in {"down", "up", "incompatible"}
  /\ live \subseteq stored /\ stored \subseteq Conversations
  /\ last \in Conversations \cup {None}
  /\ viewing \in [Sockets -> Conversations \cup {None}]
  /\ task \in [Starts -> TaskType] /\ pending \in [Conversations -> Numbers]

BoundTypes == asks \in 0 .. MaxAsks /\ tools \in Numbers /\ troubles \in 0 .. MaxTroubles

\* Nothing is on its way over a socket that has not been accepted.
FreshIsSilent == \A s \in Sockets : conn[s] = "new" => down[s] = <<>>

\* Only a terminal hands over; one that waits to connect does so for the first
\* time; a page that lost its connection has no socket.
PageForms ==
  \A p \in Pages :
    /\ page[p].state = "disconnected" => page[p].socket = None
    /\ page[p].handing => page[p].kind = "tui"
    /\ page[p].kind = "tui" /\ page[p].timer => page[p].state = "connecting"

CInv == /\ IInv /\ Wires /\ CoreTypes /\ page \in [Pages -> PageType] /\ BoundTypes
        /\ FreshIsSilent /\ OneConnection /\ PageForms

-----------------------------------------------------------------------------
(* Messages.                                                               *)

LEMMA Counts == MaxAsks \in Nat /\ MaxTools \in Nat /\ MaxTroubles \in Nat
BY ClientAssumption

LEMMA DownMessages ==
  /\ \A b \in BOOLEAN : <<"hello", b>> \in ToClient
  /\ \A c \in Conversations, n \in Numbers : <<"show", c, n>> \in ToClient
  /\ \A a \in Starts : <<"trust", a>> \in ToClient
  /\ \A n \in 1 .. MaxTools : <<"tool", n>> \in ToClient
  /\ \A cs \in SUBSET Conversations : <<"listing", cs>> \in ToClient
BY DEF ToClient

LEMMA UpMessages ==
  /\ <<"list">> \in ToCore
  /\ \A c \in Conversations : <<"open", c>> \in ToCore
  /\ \A d \in Dirs : <<"create", d>> \in ToCore
  /\ \A a \in Starts, answer \in Answers : <<"trust", a, answer>> \in ToCore
  /\ \A n \in 1 .. MaxTools, answer \in Answers : <<"tool", n, answer>> \in ToCore
BY DEF ToCore

\* What Core reads is one of the messages a client sends.
LEMMA UpKinds ==
  ASSUME NEW m \in ToCore
  PROVE  /\ m[1] = "open" => m[2] \in Conversations
         /\ m[1] = "create" => m[2] \in Dirs
         /\ m[1] = "trust" => m[2] \in Starts /\ m[3] \in Answers
BY DEF ToCore

LEMMA DownKinds ==
  ASSUME NEW m \in ToClient
  PROVE  /\ m[1] = "hello" => m[2] \in BOOLEAN
         /\ m[1] = "show" => m[2] \in Conversations /\ m[3] \in Numbers
         /\ m[1] = "trust" => m \in {"trust"} \X Starts
         /\ m[1] = "tool" => m \in {"tool"} \X (1 .. MaxTools) /\ m[2] \in Numbers
         /\ m[1] = "listing" => m[2] \in SUBSET Conversations
BY Counts DEF ToClient, Numbers

LEMMA AppendToOne ==
  ASSUME NEW x, NEW y
  PROVE  Append(<<x>>, y) = <<x, y>>
<1> DEFINE S == {x, y}
<1>1. <<x>> \in Seq(S) /\ y \in S /\ <<x, y>> \in Seq(S)
  OBVIOUS
<1>2. /\ Append(<<x>>, y) \in Seq(S) /\ Len(Append(<<x>>, y)) = 2
      /\ Append(<<x>>, y)[1] = x /\ Append(<<x>>, y)[2] = y
  BY <1>1, AppendProperties
<1>3. \A i \in 1 .. 2 : Append(<<x>>, y)[i] = <<x, y>>[i]
  BY <1>2
<1> QED BY <1>1, <1>2, <1>3, SeqEqual

\* A pair with one more element is a triple.
LEMMA AppendToPair ==
  ASSUME NEW x, NEW y, NEW z
  PROVE  Append(<<x, y>>, z) = <<x, y, z>>
<1> DEFINE S == {x, y, z}
<1>1. <<x, y>> \in Seq(S) /\ z \in S /\ <<x, y, z>> \in Seq(S)
  OBVIOUS
<1>2. /\ Append(<<x, y>>, z) \in Seq(S) /\ Len(Append(<<x, y>>, z)) = 3
      /\ \A i \in 1 .. 2 : Append(<<x, y>>, z)[i] = <<x, y>>[i]
      /\ Append(<<x, y>>, z)[3] = z
  BY <1>1, AppendProperties
<1>3. \A i \in 1 .. 3 : Append(<<x, y>>, z)[i] = <<x, y, z>>[i]
  BY <1>2
<1> QED BY <1>1, <1>2, <1>3, SeqEqual

LEMMA DialogAnswers ==
  ASSUME NEW m \in ({"trust"} \X Starts) \cup ({"tool"} \X (1 .. MaxTools)), NEW answer \in Answers
  PROVE  Append(m, answer) \in ToCore
<1>1. CASE m \in {"trust"} \X Starts
  <2>1. PICK a \in Starts : m = <<"trust", a>>
    BY <1>1
  <2>2. <<"trust", a, answer>> \in ToCore
    BY UpMessages
  <2> QED BY <2>1, <2>2, AppendToPair, Zenon
<1>2. CASE m \in {"tool"} \X (1 .. MaxTools)
  <2>1. PICK n \in 1 .. MaxTools : m = <<"tool", n>>
    BY <1>2
  <2>2. <<"tool", n, answer>> \in ToCore
    BY UpMessages
  <2> QED BY <2>1, <2>2, AppendToPair, Zenon
<1> QED BY <1>1, <1>2

\* Sending keeps the types of the wires.
LEMMA SentType ==
  ASSUME Wires, NEW ss, NEW m \in ToClient
  PROVE  Sent(ss, m) \in [Sockets -> Seq(ToClient)]
<1>1. \A s \in Sockets : Append(down[s], m) \in Seq(ToClient)
  BY DEF Wires
<1> QED BY <1>1 DEF Wires, Sent

LEMMA WiredType ==
  ASSUME Wires, NEW p, NEW m \in ToCore
  PROVE  Wired(p, m) \in [Sockets -> Seq(ToCore)]
<1>1. \A s \in Sockets : Append(away[s], m) \in Seq(ToCore)
  BY DEF Wires
<1> QED BY <1>1 DEF Wires, Wired

LEMMA RefusedType ==
  ASSUME Wires, NEW p \in Pages, page \in [Pages -> PageType]
  PROVE  Refused(p) \in [Sockets -> Seq(ToCore)]
<1>1. CASE page[p].dialog[1] \in {"trust", "tool"}
  <2>1. page[p].dialog \in ({"trust"} \X Starts) \cup ({"tool"} \X (1 .. MaxTools))
    BY <1>1 DEF PageType, Nothing
  <2> QED BY <1>1, <2>1, DialogAnswers, WiredType DEF Refused, Answers
<1>2. CASE page[p].dialog[1] \notin {"trust", "tool"}
  BY <1>2 DEF Refused, Wires
<1> QED BY <1>1, <1>2

\* Only a socket that was accepted is sent anything.
LEMMA SentSpares ==
  ASSUME Wires, NEW ss, NEW m, NEW s \in Sockets, conn[s] = "new"
  PROVE  Sent(ss, m)[s] = down[s]
BY DEF Sent, Heard, Wires

LEMMA ShowsTypes ==
  ASSUME Wires, CoreTypes, NEW ss, NEW c \in Conversations, Shows(ss, c)
  PROVE  /\ viewing' \in [Sockets -> Conversations \cup {None}]
         /\ pending' \in [Conversations -> Numbers]
         /\ last' \in Conversations \cup {None}
         /\ down' \in [Sockets -> Seq(ToClient)]
         /\ \A s \in Sockets : conn[s] = "new" => down'[s] = down[s]
<1>1. 0 \in Numbers
  BY Counts DEF Numbers
<1>2. <<"show", c, pending[c]>> \in ToClient
  BY DownMessages DEF CoreTypes
<1>3. down' = Sent(ss, <<"show", c, pending[c]>>)
  BY DEF Shows
<1>4. viewing' \in [Sockets -> Conversations \cup {None}] /\ last' \in Conversations \cup {None}
  BY DEF Shows, CoreTypes
<1>5. pending' \in [Conversations -> Numbers]
  BY <1>1 DEF Shows, CoreTypes
<1> QED BY <1>2, <1>3, <1>4, <1>5, SentType, SentSpares

LEMMA FreeStartIsNew ==
  ASSUME HasFreeStart
  PROVE  FreeStart \in Starts /\ start[FreeStart].pc = "new"
BY DEF HasFreeStart, FreeStart

LEMMA Targets ==
  ASSUME CoreTypes, NEW c \in DefaultTargets
  PROVE  /\ c \in Conversations \cup {None}
         /\ (IF c = None THEN Home ELSE Place[c]) \in Dirs
BY ClientAssumption DEF DefaultTargets, CoreTypes

-----------------------------------------------------------------------------
(* The gate under it.                                                      *)

\* A handler of Core is one step of the gate, or leaves it alone.
LEMMA HandlesServesGate ==
  ASSUME CInv, NEW s \in Sockets, Handles(s)
  PROVE  [Next]_vars
<1> DEFINE m == Head(away[s])
<1>1. m \in ToCore
  BY DEF CInv, Wires, Handles
<1>2. CASE m[1] = "open" /\ m[2] \notin live /\ HasFreeStart /\ Begin(FreeStart, s, Place[m[2]])
  <2>1. Place[m[2]] \in Dirs
    BY <1>1, <1>2, UpKinds, ClientAssumption
  <2> QED BY <1>2, <2>1, FreeStartIsNew DEF Next
<1>3. CASE m[1] = "create" /\ HasFreeStart /\ Create(FreeStart, s, m[2])
  <2>1. m[2] \in Dirs
    BY <1>1, <1>3, UpKinds
  <2> QED BY <1>3, <2>1, FreeStartIsNew DEF Next
<1>4. CASE m[1] = "trust" /\ Respond(s, m[2], m[3])
  <2>1. m[2] \in Starts /\ m[3] \in Answers
    BY <1>1, <1>4, UpKinds
  <2> QED BY <1>4, <2>1 DEF Next
<1>5. CASE UNCHANGED vars
  BY <1>5
<1> QED BY <1>2, <1>3, <1>4, <1>5 DEF Handles, vars, gateVars

LEMMA StepServesGate == CInv /\ [ClientNext]_allVars => [Next]_vars
<1> SUFFICES ASSUME CInv, [ClientNext]_allVars PROVE [Next]_vars
  OBVIOUS
<1>1. ASSUME NEW p \in Pages, Accepts(p) PROVE [Next]_vars
  <2> DEFINE s == page[p].socket
  <2>1. s \in Sockets
    BY <1>1 DEF Accepts
  <2>2. CASE Connect(s)
    BY <2>1, <2>2 DEF Next
  <2>3. CASE \E c \in DefaultTargets : HasFreeStart /\
               Arrive(FreeStart, s, IF c = None THEN Home ELSE Place[c])
    BY <2>1, <2>3, FreeStartIsNew, Targets DEF Next, CInv
  <2> QED BY <1>1, <2>2, <2>3 DEF Accepts
<1>2. ASSUME NEW a \in Starts, Finds(a) \/ FindsNot(a) \/ Opens(a) \/ OpenFails(a) PROVE [Next]_vars
  BY <1>2 DEF Finds, FindsNot, Opens, OpenFails, Next, vars, gateVars
<1>3. ASSUME NEW s \in Sockets, HearsClose(s) PROVE [Next]_vars
  BY <1>3 DEF HearsClose, Next
<1>4. ASSUME NEW c \in Conversations, ToolAsks(c) \/ Reclaims(c) PROVE [Next]_vars
  BY <1>4 DEF ToolAsks, Reclaims, vars, gateVars
<1>5. CASE CoreStops \/ CoreReturns \/ DirectoryChanges
  BY <1>5 DEF CoreStops, CoreReturns, DirectoryChanges, Next
<1>6. ASSUME NEW p \in Pages, PageStep(p) PROVE [Next]_vars
  BY <1>6 DEF PageStep, Dials, Loses, Receives, PersonAsks, PersonChooses, HandsOver, HandoffEnds,
              Quits, PersonAnswers, PersonPermits, CoreOnly
<1>7. CASE UNCHANGED allVars
  BY <1>7 DEF allVars
<1> QED BY <1>1, <1>2, <1>3, <1>4, <1>5, <1>6, <1>7, HandlesServesGate DEF ClientNext, CoreStep

\* A socket connects once.
LEMMA SocketsAge ==
  ASSUME TypeOK, [Next]_vars, NEW s \in Sockets, conn'[s] = "new"
  PROVE  conn[s] = "new"
<1>1. ASSUME NEW t \in Sockets, Connect(t) \/ Leave(t) PROVE conn[s] = "new"
  BY <1>1 DEF Connect, Leave, TypeOK
<1>2. ASSUME NEW a \in Starts, NEW t \in Sockets, NEW d \in Dirs, Arrive(a, t, d) PROVE conn[s] = "new"
  BY <1>2 DEF Arrive, TypeOK
<1>3. CASE Stop
  BY <1>3 DEF Stop, TypeOK
<1>4. CASE UNCHANGED conn
  BY <1>4
<1> QED BY <1>1, <1>2, <1>3, <1>4
      DEF Next, Found, NotFound, Create, Begin, Respond, ResourcesChange, DecidedElsewhere, vars

-----------------------------------------------------------------------------
(* Each step keeps the types.                                              *)

\* What a step must keep, apart from the gate and the pages.
Kept == /\ Wires' /\ CoreTypes' /\ BoundTypes'
        /\ \A s \in Sockets : conn'[s] = "new" => down'[s] = <<>>

LEMMA Counted ==
  ASSUME BoundTypes
  PROVE  /\ NoTrouble => BoundTypes'
         /\ Trouble => BoundTypes'
         /\ Asks => BoundTypes'
BY Counts DEF BoundTypes, NoTrouble, Trouble, Asks, bounds, Numbers

LEMMA TaskKept ==
  ASSUME CoreTypes, NEW a \in Starts
  PROVE  /\ [task EXCEPT ![a] = NoTask] \in [Starts -> TaskType]
         /\ [task EXCEPT ![a].goal = "failed"] \in [Starts -> TaskType]
         /\ \A s \in Sockets, goal \in {"default", "open", "create"}, c \in Conversations \cup {None} :
              Pursues(a, s, goal, c) => task' \in [Starts -> TaskType]
<1>1. NoTask \in TaskType
  BY DEF NoTask, TaskType
<1>2. \A s \in Sockets, goal \in {"default", "open", "create"}, c \in Conversations \cup {None} :
        [for |-> {s}, goal |-> goal, want |-> c] \in TaskType
  BY DEF TaskType
<1>3. [task[a] EXCEPT !.goal = "failed"] \in TaskType
  BY DEF CoreTypes, TaskType
<1> QED BY <1>1, <1>2, <1>3 DEF CoreTypes, Pursues

LEMMA AcceptsKeeps == ASSUME CInv, NEW p \in Pages, Accepts(p), [Next]_vars PROVE Kept
<1> DEFINE s == page[p].socket
           hello == <<"hello", up = "up">>
<1>0. s \in Sockets /\ hello \in ToClient /\ Wires /\ CoreTypes /\ TypeOK
  BY DownMessages DEF Accepts, CInv, IInv
<1>1. BoundTypes'
  BY Counted DEF Accepts, CInv
<1>2. CASE last \in live /\ Connect(s) /\ UNCHANGED task
            /\ viewing' = [viewing EXCEPT ![s] = last]
            /\ down' = [down EXCEPT ![s] = <<hello, <<"show", last, pending[last]>>>>]
  <2>1. last \in Conversations /\ <<"show", last, pending[last]>> \in ToClient
    BY <1>0, <1>2, DownMessages DEF CoreTypes
  <2>2. <<hello, <<"show", last, pending[last]>>>> \in Seq(ToClient)
    BY <1>0, <2>1
  <2>3. conn'[s] = "open"
    BY <1>0, <1>2 DEF Connect, TypeOK
  <2>4. Wires'
    BY <1>0, <1>2, <2>2 DEF Wires, Accepts
  <2>5. CoreTypes'
    BY <1>0, <1>2, <2>1 DEF CoreTypes, Accepts
  <2>6. \A t \in Sockets : conn'[t] = "new" => down'[t] = <<>>
    BY <1>0, <1>2, <2>3, SocketsAge DEF Wires, CInv, FreshIsSilent
  <2> QED BY <1>1, <2>4, <2>5, <2>6 DEF Kept
<1>3. ASSUME conn'[s] = "open", task' \in [Starts -> TaskType],
             down' = [down EXCEPT ![s] = <<hello>>], UNCHANGED viewing
      PROVE  Kept
  <2>2. <<hello>> \in Seq(ToClient)
    BY <1>0
  <2>4. Wires'
    BY <1>0, <1>3, <2>2 DEF Wires, Accepts
  <2>5. CoreTypes'
    BY <1>0, <1>3 DEF CoreTypes, Accepts
  <2>6. \A t \in Sockets : conn'[t] = "new" => down'[t] = <<>>
    BY <1>0, <1>3, SocketsAge DEF Wires, CInv, FreshIsSilent
  <2> QED BY <1>1, <2>4, <2>5, <2>6 DEF Kept
<1>4. CASE /\ Connect(s) /\ down' = [down EXCEPT ![s] = <<hello>>] /\ UNCHANGED viewing
           /\ task' = [a \in Starts |-> IF a \in Resolving
                                       THEN [task[a] EXCEPT !.for = @ \cup {s}] ELSE task[a]]
  <2>1. ASSUME NEW a \in Starts PROVE [task[a] EXCEPT !.for = @ \cup {s}] \in TaskType
    BY <1>0 DEF CoreTypes, TaskType
  <2>2. task' \in [Starts -> TaskType]
    BY <1>0, <1>4, <2>1 DEF CoreTypes
  <2>3. conn'[s] = "open"
    BY <1>0, <1>4 DEF Connect, TypeOK
  <2> QED BY <1>3, <1>4, <2>2, <2>3
<1>5. CASE /\ down' = [down EXCEPT ![s] = <<hello>>] /\ UNCHANGED viewing /\ HasFreeStart
           /\ \E c \in DefaultTargets :
                /\ Arrive(FreeStart, s, IF c = None THEN Home ELSE Place[c])
                /\ Pursues(FreeStart, s, "default", c)
  <2>1. task' \in [Starts -> TaskType]
    BY <1>0, <1>5, FreeStartIsNew, Targets, TaskKept
  <2>2. conn'[s] = "open"
    BY <1>0, <1>5 DEF Arrive, TypeOK
  <2> QED BY <1>3, <1>5, <2>1, <2>2
<1> QED BY <1>2, <1>4, <1>5 DEF Accepts

\* A question on its way to its client.
LEMMA AsksKeeps ==
  ASSUME CInv, NEW a \in Starts, AsksClient(a)
  PROVE  /\ down' \in [Sockets -> Seq(ToClient)]
         /\ \A s \in Sockets : conn[s] = "new" => down'[s] = <<>>
<1>1. Wires /\ FreshIsSilent
  BY DEF CInv
<1>2. <<"trust", a>> \in ToClient
  BY DownMessages
<1> QED BY <1>1, <1>2, SentType, SentSpares DEF AsksClient, Wires, FreshIsSilent

LEMMA StartsKeep ==
  ASSUME CInv, NEW a \in Starts, Finds(a) \/ FindsNot(a) \/ Opens(a) \/ OpenFails(a), [Next]_vars
  PROVE  Kept
<1>0. Wires /\ CoreTypes /\ BoundTypes /\ FreshIsSilent /\ TypeOK
  BY DEF CInv, IInv
<1>1. CASE Finds(a)
  <2>1. Wires' /\ CoreTypes' /\ BoundTypes'
    BY <1>0, <1>1, AsksKeeps, Counted DEF Finds, Wires, CoreTypes, coreVars
  <2> QED BY <1>0, <1>1, <2>1, AsksKeeps, SocketsAge DEF Kept, Finds
<1>2. CASE FindsNot(a)
  <2>1. Wires' /\ CoreTypes' /\ BoundTypes'
    BY <1>0, <1>2, Counted DEF FindsNot, Wires, CoreTypes
  <2> QED BY <1>0, <1>2, <2>1, SocketsAge DEF Kept, FindsNot, FreshIsSilent
<1>3. CASE Opens(a)
  <2>1. PICK c \in IF task[a].want # None THEN {task[a].want}
                   ELSE {c \in Conversations \ stored : Place[c] = start[a].dir} :
          live' = live \cup {c} /\ stored' = stored \cup {c} /\ Shows(task[a].for, c)
    BY <1>3 DEF Opens
  <2>2. c \in Conversations
    BY <1>0, <2>1 DEF CoreTypes, TaskType
  <2>3. Wires' /\ CoreTypes' /\ BoundTypes'
    BY <1>0, <1>3, <2>1, <2>2, ShowsTypes, TaskKept, Counted DEF Opens, Wires, CoreTypes
  <2> QED BY <1>0, <1>3, <2>1, <2>2, <2>3, ShowsTypes DEF Kept, Opens, FreshIsSilent
<1>4. CASE OpenFails(a)
  <2>1. Wires' /\ CoreTypes' /\ BoundTypes'
    BY <1>0, <1>4, TaskKept, Counted DEF OpenFails, Wires, CoreTypes
  <2> QED BY <1>0, <1>4, <2>1 DEF Kept, OpenFails, FreshIsSilent
<1> QED BY <1>1, <1>2, <1>3, <1>4

LEMMA HandlesKeeps == ASSUME CInv, NEW s \in Sockets, Handles(s), [Next]_vars PROVE Kept
<1> DEFINE m == Head(away[s])
<1>0. Wires /\ CoreTypes /\ BoundTypes /\ FreshIsSilent /\ TypeOK
  BY DEF CInv, IInv
<1>1. m \in ToCore /\ Tail(away[s]) \in Seq(ToCore)
  BY <1>0 DEF Wires, Handles
<1>2. BoundTypes' /\ away' \in [Sockets -> Seq(ToCore)]
  BY <1>0, <1>1, Counted DEF Handles, Wires
<1>3. ASSUME /\ task' \in [Starts -> TaskType] /\ viewing' \in [Sockets -> Conversations \cup {None}]
             /\ pending' \in [Conversations -> Numbers] /\ last' \in Conversations \cup {None}
             /\ down' \in [Sockets -> Seq(ToClient)]
             /\ \A t \in Sockets : conn[t] = "new" => down'[t] = <<>>
      PROVE  Kept
  <2>1. Wires' /\ CoreTypes'
    BY <1>0, <1>2, <1>3 DEF Wires, CoreTypes, Handles
  <2> QED BY <1>0, <1>2, <1>3, <2>1, SocketsAge DEF Kept
<1>4. CASE m[1] = "list" /\ down' = Sent({s}, <<"listing", stored>>) /\ UNCHANGED <<task, viewing, pending, last>>
  <2>1. <<"listing", stored>> \in ToClient
    BY <1>0, DownMessages DEF CoreTypes
  <2>2. \A t \in Sockets : conn[t] = "new" => down'[t] = <<>>
    BY <1>0, <1>4, SentSpares DEF FreshIsSilent
  <2>3. down' \in [Sockets -> Seq(ToClient)]
    BY <1>0, <1>4, <2>1, SentType
  <2> QED BY <1>0, <1>3, <1>4, <2>2, <2>3 DEF CoreTypes
<1>5. CASE m[1] = "open" /\ m[2] \in live /\ Shows({s}, m[2]) /\ UNCHANGED task
  <2>1. m[2] \in Conversations
    BY <1>1, <1>5, UpKinds
  <2> QED BY <1>0, <1>3, <1>5, <2>1, ShowsTypes DEF CoreTypes, FreshIsSilent
<1>6. CASE m[1] = "open" /\ HasFreeStart /\ Pursues(FreeStart, s, "open", m[2])
           /\ UNCHANGED <<viewing, pending, last, down>>
  <2>1. m[2] \in Conversations
    BY <1>1, <1>6, UpKinds
  <2>2. task' \in [Starts -> TaskType]
    BY <1>0, <1>6, <2>1, TaskKept, FreeStartIsNew
  <2> QED BY <1>0, <1>3, <1>6, <2>2 DEF CoreTypes, Wires, FreshIsSilent
<1>7. CASE m[1] = "create" /\ HasFreeStart /\ Pursues(FreeStart, s, "create", None)
           /\ AsksClient(FreeStart) /\ UNCHANGED <<viewing, pending, last>>
  <2>2. task' \in [Starts -> TaskType]
    BY <1>0, <1>7, TaskKept, FreeStartIsNew
  <2> QED BY <1>0, <1>3, <1>7, <2>2, AsksKeeps, FreeStartIsNew DEF CoreTypes
<1>8. CASE UNCHANGED <<task, viewing, pending, last, down>>
  BY <1>0, <1>3, <1>8 DEF CoreTypes, Wires, FreshIsSilent
<1>9. CASE /\ pending' = [c \in Conversations |->
                IF c = viewing[s] /\ c \in live /\ pending[c] = m[2] THEN 0 ELSE pending[c]]
           /\ UNCHANGED <<task, viewing, last, down>>
  <2>1. pending' \in [Conversations -> Numbers]
    BY <1>0, <1>9, Counts DEF CoreTypes, Numbers
  <2> QED BY <1>0, <1>3, <1>9, <2>1 DEF CoreTypes, Wires, FreshIsSilent
<1> QED BY <1>4, <1>5, <1>6, <1>7, <1>8, <1>9 DEF Handles

LEMMA OthersKeep ==
  ASSUME CInv, [Next]_vars,
         \/ \E s \in Sockets : HearsClose(s)
         \/ \E c \in Conversations : ToolAsks(c) \/ Reclaims(c)
         \/ CoreStops \/ CoreReturns \/ DirectoryChanges
  PROVE  Kept
<1>0. Wires /\ CoreTypes /\ BoundTypes /\ FreshIsSilent /\ TypeOK /\ 0 \in Numbers /\ <<>> \in Seq(ToCore)
  BY Counts DEF CInv, IInv, Numbers
<1>1. ASSUME NEW s \in Sockets, HearsClose(s) PROVE Kept
  <2>1. Wires' /\ CoreTypes' /\ BoundTypes'
    BY <1>0, <1>1, Counted DEF HearsClose, Wires, CoreTypes
  <2> QED BY <1>0, <1>1, <2>1, SocketsAge DEF Kept, HearsClose, FreshIsSilent
<1>2. ASSUME NEW c \in Conversations, ToolAsks(c) PROVE Kept
  <2>1. tools' \in 1 .. MaxTools /\ tools' \in Numbers
    BY <1>0, <1>2, Counts DEF ToolAsks, BoundTypes, Numbers
  <2>2. <<"tool", tools'>> \in ToClient
    BY <2>1, DownMessages
  <2>3. Wires'
    BY <1>0, <1>2, <2>2, SentType DEF ToolAsks, Wires
  <2>4. CoreTypes' /\ BoundTypes'
    BY <1>0, <1>2, <2>1 DEF ToolAsks, CoreTypes, BoundTypes
  <2> QED BY <1>0, <1>2, <2>3, <2>4, SentSpares DEF Kept, ToolAsks, FreshIsSilent
<1>3. ASSUME NEW c \in Conversations, Reclaims(c) PROVE Kept
  BY <1>0, <1>3, Counted DEF Kept, Reclaims, Wires, CoreTypes, FreshIsSilent
<1>4. CASE CoreStops
  <2>1. ASSUME NEW a \in Starts PROVE [task[a] EXCEPT !.goal = "failed"] \in TaskType
    BY <1>0 DEF CoreTypes, TaskType
  <2>2. task' \in [Starts -> TaskType]
    BY <1>0, <1>4, <2>1 DEF CoreStops, CoreTypes
  <2>3. Wires' /\ CoreTypes' /\ BoundTypes'
    BY <1>0, <1>4, <2>2, Counted DEF CoreStops, Wires, CoreTypes
  <2> QED BY <1>0, <1>4, <2>3, SocketsAge DEF Kept, CoreStops, FreshIsSilent
<1>5. CASE CoreReturns
  BY <1>0, <1>5, Counted DEF Kept, CoreReturns, Wires, CoreTypes, FreshIsSilent, coreVars, vars
<1>6. CASE DirectoryChanges
  <2>1. Wires' /\ CoreTypes' /\ BoundTypes'
    BY <1>0, <1>6, Counted DEF DirectoryChanges, Wires, CoreTypes, coreVars
  <2> QED BY <1>0, <1>6, <2>1, SocketsAge DEF Kept, DirectoryChanges, FreshIsSilent
<1> QED BY <1>1, <1>2, <1>3, <1>4, <1>5, <1>6

-----------------------------------------------------------------------------
(* A page's own steps.                                                     *)

\* What a step of page p must keep: its own record, and that no other page has
\* the socket it holds now.
PageKept(p, new) ==
  /\ Becomes(p, new) /\ new \in PageType
  /\ new.timer => new.socket = None /\ ~new.over
  /\ new.kind = "web" /\ ~new.over => new.timer \/ new.socket # None
  /\ new.state = "connected" => new.socket # None /\ conn[new.socket] # "new"
  /\ new.over => new.socket = None
  /\ new.state = "disconnected" => new.socket = None
  /\ new.handing => new.kind = "tui"
  /\ new.kind = "tui" /\ new.timer => new.state = "connecting"
  /\ new.socket \in {None, page[p].socket} \cup FreeSockets

LEMMA PageKeeps ==
  ASSUME CInv, NEW p \in Pages, NEW new, PageKept(p, new), conn' = conn
  PROVE  page' \in [Pages -> PageType] /\ OneConnection' /\ PageForms'
<1>1. page' \in [Pages -> PageType] /\ page' = [page EXCEPT ![p] = new]
  BY DEF CInv, PageKept, Becomes
<1>2. ASSUME NEW q \in Pages, q # p
      PROVE  /\ page'[q] = page[q]
             /\ new.socket # None => new.socket # page[q].socket
  BY <1>1, <1>2 DEF PageKept, CInv, OneConnection, FreeSockets, Holds
<1>3. page'[p] = new
  BY <1>1 DEF CInv
<1> QED BY <1>1, <1>2, <1>3 DEF CInv, OneConnection, PageForms, PageKept

\* What a page may become without its connection changing.
LEMMA SameConnection ==
  ASSUME CInv, NEW p \in Pages, NEW new \in PageType, Becomes(p, new),
         new.state = page[p].state, new.socket = page[p].socket, new.timer = page[p].timer,
         new.over = page[p].over, new.kind = page[p].kind,
         new.handing => page[p].kind = "tui"
  PROVE  PageKept(p, new)
BY DEF PageKept, CInv, OneConnection, PageForms

LEMMA RaisesKeeps ==
  ASSUME CInv, NEW p \in Pages,
         NEW dialog \in {<<"choice", None>>} \cup ({"trust"} \X Starts) \cup ({"tool"} \X (1 .. MaxTools)),
         Raises(p, dialog)
  PROVE  away' \in [Sockets -> Seq(ToCore)] /\ \E new : PageKept(p, new)
<1> DEFINE new == [page[p] EXCEPT !.dialog = dialog]
<1>1. page[p] \in PageType /\ Wires
  BY DEF CInv
<1>2. new \in PageType
  BY <1>1 DEF PageType
<1>3. Becomes(p, new) /\ away' = Refused(p)
  BY DEF Raises
<1>4. PageKept(p, new)
  BY <1>1, <1>2, <1>3, SameConnection DEF PageType, CInv, PageForms
<1> QED BY <1>1, <1>3, <1>4, RefusedType DEF CInv

LEMMA HearsKeeps ==
  ASSUME CInv, NEW p \in Pages, NEW m \in ToClient, page[p].socket \in Sockets,
         conn[page[p].socket] # "new", Hears(p, m)
  PROVE  /\ away' \in [Sockets -> Seq(ToCore)]
         /\ page' = page \/ \E new : PageKept(p, new)
<1>0. page[p] \in PageType /\ Wires /\ None \notin Sockets /\ away \in [Sockets -> Seq(ToCore)]
  BY GateConstants DEF CInv, Wires
<1>1. CASE m[1] = "hello" /\ HearsHello(p, m[2])
  <2>1. CASE m[2]
    <3> DEFINE new == [page[p] EXCEPT !.state = "connected"]
    <3>1. new \in PageType /\ Becomes(p, new)
      BY <1>0, <1>1, <2>1 DEF PageType, HearsHello
    <3>2. PageKept(p, new)
      BY <1>0, <3>1 DEF PageKept, CInv, OneConnection, PageForms, PageType
    <3>3. <<<<"list">>>> \in Seq(ToCore)
      BY UpMessages
    <3>4. away' \in [Sockets -> Seq(ToCore)]
      BY <1>0, <1>1, <2>1, <3>3 DEF HearsHello
    <3> QED BY <3>2, <3>4
  <2>2. CASE ~m[2]
    <3> DEFINE new == [page[p] EXCEPT !.state = "disconnected", !.socket = None, !.over = TRUE]
    <3>1. new \in PageType /\ Becomes(p, new) /\ away' = away
      BY <1>0, <1>1, <2>2 DEF PageType, HearsHello
    <3>2. PageKept(p, new)
      BY <1>0, <3>1 DEF PageKept, CInv, OneConnection, PageForms, PageType
    <3> QED BY <1>0, <3>1, <3>2
  <2> QED BY <2>1, <2>2
<1>2. CASE m[1] = "show" /\ UNCHANGED away
           /\ Becomes(p, [page[p] EXCEPT !.shown = m[2], !.card = IF page[p].kind = "web" THEN m[3] ELSE 0])
  <2> DEFINE new == [page[p] EXCEPT !.shown = m[2], !.card = IF page[p].kind = "web" THEN m[3] ELSE 0]
  <2>1. m[2] \in Conversations /\ m[3] \in Numbers /\ 0 \in Numbers
    BY <1>2, DownKinds, Counts DEF Numbers
  <2>2. /\ new \in PageType /\ Becomes(p, new)
        /\ new.state = page[p].state /\ new.socket = page[p].socket /\ new.timer = page[p].timer
        /\ new.over = page[p].over /\ new.kind = page[p].kind /\ new.handing = page[p].handing
    BY <1>0, <1>2, <2>1 DEF PageType
  <2> HIDE DEF new
  <2>3. PageKept(p, new)
    BY <2>2, SameConnection DEF CInv, PageForms
  <2> QED BY <1>0, <1>2, <2>3
<1>3. CASE m[1] = "trust" /\ Becomes(p, [page[p] EXCEPT !.dialog = m]) /\ UNCHANGED away
  <2> DEFINE new == [page[p] EXCEPT !.dialog = m]
  <2>1. m \in {"trust"} \X Starts
    BY <1>3, DownKinds
  <2>2. new \in PageType
    BY <1>0, <2>1 DEF PageType
  <2>3. PageKept(p, new)
    BY <1>0, <1>3, <2>2, SameConnection DEF PageType, CInv, PageForms
  <2> QED BY <1>0, <1>3, <2>3
<1>4. CASE m[1] \in {"trust", "tool"} /\ Confronted(p, m)
  <2>1. m \in ({"trust"} \X Starts) \cup ({"tool"} \X (1 .. MaxTools))
    BY <1>4, DownKinds
  <2>2. CASE page[p].handing
    BY <1>0, <1>4, <2>1, <2>2, DialogAnswers, WiredType DEF Confronted, Answers
  <2>3. CASE ~page[p].handing
    BY <1>4, <2>1, <2>3, RaisesKeeps DEF Confronted
  <2> QED BY <2>2, <2>3
<1>5. CASE m[1] = "tool" /\ Becomes(p, [page[p] EXCEPT !.card = m[2]]) /\ UNCHANGED away
  <2> DEFINE new == [page[p] EXCEPT !.card = m[2]]
  <2>1. m[2] \in Numbers
    BY <1>5, DownKinds
  <2>2. new \in PageType
    BY <1>0, <2>1 DEF PageType
  <2>3. PageKept(p, new)
    BY <1>0, <1>5, <2>2, SameConnection DEF PageType, CInv, PageForms
  <2> QED BY <1>0, <1>5, <2>3
<1>6. CASE m[1] = "listing" /\ Lands(p, m[2])
  <2> DEFINE new == [page[p] EXCEPT !.landed = TRUE]
  <2>1. m[2] \subseteq Conversations /\ Home \in Dirs
    BY <1>6, DownKinds, ClientAssumption
  <2>2. new \in PageType /\ Becomes(p, new)
    BY <1>0, <1>6 DEF PageType, Lands
  <2>3. PageKept(p, new)
    BY <1>0, <2>2, SameConnection DEF PageType, CInv, PageForms
  <2>4. Wired(p, <<"create", Home>>) \in [Sockets -> Seq(ToCore)]
    BY <1>0, <2>1, UpMessages, WiredType
  <2>5. \A c \in m[2] : Wired(p, <<"open", c>>) \in [Sockets -> Seq(ToCore)]
    BY <1>0, <2>1, UpMessages, WiredType
  <2>6. away' \in [Sockets -> Seq(ToCore)]
    BY <1>0, <1>6, <2>4, <2>5 DEF Lands
  <2> QED BY <2>3, <2>6
<1>7. CASE m[1] = "listing" /\ Raises(p, <<"choice", None>>)
  BY <1>7, RaisesKeeps
<1> QED BY <1>1, <1>2, <1>3, <1>4, <1>5, <1>6, <1>7 DEF Hears

\* A page's step changes what is kept of it, and sends what Core understands.
LEMMA PageStepKeeps ==
  ASSUME CInv, NEW p \in Pages, PageStep(p)
  PROVE  Kept /\ page' \in [Pages -> PageType] /\ OneConnection' /\ PageForms'
<1>0. /\ page[p] \in PageType /\ Wires /\ CoreTypes /\ BoundTypes /\ FreshIsSilent
      /\ None \notin Sockets /\ <<>> \in Seq(ToClient)
  BY GateConstants DEF CInv
<1>1. CoreOnly /\ BoundTypes' /\ conn' = conn /\ CoreTypes'
  <2>1. CoreOnly /\ (NoTrouble \/ Trouble \/ Asks)
    BY DEF PageStep, Dials, Loses, Receives, PersonAsks, PersonChooses, HandsOver, HandoffEnds,
           Quits, PersonAnswers, PersonPermits
  <2> QED BY <1>0, <2>1, Counted DEF CoreOnly, coreVars, vars, CoreTypes
<1>2. ASSUME down' \in [Sockets -> Seq(ToClient)], away' \in [Sockets -> Seq(ToCore)],
             \A s \in Sockets : down[s] = <<>> => down'[s] = <<>>,
             page' = page \/ \E new : PageKept(p, new)
      PROVE  Kept /\ page' \in [Pages -> PageType] /\ OneConnection' /\ PageForms'
  <2>1. Kept
    BY <1>0, <1>1, <1>2 DEF Kept, Wires, FreshIsSilent
  <2>2. page' = page => page' \in [Pages -> PageType] /\ OneConnection' /\ PageForms'
    BY <1>1 DEF CInv, OneConnection, PageForms
  <2> QED BY <1>1, <1>2, <2>1, <2>2, PageKeeps
<1>3. CASE Dials(p)
  <2> DEFINE new == [page[p] EXCEPT !.state = "connecting", !.timer = FALSE,
                                    !.socket = CHOOSE s \in FreeSockets : TRUE]
  <2>1. (CHOOSE s \in FreeSockets : TRUE) \in FreeSockets /\ FreeSockets \subseteq Sockets
    BY <1>3 DEF Dials, FreeSockets
  <2>2. /\ new \in PageType /\ new.socket \in FreeSockets /\ ~new.timer /\ new.state = "connecting"
        /\ new.over = page[p].over /\ new.handing = page[p].handing /\ new.kind = page[p].kind
    BY <1>0, <2>1 DEF PageType
  <2>3. Becomes(p, new) /\ page[p].timer
    BY <1>3 DEF Dials
  <2> HIDE DEF new
  <2>4. PageKept(p, new)
    BY <1>0, <2>1, <2>2, <2>3 DEF PageKept, CInv, OneConnection, PageForms
  <2> QED BY <1>0, <1>2, <1>3, <2>4 DEF Dials, Wires
<1>4. CASE Loses(p)
  <2> DEFINE timer == page[p].kind = "web"
             over == page[p].kind = "tui" /\ ~page[p].handing
             new == [page[p] EXCEPT !.state = "disconnected", !.socket = None,
                                    !.timer = timer, !.over = over]
  <2>0. timer \in BOOLEAN /\ over \in BOOLEAN
    OBVIOUS
  <2>1. Becomes(p, new)
    BY <1>4 DEF Loses, Dropped
  <2> HIDE DEF timer, over
  <2>2. /\ new \in PageType /\ new.socket = None /\ new.state = "disconnected"
        /\ new.timer = timer /\ new.over = over
        /\ new.kind = page[p].kind /\ new.handing = page[p].handing
    BY <1>0, <2>0 DEF PageType
  <2>4. page[p].socket # None
    BY <1>0, <1>4 DEF Loses
  <2> HIDE DEF new
  <2>5. PageKept(p, new)
    BY <2>1, <2>2, <2>4 DEF PageKept, CInv, OneConnection, PageForms, timer, over
  <2>3. /\ down' \in [Sockets -> Seq(ToClient)]
        /\ \A s \in Sockets : down[s] = <<>> => down'[s] = <<>>
    BY <1>0, <1>4 DEF Loses, Unwired, Wires
  <2> QED BY <1>0, <1>2, <1>4, <2>3, <2>5 DEF Loses, Wires
<1>5. CASE Receives(p)
  <2> DEFINE s == page[p].socket
  <2>1. /\ s \in Sockets /\ Head(down[s]) \in ToClient /\ Tail(down[s]) \in Seq(ToClient)
        /\ conn[s] # "new" /\ Hears(p, Head(down[s]))
    BY <1>0, <1>5 DEF Receives, Wires, FreshIsSilent
  <2>2. away' \in [Sockets -> Seq(ToCore)] /\ (page' = page \/ \E new : PageKept(p, new))
    BY <2>1, HearsKeeps
  <2>3. /\ down' \in [Sockets -> Seq(ToClient)]
        /\ \A t \in Sockets : down[t] = <<>> => down'[t] = <<>>
    BY <1>0, <1>5, <2>1 DEF Receives, Wires
  <2> QED BY <1>2, <2>2, <2>3
<1>6. CASE PersonAsks(p)
  <2>1. \A m \in IF page[p].kind = "web" THEN WebRequests ELSE TuiRequests : m \in ToCore
    BY <1>0, UpMessages, ClientAssumption DEF WebRequests, TuiRequests, CoreTypes, ToCore
  <2>2. away' \in [Sockets -> Seq(ToCore)] /\ page' = page /\ down' = down
    BY <1>0, <1>6, <2>1, WiredType DEF PersonAsks
  <2> QED BY <1>0, <1>2, <2>2 DEF Wires
<1>7. CASE PersonChooses(p)
  <2> DEFINE new == [page[p] EXCEPT !.dialog = Nothing]
  <2>1. new \in PageType /\ Becomes(p, new) /\ down' = down
    BY <1>0, <1>7 DEF PersonChooses, PageType
  <2>2. PageKept(p, new)
    BY <1>0, <2>1, SameConnection DEF PageType, CInv, PageForms
  <2>3. \A c \in stored : Wired(p, <<"open", c>>) \in [Sockets -> Seq(ToCore)]
    BY <1>0, UpMessages, WiredType DEF CoreTypes
  <2>4. away' \in [Sockets -> Seq(ToCore)]
    BY <1>0, <1>7, <2>3 DEF PersonChooses, Wires
  <2> QED BY <1>0, <1>2, <2>1, <2>2, <2>4 DEF Wires
<1>8. CASE HandsOver(p)
  <2> DEFINE new == [page[p] EXCEPT !.handing = TRUE, !.dialog = Nothing]
  <2>1. new \in PageType /\ Becomes(p, new) /\ down' = down /\ away' = Refused(p)
    BY <1>0, <1>8 DEF HandsOver, PageType
  <2>2. PageKept(p, new)
    BY <1>0, <1>8, <2>1, SameConnection DEF HandsOver, PageType
  <2> QED BY <1>0, <1>2, <2>1, <2>2, RefusedType DEF Wires, CInv
<1>9. CASE HandoffEnds(p)
  <2> DEFINE new == [page[p] EXCEPT !.handing = FALSE, !.over = page[p].state = "disconnected"]
  <2>1. new \in PageType /\ Becomes(p, new) /\ down' = down /\ away' = away
    BY <1>0, <1>9 DEF HandoffEnds, PageType
  <2>2. PageKept(p, new)
    BY <1>0, <1>9, <2>1 DEF PageKept, PageType, CInv, OneConnection, PageForms, HandoffEnds
  <2> QED BY <1>0, <1>2, <2>1, <2>2 DEF Wires
<1>10. CASE Quits(p)
  <2> DEFINE new == [page[p] EXCEPT !.state = "disconnected", !.socket = None,
                                    !.timer = FALSE, !.over = TRUE]
  <2>1. new \in PageType /\ Becomes(p, new) /\ away' = away
    BY <1>0, <1>10 DEF Quits, PageType
  <2>2. PageKept(p, new)
    BY <1>0, <1>10, <2>1 DEF PageKept, PageType, CInv, OneConnection, PageForms
  <2>3. /\ down' \in [Sockets -> Seq(ToClient)]
        /\ \A s \in Sockets : down[s] = <<>> => down'[s] = <<>>
    BY <1>0, <1>10 DEF Quits, Wires
  <2> QED BY <1>0, <1>2, <2>1, <2>2, <2>3 DEF Wires
<1>11. ASSUME NEW answer \in Answers, PersonAnswers(p, answer)
       PROVE  Kept /\ page' \in [Pages -> PageType] /\ OneConnection' /\ PageForms'
  <2> DEFINE new == Answered(p)
  <2>1. new \in PageType /\ Becomes(p, new) /\ down' = down
    BY <1>0, <1>11 DEF PersonAnswers, Answered, PageType
  <2>2. PageKept(p, new)
    BY <1>0, <2>1, SameConnection DEF Answered, PageType, CInv, PageForms
  <2>3. page[p].dialog \in ({"trust"} \X Starts) \cup ({"tool"} \X (1 .. MaxTools))
    BY <1>0, <1>11 DEF PersonAnswers, PageType, Nothing
  <2>4. away' \in [Sockets -> Seq(ToCore)]
    BY <1>0, <1>11, <2>3, DialogAnswers, WiredType DEF PersonAnswers
  <2> QED BY <1>0, <1>2, <2>1, <2>2, <2>4 DEF Wires
<1>12. ASSUME NEW answer \in Answers, PersonPermits(p, answer)
       PROVE  Kept /\ page' \in [Pages -> PageType] /\ OneConnection' /\ PageForms'
  <2> DEFINE new == [page[p] EXCEPT !.card = 0]
  <2>1. page[p].card \in 1 .. MaxTools /\ 0 \in Numbers
    BY <1>0, <1>12, Counts DEF PersonPermits, PageType, Numbers
  <2>2. new \in PageType /\ Becomes(p, new) /\ down' = down
    BY <1>0, <1>12, <2>1 DEF PersonPermits, PageType
  <2>3. PageKept(p, new)
    BY <1>0, <2>2, SameConnection DEF PageType, CInv, PageForms
  <2>4. away' \in [Sockets -> Seq(ToCore)]
    BY <1>0, <1>12, <2>1, UpMessages, WiredType DEF PersonPermits
  <2> QED BY <1>0, <1>2, <2>2, <2>3, <2>4 DEF Wires
<1> QED BY <1>3, <1>4, <1>5, <1>6, <1>7, <1>8, <1>9, <1>10, <1>11, <1>12 DEF PageStep

-----------------------------------------------------------------------------
(* The whole.                                                              *)

LEMMA InitCInv == ClientInit => CInv
<1> SUFFICES ASSUME ClientInit PROVE CInv
  OBVIOUS
<1>1. PICK b \in Beginnings :
        /\ resources = b.resources /\ stored = b.stored /\ last = b.last
        /\ page = [p \in Pages |-> NewPage(b.kinds[p])]
        /\ asks = b.asks /\ troubles = b.troubles
  BY DEF ClientInit
<1>2. /\ b.kinds \in [Pages -> {"web", "tui", "unused"}] /\ b.stored \subseteq Conversations
      /\ b.last \in Conversations \cup {None} /\ b.asks \in 0 .. MaxAsks /\ b.troubles \in 0 .. MaxTroubles
  BY <1>1, ClientAssumption
<1>3. 0 \in Numbers /\ NoTask \in TaskType
  BY Counts DEF Numbers, NoTask, TaskType
<1>4. ASSUME NEW kind \in {"web", "tui", "unused"}
      PROVE  /\ NewPage(kind) \in PageType /\ NewPage(kind).socket = None
             /\ NewPage(kind).state = "connecting" /\ ~NewPage(kind).handing
             /\ NewPage(kind).timer = (kind # "unused") /\ NewPage(kind).over = (kind = "unused")
             /\ NewPage(kind).kind = kind
  BY <1>3 DEF NewPage, PageType, Nothing
<1>5. IInv
  BY InitIInv DEF ClientInit
<1>6. Wires /\ CoreTypes /\ BoundTypes /\ FreshIsSilent
  BY <1>1, <1>2, <1>3 DEF ClientInit, Wires, CoreTypes, BoundTypes, FreshIsSilent
<1>7. page \in [Pages -> PageType] /\ OneConnection /\ PageForms
  BY <1>1, <1>2, <1>4 DEF OneConnection, PageForms
<1> QED BY <1>5, <1>6, <1>7 DEF CInv

LEMMA NextCInv == CInv /\ [ClientNext]_allVars => CInv'
<1> SUFFICES ASSUME CInv, [ClientNext]_allVars PROVE CInv'
  OBVIOUS
<1>1. [Next]_vars /\ IInv' /\ IInv /\ TypeOK
  BY StepServesGate, NextIInv DEF CInv, IInv
<1>2. ASSUME Kept, page' = page PROVE CInv'
  <2>1. OneConnection'
    BY <1>1, <1>2, SocketsAge, GateConstants DEF CInv, OneConnection, PageType
  <2> QED BY <1>1, <1>2, <2>1 DEF CInv, Kept, PageForms, FreshIsSilent
<1>3. ASSUME NEW p \in Pages, Accepts(p) PROVE CInv'
  BY <1>1, <1>2, <1>3, AcceptsKeeps DEF Accepts
<1>4. ASSUME NEW a \in Starts, Finds(a) \/ FindsNot(a) \/ Opens(a) \/ OpenFails(a) PROVE CInv'
  BY <1>1, <1>2, <1>4, StartsKeep DEF Finds, FindsNot, Opens, OpenFails
<1>5. ASSUME NEW s \in Sockets, Handles(s) PROVE CInv'
  BY <1>1, <1>2, <1>5, HandlesKeeps DEF Handles
<1>6. ASSUME \/ \E s \in Sockets : HearsClose(s)
             \/ \E c \in Conversations : ToolAsks(c) \/ Reclaims(c)
             \/ CoreStops \/ CoreReturns \/ DirectoryChanges
      PROVE  CInv'
  BY <1>1, <1>2, <1>6, OthersKeep
     DEF HearsClose, ToolAsks, Reclaims, CoreStops, CoreReturns, DirectoryChanges
<1>7. ASSUME NEW p \in Pages, PageStep(p) PROVE CInv'
  BY <1>1, <1>7, PageStepKeeps DEF CInv, Kept, FreshIsSilent
<1>8. CASE UNCHANGED allVars
  BY <1>1, <1>8 DEF allVars, vars, clientVars, CInv, Wires, CoreTypes, BoundTypes, FreshIsSilent,
                    OneConnection, PageForms
<1> QED BY <1>3, <1>4, <1>5, <1>6, <1>7, <1>8 DEF ClientNext, CoreStep

LEMMA ClientInvariant == ClientSpec => []CInv
BY InitCInv, NextCInv, PTL DEF ClientSpec

LEMMA TypesAreClientTypes == CInv => ClientTypeOK
BY DEF CInv, IInv, Wires, CoreTypes, BoundTypes, ClientTypeOK

\* The state of clients, wires and Core keeps its types: every message that is
\* read has the form its reader expects (core-client.ts, handle).
THEOREM TypeCorrect == ClientSpec => []ClientTypeOK
BY ClientInvariant, TypesAreClientTypes, PTL

\* A client has one socket or one timer, and no two clients share a socket, over
\* any number of losses, restarts and handoffs (CoreClient's #connect, #close).
THEOREM ConnectionsAreOne == ClientSpec => []OneConnection
<1>1. CInv => OneConnection
  BY DEF CInv
<1> QED BY <1>1, ClientInvariant, PTL

\* Clients, sockets and Core together implement the gate: each of their steps is
\* one of ensure, respond, cancel and what surrounds them, or leaves it alone.
THEOREM GateIsServed == ClientSpec => Spec
<1>1. ClientInit => Init
  BY DEF ClientInit
<1>2. CInv /\ [ClientNext]_allVars => [Next]_vars
  BY StepServesGate
<1> QED BY <1>1, <1>2, ClientInvariant, PTL DEF ClientSpec, Spec

\* Hence Pi starts beside project resources only under the recorded decision,
\* whatever clients do and however the wire fails (openWithTrust).
THEOREM ServedStartsFollow == ClientSpec => StartsFollowDecision
BY GateIsServed, LaunchesFollowDecision, PTL

\* ... and a start waits for nobody who has left (cancel on a socket's close).
THEOREM ServedWaitsEnd == ClientSpec => WaitEndsWithAsker
BY GateIsServed, AskerDecides, PTL

\* ... nor for a question that left the gate (finish releases all who joined).
THEOREM ServedAreHeld == ClientSpec => []WaitersAreHeld
BY GateIsServed, NobodyIsForgotten, PTL

-----------------------------------------------------------------------------
(* Both ends agree on the conversation.                                    *)

LEMMA ShowLeads ==
  ASSUME NEW q \in Seq(ToClient), NEW m \in ToClient, m[1] = "show", NEW at
  PROVE  Leads(Append(q, m), at, m[2])
BY DEF Leads

LEMMA OtherLeads ==
  ASSUME NEW q \in Seq(ToClient), NEW m \in ToClient, m[1] # "show", NEW at, NEW c, Leads(q, at, c)
  PROVE  Leads(Append(q, m), at, c)
<1> DEFINE r == Append(q, m)
           old == {i \in DOMAIN q : q[i][1] = "show"}
           shows == {i \in DOMAIN r : r[i][1] = "show"}
<1>1. /\ DOMAIN q = 1 .. Len(q) /\ DOMAIN r = 1 .. (Len(q) + 1) /\ Len(q) \in Nat
      /\ \A i \in 1 .. Len(q) : r[i] = q[i]
      /\ r[Len(q) + 1] = m
  OBVIOUS
<1>2. shows = old
  BY <1>1
<1>3. \A i \in old : r[i] = q[i]
  BY <1>1
<1> QED BY <1>2, <1>3 DEF Leads

\* Hearing the first message leads to the same.
LEMMA HeadLeads ==
  ASSUME NEW q \in Seq(ToClient), q # <<>>, NEW at, NEW c, Leads(q, at, c)
  PROVE  Leads(Tail(q), IF Head(q)[1] = "show" THEN Head(q)[2] ELSE at, c)
<1> DEFINE r == Tail(q)
           old == {i \in DOMAIN q : q[i][1] = "show"}
           shows == {i \in DOMAIN r : r[i][1] = "show"}
<1>1. /\ DOMAIN q = 1 .. Len(q) /\ Len(q) \in Nat /\ DOMAIN r = 1 .. (Len(q) - 1) /\ Head(q) = q[1]
      /\ Len(q) >= 1 /\ \A i \in 1 .. (Len(q) - 1) : r[i] = q[i + 1]
  OBVIOUS
<1>2. \A i \in shows : i + 1 \in old /\ r[i] = q[i + 1] /\ i \in Nat
  BY <1>1
<1>3. \A i \in old : i = 1 \/ (i - 1 \in shows /\ r[i - 1] = q[i])
  BY <1>1
<1>4. \A i \in old : i \in Nat /\ i >= 1
  BY <1>1
<1>5. CASE shows = {}
  <2>1. old = {} \/ old = {1}
    BY <1>3, <1>5
  <2>2. 1 \in old <=> Head(q)[1] = "show"
    BY <1>1
  <2> QED BY <1>1, <1>5, <2>1, <2>2 DEF Leads
<1>6. CASE shows # {}
  <2>1. old # {}
    BY <1>2, <1>6
  <2>2. PICK i \in old : q[i][2] = c /\ \A j \in old : j <= i
    BY <2>1 DEF Leads
  <2>3. i # 1
    BY <1>2, <1>6, <2>2
  <2>4. i - 1 \in shows /\ r[i - 1][2] = c /\ \A j \in shows : j <= i - 1
    BY <1>2, <1>3, <1>4, <2>2, <2>3
  <2> QED BY <1>6, <2>4 DEF Leads
<1> QED BY <1>5, <1>6

\* What a step of Core may do to the wire of an open socket.
Tells(s) ==
  \/ /\ conn[s] = "open" /\ viewing'[s] = viewing[s]
     /\ down'[s] = down[s] \/ \E m \in ToClient : m[1] # "show" /\ down'[s] = Append(down[s], m)
  \/ \A at : Leads(down'[s], at, viewing'[s])

LEMMA WireAgrees ==
  ASSUME CInv, Agree, page' = page,
         \A p \in Pages : LET s == page[p].socket IN
           s \in Sockets /\ conn'[s] = "open" /\ viewing'[s] # None => Tells(s)
  PROVE  Agree'
<1> SUFFICES ASSUME NEW p \in Pages, page[p].socket \in Sockets, conn'[page[p].socket] = "open",
                    viewing'[page[p].socket] # None
             PROVE  Leads(down'[page[p].socket], page[p].shown, viewing'[page[p].socket])
  BY DEF Agree
<1> DEFINE s == page[p].socket
<1>1. Tells(s)
  OBVIOUS
<1>2. CASE \A at : Leads(down'[s], at, viewing'[s])
  BY <1>2
<1>3. CASE /\ conn[s] = "open" /\ viewing'[s] = viewing[s]
           /\ down'[s] = down[s] \/ \E m \in ToClient : m[1] # "show" /\ down'[s] = Append(down[s], m)
  <2>1. Leads(down[s], page[p].shown, viewing[s]) /\ down[s] \in Seq(ToClient)
    BY <1>3 DEF Agree, CInv, Wires
  <2> QED BY <1>3, <2>1, OtherLeads
<1> QED BY <1>1, <1>2, <1>3 DEF Tells

\* Core knows nothing of a socket that was not accepted.
Unseen ==
  \A s \in Sockets : conn[s] = "new" =>
    viewing[s] = None /\ \A a \in Starts : s \notin task[a].for

AInv == CInv /\ Unseen /\ Agree

\* A message that is sent reaches who listens, and shows what it names.
LEMMA SentTells ==
  ASSUME Wires, NEW ss, NEW m \in ToClient, NEW s \in Sockets, down' = Sent(ss, m)
  PROVE  /\ m[1] # "show" =>
              down'[s] = down[s] \/ \E n \in ToClient : n[1] # "show" /\ down'[s] = Append(down[s], n)
         /\ m[1] = "show" /\ s \in ss /\ Heard(s) => \A at : Leads(down'[s], at, m[2])
         /\ s \notin ss => down'[s] = down[s]
<1>1. down[s] \in Seq(ToClient)
  BY DEF Wires
<1>2. down'[s] = IF s \in ss /\ Heard(s) THEN Append(down[s], m) ELSE down[s]
  BY DEF Sent
<1> QED BY <1>1, <1>2, ShowLeads

LEMMA ShowsTells ==
  ASSUME CInv, NEW ss, NEW c \in Conversations, Shows(ss, c), NEW p \in Pages,
         page[p].socket \in Sockets, conn[page[p].socket] = "open"
  PROVE  Tells(page[p].socket)
<1> DEFINE s == page[p].socket
           m == <<"show", c, pending[c]>>
<1>1. m \in ToClient /\ Wires
  BY DownMessages DEF CInv, CoreTypes
<1>2. m[1] = "show" /\ m[2] = c
  OBVIOUS
<1>3. down' = Sent(ss, m) /\ viewing'[s] = IF s \in ss THEN c ELSE viewing[s]
  BY DEF Shows
<1>4. Heard(s)
  BY DEF Heard, Holds
<1> HIDE DEF m
<1>5. CASE s \in ss
  BY <1>1, <1>2, <1>3, <1>4, <1>5, SentTells DEF Tells
<1>6. CASE s \notin ss
  BY <1>1, <1>3, <1>6, SentTells DEF Tells
<1> QED BY <1>5, <1>6

LEMMA QuietTells ==
  ASSUME NEW s \in Sockets, conn[s] = "open", viewing'[s] = viewing[s], down'[s] = down[s]
  PROVE  Tells(s)
BY DEF Tells

LEMMA AskTells ==
  ASSUME CInv, NEW a \in Starts, AsksClient(a), NEW s \in Sockets, conn[s] = "open", viewing'[s] = viewing[s]
  PROVE  Tells(s)
<1>1. <<"trust", a>> \in ToClient /\ <<"trust", a>>[1] # "show" /\ Wires
  BY DownMessages DEF CInv
<1> QED BY <1>1, SentTells DEF AsksClient, Tells

LEMMA AcceptsAgrees ==
  ASSUME AInv, NEW p \in Pages, Accepts(p), [Next]_vars
  PROVE  Unseen' /\ Agree'
<1> DEFINE s == page[p].socket
           hello == <<"hello", up = "up">>
<1>0. /\ CInv /\ Unseen /\ Agree /\ Wires /\ CoreTypes /\ TypeOK /\ s \in Sockets /\ page' = page
      /\ conn' = [conn EXCEPT ![s] = "open"] /\ conn[s] = "new"
  BY DEF AInv, CInv, IInv, Accepts, Connect, Arrive
<1>1. \A t \in Sockets : t # s => viewing'[t] = viewing[t] /\ down'[t] = down[t] /\ conn'[t] = conn[t]
  BY <1>0 DEF Accepts, Wires, CoreTypes, TypeOK
<1>2. \A t \in Sockets, a \in Starts : t # s /\ t \in task'[a].for => t \in task[a].for
  <2>1. CASE UNCHANGED task
    BY <2>1
  <2>2. CASE task' = [a \in Starts |-> IF a \in Resolving
                                       THEN [task[a] EXCEPT !.for = @ \cup {s}] ELSE task[a]]
    <3>1. ASSUME NEW a \in Starts PROVE [task[a] EXCEPT !.for = @ \cup {s}].for = task[a].for \cup {s}
      BY <1>0 DEF CoreTypes, TaskType
    <3> QED BY <2>2, <3>1
  <2>3. CASE HasFreeStart /\ \E c \in DefaultTargets : Pursues(FreeStart, s, "default", c)
    BY <1>0, <2>3 DEF Pursues, CoreTypes
  <2> QED BY <2>1, <2>2, <2>3 DEF Accepts
<1>3. Unseen'
  BY <1>0, <1>1, <1>2 DEF Unseen, TypeOK
<1>4. viewing'[s] # None => \A at : Leads(down'[s], at, viewing'[s])
  <2>1. viewing'[s] # None =>
          /\ last \in Conversations /\ viewing'[s] = last
          /\ down'[s] = <<hello, <<"show", last, pending[last]>>>>
    BY <1>0 DEF Accepts, Wires, CoreTypes, Unseen
  <2>0. hello \in ToClient
    BY DownMessages
  <2> HIDE DEF hello
  <2>2. <<hello>> \in Seq(ToClient)
    BY <2>0
  <2>3. ASSUME last \in Conversations
        PROVE  \A at : Leads(Append(<<hello>>, <<"show", last, pending[last]>>), at, last)
    <3>1. <<"show", last, pending[last]>> \in ToClient
      BY <1>0, <2>3, DownMessages DEF CoreTypes
    <3>2. <<"show", last, pending[last]>>[1] = "show" /\ <<"show", last, pending[last]>>[2] = last
      OBVIOUS
    <3> QED BY <2>2, <3>1, <3>2, ShowLeads
  <2>4. Append(<<hello>>, <<"show", last, pending[last]>>) = <<hello, <<"show", last, pending[last]>>>>
    BY AppendToOne
  <2> QED BY <2>1, <2>3, <2>4
<1>5. \A q \in Pages : LET t == page[q].socket IN
        t \in Sockets /\ conn'[t] = "open" /\ viewing'[t] # None => Tells(t)
  BY <1>1, <1>4, QuietTells DEF Tells
<1> QED BY <1>0, <1>3, <1>5, WireAgrees

LEMMA StartsAgree ==
  ASSUME AInv, NEW a \in Starts, Finds(a) \/ FindsNot(a) \/ Opens(a) \/ OpenFails(a), [Next]_vars
  PROVE  Unseen' /\ Agree'
<1>0. CInv /\ Unseen /\ Agree /\ CoreTypes /\ TypeOK /\ conn' = conn /\ page' = page
  BY DEF AInv, CInv, IInv, Finds, FindsNot, Opens, OpenFails, Found, NotFound, gateVars
<1>1. CASE Finds(a)
  <2>1. viewing' = viewing /\ task' = task /\ AsksClient(a)
    BY <1>1 DEF Finds, coreVars
  <2> QED BY <1>0, <2>1, AskTells, WireAgrees DEF Unseen
<1>2. CASE FindsNot(a)
  BY <1>0, <1>2, QuietTells, WireAgrees DEF Unseen, FindsNot
<1>3. CASE Opens(a)
  <2>1. PICK c \in IF task[a].want # None THEN {task[a].want}
                   ELSE {c \in Conversations \ stored : Place[c] = start[a].dir} : Shows(task[a].for, c)
    BY <1>3 DEF Opens
  <2>2. c \in Conversations
    BY <1>0, <2>1 DEF CoreTypes, TaskType
  <2>3. \A b \in Starts : task'[b].for \subseteq task[b].for
    BY <1>0, <1>3 DEF Opens, CoreTypes, NoTask
  <2>4. Unseen'
    BY <1>0, <2>1, <2>3 DEF Unseen, Shows
  <2> QED BY <1>0, <2>1, <2>2, <2>4, ShowsTells, WireAgrees
<1>4. CASE OpenFails(a)
  <2>1. \A b \in Starts : task'[b].for = task[b].for
    BY <1>0, <1>4 DEF OpenFails, CoreTypes, TaskType
  <2> QED BY <1>0, <1>4, <2>1, QuietTells, WireAgrees DEF Unseen, OpenFails
<1> QED BY <1>1, <1>2, <1>3, <1>4

LEMMA HandlesAgrees ==
  ASSUME AInv, NEW s \in Sockets, Handles(s), [Next]_vars
  PROVE  Unseen' /\ Agree'
<1> DEFINE m == Head(away[s])
<1>0. /\ CInv /\ Unseen /\ Agree /\ CoreTypes /\ TypeOK /\ Wires /\ page' = page
      /\ conn[s] = "open" /\ m \in ToCore
  BY DEF AInv, CInv, IInv, Handles, Wires
<1>1. conn' = conn
  BY DEF Handles, Begin, Create, Respond, vars
<1>2. ASSUME NEW goal, NEW c, Pursues(FreeStart, s, goal, c), HasFreeStart
      PROVE  \A a \in Starts : task'[a].for \subseteq task[a].for \cup {s}
  BY <1>0, <1>2 DEF Pursues, CoreTypes
<1>3. ASSUME viewing' = viewing, \A a \in Starts : task'[a].for \subseteq task[a].for \cup {s},
             \A t \in Sockets : conn[t] = "open" => Tells(t)
      PROVE  Unseen' /\ Agree'
  BY <1>0, <1>1, <1>3, WireAgrees DEF Unseen
<1>4. CASE m[1] = "list" /\ down' = Sent({s}, <<"listing", stored>>) /\ UNCHANGED <<task, viewing>>
  <2>1. <<"listing", stored>> \in ToClient /\ <<"listing", stored>>[1] # "show"
    BY <1>0, DownMessages DEF CoreTypes
  <2> QED BY <1>0, <1>3, <1>4, <2>1, SentTells DEF Tells
<1>5. CASE m[1] = "open" /\ Shows({s}, m[2]) /\ UNCHANGED task
  <2>1. m[2] \in Conversations
    BY <1>0, <1>5, UpKinds
  <2>2. Unseen'
    BY <1>0, <1>1, <1>5 DEF Unseen, Shows
  <2> QED BY <1>0, <1>1, <1>5, <2>1, <2>2, ShowsTells, WireAgrees
<1>6. CASE HasFreeStart /\ Pursues(FreeStart, s, "open", m[2]) /\ UNCHANGED <<viewing, down>>
  BY <1>2, <1>3, <1>6, QuietTells
<1>7. CASE HasFreeStart /\ Pursues(FreeStart, s, "create", None) /\ AsksClient(FreeStart) /\ UNCHANGED viewing
  BY <1>0, <1>2, <1>3, <1>7, AskTells, FreeStartIsNew
<1>8. CASE UNCHANGED <<task, viewing, down>>
  BY <1>3, <1>8, QuietTells
<1> QED BY <1>4, <1>5, <1>6, <1>7, <1>8 DEF Handles

LEMMA OthersAgree ==
  ASSUME AInv, [Next]_vars,
         \/ \E s \in Sockets : HearsClose(s)
         \/ \E c \in Conversations : ToolAsks(c) \/ Reclaims(c)
         \/ CoreStops \/ CoreReturns \/ DirectoryChanges
  PROVE  Unseen' /\ Agree'
<1>0. CInv /\ Unseen /\ Agree /\ CoreTypes /\ TypeOK /\ Wires
  BY DEF AInv, CInv, IInv
<1>1. ASSUME NEW s \in Sockets, HearsClose(s) PROVE Unseen' /\ Agree'
  <2>1. /\ conn' = [conn EXCEPT ![s] = "closed"] /\ viewing' = [viewing EXCEPT ![s] = None]
        /\ task' = task /\ down' = down /\ page' = page
    BY <1>1 DEF HearsClose, Leave
  <2>2. Unseen'
    BY <1>0, <2>1 DEF Unseen, TypeOK, CoreTypes
  <2>3. \A t \in Sockets : conn'[t] = "open" => Tells(t)
    BY <1>0, <2>1, QuietTells DEF TypeOK, CoreTypes
  <2> QED BY <1>0, <2>1, <2>2, <2>3, WireAgrees
<1>2. ASSUME NEW c \in Conversations, ToolAsks(c) PROVE Unseen' /\ Agree'
  <2>1. tools' \in 1 .. MaxTools
    BY <1>0, <1>2, Counts DEF ToolAsks, BoundTypes, Numbers, CInv
  <2>2. <<"tool", tools'>> \in ToClient /\ <<"tool", tools'>>[1] # "show"
    BY <2>1, DownMessages
  <2>3. /\ down' = Sent({t \in Sockets : viewing[t] = c}, <<"tool", tools'>>)
        /\ conn' = conn /\ viewing' = viewing /\ task' = task /\ page' = page
    BY <1>2 DEF ToolAsks
  <2>4. \A t \in Sockets : conn'[t] = "open" => Tells(t)
    BY <1>0, <2>2, <2>3, SentTells DEF Tells
  <2> QED BY <1>0, <2>3, <2>4, WireAgrees DEF Unseen
<1>3. ASSUME NEW c \in Conversations, Reclaims(c) PROVE Unseen' /\ Agree'
  BY <1>0, <1>3, QuietTells, WireAgrees DEF Unseen, Reclaims
<1>4. CASE CoreStops
  <2>1. \A a \in Starts : task'[a].for = task[a].for
    BY <1>0, <1>4 DEF CoreStops, CoreTypes, TaskType
  <2>2. \A t \in Sockets : viewing'[t] = None
    BY <1>4 DEF CoreStops
  <2>3. Unseen'
    BY <1>0, <2>1, <2>2, SocketsAge DEF Unseen
  <2> QED BY <2>2, <2>3, <1>4 DEF Agree, CoreStops
<1>5. CASE CoreReturns
  BY <1>0, <1>5, QuietTells, WireAgrees DEF Unseen, CoreReturns, coreVars, vars
<1>6. CASE DirectoryChanges
  <2>1. conn' = conn /\ viewing' = viewing /\ task' = task /\ down' = down /\ page' = page
    BY <1>6 DEF DirectoryChanges, ResourcesChange, DecidedElsewhere, coreVars
  <2> QED BY <1>0, <2>1, QuietTells, WireAgrees DEF Unseen
<1> QED BY <1>1, <1>2, <1>3, <1>4, <1>5, <1>6

LEMMA Becoming ==
  ASSUME page \in [Pages -> PageType], NEW p \in Pages, NEW new, Becomes(p, new)
  PROVE  page'[p] = new /\ \A q \in Pages \ {p} : page'[q] = page[q]
BY DEF Becomes

\* A page hears, and shows what it hears of.
LEMMA HearsShows ==
  ASSUME page \in [Pages -> PageType], NEW p \in Pages, NEW m, Hears(p, m)
  PROVE  /\ page'[p].shown = IF m[1] = "show" THEN m[2] ELSE page[p].shown
         /\ page'[p].socket \in {None, page[p].socket}
<1>0. page[p] \in PageType
  OBVIOUS
<1>1. CASE m[1] = "hello" /\ HearsHello(p, m[2])
  <2>1. \/ page'[p] = [page[p] EXCEPT !.state = "connected"]
        \/ page'[p] = [page[p] EXCEPT !.state = "disconnected", !.socket = None, !.over = TRUE]
    BY <1>1, Becoming DEF HearsHello
  <2> QED BY <1>0, <1>1, <2>1 DEF PageType
<1>2. ASSUME m[1] = "show", NEW card, Becomes(p, [page[p] EXCEPT !.shown = m[2], !.card = card])
      PROVE  page'[p].shown = m[2] /\ page'[p].socket = page[p].socket
  <2>1. page'[p] = [page[p] EXCEPT !.shown = m[2], !.card = card]
    BY <1>2, Becoming
  <2> QED BY <1>0, <2>1 DEF PageType
<1>3. ASSUME NEW dialog, Becomes(p, [page[p] EXCEPT !.dialog = dialog])
      PROVE  page'[p].shown = page[p].shown /\ page'[p].socket = page[p].socket
  <2>1. page'[p] = [page[p] EXCEPT !.dialog = dialog]
    BY <1>3, Becoming
  <2> QED BY <1>0, <2>1 DEF PageType
<1>4. CASE m[1] \in {"trust", "tool"} /\ Confronted(p, m)
  BY <1>3, <1>4 DEF Confronted, Raises
<1>5. CASE m[1] = "tool" /\ Becomes(p, [page[p] EXCEPT !.card = m[2]])
  <2>1. page'[p] = [page[p] EXCEPT !.card = m[2]]
    BY <1>5, Becoming
  <2> QED BY <1>0, <1>5, <2>1 DEF PageType
<1>6. CASE m[1] = "listing" /\ Lands(p, m[2])
  <2>1. page'[p] = [page[p] EXCEPT !.landed = TRUE]
    BY <1>6, Becoming DEF Lands
  <2> QED BY <1>0, <1>6, <2>1 DEF PageType
<1>7. CASE m[1] = "listing" /\ Raises(p, <<"choice", None>>)
  BY <1>3, <1>7 DEF Raises
<1> QED BY <1>1, <1>2, <1>3, <1>4, <1>5, <1>6, <1>7 DEF Hears

\* A page changes what it shows only by hearing it.
LEMMA PageStepAgrees ==
  ASSUME AInv, NEW p \in Pages, PageStep(p)
  PROVE  Unseen' /\ Agree'
<1>0. CInv /\ Unseen /\ Agree /\ Wires /\ OneConnection /\ page \in [Pages -> PageType] /\ None \notin Sockets
  BY GateConstants DEF AInv, CInv
<1>1. conn' = conn /\ viewing' = viewing /\ task' = task
  BY DEF PageStep, Dials, Loses, Receives, PersonAsks, PersonChooses, HandsOver, HandoffEnds,
         Quits, PersonAnswers, PersonPermits, CoreOnly, coreVars, vars
<1>2. Unseen'
  BY <1>0, <1>1 DEF Unseen
<1>3. ASSUME NEW q \in Pages, page'[q].socket \in Sockets, conn[page'[q].socket] = "open",
             page'[q].socket = page[q].socket, page'[q].shown = page[q].shown,
             down'[page[q].socket] = down[page[q].socket],
             viewing[page[q].socket] # None
      PROVE  Leads(down'[page'[q].socket], page'[q].shown, viewing'[page'[q].socket])
  BY <1>0, <1>1, <1>3 DEF Agree
<1>4. SUFFICES ASSUME NEW q \in Pages, page'[q].socket \in Sockets, conn[page'[q].socket] = "open",
                      viewing[page'[q].socket] # None
               PROVE  Leads(down'[page'[q].socket], page'[q].shown, viewing'[page'[q].socket])
  BY <1>1, <1>2 DEF Agree
<1>5. CASE Dials(p)
  <2>1. q = p => conn[page'[q].socket] = "new"
    BY <1>0, <1>5 DEF Dials, Becomes, FreeSockets
  <2>2. q # p => page'[q] = page[q]
    BY <1>0, <1>5 DEF Dials, Becomes
  <2> QED BY <1>3, <1>4, <1>5, <2>1, <2>2 DEF Dials
<1>6. CASE Loses(p) \/ Quits(p)
  <2>1. q = p => page'[q].socket = None
    <3>1. ASSUME NEW timer, NEW over,
                 Becomes(p, [page[p] EXCEPT !.state = "disconnected", !.socket = None,
                                            !.timer = timer, !.over = over])
          PROVE  page'[p].socket = None
      <4>1. page'[p] = [page[p] EXCEPT !.state = "disconnected", !.socket = None,
                                       !.timer = timer, !.over = over]
        BY <1>0, <3>1, Becoming
      <4> QED BY <1>0, <4>1 DEF PageType
    <3> QED BY <1>6, <3>1 DEF Loses, Quits, Dropped
  <2>2. q # p => page'[q] = page[q]
    BY <1>0, <1>6 DEF Loses, Quits, Becomes
  <2>3. q # p => down'[page[q].socket] = down[page[q].socket]
    BY <1>0, <1>4, <1>6, <2>2 DEF Loses, Quits, Unwired, Wires, OneConnection, Holds
  <2> QED BY <1>0, <1>3, <1>4, <2>1, <2>2, <2>3
<1>7. CASE Receives(p)
  <2> DEFINE s == page[p].socket
             m == Head(down[s])
  <2>1. s \in Sockets /\ down[s] # <<>> /\ Hears(p, m) /\ m \in ToClient /\ down[s] \in Seq(ToClient)
        /\ down' = [down EXCEPT ![s] = IF page'[p].socket = s THEN Tail(@) ELSE <<>>]
    BY <1>0, <1>7 DEF Receives, Wires
  <2>2. \E new : page' = [page EXCEPT ![p] = new]
    BY <1>0, <2>1 DEF Hears, HearsHello, Becomes, Confronted, Raises, Lands
  <2>3. q # p => page'[q] = page[q]
    BY <1>0, <2>2
  <2>4. q # p => down'[page[q].socket] = down[page[q].socket]
    BY <1>0, <1>4, <2>1, <2>3 DEF Wires, OneConnection
  <2>5. /\ page'[p].shown = IF m[1] = "show" THEN m[2] ELSE page[p].shown
        /\ page'[p].socket \in {None, s}
    BY <1>0, <2>1, HearsShows
  <2>8. CASE q = p
    <3>1. page'[p].socket = s /\ down'[s] = Tail(down[s])
      BY <1>0, <1>4, <2>1, <2>5, <2>8 DEF Wires
    <3>2. Leads(down[s], page[p].shown, viewing[s])
      BY <1>0, <1>4, <2>8, <3>1 DEF Agree
    <3> QED BY <1>1, <2>1, <2>5, <2>8, <3>1, <3>2, HeadLeads
  <2> QED BY <1>3, <1>4, <2>3, <2>4, <2>8
<1>8. CASE \/ PersonAsks(p) \/ PersonChooses(p) \/ HandsOver(p) \/ HandoffEnds(p)
           \/ \E answer \in Answers : PersonAnswers(p, answer) \/ PersonPermits(p, answer)
  <2>1. down' = down
    BY <1>8 DEF PersonAsks, PersonChooses, HandsOver, HandoffEnds, PersonAnswers, PersonPermits
  <2>2. page' = page \/ \E r : Becomes(p, r) /\ r.socket = page[p].socket /\ r.shown = page[p].shown
    <3> DEFINE Same(r) == r.socket = page[p].socket /\ r.shown = page[p].shown
    <3>1. CASE PersonAsks(p)
      BY <3>1 DEF PersonAsks
    <3>2. CASE PersonChooses(p)
      <4> DEFINE r == [page[p] EXCEPT !.dialog = Nothing]
      <4>1. Becomes(p, r)
        BY <3>2 DEF PersonChooses
      <4>2. Same(r)
        BY <1>0 DEF PageType
      <4> HIDE DEF r, Same
      <4> QED BY <4>1, <4>2 DEF Same
    <3>3. CASE HandsOver(p)
      <4> DEFINE r == [page[p] EXCEPT !.handing = TRUE, !.dialog = Nothing]
      <4>1. Becomes(p, r)
        BY <3>3 DEF HandsOver
      <4>2. Same(r)
        BY <1>0 DEF PageType
      <4> HIDE DEF r, Same
      <4> QED BY <4>1, <4>2 DEF Same
    <3>4. CASE HandoffEnds(p)
      <4> DEFINE over == page[p].state = "disconnected"
                 r == [page[p] EXCEPT !.handing = FALSE, !.over = over]
      <4>1. Becomes(p, r)
        BY <3>4 DEF HandoffEnds
      <4> HIDE DEF over
      <4>2. Same(r)
        BY <1>0 DEF PageType
      <4> HIDE DEF r, Same
      <4> QED BY <4>1, <4>2 DEF Same
    <3>5. CASE \E answer \in Answers : PersonAnswers(p, answer)
      <4>1. Becomes(p, Answered(p))
        BY <3>5 DEF PersonAnswers
      <4>2. Same(Answered(p))
        BY <1>0 DEF PageType, Answered
      <4> HIDE DEF Same
      <4> QED BY <4>1, <4>2 DEF Same
    <3>6. CASE \E answer \in Answers : PersonPermits(p, answer)
      <4> DEFINE r == [page[p] EXCEPT !.card = 0]
      <4>1. Becomes(p, r)
        BY <3>6 DEF PersonPermits
      <4>2. Same(r)
        BY <1>0 DEF PageType
      <4> HIDE DEF r, Same
      <4> QED BY <4>1, <4>2 DEF Same
    <3> QED BY <1>8, <3>1, <3>2, <3>3, <3>4, <3>5, <3>6
  <2>3. page'[q].socket = page[q].socket /\ page'[q].shown = page[q].shown
    BY <1>0, <2>2, Becoming
  <2> QED BY <1>3, <1>4, <2>1, <2>3
<1> QED BY <1>5, <1>6, <1>7, <1>8 DEF PageStep

LEMMA NextAInv == AInv /\ [ClientNext]_allVars => AInv'
<1> SUFFICES ASSUME AInv, [ClientNext]_allVars PROVE AInv'
  OBVIOUS
<1>1. [Next]_vars /\ CInv'
  BY StepServesGate, NextCInv DEF AInv
<1>2. CASE UNCHANGED allVars
  BY <1>1, <1>2 DEF allVars, vars, clientVars, AInv, Unseen, Agree
<1>3. CASE ClientNext
  BY <1>1, <1>3, AcceptsAgrees, StartsAgree, HandlesAgrees, OthersAgree, PageStepAgrees
     DEF ClientNext, CoreStep, AInv
<1> QED BY <1>2, <1>3

\* No message names its conversation, and yet both ends agree on it: what Core
\* takes a client's messages for is what the client shows or is being told to
\* show, for any number of clients, conversations and failures (show, onSnapshot).
THEOREM BothEndsAgree == ClientSpec => []ClientInv
<1>1. ClientInit => AInv
  <2>1. ASSUME ClientInit PROVE Unseen /\ Agree
    BY <2>1 DEF ClientInit, Init, Unseen, Agree, NoTask
  <2> QED BY <2>1, InitCInv DEF AInv
<1>2. AInv => ClientInv
  BY TypesAreClientTypes DEF AInv, CInv, IInv, ClientInv
<1> QED BY <1>1, <1>2, NextAInv, PTL DEF ClientSpec

-----------------------------------------------------------------------------
(* What is asked of a person is before them, or answered.                  *)

LEMMA ToSetAppend ==
  ASSUME NEW S, NEW q \in Seq(S), NEW x \in S
  PROVE  ToSet(Append(q, x)) = ToSet(q) \cup {x}
<1> DEFINE r == Append(q, x)
<1>1. /\ DOMAIN q = 1 .. Len(q) /\ DOMAIN r = 1 .. (Len(q) + 1) /\ Len(q) \in Nat
      /\ \A i \in 1 .. Len(q) : r[i] = q[i]
      /\ r[Len(q) + 1] = x
  OBVIOUS
<1>2. \A i \in DOMAIN r : i \in DOMAIN q \/ i = Len(q) + 1
  BY <1>1
<1>3. DOMAIN q \subseteq DOMAIN r /\ Len(q) + 1 \in DOMAIN r
  BY <1>1
<1> HIDE DEF r
<1> QED BY <1>1, <1>2, <1>3 DEF ToSet

LEMMA ToSetHead ==
  ASSUME NEW S, NEW q \in Seq(S), q # <<>>
  PROVE  ToSet(q) = {Head(q)} \cup ToSet(Tail(q))
<1> DEFINE r == Tail(q)
<1>1. /\ DOMAIN q = 1 .. Len(q) /\ Len(q) \in Nat /\ DOMAIN r = 1 .. (Len(q) - 1) /\ Head(q) = q[1]
      /\ Len(q) >= 1 /\ \A i \in 1 .. (Len(q) - 1) : r[i] = q[i + 1]
  OBVIOUS
<1>2. \A i \in DOMAIN q : i = 1 \/ (i - 1 \in DOMAIN r /\ r[i - 1] = q[i])
  BY <1>1
<1>3. 1 \in DOMAIN q /\ \A i \in DOMAIN r : i + 1 \in DOMAIN q /\ r[i] = q[i + 1]
  BY <1>1
<1> HIDE DEF r
<1> QED BY <1>1, <1>2, <1>3 DEF ToSet

LEMMA ToSetEmpty == ToSet(<<>>) = {}
BY DEF ToSet

\* The request that a message to a page puts on its card, and the one on it
\* after all of these messages.
Mark(m) == IF m[1] = "show" THEN m[3] ELSE m[2]
Marks(messages, at, n) ==
  LET marks == {i \in DOMAIN messages : messages[i][1] \in {"show", "tool"}} IN
  IF marks = {} THEN at = n
  ELSE \E i \in marks : Mark(messages[i]) = n /\ \A j \in marks : j <= i

LEMMA MarkMarks ==
  ASSUME NEW q \in Seq(ToClient), NEW m \in ToClient, m[1] \in {"show", "tool"}, NEW at
  PROVE  Marks(Append(q, m), at, Mark(m))
<1> DEFINE r == Append(q, m)
<1>1. /\ DOMAIN r = 1 .. (Len(q) + 1) /\ Len(q) \in Nat /\ r[Len(q) + 1] = m
  OBVIOUS
<1>2. /\ Len(q) + 1 \in DOMAIN r /\ \A j \in DOMAIN r : j <= Len(q) + 1
  BY <1>1
<1> HIDE DEF r
<1> QED BY <1>1, <1>2 DEF Marks

LEMMA OtherMarks ==
  ASSUME NEW q \in Seq(ToClient), NEW m \in ToClient, m[1] \notin {"show", "tool"}, NEW at, NEW n,
         Marks(q, at, n)
  PROVE  Marks(Append(q, m), at, n)
<1> DEFINE r == Append(q, m)
           old == {i \in DOMAIN q : q[i][1] \in {"show", "tool"}}
           marks == {i \in DOMAIN r : r[i][1] \in {"show", "tool"}}
<1>1. /\ DOMAIN q = 1 .. Len(q) /\ DOMAIN r = 1 .. (Len(q) + 1) /\ Len(q) \in Nat
      /\ \A i \in 1 .. Len(q) : r[i] = q[i]
      /\ r[Len(q) + 1] = m
  OBVIOUS
<1>2. marks = old
  BY <1>1
<1>3. \A i \in old : r[i] = q[i]
  BY <1>1
<1> QED BY <1>2, <1>3 DEF Marks

LEMMA HeadMarks ==
  ASSUME NEW q \in Seq(ToClient), q # <<>>, NEW at, NEW n, Marks(q, at, n)
  PROVE  Marks(Tail(q), IF Head(q)[1] \in {"show", "tool"} THEN Mark(Head(q)) ELSE at, n)
<1> DEFINE r == Tail(q)
           old == {i \in DOMAIN q : q[i][1] \in {"show", "tool"}}
           marks == {i \in DOMAIN r : r[i][1] \in {"show", "tool"}}
<1>1. /\ DOMAIN q = 1 .. Len(q) /\ Len(q) \in Nat /\ DOMAIN r = 1 .. (Len(q) - 1) /\ Head(q) = q[1]
      /\ Len(q) >= 1 /\ \A i \in 1 .. (Len(q) - 1) : r[i] = q[i + 1]
  OBVIOUS
<1>2. \A i \in marks : i + 1 \in old /\ r[i] = q[i + 1] /\ i \in Nat
  BY <1>1
<1>3. \A i \in old : i = 1 \/ (i - 1 \in marks /\ r[i - 1] = q[i])
  BY <1>1
<1>4. \A i \in old : i \in Nat /\ i >= 1
  BY <1>1
<1>5. CASE marks = {}
  <2>1. old = {} \/ old = {1}
    BY <1>3, <1>5
  <2>2. 1 \in old <=> Head(q)[1] \in {"show", "tool"}
    BY <1>1
  <2> QED BY <1>1, <1>5, <2>1, <2>2 DEF Marks
<1>6. CASE marks # {}
  <2>1. old # {}
    BY <1>2, <1>6
  <2>2. PICK i \in old : Mark(q[i]) = n /\ \A j \in old : j <= i
    BY <2>1 DEF Marks
  <2>3. i # 1
    BY <1>2, <1>6, <2>2
  <2>4. i - 1 \in marks /\ Mark(r[i - 1]) = n /\ \A j \in marks : j <= i - 1
    BY <1>2, <1>3, <1>4, <2>2, <2>3
  <2> QED BY <1>6, <2>4 DEF Marks
<1> QED BY <1>5, <1>6

\* If the last of these messages that names a conversation names c, a number
\* that they lead to is on the card, or told by one of them of c or of nothing.
LEMMA MarksAreTold ==
  ASSUME NEW q \in Seq(ToClient), NEW shown, NEW c, Leads(q, shown, c), NEW at, NEW n, Marks(q, at, n)
  PROVE  at = n \/ {<<"tool", n>>, <<"show", c, n>>} \cap ToSet(q) # {}
<1> DEFINE marks == {i \in DOMAIN q : q[i][1] \in {"show", "tool"}}
           shows == {i \in DOMAIN q : q[i][1] = "show"}
<1>1. CASE marks = {}
  BY <1>1 DEF Marks
<1>2. CASE marks # {}
  <2>1. PICK i \in marks : Mark(q[i]) = n /\ \A j \in marks : j <= i
    BY <1>2 DEF Marks
  <2>2. q[i] \in ToClient /\ q[i] \in ToSet(q) /\ i \in DOMAIN q
    BY <2>1 DEF ToSet
  <2>3. CASE q[i][1] = "tool"
    <3>1. q[i] = <<"tool", n>>
      BY <2>1, <2>2, <2>3 DEF ToClient, Mark
    <3> QED BY <2>2, <3>1
  <2>4. CASE q[i][1] = "show"
    <3>1. PICK j \in shows : q[j][2] = c /\ \A k \in shows : k <= j
      BY <2>2, <2>4 DEF Leads
    <3>2. i = j
      <4>1. i <= j /\ j <= i /\ i \in Nat /\ j \in Nat
        BY <2>1, <2>2, <2>4, <3>1
      <4> QED BY <4>1
    <3>3. q[i] = <<"show", c, n>>
      BY <2>1, <2>2, <2>4, <3>1, <3>2 DEF ToClient, Mark
    <3> QED BY <2>2, <3>3
  <2> QED BY <2>1, <2>3, <2>4
<1> QED BY <1>1, <1>2

\* Appending leaves the first message first.
LEMMA HeadStays ==
  ASSUME NEW S, NEW q \in Seq(S), q # <<>>, NEW x \in S
  PROVE  /\ Append(q, x) # <<>> /\ Head(Append(q, x)) = Head(q)
         /\ ToSet(Tail(Append(q, x))) = ToSet(Tail(q)) \cup {x}
<1> DEFINE r == Append(q, x)
<1>1. /\ Len(q) \in Nat /\ Len(q) >= 1 /\ r \in Seq(S) /\ Len(r) = Len(q) + 1 /\ r # <<>>
      /\ \A i \in 1 .. Len(q) : r[i] = q[i]
      /\ r[Len(q) + 1] = x
  OBVIOUS
<1>2. /\ DOMAIN Tail(q) = 1 .. (Len(q) - 1) /\ DOMAIN Tail(r) = 1 .. Len(q)
      /\ \A i \in 1 .. (Len(q) - 1) : Tail(q)[i] = q[i + 1]
      /\ \A i \in 1 .. Len(q) : Tail(r)[i] = r[i + 1]
      /\ Head(q) = q[1] /\ Head(r) = r[1]
  BY <1>1
<1>3. Head(r) = Head(q)
  BY <1>1, <1>2
<1>4. \A i \in 1 .. Len(q) : (i \in 1 .. (Len(q) - 1) /\ Tail(r)[i] = Tail(q)[i]) \/ (i = Len(q) /\ Tail(r)[i] = x)
  BY <1>1, <1>2
<1>5. \A i \in 1 .. (Len(q) - 1) : i \in 1 .. Len(q) /\ Tail(r)[i] = Tail(q)[i]
  BY <1>1, <1>2
<1>6. Len(q) \in 1 .. Len(q) /\ Tail(r)[Len(q)] = x
  BY <1>1, <1>2
<1>7. ToSet(Tail(r)) = ToSet(Tail(q)) \cup {x}
  <2>1. /\ ToSet(Tail(r)) = {Tail(r)[i] : i \in 1 .. Len(q)}
        /\ ToSet(Tail(q)) = {Tail(q)[i] : i \in 1 .. (Len(q) - 1)}
    BY <1>2 DEF ToSet
  <2> HIDE DEF r
  <2> QED BY <1>4, <1>5, <1>6, <2>1, Zenon
<1> QED BY <1>1, <1>3, <1>7

\* What is sent is added at the end.
LEMMA SendAppends ==
  ASSUME NEW q \in Seq(ToClient), NEW m \in ToClient
  PROVE  /\ ToSet(Append(q, m)) = ToSet(q) \cup {m}
         /\ Append(q, m) # <<>>
         /\ q # <<>> => Head(Append(q, m)) = Head(q) /\ ToSet(Tail(Append(q, m))) = ToSet(Tail(q)) \cup {m}
<1>1. ToSet(Append(q, m)) = ToSet(q) \cup {m}
  BY ToSetAppend
<1>2. Append(q, m) # <<>>
  <2>1. Append(q, m) \in Seq(ToClient) /\ Len(Append(q, m)) = Len(q) + 1 /\ Len(q) \in Nat
    OBVIOUS
  <2> QED BY <2>1
<1>3. q # <<>> => Head(Append(q, m)) = Head(q) /\ ToSet(Tail(Append(q, m))) = ToSet(Tail(q)) \cup {m}
  BY HeadStays
<1> QED BY <1>1, <1>2, <1>3

\* Whoever asked for a conversation had connected.
AskersCame == \A a \in Starts : start[a].who \in Sockets => conn[start[a].who] # "new"

\* A hello is the first that a client hears over a socket, and before it says
\* anything itself; nobody who was not accepted is on Core's side of the wire.
Plain(messages) == \A m \in ToSet(messages) : m[1] # "hello"
Greeted(messages, said) ==
  messages # <<>> /\ Head(messages)[1] = "hello" /\ Plain(Tail(messages)) /\ said = <<>>
HelloComesFirst ==
  \A p \in Pages : LET s == page[p].socket IN
    s \in Sockets /\ conn[s] # "new" =>
      IF page[p].state = "connecting" THEN Greeted(down[s], away[s]) ELSE Plain(down[s])
FreshIsUnheard == \A s \in Sockets : conn[s] = "new" => away[s] = <<>>

\* A terminal has nothing to ask before it is connected.
TerminalsStartBare ==
  \A p \in Pages : page[p].kind = "tui" /\ page[p].state = "connecting" => page[p].dialog = Nothing

\* A request is one of a conversation that lives and is watched.
RequestsAreWatched ==
  \A c \in Conversations : pending[c] # 0 => c \in live /\ \E s \in Sockets : viewing[s] = c

\* The two parts of NothingIsForgotten, the second with the order of messages.
Answering(q, messages) == \E answer \in Answers : <<"trust", q, answer>> \in ToSet(messages)
Permitting(n, messages) == \E answer \in Answers : <<"tool", n, answer>> \in ToSet(messages)
QuestionsArePut ==
  \A p \in Pages : LET s == page[p].socket IN
    s \in Sockets /\ conn[s] = "open" /\ page[p].kind = "tui" =>
      \A q \in byId : start[q].who = s =>
        page[p].dialog = <<"trust", q>> \/ <<"trust", q>> \in ToSet(down[s]) \/ Answering(q, away[s])
RequestsAreShown ==
  \A p \in Pages : LET s == page[p].socket IN
    s \in Sockets /\ conn[s] = "open" /\ page[p].kind = "web" /\ viewing[s] # None =>
      LET n == pending[viewing[s]] IN
      n # 0 => Marks(down[s], page[p].card, n) \/ Permitting(n, away[s])

FInv == /\ AInv /\ AskersCame /\ HelloComesFirst /\ FreshIsUnheard /\ TerminalsStartBare
        /\ RequestsAreWatched /\ QuestionsArePut /\ RequestsAreShown

LEMMA FInvRemembers == FInv => NothingIsForgotten
<1> SUFFICES ASSUME FInv, NEW p \in Pages, page[p].socket \in Sockets, conn[page[p].socket] = "open"
             PROVE  LET s == page[p].socket IN
                    /\ page[p].kind = "tui" =>
                         \A q \in byId : start[q].who = s =>
                           \/ page[p].dialog = <<"trust", q>> \/ <<"trust", q>> \in ToSet(down[s])
                           \/ \E answer \in Answers : <<"trust", q, answer>> \in ToSet(away[s])
                    /\ page[p].kind = "web" /\ viewing[s] # None =>
                         LET n == pending[viewing[s]] IN
                         n # 0 =>
                           \/ page[p].card = n
                           \/ {<<"tool", n>>, <<"show", viewing[s], n>>} \cap ToSet(down[s]) # {}
                           \/ \E answer \in Answers : <<"tool", n, answer>> \in ToSet(away[s])
  BY DEF NothingIsForgotten
<1> DEFINE s == page[p].socket
<1>1. CASE page[p].kind = "tui"
  BY <1>1 DEF FInv, QuestionsArePut, Answering
<1>2. ASSUME page[p].kind = "web", viewing[s] # None, pending[viewing[s]] # 0
      PROVE  LET n == pending[viewing[s]] IN
             \/ page[p].card = n
             \/ {<<"tool", n>>, <<"show", viewing[s], n>>} \cap ToSet(down[s]) # {}
             \/ \E answer \in Answers : <<"tool", n, answer>> \in ToSet(away[s])
  <2> DEFINE n == pending[viewing[s]]
  <2>1. Leads(down[s], page[p].shown, viewing[s]) /\ down[s] \in Seq(ToClient)
    BY <1>2 DEF FInv, AInv, Agree, CInv, Wires
  <2>2. Marks(down[s], page[p].card, n) \/ Permitting(n, away[s])
    BY <1>2 DEF FInv, RequestsAreShown
  <2> QED BY <2>1, <2>2, MarksAreTold DEF Permitting
<1> QED BY <1>1, <1>2

\* A question of the gate was there before, of the same client, or was asked
\* just now by the one the start is for.
LEMMA EnsuredAsks ==
  ASSUME IInv, NEW a \in Starts, NEW s \in Sockets, NEW d \in Dirs,
         start[a].pc \in {"new", "find"}, Ensured(a, s, d), NEW q \in byId'
  PROVE  \/ q = a /\ start'[a].on = a /\ start'[a].who = s
         \/ q \in byId /\ start'[q].who = start[q].who
<1>1. q \in byId => q # a /\ q \in Starts
  BY DEF IInv, WaitersAreHeld, TypeOK
<1>2. q \in byId => start'[q] = start[q]
  BY <1>1 DEF Ensured, IInv, TypeOK
<1>3. CASE Passes(d)
  BY <1>2, <1>3 DEF Ensured
<1>4. CASE ~Passes(d) /\ AsksFor(d)
  <2>1. start'[a] = [NewStart EXCEPT !.pc = "wait", !.who = s, !.dir = d, !.on = a]
    BY <1>4 DEF Ensured, IInv, TypeOK
  <2>2. start'[a].on = a /\ start'[a].who = s
    BY <2>1 DEF NewStart
  <2>3. q = a \/ q \in byId
    BY <1>4 DEF Ensured
  <2> QED BY <1>2, <2>2, <2>3
<1>5. CASE ~Passes(d) /\ ~AsksFor(d)
  BY <1>2, <1>5 DEF Ensured, AsksFor, IInv, MapsAgree
<1> QED BY <1>3, <1>4, <1>5

LEMMA FinishedAsks ==
  ASSUME IInv, NEW qs, NEW pc, NEW trust, Finished(qs, pc, trust)
  PROVE  /\ \A a \in Starts : start'[a].who = start[a].who
         /\ byId' \subseteq byId
<1>1. ASSUME NEW a \in Starts PROVE [start[a] EXCEPT !.pc = pc, !.trust = trust].who = start[a].who
  BY DEF IInv, TypeOK, StartType
<1> QED BY <1>1 DEF Finished, Released

LEMMA NextAskersCame == ASSUME IInv, AskersCame, [Next]_vars PROVE AskersCame'
<1>0. TypeOK /\ \A s \in Sockets : conn'[s] = "new" => conn[s] = "new"
  BY SocketsAge DEF IInv
<1>1. ASSUME \A a \in Starts : start'[a].who = start[a].who PROVE AskersCame'
  BY <1>0, <1>1 DEF AskersCame
<1>2. ASSUME NEW a \in Starts, NEW s \in Sockets, conn'[s] # "new",
             start'[a].who = s, \A b \in Starts \ {a} : start'[b] = start[b]
      PROVE  AskersCame'
  BY <1>0, <1>2 DEF AskersCame
<1>3. ASSUME NEW a \in Starts, NEW s \in Sockets, NEW d \in Dirs, conn'[s] # "new", Ensured(a, s, d)
      PROVE  AskersCame'
  <2>1. \E r : r.who = s /\ start' = [start EXCEPT ![a] = r]
    <3>1. CASE Passes(d)
      <4> DEFINE trust == IF d \in resources THEN decision[d] ELSE "unset"
                 r == [NewStart EXCEPT !.pc = "launched", !.who = s, !.dir = d, !.trust = trust]
      <4>1. start' = [start EXCEPT ![a] = r] /\ r.who = s
        BY <1>3, <3>1 DEF Ensured, NewStart
      <4> HIDE DEF r
      <4> QED BY <4>1
    <3>2. CASE ~Passes(d)
      <4> DEFINE q == IF AsksFor(d) THEN a ELSE byDirectory[d]
                 r == [NewStart EXCEPT !.pc = "wait", !.who = s, !.dir = d, !.on = q]
      <4>1. start' = [start EXCEPT ![a] = r] /\ r.who = s
        BY <1>3, <3>2 DEF Ensured, NewStart
      <4> HIDE DEF r
      <4> QED BY <4>1
    <3> QED BY <3>1, <3>2
  <2> QED BY <1>0, <1>2, <1>3, <2>1 DEF TypeOK
<1>4. ASSUME NEW s \in Sockets, Connect(s) \/ Leave(s) PROVE AskersCame'
  BY <1>1, <1>4, FinishedAsks DEF Connect, Leave
<1>5. ASSUME NEW a \in Starts, Found(a) PROVE AskersCame'
  BY <1>0, <1>3, <1>5 DEF Found, IInv, FindersAreNamed, AskersCame
<1>6. ASSUME NEW a \in Starts, NotFound(a) PROVE AskersCame'
  <2>1. [start[a] EXCEPT !.pc = "refused"].who = start[a].who
    BY <1>0 DEF TypeOK, StartType
  <2> QED BY <1>0, <1>1, <1>6, <2>1 DEF NotFound, TypeOK
<1>7. ASSUME NEW a \in Starts, NEW s \in Sockets, NEW d \in Dirs, Arrive(a, s, d) \/ Begin(a, s, d)
      PROVE  AskersCame'
  <2>1. [NewStart EXCEPT !.pc = "find", !.who = s, !.dir = d].who = s
    BY DEF NewStart
  <2>2. conn'[s] = "open"
    BY <1>0, <1>7 DEF Arrive, Begin, TypeOK
  <2>3. start'[a].who = s /\ \A b \in Starts \ {a} : start'[b] = start[b]
    BY <1>0, <1>7, <2>1 DEF Arrive, Begin, TypeOK
  <2> QED BY <1>2, <2>2, <2>3
<1>8. ASSUME NEW a \in Starts, NEW s \in Sockets, NEW d \in Dirs, Create(a, s, d) PROVE AskersCame'
  BY <1>3, <1>8 DEF Create
<1>9. CASE Stop
  <2>1. ASSUME NEW a \in Starts PROVE [start[a] EXCEPT !.pc = "refused"].who = start[a].who
    BY <1>0 DEF TypeOK, StartType
  <2> QED BY <1>1, <1>9, <2>1 DEF Stop
<1>10. ASSUME NEW s \in Sockets, NEW q \in Starts, NEW answer \in Answers, Respond(s, q, answer)
       PROVE  AskersCame'
  BY <1>1, <1>10, FinishedAsks DEF Respond
<1>11. CASE UNCHANGED start
  BY <1>1, <1>11
<1> QED BY <1>4, <1>5, <1>6, <1>7, <1>8, <1>9, <1>10, <1>11
     DEF Next, vars, ResourcesChange, DecidedElsewhere

\* What a step of Core may do at its end of the wire of a client.
Delivers(s) ==
  \/ /\ conn[s] # "new"
     /\ down'[s] = down[s] \/ \E m \in ToClient : m[1] # "hello" /\ down'[s] = Append(down[s], m)
     /\ away[s] = <<>> => away'[s] = <<>>
  \/ /\ conn[s] = "new" /\ down'[s] # <<>> /\ Head(down'[s])[1] = "hello" /\ Plain(Tail(down'[s]))
     /\ away'[s] = away[s]
PutsOn(s) ==
  \A q \in byId' : start'[q].who = s =>
    \/ <<"trust", q>> \in ToSet(down'[s])
    \/ conn[s] = "open" /\ q \in byId /\ start[q].who = s
       /\ (Answering(q, away[s]) => Answering(q, away'[s]))
ShowsOn(s) ==
  viewing'[s] # None =>
    LET n == pending'[viewing'[s]] IN
    n # 0 =>
      \/ \A at : Marks(down'[s], at, n)
      \/ /\ conn[s] = "open" /\ viewing[s] # None /\ pending[viewing[s]] = n
         /\ Permitting(n, away[s]) => Permitting(n, away'[s])
         /\ \/ down'[s] = down[s]
            \/ \E m \in ToClient : m[1] \notin {"show", "tool"} /\ down'[s] = Append(down[s], m)

LEMMA CoreRemembers ==
  ASSUME FInv, AInv', [Next]_vars, page' = page, RequestsAreWatched', FreshIsUnheard',
         \A p \in Pages : LET s == page[p].socket IN
           s \in Sockets =>
             /\ conn'[s] # "new" => Delivers(s)
             /\ conn'[s] = "open" => PutsOn(s) /\ ShowsOn(s)
  PROVE  FInv'
<1>1. AskersCame' /\ TerminalsStartBare'
  BY NextAskersCame DEF FInv, AInv, CInv, TerminalsStartBare
<1>2. HelloComesFirst'
  <2> SUFFICES ASSUME NEW p \in Pages, page[p].socket \in Sockets, conn'[page[p].socket] # "new"
               PROVE  IF page[p].state = "connecting" THEN Greeted(down'[page[p].socket], away'[page[p].socket]) ELSE Plain(down'[page[p].socket])
    BY DEF HelloComesFirst
  <2> DEFINE s == page[p].socket
  <2>1. Delivers(s) /\ down[s] \in Seq(ToClient) /\ page[p] \in PageType /\ None \notin Sockets
    BY GateConstants DEF FInv, AInv, CInv, Wires
  <2>2. CASE conn[s] # "new"
    <3>1. IF page[p].state = "connecting" THEN Greeted(down[s], away[s]) ELSE Plain(down[s])
      BY <2>2 DEF FInv, HelloComesFirst
    <3>2. CASE down'[s] = down[s]
      BY <2>1, <2>2, <3>1, <3>2 DEF Delivers, Greeted, Plain
    <3>3. ASSUME NEW m \in ToClient, m[1] # "hello", down'[s] = Append(down[s], m)
          PROVE  IF page[p].state = "connecting" THEN Greeted(down'[s], away'[s]) ELSE Plain(down'[s])
      <4> DEFINE q == down[s]
      <4>1. /\ ToSet(Append(q, m)) = ToSet(q) \cup {m}
            /\ Append(q, m) # <<>>
            /\ q # <<>> => Head(Append(q, m)) = Head(q) /\ ToSet(Tail(Append(q, m))) = ToSet(Tail(q)) \cup {m}
        BY <2>1, SendAppends
      <4>2. CASE page[p].state = "connecting"
        BY <2>1, <2>2, <3>1, <3>3, <4>1, <4>2 DEF Delivers, Greeted, Plain
      <4>3. CASE page[p].state # "connecting"
        BY <3>1, <3>3, <4>1, <4>3 DEF Plain
      <4> QED BY <4>2, <4>3
    <3> QED BY <2>1, <2>2, <3>2, <3>3 DEF Delivers
  <2>3. CASE conn[s] = "new"
    <3>1. page[p].state = "connecting"
      BY <2>1, <2>3 DEF FInv, AInv, CInv, OneConnection, PageForms, PageType
    <3>2. away[s] = <<>>
      BY <2>3 DEF FInv, FreshIsUnheard
    <3> QED BY <2>1, <2>3, <3>1, <3>2 DEF Delivers, Greeted
  <2> QED BY <2>2, <2>3
<1>3. QuestionsArePut'
  <2> SUFFICES ASSUME NEW p \in Pages, page[p].socket \in Sockets, conn'[page[p].socket] = "open",
                      page[p].kind = "tui", NEW q \in byId', start'[q].who = page[p].socket
               PROVE  LET s == page[p].socket IN
                      page[p].dialog = <<"trust", q>> \/ <<"trust", q>> \in ToSet(down'[s]) \/ Answering(q, away'[s])
    BY DEF QuestionsArePut
  <2> DEFINE s == page[p].socket
  <2>1. PutsOn(s) /\ Delivers(s) /\ down[s] \in Seq(ToClient)
    BY DEF FInv, AInv, CInv, Wires
  <2>2. CASE conn[s] = "open" /\ q \in byId /\ start[q].who = s
             /\ (Answering(q, away[s]) => Answering(q, away'[s]))
    <3>1. page[p].dialog = <<"trust", q>> \/ <<"trust", q>> \in ToSet(down[s]) \/ Answering(q, away[s])
      BY <2>2 DEF FInv, QuestionsArePut
    <3>2. ToSet(down[s]) \subseteq ToSet(down'[s])
      BY <2>1, <2>2, SendAppends DEF Delivers
    <3> QED BY <2>2, <3>1, <3>2
  <2> QED BY <2>1, <2>2 DEF PutsOn
<1>4. RequestsAreShown'
  <2> SUFFICES ASSUME NEW p \in Pages, page[p].socket \in Sockets, conn'[page[p].socket] = "open",
                      page[p].kind = "web", viewing'[page[p].socket] # None,
                      pending'[viewing'[page[p].socket]] # 0
               PROVE  LET s == page[p].socket
                          n == pending'[viewing'[s]] IN
                      Marks(down'[s], page[p].card, n) \/ Permitting(n, away'[s])
    BY DEF RequestsAreShown
  <2> DEFINE s == page[p].socket
             n == pending'[viewing'[s]]
  <2>1. ShowsOn(s) /\ down[s] \in Seq(ToClient)
    BY DEF FInv, AInv, CInv, Wires
  <2>2. CASE \A at : Marks(down'[s], at, n)
    BY <2>2
  <2>3. CASE /\ conn[s] = "open" /\ viewing[s] # None /\ pending[viewing[s]] = n
             /\ Permitting(n, away[s]) => Permitting(n, away'[s])
             /\ \/ down'[s] = down[s]
                \/ \E m \in ToClient : m[1] \notin {"show", "tool"} /\ down'[s] = Append(down[s], m)
    <3>1. Marks(down[s], page[p].card, n) \/ Permitting(n, away[s])
      BY <2>3 DEF FInv, RequestsAreShown
    <3> QED BY <2>1, <2>3, <3>1, OtherMarks
  <2> QED BY <2>1, <2>2, <2>3 DEF ShowsOn
<1> QED BY <1>1, <1>2, <1>3, <1>4 DEF FInv

\* The parts of a step that leave the wire of an open socket alone.
LEMMA QuietDelivers ==
  ASSUME NEW s \in Sockets, conn[s] # "new", down'[s] = down[s], away[s] = <<>> => away'[s] = <<>>
  PROVE  Delivers(s)
BY DEF Delivers

LEMMA QuietPuts ==
  ASSUME NEW s \in Sockets, conn[s] = "open", byId' \subseteq byId,
         \A q \in byId' : start'[q].who = start[q].who,
         \A q \in byId' : Answering(q, away[s]) => Answering(q, away'[s])
  PROVE  PutsOn(s)
BY DEF PutsOn

LEMMA QuietShows ==
  ASSUME NEW s \in Sockets, conn[s] = "open", viewing'[s] = viewing[s],
         viewing[s] # None => pending'[viewing[s]] \in {0, pending[viewing[s]]},
         \A n : Permitting(n, away[s]) => Permitting(n, away'[s]),
         \/ down'[s] = down[s]
         \/ \E m \in ToClient : m[1] \notin {"show", "tool"} /\ down'[s] = Append(down[s], m)
  PROVE  ShowsOn(s)
BY DEF ShowsOn

\* What is sent to whoever listens.
LEMMA SentArrives ==
  ASSUME FInv, NEW ss, NEW m \in ToClient, m[1] # "hello", NEW p \in Pages, page[p].socket \in Sockets,
         conn[page[p].socket] = "open", down' = Sent(ss, m),
         away[page[p].socket] = <<>> => away'[page[p].socket] = <<>>
  PROVE  LET s == page[p].socket IN
         /\ Delivers(s)
         /\ down'[s] = IF s \in ss THEN Append(down[s], m) ELSE down[s]
         /\ s \in ss => m \in ToSet(down'[s])
<1> DEFINE s == page[p].socket
<1>1. Heard(s) /\ down[s] \in Seq(ToClient)
  BY DEF Heard, Holds, FInv, AInv, CInv, Wires
<1>2. down'[s] = IF s \in ss THEN Append(down[s], m) ELSE down[s]
  BY <1>1 DEF Sent
<1>3. s \in ss => m \in ToSet(down'[s])
  BY <1>1, <1>2, ToSetAppend
<1> QED BY <1>2, <1>3 DEF Delivers

LEMMA ShowsRemembers ==
  ASSUME FInv, NEW ss, NEW c \in Conversations, Shows(ss, c), NEW p \in Pages,
         page[p].socket \in Sockets, conn[page[p].socket] = "open",
         away[page[p].socket] = <<>> => away'[page[p].socket] = <<>>,
         \A n : Permitting(n, away[page[p].socket]) => Permitting(n, away'[page[p].socket])
  PROVE  Delivers(page[p].socket) /\ ShowsOn(page[p].socket)
<1> DEFINE s == page[p].socket
           m == <<"show", c, pending[c]>>
<1>0. CoreTypes /\ down[s] \in Seq(ToClient)
  BY DEF FInv, AInv, CInv, Wires
<1>1. m \in ToClient /\ m[1] = "show" /\ Mark(m) = pending[c] /\ down' = Sent(ss, m)
  BY <1>0, DownMessages DEF CoreTypes, Mark, Shows
<1>2. /\ viewing'[s] = IF s \in ss THEN c ELSE viewing[s]
      /\ pending'[c] = pending[c]
      /\ s \notin ss /\ viewing[s] # None => pending'[viewing[s]] = pending[viewing[s]]
  BY <1>0 DEF Shows, CoreTypes
<1> HIDE DEF m
<1>3. /\ Delivers(s)
      /\ down'[s] = IF s \in ss THEN Append(down[s], m) ELSE down[s]
  BY <1>1, SentArrives
<1>4. CASE s \in ss
  <2>1. \A at : Marks(down'[s], at, pending'[viewing'[s]])
    BY <1>0, <1>1, <1>2, <1>3, <1>4, MarkMarks
  <2> QED BY <1>3, <2>1 DEF ShowsOn
<1>5. CASE s \notin ss
  BY <1>2, <1>3, <1>5, QuietShows
<1> QED BY <1>3, <1>4, <1>5

LEMMA ShowsWatches ==
  ASSUME FInv, NEW ss, NEW c \in Conversations, Shows(ss, c), live' = live \cup {c}
  PROVE  RequestsAreWatched'
<1> SUFFICES ASSUME NEW d \in Conversations, pending'[d] # 0
             PROVE  d \in live' /\ \E s \in Sockets : viewing'[s] = d
  BY DEF RequestsAreWatched
<1>1. \A s \in Sockets : viewing'[s] = IF s \in ss THEN c ELSE viewing[s]
  BY DEF Shows
<1>2. pending[d] # 0 /\ (d = c \/ ((\E s \in ss : viewing[s] = d) => \E s \in Sockets \ ss : viewing[s] = d))
  BY DEF Shows
<1>3. PICK s \in Sockets : viewing[s] = d /\ d \in live
  BY <1>2 DEF FInv, RequestsAreWatched
<1>4. CASE d = c
  BY <1>1, <1>3, <1>4
<1>5. CASE d # c
  <2>1. \E t \in Sockets \ ss : viewing[t] = d
    BY <1>2, <1>3, <1>5
  <2> QED BY <1>1, <1>3, <2>1
<1> QED BY <1>4, <1>5

LEMMA AcceptsRemembers ==
  ASSUME FInv, NEW p \in Pages, Accepts(p), [Next]_vars, AInv'
  PROVE  FInv'
<1> DEFINE s == page[p].socket
           hello == <<"hello", up = "up">>
<1>0. /\ CInv /\ Unseen /\ Wires /\ CoreTypes /\ TypeOK /\ IInv /\ s \in Sockets /\ conn[s] = "new"
      /\ conn' = [conn EXCEPT ![s] = "open"] /\ page' = page /\ away' = away /\ pending' = pending
      /\ live' = live /\ byId' = byId
  BY DEF FInv, AInv, CInv, IInv, Accepts, Connect, Arrive
<1>1. \A q \in byId : start'[q].who = start[q].who
  <2>1. \A q \in byId : q \in Starts /\ start[q].pc = "wait"
    BY <1>0 DEF IInv, WaitersAreHeld, TypeOK
  <2>2. CASE Connect(s)
    BY <2>2 DEF Connect
  <2>3. ASSUME NEW c \in DefaultTargets, Arrive(FreeStart, s, IF c = None THEN Home ELSE Place[c]), HasFreeStart
        PROVE  \A q \in byId : start'[q].who = start[q].who
    <3>1. \A q \in byId : q # FreeStart
      BY <2>1, <2>3, FreeStartIsNew
    <3>2. \A q \in byId : start'[q] = start[q]
      BY <1>0, <2>1, <2>3, <3>1 DEF Arrive, TypeOK
    <3> QED BY <3>2
  <2> QED BY <2>2, <2>3 DEF Accepts
<1>2. \A t \in Sockets : t # s => viewing'[t] = viewing[t] /\ down'[t] = down[t] /\ conn'[t] = conn[t]
  BY <1>0 DEF Accepts, Wires, CoreTypes, TypeOK
<1>3. FreshIsUnheard'
  BY <1>0 DEF FInv, FreshIsUnheard, TypeOK
<1>4. RequestsAreWatched'
  <2>1. ASSUME NEW c \in Conversations, pending[c] # 0
        PROVE  c \in live /\ \E t \in Sockets : viewing'[t] = c
    <3>1. PICK t \in Sockets : viewing[t] = c /\ c \in live
      BY <2>1 DEF FInv, RequestsAreWatched
    <3>2. t # s
      BY <1>0, <3>1, ClientAssumption DEF Unseen
    <3> QED BY <1>2, <3>1, <3>2
  <2> QED BY <1>0, <2>1 DEF RequestsAreWatched
<1>5. ASSUME NEW t \in Sockets, t # s
      PROVE  /\ conn'[t] # "new" => Delivers(t)
             /\ conn'[t] = "open" => PutsOn(t) /\ ShowsOn(t)
  BY <1>0, <1>1, <1>2, <1>5, QuietDelivers, QuietPuts, QuietShows
<1>6. Delivers(s) /\ ShowsOn(s)
  <2>1. hello \in ToClient /\ hello[1] = "hello"
    BY DownMessages
  <2> HIDE DEF hello
  <2>2. <<hello>> \in Seq(ToClient) /\ Head(<<hello>>) = hello /\ Tail(<<hello>>) = <<>> /\ <<hello>> # <<>>
    BY <2>1
  <2>3. CASE down'[s] = <<hello>> /\ viewing'[s] = viewing[s]
    <3>1. Delivers(s)
      BY <1>0, <2>1, <2>2, <2>3, ToSetEmpty DEF Delivers, Plain
    <3>2. viewing[s] = None
      BY <1>0 DEF Unseen
    <3> QED BY <2>3, <3>1, <3>2 DEF ShowsOn
  <2>4. CASE last \in live /\ viewing'[s] = last /\ down'[s] = <<hello, <<"show", last, pending[last]>>>>
    <3> DEFINE m == <<"show", last, pending[last]>>
    <3>1. m \in ToClient /\ m[1] = "show" /\ Mark(m) = pending[last]
      BY <1>0, <2>4, DownMessages DEF CoreTypes, Mark
    <3>2. down'[s] = Append(<<hello>>, m)
      BY <2>4, AppendToOne
    <3> HIDE DEF m
    <3>3. \A at : Marks(down'[s], at, Mark(m))
      BY <2>2, <3>1, <3>2, MarkMarks
    <3>4. down'[s] # <<>> /\ Head(down'[s]) = hello /\ ToSet(Tail(down'[s])) = {m}
      <4> DEFINE q == <<hello>>
      <4>1. q \in Seq(ToClient) /\ q # <<>> /\ Head(q) = hello /\ ToSet(Tail(q)) = {}
        BY <2>2, ToSetEmpty
      <4>2. down'[s] = Append(q, m)
        BY <3>2
      <4> HIDE DEF q
      <4>3. /\ Append(q, m) # <<>> /\ Head(Append(q, m)) = Head(q)
            /\ ToSet(Tail(Append(q, m))) = ToSet(Tail(q)) \cup {m}
        BY <3>1, <4>1, SendAppends
      <4> QED BY <4>1, <4>2, <4>3
    <3>5. Delivers(s)
      BY <1>0, <2>1, <3>1, <3>4 DEF Delivers, Plain
    <3> QED BY <1>0, <2>4, <3>1, <3>3, <3>5 DEF ShowsOn
  <2>5. \/ down'[s] = <<hello>> /\ viewing'[s] = viewing[s]
        \/ last \in live /\ viewing'[s] = last /\ down'[s] = <<hello, <<"show", last, pending[last]>>>>
    BY <1>0 DEF Accepts, Wires, CoreTypes, hello
  <2> QED BY <2>3, <2>4, <2>5
<1>7. PutsOn(s)
  <2>1. \A q \in byId : start[q].who # s
    BY <1>0 DEF FInv, AskersCame, IInv, TypeOK
  <2> QED BY <1>0, <1>1, <2>1 DEF PutsOn
<1> QED BY <1>0, <1>3, <1>4, <1>5, <1>6, <1>7, CoreRemembers

\* The question of a start is put to the client the start is for.
LEMMA AskRemembers ==
  ASSUME FInv, NEW a \in Starts, NEW t \in Sockets, NEW d \in Dirs, start[a].pc \in {"new", "find"},
         Ensured(a, t, d), AsksClient(a), UNCHANGED <<viewing, pending>>,
         NEW p \in Pages, page[p].socket \in Sockets, conn[page[p].socket] = "open",
         away[page[p].socket] = <<>> => away'[page[p].socket] = <<>>,
         \A n : Permitting(n, away[page[p].socket]) => Permitting(n, away'[page[p].socket]),
         \A q : Answering(q, away[page[p].socket]) => Answering(q, away'[page[p].socket])
  PROVE  LET s == page[p].socket IN Delivers(s) /\ PutsOn(s) /\ ShowsOn(s)
<1> DEFINE s == page[p].socket
           m == <<"trust", a>>
<1>1. m \in ToClient /\ m[1] = "trust" /\ IInv /\ viewing'[s] = viewing[s]
  BY DownMessages DEF FInv, AInv, CInv
<1>2. CASE start'[a].on = a
  <2>1. down' = Sent({start'[a].who}, m)
    BY <1>2 DEF AsksClient
  <2>2. /\ Delivers(s)
        /\ down'[s] = IF s = start'[a].who THEN Append(down[s], m) ELSE down[s]
        /\ s = start'[a].who => m \in ToSet(down'[s])
    <3> HIDE DEF m
    <3>1. PICK w : w = start'[a].who
      OBVIOUS
    <3>2. down' = Sent({w}, m) /\ m[1] # "hello"
      BY <1>1, <2>1, <3>1
    <3>3. /\ Delivers(s)
          /\ down'[s] = IF s \in {w} THEN Append(down[s], m) ELSE down[s]
          /\ s \in {w} => m \in ToSet(down'[s])
      BY <1>1, <3>2, SentArrives
    <3> QED BY <3>1, <3>3
  <2>3. PutsOn(s)
    <3> SUFFICES ASSUME NEW q \in byId', start'[q].who = s
                 PROVE  \/ <<"trust", q>> \in ToSet(down'[s])
                        \/ conn[s] = "open" /\ q \in byId /\ start[q].who = s
                           /\ (Answering(q, away[s]) => Answering(q, away'[s]))
      BY DEF PutsOn
    <3> QED BY <1>1, <2>2, EnsuredAsks
  <2>4. ShowsOn(s)
    <3>1. m \in ToClient /\ m[1] \notin {"show", "tool"}
      BY <1>1
    <3> HIDE DEF m
    <3> QED BY <1>1, <2>2, <3>1, QuietShows
  <2> QED BY <2>2, <2>3, <2>4
<1>3. CASE start'[a].on # a
  <2>1. down' = down
    BY <1>3 DEF AsksClient
  <2>2. \A q \in byId' : q \in byId /\ start'[q].who = start[q].who
    BY <1>1, <1>3, EnsuredAsks
  <2> QED BY <1>1, <2>1, <2>2, QuietDelivers, QuietPuts, QuietShows
<1> QED BY <1>2, <1>3

LEMMA StartsRemember ==
  ASSUME FInv, NEW a \in Starts, Finds(a) \/ FindsNot(a) \/ Opens(a) \/ OpenFails(a), [Next]_vars, AInv'
  PROVE  FInv'
<1>0. /\ CInv /\ IInv /\ CoreTypes /\ TypeOK /\ conn' = conn /\ page' = page /\ away' = away
      /\ FreshIsUnheard'
  BY DEF FInv, AInv, CInv, IInv, Finds, FindsNot, Opens, OpenFails, Found, NotFound, gateVars, FreshIsUnheard
<1>1. ASSUME UNCHANGED <<down, viewing, pending, live, byId>>, \A b \in Starts : start'[b].who = start[b].who
      PROVE  FInv'
  <2>1. \A s \in Sockets : (conn[s] # "new" => Delivers(s)) /\ (conn[s] = "open" => PutsOn(s) /\ ShowsOn(s))
    BY <1>0, <1>1, QuietDelivers, QuietPuts, QuietShows DEF TypeOK
  <2>2. RequestsAreWatched'
    BY <1>1 DEF FInv, RequestsAreWatched
  <2> QED BY <1>0, <2>1, <2>2, CoreRemembers
<1>2. \A s \in Sockets : conn[s] # "new" /\ conn[s] # "open" /\ down'[s] = down[s] => Delivers(s)
  BY <1>0, QuietDelivers
<1>3. CASE Finds(a)
  <2>1. /\ start[a].pc = "find" /\ start[a].who \in Sockets /\ start[a].dir \in Dirs
        /\ Ensured(a, start[a].who, start[a].dir) /\ AsksClient(a) /\ UNCHANGED <<viewing, pending, live>>
    BY <1>0, <1>3 DEF Finds, Found, IInv, FindersAreNamed, coreVars
  <2>2. ASSUME NEW p \in Pages, page[p].socket \in Sockets, conn[page[p].socket] = "open"
        PROVE  LET s == page[p].socket IN Delivers(s) /\ PutsOn(s) /\ ShowsOn(s)
    BY <1>0, <2>1, <2>2, AskRemembers
  <2>3. \A s \in Sockets : conn[s] # "open" => down'[s] = down[s]
    BY <1>0, <2>1 DEF AsksClient, Sent, Heard, CInv, Wires
  <2>4. RequestsAreWatched'
    BY <2>1 DEF FInv, RequestsAreWatched
  <2> QED BY <1>0, <1>2, <2>2, <2>3, <2>4, CoreRemembers
<1>4. CASE FindsNot(a)
  <2>1. [start[a] EXCEPT !.pc = "refused"].who = start[a].who
    BY <1>0 DEF TypeOK, StartType
  <2> QED BY <1>0, <1>1, <1>4, <2>1 DEF FindsNot, NotFound, TypeOK
<1>5. CASE Opens(a)
  <2>1. PICK c \in IF task[a].want # None THEN {task[a].want}
                   ELSE {c \in Conversations \ stored : Place[c] = start[a].dir} :
          live' = live \cup {c} /\ Shows(task[a].for, c)
    BY <1>5 DEF Opens
  <2>2. c \in Conversations /\ byId' = byId /\ start' = start
    BY <1>0, <1>5, <2>1 DEF CoreTypes, TaskType, Opens, gateVars
  <2>3. ASSUME NEW p \in Pages, page[p].socket \in Sockets, conn[page[p].socket] = "open"
        PROVE  LET s == page[p].socket IN Delivers(s) /\ PutsOn(s) /\ ShowsOn(s)
    <3>1. PutsOn(page[p].socket)
      BY <1>0, <2>2, <2>3, QuietPuts
    <3> QED BY <1>0, <2>1, <2>2, <2>3, <3>1, ShowsRemembers
  <2>4. \A s \in Sockets : conn[s] # "open" => down'[s] = down[s]
    BY <1>0, <2>1 DEF Shows, Sent, Heard, CInv, Wires
  <2>5. RequestsAreWatched'
    BY <2>1, <2>2, ShowsWatches
  <2> QED BY <1>0, <1>2, <2>3, <2>4, <2>5, CoreRemembers
<1>6. CASE OpenFails(a)
  BY <1>0, <1>1, <1>6 DEF OpenFails, gateVars
<1> QED BY <1>3, <1>4, <1>5, <1>6

\* What Core has read is gone from the wire; what was behind it is not.
LEMMA ReadingLeaves ==
  ASSUME Wires, NEW s \in Sockets, away[s] # <<>>, away' = [away EXCEPT ![s] = Tail(@)], NEW t \in Sockets
  PROVE  /\ away[t] = <<>> => away'[t] = <<>>
         /\ t # s => away'[t] = away[t]
         /\ \A q : Answering(q, away[t]) =>
              Answering(q, away'[t]) \/ (t = s /\ \E answer \in Answers : Head(away[s]) = <<"trust", q, answer>>)
         /\ \A n : Permitting(n, away[t]) =>
              Permitting(n, away'[t]) \/ (t = s /\ \E answer \in Answers : Head(away[s]) = <<"tool", n, answer>>)
<1>1. away[s] \in Seq(ToCore) /\ away'[t] = IF t = s THEN Tail(away[s]) ELSE away[t]
  BY DEF Wires
<1>2. ToSet(away[s]) = {Head(away[s])} \cup ToSet(Tail(away[s]))
  BY <1>1, ToSetHead
<1> QED BY <1>1, <1>2 DEF Answering, Permitting

LEMMA HandlesRemembers ==
  ASSUME FInv, NEW s \in Sockets, Handles(s), [Next]_vars, AInv'
  PROVE  FInv'
<1> DEFINE m == Head(away[s])
<1>0. /\ CInv /\ IInv /\ CoreTypes /\ TypeOK /\ Wires /\ page' = page /\ live' = live
      /\ conn[s] = "open" /\ m \in ToCore /\ away[s] # <<>>
      /\ away' = [away EXCEPT ![s] = Tail(@)]
  BY DEF FInv, AInv, CInv, IInv, Handles, Wires
<1>1. conn' = conn
  BY DEF Handles, Begin, Create, Respond, vars
<1>2a. ASSUME NEW t \in Sockets
      PROVE  /\ away[t] = <<>> => away'[t] = <<>>
             /\ t # s => away'[t] = away[t]
             /\ \A q : Answering(q, away[t]) =>
                  Answering(q, away'[t]) \/ (t = s /\ \E answer \in Answers : m = <<"trust", q, answer>>)
             /\ \A n : Permitting(n, away[t]) =>
                  Permitting(n, away'[t]) \/ (t = s /\ \E answer \in Answers : m = <<"tool", n, answer>>)
  <2>1. Wires /\ away[s] # <<>> /\ away' = [away EXCEPT ![s] = Tail(@)]
    BY <1>0
  <2> QED BY <2>1, ReadingLeaves
<1>3. \A t \in Sockets :
        /\ away[t] = <<>> => away'[t] = <<>>
        /\ t # s => away'[t] = away[t]
        /\ m[1] # "trust" => \A q : Answering(q, away[t]) => Answering(q, away'[t])
        /\ m[1] # "tool" => \A n : Permitting(n, away[t]) => Permitting(n, away'[t])
  BY <1>2a
<1>2. FreshIsUnheard'
  BY <1>0, <1>1, <1>2a DEF FInv, FreshIsUnheard
<1>4. \A t \in Sockets : conn[t] # "new" /\ conn[t] # "open" /\ down'[t] = down[t] => Delivers(t)
  BY <1>3, QuietDelivers
<1>5. ASSUME \A p \in Pages : LET t == page[p].socket IN
               t \in Sockets /\ conn[t] = "open" => Delivers(t) /\ PutsOn(t) /\ ShowsOn(t),
             \A t \in Sockets : conn[t] # "open" => down'[t] = down[t],
             RequestsAreWatched'
      PROVE  FInv'
  BY <1>0, <1>1, <1>2, <1>4, <1>5, CoreRemembers
<1>6. UNCHANGED <<viewing, pending>> => RequestsAreWatched'
  BY <1>0 DEF FInv, RequestsAreWatched
<1>7. \A ss, x : down' = Sent(ss, x) => \A t \in Sockets : conn[t] # "open" => down'[t] = down[t]
  BY <1>0 DEF Sent, Heard, Wires
<1>8. CASE m[1] = "list" /\ down' = Sent({s}, <<"listing", stored>>) /\ UNCHANGED <<viewing, pending, byId, start>>
  <2> DEFINE x == <<"listing", stored>>
  <2>1. x \in ToClient /\ x[1] \notin {"hello", "show", "tool"} /\ down' = Sent({s}, x)
    BY <1>0, <1>8, DownMessages DEF CoreTypes
  <2> HIDE DEF x
  <2>2. ASSUME NEW p \in Pages, page[p].socket \in Sockets, conn[page[p].socket] = "open"
        PROVE  LET t == page[p].socket IN Delivers(t) /\ PutsOn(t) /\ ShowsOn(t)
    <3> DEFINE t == page[p].socket
    <3>1. Delivers(t) /\ (down'[t] = down[t] \/ down'[t] = Append(down[t], x))
      <4>1. away[t] = <<>> => away'[t] = <<>>
        BY <1>3, <2>2
      <4>2. Delivers(t) /\ down'[t] = IF t \in {s} THEN Append(down[t], x) ELSE down[t]
        BY <2>1, <2>2, <4>1, SentArrives
      <4> QED BY <4>2
    <3>2. PutsOn(t)
      BY <1>3, <1>8, <2>2, QuietPuts
    <3>3. ShowsOn(t)
      BY <1>3, <1>8, <2>1, <2>2, <3>1, QuietShows
    <3> QED BY <3>1, <3>2, <3>3
  <2> QED BY <1>5, <1>6, <1>7, <1>8, <2>1, <2>2
<1>9. CASE m[1] = "open" /\ m[2] \in live /\ Shows({s}, m[2]) /\ UNCHANGED <<byId, start>>
  <2>1. m[2] \in Conversations /\ live' = live \cup {m[2]}
    BY <1>0, <1>9, UpKinds
  <2>2. ASSUME NEW p \in Pages, page[p].socket \in Sockets, conn[page[p].socket] = "open"
        PROVE  LET t == page[p].socket IN Delivers(t) /\ PutsOn(t) /\ ShowsOn(t)
    <3>1. PutsOn(page[p].socket)
      BY <1>3, <1>9, <2>2, QuietPuts
    <3>2. Delivers(page[p].socket) /\ ShowsOn(page[p].socket)
      BY <1>3, <1>9, <2>1, <2>2, ShowsRemembers
    <3> QED BY <3>1, <3>2
  <2>3. RequestsAreWatched'
    BY <1>9, <2>1, ShowsWatches
  <2>4. down' = Sent({s}, <<"show", m[2], pending[m[2]]>>)
    BY <1>9 DEF Shows
  <2> QED BY <1>5, <1>7, <2>2, <2>3, <2>4
<1>10. ASSUME UNCHANGED <<down, viewing, pending>>, byId' \subseteq byId,
              \A q \in byId' : start'[q].who = start[q].who,
              m[1] # "tool", m[1] = "trust" => (m[2] \in byId /\ start[m[2]].who = s => m[2] \notin byId')
       PROVE  FInv'
  <2>1. ASSUME NEW t \in Sockets, conn[t] = "open" PROVE Delivers(t) /\ PutsOn(t) /\ ShowsOn(t)
    <3>1. \A q \in byId' : start'[q].who = t /\ Answering(q, away[t]) => Answering(q, away'[t])
      <4> SUFFICES ASSUME NEW q \in byId', start[q].who = t, Answering(q, away[t]) PROVE Answering(q, away'[t])
        BY <1>10
      <4>1. Answering(q, away'[t]) \/ (t = s /\ \E answer \in Answers : m = <<"trust", q, answer>>)
        BY <1>2a
      <4>2. t = s => ~(\E answer \in Answers : m = <<"trust", q, answer>>)
        BY <1>10
      <4> QED BY <4>1, <4>2
    <3>2. PutsOn(t)
      BY <1>10, <2>1, <3>1 DEF PutsOn
    <3>3. Delivers(t) /\ ShowsOn(t)
      BY <1>3, <1>10, <2>1, QuietDelivers, QuietShows
    <3> QED BY <3>2, <3>3
  <2> QED BY <1>5, <1>6, <1>10, <2>1
<1>11. CASE m[1] = "open" /\ HasFreeStart /\ Begin(FreeStart, s, Place[m[2]]) /\ UNCHANGED <<viewing, pending, down>>
  <2>1. \A q \in byId : q \in Starts /\ q # FreeStart
    BY <1>0, <1>11, FreeStartIsNew DEF IInv, WaitersAreHeld, TypeOK
  <2>2. byId' = byId /\ \A q \in byId : start'[q] = start[q]
    BY <1>0, <1>11, <2>1 DEF Begin, TypeOK
  <2> QED BY <1>10, <1>11, <2>2
<1>12. CASE m[1] = "create" /\ HasFreeStart /\ Create(FreeStart, s, m[2]) /\ AsksClient(FreeStart)
            /\ UNCHANGED <<viewing, pending>>
  <2>1. /\ m[2] \in Dirs /\ FreeStart \in Starts /\ start[FreeStart].pc = "new"
        /\ Ensured(FreeStart, s, m[2])
    BY <1>0, <1>12, UpKinds, FreeStartIsNew DEF Create
  <2>2. ASSUME NEW p \in Pages, page[p].socket \in Sockets, conn[page[p].socket] = "open"
        PROVE  LET t == page[p].socket IN Delivers(t) /\ PutsOn(t) /\ ShowsOn(t)
    BY <1>3, <1>12, <2>1, <2>2, AskRemembers
  <2>3. \A t \in Sockets : conn[t] # "open" => down'[t] = down[t]
    BY <1>7, <1>12 DEF AsksClient
  <2> QED BY <1>5, <1>6, <1>12, <2>2, <2>3
<1>13. CASE m[1] = "trust" /\ UNCHANGED <<viewing, pending, down>>
            /\ IF m[2] \in byId /\ start[m[2]].who = s THEN Respond(s, m[2], m[3]) ELSE UNCHANGED vars
  <2>1. CASE m[2] \in byId /\ start[m[2]].who = s
    <3>1. Finished({m[2]}, "launched", m[3])
      BY <1>13, <2>1 DEF Respond
    <3>2. m[2] \notin byId' /\ byId' \subseteq byId
      BY <3>1 DEF Finished
    <3>3. \A q \in byId' : start'[q].who = start[q].who
      BY <1>0, <3>1, <3>2, FinishedAsks DEF IInv, TypeOK
    <3> QED BY <1>10, <1>13, <3>2, <3>3
  <2>2. CASE ~(m[2] \in byId /\ start[m[2]].who = s)
    BY <1>10, <1>13, <2>2 DEF vars
  <2> QED BY <2>1, <2>2
<1>14. CASE /\ m[1] = "tool"
            /\ pending' = [c \in Conversations |->
                 IF c = viewing[s] /\ c \in live /\ pending[c] = m[2] THEN 0 ELSE pending[c]]
            /\ UNCHANGED <<viewing, down, byId, start>>
  <2>1. \A c \in Conversations : pending'[c] \in {0, pending[c]}
    BY <1>14
  <2>2. ASSUME NEW t \in Sockets, conn[t] = "open" PROVE Delivers(t) /\ PutsOn(t) /\ ShowsOn(t)
    <3>1. Delivers(t) /\ PutsOn(t)
      BY <1>3, <1>14, <2>2, QuietDelivers, QuietPuts
    <3>2. ASSUME viewing[t] # None, pending'[viewing[t]] # 0
          PROVE  /\ pending'[viewing[t]] = pending[viewing[t]]
                 /\ Permitting(pending[viewing[t]], away[t]) => Permitting(pending[viewing[t]], away'[t])
      <4> DEFINE c == viewing[t]
      <4>1. c \in Conversations /\ pending'[c] = pending[c] /\ pending[c] # 0
        BY <1>0, <2>1, <3>2 DEF CoreTypes
      <4>2. c \in live
        BY <4>1 DEF FInv, RequestsAreWatched
      <4>3. t = s => pending[c] # m[2]
        BY <1>14, <3>2, <4>1, <4>2
      <4>4. t = s => ~(\E answer \in Answers : m = <<"tool", pending[c], answer>>)
        BY <4>3
      <4>5. Permitting(pending[c], away[t]) =>
              Permitting(pending[c], away'[t])
              \/ (t = s /\ \E answer \in Answers : m = <<"tool", pending[c], answer>>)
        BY <1>2a
      <4> QED BY <4>1, <4>4, <4>5
    <3>3. ShowsOn(t)
      BY <1>14, <2>2, <3>2 DEF ShowsOn
    <3> QED BY <3>1, <3>3
  <2>3. RequestsAreWatched'
    BY <1>0, <1>14, <2>1 DEF FInv, RequestsAreWatched
  <2> QED BY <1>5, <1>14, <2>2, <2>3
<1> QED BY <1>8, <1>9, <1>11, <1>12, <1>13, <1>14 DEF Handles, gateVars

LEMMA OthersRemember ==
  ASSUME FInv, [Next]_vars, AInv',
         \/ \E s \in Sockets : HearsClose(s)
         \/ \E c \in Conversations : ToolAsks(c) \/ Reclaims(c)
         \/ CoreStops \/ CoreReturns \/ DirectoryChanges
  PROVE  FInv'
<1>0. /\ CInv /\ IInv /\ CoreTypes /\ TypeOK /\ Wires /\ BoundTypes
      /\ \A s \in Sockets : conn'[s] = "new" => conn[s] = "new"
  BY SocketsAge DEF FInv, AInv, CInv, IInv
<1>1. ASSUME UNCHANGED <<conn, page, away, down, viewing, pending, byId, start>>, RequestsAreWatched'
      PROVE  FInv'
  <2>1. FreshIsUnheard'
    BY <1>1 DEF FInv, FreshIsUnheard
  <2>2. \A s \in Sockets : (conn[s] # "new" => Delivers(s)) /\ (conn[s] = "open" => PutsOn(s) /\ ShowsOn(s))
    BY <1>1, QuietDelivers, QuietPuts, QuietShows
  <2> QED BY <1>1, <2>1, <2>2, CoreRemembers
<1>2. ASSUME NEW s \in Sockets, HearsClose(s) PROVE FInv'
  <2>1. /\ \A p \in Pages : page[p].socket # s
        /\ conn' = [conn EXCEPT ![s] = "closed"] /\ viewing' = [viewing EXCEPT ![s] = None]
        /\ pending' = [c \in Conversations |->
              IF c = viewing[s] /\ \A t \in Sockets \ {s} : viewing[t] # c THEN 0 ELSE pending[c]]
        /\ away' = [away EXCEPT ![s] = <<>>] /\ down' = down /\ page' = page /\ live' = live
        /\ Finished(Asked(s), "refused", "unset")
    BY <1>2 DEF HearsClose, Leave, Holds
  <2>2. byId' \subseteq byId /\ \A q \in byId' : start'[q].who = start[q].who
    BY <1>0, <2>1, FinishedAsks DEF IInv, TypeOK
  <2>3. FreshIsUnheard'
    BY <1>0, <2>1 DEF FInv, FreshIsUnheard, Wires
  <2>4. RequestsAreWatched'
    <3> SUFFICES ASSUME NEW c \in Conversations, pending'[c] # 0
                 PROVE  c \in live /\ \E t \in Sockets : viewing'[t] = c
      BY <2>1 DEF RequestsAreWatched
    <3>1. pending[c] # 0 /\ (c = viewing[s] => \E t \in Sockets \ {s} : viewing[t] = c)
      BY <2>1
    <3>2. c \in live /\ \E t \in Sockets \ {s} : viewing[t] = c
      BY <3>1 DEF FInv, RequestsAreWatched
    <3> QED BY <1>0, <2>1, <3>2 DEF CoreTypes
  <2>5. ASSUME NEW t \in Sockets, t # s
        PROVE  /\ conn'[t] # "new" => Delivers(t)
               /\ conn'[t] = "open" => PutsOn(t) /\ ShowsOn(t)
    <3>1. conn'[t] = conn[t] /\ viewing'[t] = viewing[t] /\ away'[t] = away[t] /\ down'[t] = down[t]
      BY <1>0, <2>1, <2>5 DEF TypeOK, CoreTypes, Wires
    <3>2. viewing[t] # None => pending'[viewing[t]] = pending[viewing[t]]
      BY <1>0, <2>1, <2>5 DEF CoreTypes
    <3> QED BY <2>2, <3>1, <3>2, QuietDelivers, QuietPuts, QuietShows
  <2> QED BY <2>1, <2>3, <2>4, <2>5, CoreRemembers
<1>3. ASSUME NEW c \in Conversations, ToolAsks(c) PROVE FInv'
  <2> DEFINE m == <<"tool", tools + 1>>
             ss == {s \in Sockets : viewing[s] = c}
  <2>1. tools + 1 \in 1 .. MaxTools
    BY <1>0, <1>3, Counts DEF ToolAsks, BoundTypes, Numbers
  <2>2. m \in ToClient /\ m[1] = "tool" /\ Mark(m) = tools + 1
    BY <2>1, DownMessages DEF Mark
  <2>3. /\ down' = Sent(ss, m) /\ pending' = [pending EXCEPT ![c] = tools + 1]
        /\ UNCHANGED <<conn, viewing, page, away, live, byId, start>> /\ c \in live
        /\ \E s \in Sockets : viewing[s] = c
    BY <1>3 DEF ToolAsks, gateVars
  <2> HIDE DEF m
  <2>4. ASSUME NEW p \in Pages, page[p].socket \in Sockets, conn[page[p].socket] = "open"
        PROVE  LET s == page[p].socket IN Delivers(s) /\ PutsOn(s) /\ ShowsOn(s)
    <3> DEFINE s == page[p].socket
    <3>1. Delivers(s) /\ down'[s] = IF s \in ss THEN Append(down[s], m) ELSE down[s]
      <4> HIDE DEF ss
      <4> QED BY <2>2, <2>3, <2>4, SentArrives
    <3>2. PutsOn(s)
      BY <2>3, <2>4, QuietPuts
    <3>3. CASE s \in ss
      <4>1. \A at : Marks(down'[s], at, Mark(m))
        BY <1>0, <2>2, <3>1, <3>3, MarkMarks DEF Wires
      <4>2. viewing'[s] = c /\ pending'[c] = Mark(m)
        BY <1>0, <2>2, <2>3, <3>3 DEF CoreTypes
      <4> QED BY <3>1, <3>2, <4>1, <4>2 DEF ShowsOn
    <3>4. CASE s \notin ss
      <4>1. viewing[s] # None => pending'[viewing[s]] = pending[viewing[s]]
        <5>1. viewing[s] # c /\ viewing[s] \in Conversations \cup {None} /\ pending \in [Conversations -> Numbers]
          BY <1>0, <2>4, <3>4 DEF CoreTypes
        <5> QED BY <2>3, <5>1
      <4>2. down'[s] = down[s] /\ viewing'[s] = viewing[s] /\ away' = away
        BY <2>3, <3>1, <3>4
      <4>3. ShowsOn(s)
        BY <2>4, <4>1, <4>2, QuietShows
      <4> QED BY <3>1, <3>2, <4>3
    <3> QED BY <3>3, <3>4
  <2>5. ASSUME NEW s \in Sockets, conn[s] # "new", conn[s] # "open" PROVE Delivers(s)
    <3>1. down'[s] = down[s]
      BY <1>0, <2>3, <2>5 DEF Sent, Heard, Wires
    <3> QED BY <2>3, <2>5, <3>1, QuietDelivers
  <2>6. RequestsAreWatched' /\ FreshIsUnheard'
    BY <1>0, <2>3 DEF FInv, RequestsAreWatched, FreshIsUnheard, CoreTypes
  <2> QED BY <2>3, <2>4, <2>5, <2>6, CoreRemembers
<1>4. ASSUME NEW c \in Conversations, Reclaims(c) PROVE FInv'
  <2>1. RequestsAreWatched'
    BY <1>4 DEF FInv, RequestsAreWatched, Reclaims
  <2> QED BY <1>1, <1>4, <2>1 DEF Reclaims, gateVars
<1>5. CASE CoreStops
  <2>1. /\ \A s \in Sockets : conn'[s] # "open" /\ away'[s] = <<>>
        /\ \A c \in Conversations : pending'[c] = 0
        /\ down' = down /\ page' = page
    BY <1>5 DEF CoreStops, Stop
  <2>2. FreshIsUnheard' /\ RequestsAreWatched'
    BY <2>1 DEF FreshIsUnheard, RequestsAreWatched
  <2>3. \A s \in Sockets : conn'[s] # "new" => conn[s] # "new"
    BY <1>0, <1>5 DEF CoreStops, Stop
  <2>4. \A s \in Sockets : conn'[s] # "new" => Delivers(s)
    BY <2>1, <2>3, QuietDelivers
  <2> QED BY <2>1, <2>2, <2>4, CoreRemembers
<1>6. CASE CoreReturns
  <2>1. UNCHANGED <<conn, page, away, down, viewing, pending, live, byId, start>>
    BY <1>6 DEF CoreReturns, coreVars, vars
  <2> QED BY <1>1, <2>1 DEF FInv, RequestsAreWatched
<1>7. CASE DirectoryChanges
  <2>1. UNCHANGED <<conn, page, away, down, viewing, pending, live, byId, start>>
    BY <1>7 DEF DirectoryChanges, ResourcesChange, DecidedElsewhere, coreVars
  <2> QED BY <1>1, <2>1 DEF FInv, RequestsAreWatched
<1> QED BY <1>2, <1>3, <1>4, <1>5, <1>6, <1>7

\* A page says more over its own socket, and only when it is connected.
SaysMore(p) ==
  /\ \A t \in Sockets : t # page[p].socket => away'[t] = away[t]
  /\ page[p].socket \in Sockets => ToSet(away[page[p].socket]) \subseteq ToSet(away'[page[p].socket])
  /\ ~CanSend(p) => away' = away

LEMMA SendersHaveSockets ==
  ASSUME FInv, NEW p \in Pages, CanSend(p)
  PROVE  page[p].socket \in Sockets /\ conn[page[p].socket] # "new"
<1>1. page[p] \in PageType
  BY DEF FInv, AInv, CInv
<1> QED BY <1>1 DEF FInv, AInv, CInv, OneConnection, CanSend, PageType

LEMMA WiredSays ==
  ASSUME FInv, NEW p \in Pages, NEW m \in ToCore, away' = Wired(p, m)
  PROVE  SaysMore(p) /\ (CanSend(p) => m \in ToSet(away'[page[p].socket]))
<1>1. away \in [Sockets -> Seq(ToCore)]
  BY DEF FInv, AInv, CInv, Wires
<1>2. CASE CanSend(p)
  <2> DEFINE s == page[p].socket
  <2>1. s \in Sockets /\ away' = [away EXCEPT ![s] = Append(@, m)]
    BY <1>2, SendersHaveSockets DEF Wired
  <2>2. ToSet(away'[s]) = ToSet(away[s]) \cup {m}
    BY <1>1, <2>1, ToSetAppend
  <2> QED BY <1>1, <1>2, <2>1, <2>2 DEF SaysMore
<1>3. CASE ~CanSend(p)
  BY <1>3 DEF Wired, SaysMore
<1> QED BY <1>2, <1>3

LEMMA QuietSays ==
  ASSUME NEW p \in Pages, away' = away
  PROVE  SaysMore(p)
BY DEF SaysMore

\* The answer to a dialog is the answer to its question.
LEMMA DialogAnswered ==
  ASSUME FInv, NEW p \in Pages, NEW m \in ({"trust"} \X Starts) \cup ({"tool"} \X (1 .. MaxTools)),
         NEW answer \in Answers, away' = Wired(p, Append(m, answer))
  PROVE  /\ SaysMore(p)
         /\ CanSend(p) => \A q : m = <<"trust", q>> => Answering(q, away'[page[p].socket])
<1>1. Append(m, answer) \in ToCore
  BY DialogAnswers
<1>2. SaysMore(p) /\ (CanSend(p) => Append(m, answer) \in ToSet(away'[page[p].socket]))
  BY <1>1, WiredSays
<1>3. \A q : m = <<"trust", q>> => Append(m, answer) = <<"trust", q, answer>>
  BY AppendToPair, Zenon
<1> QED BY <1>2, <1>3 DEF Answering

LEMMA RefusedSays ==
  ASSUME FInv, NEW p \in Pages, away' = Refused(p)
  PROVE  /\ SaysMore(p)
         /\ CanSend(p) => \A q : page[p].dialog = <<"trust", q>> => Answering(q, away'[page[p].socket])
<1>1. page[p] \in PageType /\ "no" \in Answers
  BY DEF FInv, AInv, CInv, Answers
<1>2. CASE page[p].dialog[1] \in {"trust", "tool"}
  <2>1. page[p].dialog \in ({"trust"} \X Starts) \cup ({"tool"} \X (1 .. MaxTools))
    BY <1>1, <1>2 DEF PageType, Nothing
  <2>2. away' = Wired(p, Append(page[p].dialog, "no"))
    BY <1>2 DEF Refused
  <2> QED BY <1>1, <2>1, <2>2, DialogAnswered
<1>3. CASE page[p].dialog[1] \notin {"trust", "tool"}
  <2>1. \A q : page[p].dialog # <<"trust", q>>
    BY <1>3
  <2> QED BY <1>3, <2>1, QuietSays DEF Refused
<1> QED BY <1>2, <1>3

\* What a step must leave true of a page and the socket it still has.
Obeys(p) ==
  LET s == page[p].socket IN
  /\ IF page'[p].state = "connecting" THEN Greeted(down'[s], away'[s]) ELSE Plain(down'[s])
  /\ page[p].kind = "tui" => \A q :
       page[p].dialog = <<"trust", q>> \/ <<"trust", q>> \in ToSet(down[s]) \/ Answering(q, away[s]) =>
         page'[p].dialog = <<"trust", q>> \/ <<"trust", q>> \in ToSet(down'[s]) \/ Answering(q, away'[s])
  /\ page[p].kind = "web" => \A n :
       Marks(down[s], page[p].card, n) \/ Permitting(n, away[s]) =>
         n = 0 \/ Marks(down'[s], page'[p].card, n) \/ Permitting(n, away'[s])

LEMMA SpeakingObeys ==
  ASSUME FInv, NEW p \in Pages, page[p].socket \in Sockets, conn[page[p].socket] # "new",
         down'[page[p].socket] = down[page[p].socket], SaysMore(p), page'[p].state = page[p].state,
         page[p].kind = "tui" => \A q : page[p].dialog = <<"trust", q>> =>
           page'[p].dialog = page[p].dialog \/ Answering(q, away'[page[p].socket]),
         page[p].kind = "web" =>
           \/ page'[p].card = page[p].card
           \/ Permitting(page[p].card, away'[page[p].socket])
  PROVE  Obeys(p)
<1> DEFINE s == page[p].socket
<1>1. IF page[p].state = "connecting" THEN Greeted(down[s], away[s]) ELSE Plain(down[s])
  BY DEF FInv, HelloComesFirst
<1>2. page[p].state = "connecting" => away' = away
  BY DEF SaysMore, CanSend
<1>3. IF page'[p].state = "connecting" THEN Greeted(down'[s], away'[s]) ELSE Plain(down'[s])
  BY <1>1, <1>2 DEF Greeted, Plain
<1>4. ToSet(away[s]) \subseteq ToSet(away'[s])
  BY DEF SaysMore
<1>5. (\A q : Answering(q, away[s]) => Answering(q, away'[s])) /\ \A n : Permitting(n, away[s]) => Permitting(n, away'[s])
  BY <1>4 DEF Answering, Permitting
<1>6. \A n, at : Marks(down[s], page[p].card, n) => page[p].card = n \/ Marks(down[s], at, n)
  BY DEF Marks
<1> QED BY <1>3, <1>5, <1>6 DEF Obeys

\* After the hello, a page is connected when it hears anything.
LEMMA HearingObeys ==
  ASSUME FInv, NEW p \in Pages, page[p].socket \in Sockets, conn[page[p].socket] # "new",
         down[page[p].socket] # <<>>, Head(down[page[p].socket])[1] # "hello",
         down'[page[p].socket] = Tail(down[page[p].socket]), SaysMore(p), page'[p].state = page[p].state,
         page[p].kind = "tui" => \A q :
           page[p].dialog = <<"trust", q>> \/ Head(down[page[p].socket]) = <<"trust", q>> =>
             page'[p].dialog = <<"trust", q>> \/ Answering(q, away'[page[p].socket]),
         page[p].kind = "web" =>
           page'[p].card = IF Head(down[page[p].socket])[1] \in {"show", "tool"}
                           THEN Mark(Head(down[page[p].socket])) ELSE page[p].card
  PROVE  Obeys(p)
<1> DEFINE s == page[p].socket
<1>0. down[s] \in Seq(ToClient)
  BY DEF FInv, AInv, CInv, Wires
<1>1. page[p].state # "connecting" /\ Plain(down[s])
  BY DEF FInv, HelloComesFirst, Greeted
<1>2. ToSet(down[s]) = {Head(down[s])} \cup ToSet(down'[s])
  BY <1>0, ToSetHead
<1>3. IF page'[p].state = "connecting" THEN Greeted(down'[s], away'[s]) ELSE Plain(down'[s])
  BY <1>1, <1>2 DEF Plain
<1>4. ToSet(away[s]) \subseteq ToSet(away'[s])
  BY DEF SaysMore
<1>5. (\A q : Answering(q, away[s]) => Answering(q, away'[s])) /\ \A n : Permitting(n, away[s]) => Permitting(n, away'[s])
  BY <1>4 DEF Answering, Permitting
<1>6. page[p].kind = "web" => \A n : Marks(down[s], page[p].card, n) => Marks(down'[s], page'[p].card, n)
  BY <1>0, HeadMarks
<1> QED BY <1>2, <1>3, <1>5, <1>6 DEF Obeys

\* ... and the hello is the first it hears.
LEMMA GreetingObeys ==
  ASSUME FInv, NEW p \in Pages, page[p].socket \in Sockets, conn[page[p].socket] # "new",
         down[page[p].socket] # <<>>, Head(down[page[p].socket])[1] = "hello",
         down'[page[p].socket] = Tail(down[page[p].socket]), page'[p].state = "connected",
         page'[p].card = page[p].card, page[p].kind = "web" => away' = away
  PROVE  Obeys(p)
<1> DEFINE s == page[p].socket
<1>0. down[s] \in Seq(ToClient)
  BY DEF FInv, AInv, CInv, Wires
<1>2. ToSet(down[s]) = {Head(down[s])} \cup ToSet(down'[s])
  BY <1>0, ToSetHead
<1>1. Greeted(down[s], away[s]) /\ page[p].state = "connecting"
  BY <1>2 DEF FInv, HelloComesFirst, Plain
<1>3. page'[p].state # "connecting" /\ Plain(down'[s])
  BY <1>1 DEF Greeted, Plain
<1>4. page[p].kind = "tui" => \A q :
        page[p].dialog = <<"trust", q>> \/ <<"trust", q>> \in ToSet(down[s]) \/ Answering(q, away[s]) =>
          <<"trust", q>> \in ToSet(down'[s])
  <2>1. page[p].kind = "tui" => \A q : page[p].dialog # <<"trust", q>>
    BY <1>1 DEF FInv, TerminalsStartBare, Nothing
  <2>2. \A q : ~Answering(q, away[s])
    BY <1>1, ToSetEmpty DEF Greeted, Answering
  <2>3. \A q : <<"trust", q>> # Head(down[s])
    OBVIOUS
  <2> QED BY <1>2, <2>1, <2>2, <2>3
<1>5. page[p].kind = "web" => \A n : Marks(down[s], page[p].card, n) => Marks(down'[s], page'[p].card, n)
  <2>1. Head(down[s])[1] \notin {"show", "tool"}
    OBVIOUS
  <2> QED BY <1>0, <2>1, HeadMarks
<1> QED BY <1>3, <1>4, <1>5 DEF Obeys

LEMMA PageRemembers ==
  ASSUME FInv, AInv', NEW p \in Pages, CoreOnly,
         \A q \in Pages \ {p} : page'[q] = page[q],
         \A t \in Sockets : t # page[p].socket => away'[t] = away[t] /\ down'[t] = down[t],
         page[p].socket \in Sockets /\ conn[page[p].socket] = "new" => away' = away,
         page'[p].kind = page[p].kind,
         page[p].kind = "tui" /\ page'[p].state = "connecting" => page'[p].dialog = Nothing,
         page'[p].socket \in Sockets /\ conn[page'[p].socket] # "new" =>
           page'[p].socket = page[p].socket /\ Obeys(p)
  PROVE  FInv'
<1>0. /\ conn' = conn /\ byId' = byId /\ start' = start /\ live' = live
      /\ viewing' = viewing /\ pending' = pending
  BY DEF CoreOnly, coreVars, vars
<1>1. AskersCame' /\ RequestsAreWatched'
  BY <1>0 DEF FInv, AskersCame, RequestsAreWatched
<1>2. FreshIsUnheard'
  BY <1>0 DEF FInv, FreshIsUnheard
<1>3. TerminalsStartBare'
  BY DEF FInv, TerminalsStartBare
<1>4. ASSUME NEW q \in Pages, q # p, page[q].socket \in Sockets
      PROVE  /\ away'[page[q].socket] = away[page[q].socket]
             /\ down'[page[q].socket] = down[page[q].socket]
             /\ page'[q] = page[q]
  BY <1>4, GateConstants DEF FInv, AInv, CInv, OneConnection
<1>5. HelloComesFirst'
  <2> SUFFICES ASSUME NEW q \in Pages, page'[q].socket \in Sockets, conn[page'[q].socket] # "new"
               PROVE  IF page'[q].state = "connecting" THEN Greeted(down'[page'[q].socket], away'[page'[q].socket]) ELSE Plain(down'[page[q].socket])
    BY <1>0, <1>4 DEF HelloComesFirst
  <2>1. CASE q = p
    BY <2>1 DEF Obeys
  <2>2. CASE q # p
    <3>1. page'[q] = page[q]
      BY <2>2
    <3>2. IF page[q].state = "connecting" THEN Greeted(down[page[q].socket], away[page[q].socket]) ELSE Plain(down[page[q].socket])
      BY <3>1 DEF FInv, HelloComesFirst
    <3> QED BY <1>4, <2>2, <3>1, <3>2 DEF Greeted, Plain
  <2> QED BY <2>1, <2>2
<1>6. QuestionsArePut'
  <2> SUFFICES ASSUME NEW q \in Pages, page'[q].socket \in Sockets, conn[page'[q].socket] = "open",
                      page'[q].kind = "tui", NEW b \in byId, start[b].who = page'[q].socket
               PROVE  \/ page'[q].dialog = <<"trust", b>> \/ <<"trust", b>> \in ToSet(down'[page'[q].socket])
                      \/ Answering(b, away'[page'[q].socket])
    BY <1>0 DEF QuestionsArePut
  <2>1. CASE q = p
    <3>1. page'[p].socket = page[p].socket /\ Obeys(p) /\ page[p].kind = "tui"
      BY <2>1
    <3>2. \/ page[p].dialog = <<"trust", b>> \/ <<"trust", b>> \in ToSet(down[page[p].socket])
          \/ Answering(b, away[page[p].socket])
      BY <2>1, <3>1 DEF FInv, QuestionsArePut
    <3> QED BY <2>1, <3>1, <3>2 DEF Obeys
  <2>2. CASE q # p
    BY <1>4, <2>2 DEF FInv, QuestionsArePut
  <2> QED BY <2>1, <2>2
<1>7. RequestsAreShown'
  <2> SUFFICES ASSUME NEW q \in Pages, page'[q].socket \in Sockets, conn[page'[q].socket] = "open",
                      page'[q].kind = "web", viewing[page'[q].socket] # None,
                      pending[viewing[page'[q].socket]] # 0
               PROVE  LET s == page'[q].socket IN
                      \/ Marks(down'[s], page'[q].card, pending[viewing[s]])
                      \/ Permitting(pending[viewing[s]], away'[s])
    BY <1>0 DEF RequestsAreShown
  <2>1. CASE q = p
    <3>1. page'[p].socket = page[p].socket /\ Obeys(p) /\ page[p].kind = "web"
      BY <2>1
    <3>2. LET s == page[p].socket IN
          \/ Marks(down[s], page[p].card, pending[viewing[s]])
          \/ Permitting(pending[viewing[s]], away[s])
      BY <2>1, <3>1 DEF FInv, RequestsAreShown
    <3> QED BY <2>1, <3>1, <3>2 DEF Obeys
  <2>2. CASE q # p
    BY <1>4, <2>2 DEF FInv, RequestsAreShown
  <2> QED BY <2>1, <2>2
<1> QED BY <1>1, <1>2, <1>3, <1>5, <1>6, <1>7 DEF FInv

\* Whatever a page makes of a message, nothing that it was asked is lost.
LEMMA HearsRemembers ==
  ASSUME FInv, NEW p \in Pages, page[p].socket \in Sockets, down[page[p].socket] # <<>>,
         Hears(p, Head(down[page[p].socket])),
         page'[p].socket = page[p].socket => down'[page[p].socket] = Tail(down[page[p].socket])
  PROVE  /\ page'[p].kind = page[p].kind
         /\ page[p].kind = "tui" /\ page'[p].state = "connecting" => page'[p].dialog = Nothing
         /\ page'[p].socket \in {None, page[p].socket}
         /\ \A t \in Sockets : t # page[p].socket => away'[t] = away[t]
         /\ page'[p].socket = page[p].socket => Obeys(p)
<1> DEFINE s == page[p].socket
           m == Head(down[s])
           Goal == /\ page'[p].kind = page[p].kind
                   /\ page[p].kind = "tui" /\ page'[p].state = "connecting" => page'[p].dialog = Nothing
                   /\ page'[p].socket \in {None, page[p].socket}
                   /\ \A t \in Sockets : t # page[p].socket => away'[t] = away[t]
                   /\ page'[p].socket = page[p].socket => Obeys(p)
<1>0. /\ down[s] \in Seq(ToClient) /\ m \in ToClient /\ conn[s] # "new" /\ None \notin Sockets
      /\ away \in [Sockets -> Seq(ToCore)] /\ page \in [Pages -> PageType] /\ page[p] \in PageType
  BY GateConstants DEF FInv, AInv, CInv, Wires, FreshIsSilent
<1> SUFFICES Goal
  OBVIOUS
<1>1. m[1] # "hello" => CanSend(p)
  <2>1. page[p].state = "connecting" => m[1] = "hello"
    BY <1>0 DEF FInv, HelloComesFirst, Greeted
  <2>2. page[p].state # "disconnected"
    BY <1>0 DEF FInv, AInv, CInv, PageForms
  <2> QED BY <1>0, <2>1, <2>2 DEF CanSend, PageType
<1>2. ASSUME m[1] # "hello", SaysMore(p), page'[p].kind = page[p].kind, page'[p].socket = s,
             page'[p].state = page[p].state,
             page[p].kind = "tui" => \A q :
               page[p].dialog = <<"trust", q>> \/ m = <<"trust", q>> =>
                 page'[p].dialog = <<"trust", q>> \/ Answering(q, away'[s]),
             page[p].kind = "web" =>
               page'[p].card = IF m[1] \in {"show", "tool"} THEN Mark(m) ELSE page[p].card
      PROVE  Goal
  <2>1. page'[p].state = "connected"
    BY <1>1, <1>2 DEF CanSend
  <2>2. Obeys(p)
    BY <1>0, <1>2, HearingObeys
  <2> QED BY <1>2, <2>1, <2>2 DEF SaysMore
<1>3. CASE m[1] = "hello" /\ HearsHello(p, m[2])
  <2>1. CASE m[2]
    <3>1. page'[p] = [page[p] EXCEPT !.state = "connected"]
      BY <1>0, <1>3, <2>1, Becoming DEF HearsHello
    <3>2. /\ page'[p].kind = page[p].kind /\ page'[p].socket = s /\ page'[p].state = "connected"
          /\ page'[p].dialog = page[p].dialog /\ page'[p].card = page[p].card
      BY <1>0, <3>1 DEF PageType
    <3>3. (\A t \in Sockets : t # s => away'[t] = away[t]) /\ (page[p].kind = "web" => away' = away)
      BY <1>0, <1>3, <2>1 DEF HearsHello
    <3>4. Obeys(p)
      BY <1>0, <1>3, <3>2, <3>3, GreetingObeys
    <3> QED BY <3>2, <3>3, <3>4
  <2>2. CASE ~m[2]
    <3>1. /\ page'[p] = [page[p] EXCEPT !.state = "disconnected", !.socket = None, !.over = TRUE]
          /\ away' = away
      BY <1>0, <1>3, <2>2, Becoming DEF HearsHello
    <3>2. page'[p].kind = page[p].kind /\ page'[p].socket = None /\ page'[p].state = "disconnected"
      BY <1>0, <3>1 DEF PageType
    <3> QED BY <1>0, <3>1, <3>2
  <2> QED BY <2>1, <2>2
<1>4. CASE m[1] = "show" /\ UNCHANGED away
           /\ Becomes(p, [page[p] EXCEPT !.shown = m[2], !.card = IF page[p].kind = "web" THEN m[3] ELSE 0])
  <2>1. page'[p] = [page[p] EXCEPT !.shown = m[2], !.card = IF page[p].kind = "web" THEN m[3] ELSE 0]
    BY <1>0, <1>4, Becoming
  <2>2. /\ page'[p].kind = page[p].kind /\ page'[p].socket = s /\ page'[p].state = page[p].state
        /\ page'[p].dialog = page[p].dialog /\ page'[p].card = IF page[p].kind = "web" THEN m[3] ELSE 0
    BY <1>0, <2>1 DEF PageType
  <2>3. SaysMore(p) /\ \A q : m # <<"trust", q>>
    BY <1>4, QuietSays
  <2>4. /\ page[p].kind = "tui" => \A q :
             page[p].dialog = <<"trust", q>> \/ m = <<"trust", q>> =>
               page'[p].dialog = <<"trust", q>> \/ Answering(q, away'[s])
        /\ page[p].kind = "web" =>
             page'[p].card = IF m[1] \in {"show", "tool"} THEN Mark(m) ELSE page[p].card
    BY <1>4, <2>2, <2>3 DEF Mark
  <2>5. m[1] # "hello"
    BY <1>4
  <2> HIDE DEF Goal, m
  <2> QED BY <1>2, <2>2, <2>3, <2>4, <2>5
<1>5. CASE m[1] = "trust" /\ page[p].kind = "web" /\ UNCHANGED away
           /\ Becomes(p, [page[p] EXCEPT !.dialog = m])
  <2>1. page'[p] = [page[p] EXCEPT !.dialog = m]
    BY <1>0, <1>5, Becoming
  <2>2. /\ page'[p].kind = page[p].kind /\ page'[p].socket = s /\ page'[p].state = page[p].state
        /\ page'[p].card = page[p].card
    BY <1>0, <2>1 DEF PageType
  <2>3. SaysMore(p)
    BY <1>5, QuietSays
  <2> HIDE DEF Goal
  <2> QED BY <1>2, <1>5, <2>2, <2>3
<1>6. ASSUME NEW dialog, Raises(p, dialog), m[1] # "hello", page[p].kind = "web" => m[1] \notin {"show", "tool"},
             page[p].kind = "tui" => \A q : m = <<"trust", q>> => dialog = m
      PROVE  Goal
  <2>1. page'[p] = [page[p] EXCEPT !.dialog = dialog] /\ away' = Refused(p)
    BY <1>0, <1>6, Becoming DEF Raises
  <2>2. /\ page'[p].kind = page[p].kind /\ page'[p].socket = s /\ page'[p].state = page[p].state
        /\ page'[p].card = page[p].card /\ page'[p].dialog = dialog
    BY <1>0, <2>1 DEF PageType
  <2>3. SaysMore(p) /\ \A q : page[p].dialog = <<"trust", q>> => Answering(q, away'[s])
    BY <1>1, <1>6, <2>1, RefusedSays
  <2> HIDE DEF Goal
  <2> QED BY <1>2, <1>6, <2>2, <2>3
<1>7. CASE m[1] \in {"trust", "tool"} /\ page[p].kind = "tui" /\ Confronted(p, m)
  <2>1. m \in ({"trust"} \X Starts) \cup ({"tool"} \X (1 .. MaxTools))
    BY <1>0, <1>7, DownKinds
  <2>2. CASE page[p].handing
    <3>1. away' = Wired(p, Append(m, "no")) /\ page' = page /\ "no" \in Answers
      BY <1>7, <2>2 DEF Confronted, Answers
    <3>2. SaysMore(p) /\ \A q : m = <<"trust", q>> => Answering(q, away'[s])
      BY <1>1, <1>7, <2>1, <3>1, DialogAnswered
    <3> HIDE DEF Goal
    <3> QED BY <1>2, <1>7, <3>1, <3>2
  <2>3. CASE ~page[p].handing
    <3> HIDE DEF Goal
    <3> QED BY <1>6, <1>7, <2>3 DEF Confronted
  <2> QED BY <2>2, <2>3
<1>8. CASE m[1] = "tool" /\ page[p].kind = "web" /\ Becomes(p, [page[p] EXCEPT !.card = m[2]]) /\ UNCHANGED away
  <2>1. page'[p] = [page[p] EXCEPT !.card = m[2]]
    BY <1>0, <1>8, Becoming
  <2>2. /\ page'[p].kind = page[p].kind /\ page'[p].socket = s /\ page'[p].state = page[p].state
        /\ page'[p].card = m[2]
    BY <1>0, <2>1 DEF PageType
  <2>3. SaysMore(p)
    BY <1>8, QuietSays
  <2> HIDE DEF Goal
  <2> QED BY <1>2, <1>8, <2>2, <2>3 DEF Mark
<1>9. CASE m[1] = "listing" /\ Lands(p, m[2])
  <2>1. page'[p] = [page[p] EXCEPT !.landed = TRUE]
    BY <1>0, <1>9, Becoming DEF Lands
  <2>2. /\ page'[p].kind = page[p].kind /\ page'[p].socket = s /\ page'[p].state = page[p].state
        /\ page'[p].card = page[p].card /\ page'[p].dialog = page[p].dialog
    BY <1>0, <2>1 DEF PageType
  <2>3. <<"create", Home>> \in ToCore /\ \A c \in m[2] : <<"open", c>> \in ToCore
    BY <1>0, <1>9, DownKinds, UpMessages, ClientAssumption
  <2>4. SaysMore(p)
    BY <1>9, <2>3, WiredSays, QuietSays DEF Lands
  <2>5. \A q : m # <<"trust", q>>
    BY <1>9
  <2> HIDE DEF Goal
  <2> QED BY <1>2, <1>9, <2>2, <2>4, <2>5
<1>10. CASE m[1] = "listing" /\ Raises(p, <<"choice", None>>)
  <2>1. \A q : m # <<"trust", q>>
    BY <1>10
  <2> HIDE DEF Goal
  <2> QED BY <1>6, <1>10, <2>1
<1> QED BY <1>3, <1>4, <1>5, <1>7, <1>8, <1>9, <1>10 DEF Hears

LEMMA PageStepRemembers ==
  ASSUME FInv, NEW p \in Pages, PageStep(p), AInv'
  PROVE  FInv'
<1> DEFINE s == page[p].socket
<1>0. /\ Wires /\ FreshIsSilent /\ OneConnection /\ PageForms /\ None \notin Sockets
      /\ page \in [Pages -> PageType] /\ page[p] \in PageType
      /\ page[p].kind = "tui" /\ page[p].state = "connecting" => page[p].dialog = Nothing
  BY GateConstants DEF FInv, AInv, CInv, TerminalsStartBare
<1>1. CoreOnly
  BY DEF PageStep, Dials, Loses, Receives, PersonAsks, PersonChooses, HandsOver, HandoffEnds,
         Quits, PersonAnswers, PersonPermits
<1>2. s \in Sockets /\ conn[s] = "new" => ~CanSend(p)
  BY SendersHaveSockets
\* Of a page that speaks, and keeps its connection.
<1>3. ASSUME down' = down, SaysMore(p), page'[p].state = page[p].state, page'[p].socket = s,
             page'[p].kind = page[p].kind, \A q \in Pages \ {p} : page'[q] = page[q],
             page[p].kind = "tui" /\ page[p].state = "connecting" => page'[p].dialog = Nothing,
             page[p].kind = "tui" => \A q : page[p].dialog = <<"trust", q>> =>
               page'[p].dialog = page[p].dialog \/ Answering(q, away'[s]),
             page[p].kind = "web" =>
               page'[p].card = page[p].card \/ Permitting(page[p].card, away'[s])
      PROVE  FInv'
  <2>1. s \in Sockets /\ conn[s] # "new" => Obeys(p)
    BY <1>3, SpeakingObeys
  <2>2. \A t \in Sockets : t # s => away'[t] = away[t] /\ down'[t] = down[t]
    BY <1>3 DEF SaysMore
  <2>3. s \in Sockets /\ conn[s] = "new" => away' = away
    BY <1>2, <1>3 DEF SaysMore
  <2> QED BY <1>1, <1>3, <2>1, <2>2, <2>3, PageRemembers
<1>4. CASE Dials(p)
  <2>1. PICK t \in FreeSockets :
          page' = [page EXCEPT ![p] = [page[p] EXCEPT !.state = "connecting", !.timer = FALSE, !.socket = t]]
    BY <1>4 DEF Dials, Becomes
  <2>2. page'[p] = [page[p] EXCEPT !.state = "connecting", !.timer = FALSE, !.socket = t]
    BY <1>0, <2>1
  <2>3. page'[p].kind = page[p].kind /\ page'[p].socket = t /\ page'[p].dialog = page[p].dialog
    BY <1>0, <2>2 DEF PageType
  <2>4. conn[t] = "new" /\ (page[p].kind = "tui" => page[p].state = "connecting")
    BY <1>0, <1>4, <2>1 DEF FreeSockets, Dials, PageForms
  <2>5. away' = away /\ down' = down /\ \A q \in Pages \ {p} : page'[q] = page[q]
    BY <1>0, <1>4, <2>1 DEF Dials
  <2> QED BY <1>0, <1>1, <2>3, <2>4, <2>5, PageRemembers
<1>5. CASE Loses(p) \/ Quits(p)
  <2>1. page'[p].kind = page[p].kind /\ page'[p].socket = None /\ page'[p].state = "disconnected"
    <3>1. ASSUME NEW timer, NEW over,
                 page'[p] = [page[p] EXCEPT !.state = "disconnected", !.socket = None,
                                            !.timer = timer, !.over = over]
          PROVE  page'[p].kind = page[p].kind /\ page'[p].socket = None /\ page'[p].state = "disconnected"
      BY <1>0, <3>1 DEF PageType
    <3>2. CASE Loses(p)
      <4> DEFINE timer == page[p].kind = "web"
                 over == page[p].kind = "tui" /\ ~page[p].handing
      <4>1. page'[p] = [page[p] EXCEPT !.state = "disconnected", !.socket = None,
                                       !.timer = timer, !.over = over]
        BY <1>0, <3>2, Becoming DEF Loses, Dropped
      <4> HIDE DEF timer, over
      <4> QED BY <3>1, <4>1
    <3>3. CASE Quits(p)
      <4>1. page'[p] = [page[p] EXCEPT !.state = "disconnected", !.socket = None,
                                       !.timer = FALSE, !.over = TRUE]
        BY <1>0, <3>3, Becoming DEF Quits
      <4> QED BY <3>1, <4>1
    <3> QED BY <1>5, <3>2, <3>3
  <2>2. away' = away /\ \A q \in Pages \ {p} : page'[q] = page[q]
    BY <1>0, <1>5, Becoming DEF Loses, Quits
  <2>3. \A t \in Sockets : t # s => down'[t] = down[t]
    BY <1>0, <1>5 DEF Loses, Quits, Unwired, Wires, Holds
  <2> QED BY <1>0, <1>1, <2>1, <2>2, <2>3, PageRemembers
<1>6. CASE Receives(p)
  <2>1. /\ s \in Sockets /\ down[s] # <<>> /\ Hears(p, Head(down[s]))
        /\ down' = [down EXCEPT ![s] = IF page'[p].socket = s THEN Tail(@) ELSE <<>>]
    BY <1>6 DEF Receives
  <2>2. conn[s] # "new" /\ (page'[p].socket = s => down'[s] = Tail(down[s]))
    BY <1>0, <2>1 DEF FreshIsSilent, Wires
  <2>3. \A t \in Sockets : t # s => down'[t] = down[t]
    BY <1>0, <2>1 DEF Wires
  <2>4. \A q \in Pages \ {p} : page'[q] = page[q]
    <3>1. \E new : page' = [page EXCEPT ![p] = new]
      BY <1>0, <2>1 DEF Hears, HearsHello, Becomes, Confronted, Raises, Lands
    <3> QED BY <1>0, <3>1
  <2>5. /\ page'[p].kind = page[p].kind
        /\ page[p].kind = "tui" /\ page'[p].state = "connecting" => page'[p].dialog = Nothing
        /\ page'[p].socket \in {None, s}
        /\ \A t \in Sockets : t # s => away'[t] = away[t]
        /\ page'[p].socket = s => Obeys(p)
    BY <2>1, <2>2, HearsRemembers
  <2> QED BY <1>0, <1>1, <2>2, <2>3, <2>4, <2>5, PageRemembers
<1>7. CASE PersonAsks(p)
  <2>1. CoreTypes
    BY DEF FInv, AInv, CInv
  <2>2. PICK m \in IF page[p].kind = "web" THEN WebRequests ELSE TuiRequests : away' = Wired(p, m)
    BY <1>7 DEF PersonAsks
  <2>3. m \in ToCore
    BY <2>1, <2>2, ClientAssumption DEF WebRequests, TuiRequests, CoreTypes, ToCore
  <2>4. SaysMore(p) /\ page' = page /\ down' = down
    BY <1>7, <2>2, <2>3, WiredSays DEF PersonAsks
  <2> QED BY <1>0, <1>3, <2>4
<1>8. CASE PersonChooses(p)
  <2>1. page'[p] = [page[p] EXCEPT !.dialog = Nothing] /\ (\A q \in Pages \ {p} : page'[q] = page[q])
        /\ down' = down /\ \A q : page[p].dialog # <<"trust", q>>
    BY <1>0, <1>8, Becoming DEF PersonChooses
  <2>2. /\ page'[p].kind = page[p].kind /\ page'[p].socket = s /\ page'[p].state = page[p].state
        /\ page'[p].card = page[p].card /\ page'[p].dialog = Nothing
    BY <1>0, <2>1 DEF PageType
  <2>3. \A c \in stored : <<"open", c>> \in ToCore
    BY UpMessages DEF FInv, AInv, CInv, CoreTypes
  <2>4. SaysMore(p)
    BY <1>8, <2>3, WiredSays, QuietSays DEF PersonChooses
  <2> QED BY <1>3, <2>1, <2>2, <2>4
<1>9. CASE HandsOver(p)
  <2>1. page'[p] = [page[p] EXCEPT !.handing = TRUE, !.dialog = Nothing] /\ (\A q \in Pages \ {p} : page'[q] = page[q])
        /\ down' = down /\ away' = Refused(p) /\ CanSend(p)
    BY <1>0, <1>9, Becoming DEF HandsOver
  <2>2. /\ page'[p].kind = page[p].kind /\ page'[p].socket = s /\ page'[p].state = page[p].state
        /\ page'[p].card = page[p].card /\ page'[p].dialog = Nothing
    BY <1>0, <2>1 DEF PageType
  <2>3. SaysMore(p) /\ \A q : page[p].dialog = <<"trust", q>> => Answering(q, away'[s])
    BY <2>1, RefusedSays
  <2> QED BY <1>3, <2>1, <2>2, <2>3
<1>10. CASE HandoffEnds(p)
  <2>1. PICK over : page'[p] = [page[p] EXCEPT !.handing = FALSE, !.over = over]
    BY <1>0, <1>10, Becoming DEF HandoffEnds
  <2>2. (\A q \in Pages \ {p} : page'[q] = page[q]) /\ down' = down /\ away' = away
    BY <1>0, <1>10, Becoming DEF HandoffEnds
  <2>3. /\ page'[p].kind = page[p].kind /\ page'[p].socket = s /\ page'[p].state = page[p].state
        /\ page'[p].card = page[p].card /\ page'[p].dialog = page[p].dialog
    BY <1>0, <2>1 DEF PageType
  <2>4. SaysMore(p)
    BY <2>2, QuietSays
  <2> QED BY <1>0, <1>3, <2>2, <2>3, <2>4
<1>11. ASSUME NEW answer \in Answers, PersonAnswers(p, answer) PROVE FInv'
  <2>1. page[p].dialog \in ({"trust"} \X Starts) \cup ({"tool"} \X (1 .. MaxTools))
    BY <1>0, <1>11 DEF PersonAnswers, PageType, Nothing
  <2>2. away' = Wired(p, Append(page[p].dialog, answer)) /\ down' = down
        /\ page'[p] = Answered(p) /\ \A q \in Pages \ {p} : page'[q] = page[q]
    BY <1>0, <1>11, Becoming DEF PersonAnswers
  <2>3. SaysMore(p) /\ (CanSend(p) => \A q : page[p].dialog = <<"trust", q>> => Answering(q, away'[s]))
    BY <2>1, <2>2, DialogAnswered
  <2>4. page'[p] = page[p] \/ page'[p] = [page[p] EXCEPT !.dialog = Nothing]
    BY <2>2 DEF Answered
  <2>5. /\ page'[p].kind = page[p].kind /\ page'[p].socket = s /\ page'[p].state = page[p].state
        /\ page'[p].card = page[p].card /\ page'[p].dialog \in {Nothing, page[p].dialog}
    BY <1>0, <2>4 DEF PageType
  \* A terminal with a question before it is connected: else it has no dialog,
  \* or no socket.
  <2>6. page[p].kind = "tui" /\ s \in Sockets => CanSend(p)
    <3>1. page[p].dialog # Nothing
      BY <1>11 DEF PersonAnswers, Nothing
    <3> QED BY <1>0, <3>1 DEF CanSend, PageType, PageForms
  <2>7. CASE s \in Sockets
    BY <1>0, <1>3, <2>2, <2>3, <2>5, <2>6, <2>7
  <2>8. CASE s \notin Sockets
    <3>1. \A t \in Sockets : t # s => away'[t] = away[t] /\ down'[t] = down[t]
      BY <2>2, <2>3 DEF SaysMore
    <3> QED BY <1>0, <1>1, <2>2, <2>5, <2>8, <3>1, PageRemembers
  <2> QED BY <2>7, <2>8
<1>12. ASSUME NEW answer \in Answers, PersonPermits(p, answer) PROVE FInv'
  <2> DEFINE m == <<"tool", page[p].card, answer>>
  <2>1. page[p].card \in 1 .. MaxTools
    BY <1>0, <1>12, Counts DEF PersonPermits, PageType, Numbers
  <2>2. away' = Wired(p, m) /\ down' = down /\ CanSend(p)
        /\ page'[p] = [page[p] EXCEPT !.card = 0] /\ \A q \in Pages \ {p} : page'[q] = page[q]
    BY <1>0, <1>12, Becoming DEF PersonPermits
  <2>3. m \in ToCore
    BY <2>1, UpMessages
  <2>4. SaysMore(p) /\ m \in ToSet(away'[s])
    <3> HIDE DEF m
    <3> QED BY <2>2, <2>3, WiredSays
  <2>5. Permitting(page[p].card, away'[s])
    BY <2>4 DEF Permitting
  <2>6. /\ page'[p].kind = page[p].kind /\ page'[p].socket = s /\ page'[p].state = page[p].state
        /\ page'[p].dialog = page[p].dialog
    BY <1>0, <2>2 DEF PageType
  <2> QED BY <1>0, <1>3, <2>2, <2>4, <2>5, <2>6
<1> QED BY <1>4, <1>5, <1>6, <1>7, <1>8, <1>9, <1>10, <1>11, <1>12 DEF PageStep

LEMMA InitFInv == ClientInit => FInv
<1> SUFFICES ASSUME ClientInit PROVE FInv
  OBVIOUS
<1>1. AInv
  BY InitCInv DEF AInv, ClientInit, Init, Unseen, Agree, NoTask
<1>2. AskersCame /\ FreshIsUnheard /\ HelloComesFirst /\ QuestionsArePut /\ RequestsAreShown /\ RequestsAreWatched
  BY GateConstants DEF ClientInit, Init, NewStart, AskersCame, FreshIsUnheard, HelloComesFirst,
       QuestionsArePut, RequestsAreShown, RequestsAreWatched
<1>3. \A kind : NewPage(kind).dialog = Nothing
  BY DEF NewPage
<1>4. TerminalsStartBare
  BY <1>3 DEF ClientInit, TerminalsStartBare
<1> QED BY <1>1, <1>2, <1>4 DEF FInv

LEMMA NextFInv == FInv /\ [ClientNext]_allVars => FInv'
<1> SUFFICES ASSUME FInv, [ClientNext]_allVars PROVE FInv'
  OBVIOUS
<1>1. [Next]_vars /\ AInv'
  BY StepServesGate, NextAInv DEF FInv, AInv
<1>2. CASE UNCHANGED allVars
  BY <1>1, <1>2 DEF allVars, vars, clientVars, FInv, AskersCame, FreshIsUnheard, HelloComesFirst, Greeted, Plain,
       TerminalsStartBare, QuestionsArePut, RequestsAreShown, RequestsAreWatched
<1>3. CASE ClientNext
  BY <1>1, <1>3, AcceptsRemembers, StartsRemember, HandlesRemembers, OthersRemember, PageStepRemembers
     DEF ClientNext, CoreStep
<1> QED BY <1>2, <1>3

\* A question of trust put to a terminal, and a tool's request to the pages that
\* watch, is before them, on its way there, or answered, for any number of
\* clients and over every replaced dialog, handoff, switch of conversation, lost
\* socket and restart (InteractionOwner, onSnapshot, denyPending, cancel).
THEOREM NothingAskedIsForgotten == ClientSpec => []NothingIsForgotten
BY InitFInv, NextFInv, FInvRemembers, PTL DEF ClientSpec
=============================================================================
