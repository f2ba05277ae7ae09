------------------------------ MODULE CoreClient ------------------------------
(***************************************************************************)
(* The pages and terminals that talk to Core over WebSockets:              *)
(* packages/core-client/src/core-client.ts (CoreClient),                   *)
(* packages/web/src/use-core.ts (useCore), packages/tui/src/index.ts and   *)
(* the other end of the wire in packages/server/src/index.ts (onConnection,*)
(* defaultSession, handle, show).  The questions of project trust are      *)
(* those of TrustGate, asked and answered over the same wire.              *)
(*                                                                         *)
(* No message a client sends says which conversation it is about: Core     *)
(* takes it for the one it last showed that socket.                        *)
(***************************************************************************)
EXTENDS TrustGate, Naturals, Sequences, SequencesExt

CONSTANTS
  Pages,          \* the clients: browser pages, Desktop windows, terminals
  Conversations,
  Place,          \* conversation -> its working directory
  Home,           \* the directory the terminals were started in
  Beginnings,     \* what there is at first: clients, conversations, project
                  \* resources, and how much of the bounds is used up
  MaxAsks,        \* bound: what persons open, create and list
  MaxTools,       \* bound: tools that ask for permission
  MaxTroubles     \* bound: lost connections, restarts, failures, foreign decisions

ASSUME ClientAssumption ==
  /\ Place \in [Conversations -> Dirs] /\ Home \in Dirs
  /\ {MaxAsks, MaxTools, MaxTroubles} \subseteq Nat
  /\ None \notin Conversations
  /\ Beginnings \subseteq
       [kinds : [Pages -> {"web", "tui", "unused"}], stored : SUBSET Conversations,
        last : Conversations \cup {None}, resources : SUBSET Dirs,
        asks : 0 .. MaxAsks, troubles : 0 .. MaxTroubles]

VARIABLES
  up,         \* Core listens, and whether these clients understand it
  stored,     \* conversations with a file
  live,       \* those with a Pi
  last,       \* localState's lastSessionId
  viewing,    \* socket -> the conversation it was last shown
  task,       \* start -> the sockets to show what it opens, and what that is
  pending,    \* conversation -> its unanswered permission request, or 0
  down,       \* socket -> messages on their way to the client
  away,       \* socket -> messages on their way to Core
  page,       \* page -> its CoreClient and what it shows
  asks, tools, troubles

clientVars == <<up, stored, live, last, viewing, task, pending, down, away, page,
                asks, tools, troubles>>
allVars == <<vars, clientVars>>
gateVars == <<resources, decision, byId, byDirectory, start>>
coreVars == <<stored, live, last, viewing, task, pending>>
bounds   == <<asks, tools, troubles>>

Numbers == 0 .. MaxTools
Nothing == <<"none", None>>

\* over: closed by its user, by an incompatible Core or (a terminal) by the loss
\* of Core; dialog: what the bottom of a terminal, or the slot of a page, holds;
\* card: the request a page's transcript shows.
PageType == [kind : {"web", "tui", "unused"},
             state : {"connecting", "connected", "disconnected"},
             socket : Sockets \cup {None}, timer : BOOLEAN, over : BOOLEAN,
             shown : Conversations \cup {None},
             dialog : {Nothing, <<"choice", None>>} \cup ({"trust"} \X Starts)
                      \cup ({"tool"} \X (1 .. MaxTools)),
             card : Numbers, landed : BOOLEAN, handing : BOOLEAN]

\* It is about to connect for the first time.
NewPage(kind) ==
  [kind |-> kind, state |-> "connecting", socket |-> None, timer |-> kind # "unused",
   over |-> kind = "unused", shown |-> None, dialog |-> Nothing, card |-> 0,
   landed |-> FALSE, handing |-> FALSE]

\* goal "failed": Pi would not start.
TaskType == [for : SUBSET Sockets, goal : {"none", "default", "open", "create", "failed"},
             want : Conversations \cup {None}]
NoTask == [for |-> {}, goal |-> "none", want |-> None]

\* What Core sends; a snapshot tells of the pending request.
ToClient ==
  ({"hello"} \X BOOLEAN) \cup ({"show"} \X Conversations \X Numbers)
  \cup ({"trust"} \X Starts) \cup ({"tool"} \X (1 .. MaxTools))
  \cup ({"listing"} \X SUBSET Conversations)

\* What a client sends (of those that change more than one conversation's turn).
ToCore ==
  {<<"list">>} \cup ({"open"} \X Conversations) \cup ({"create"} \X Dirs)
  \cup ({"trust"} \X Starts \X Answers) \cup ({"tool"} \X (1 .. MaxTools) \X Answers)

ClientTypeOK ==
  /\ TypeOK
  /\ up \in {"down", "up", "incompatible"}
  /\ live \subseteq stored /\ stored \subseteq Conversations
  /\ last \in Conversations \cup {None}
  /\ viewing \in [Sockets -> Conversations \cup {None}]
  /\ task \in [Starts -> TaskType] /\ pending \in [Conversations -> Numbers]
  /\ down \in [Sockets -> Seq(ToClient)] /\ away \in [Sockets -> Seq(ToCore)]
  /\ page \in [Pages -> PageType]
  /\ asks \in 0 .. MaxAsks /\ tools \in Numbers /\ troubles \in 0 .. MaxTroubles

\* Clients of either kind, none of them connected yet.
ClientInit ==
  /\ Init
  /\ up = "up" /\ live = {}
  /\ viewing = [s \in Sockets |-> None] /\ task = [a \in Starts |-> NoTask]
  /\ pending = [c \in Conversations |-> 0]
  /\ down = [s \in Sockets |-> <<>>] /\ away = [s \in Sockets |-> <<>>]
  /\ \E b \in Beginnings :
       /\ resources = b.resources /\ stored = b.stored /\ last = b.last
       /\ page = [p \in Pages |-> NewPage(b.kinds[p])]
       /\ asks = b.asks /\ troubles = b.troubles
  /\ tools = 0

Trouble == troubles < MaxTroubles /\ troubles' = troubles + 1 /\ UNCHANGED <<asks, tools>>
NoTrouble == UNCHANGED bounds

-----------------------------------------------------------------------------
(* The wire.                                                               *)

Holds(p, s) == page[p].socket = s
Heard(s) == conn[s] = "open" /\ \E p \in Pages : Holds(p, s)

\* sendTo, for each socket of ss.
Sent(ss, m) == [s \in Sockets |-> IF s \in ss /\ Heard(s) THEN Append(down[s], m) ELSE down[s]]

\* #send succeeds only over a socket whose hello was understood.
CanSend(p) == page[p].state = "connected"
Wired(p, m) ==
  IF CanSend(p) THEN [away EXCEPT ![page[p].socket] = Append(@, m)] ELSE away

FreeSockets == {s \in Sockets : conn[s] = "new" /\ \A p \in Pages : ~Holds(p, s)}
FreeStart == CHOOSE a \in Starts : start[a].pc = "new" /\ task[a] = NoTask
HasFreeStart == \E a \in Starts : start[a].pc = "new" /\ task[a] = NoTask

-----------------------------------------------------------------------------
(* Core: what it shows whom.                                               *)

\* MUTANT of Shows: a client is not told of what it was last on.
ShowsOthers(ss, c) ==
  /\ viewing' = [s \in Sockets |-> IF s \in ss THEN c ELSE viewing[s]]
  /\ pending' = [d \in Conversations |->
       IF d # c /\ (\E s \in ss : viewing[s] = d) /\ (\A s \in Sockets \ ss : viewing[s] # d)
       THEN 0 ELSE pending[d]]
  /\ last' = c
  /\ down' = Sent(IF c = last THEN {} ELSE ss, <<"show", c, pending[c]>>)

\* show() to each socket of ss, there or not: the requests of a conversation
\* that loses its last viewer are denied.
Shows(ss, c) ==
  /\ viewing' = [s \in Sockets |-> IF s \in ss THEN c ELSE viewing[s]]
  /\ pending' = [d \in Conversations |->
       IF d # c /\ (\E s \in ss : viewing[s] = d) /\ (\A s \in Sockets \ ss : viewing[s] # d)
       THEN 0 ELSE pending[d]]
  /\ last' = c
  /\ down' = Sent(ss, <<"show", c, pending[c]>>)

InFlight(a) == task[a].goal \in {"default", "open", "create"}
               /\ start[a].pc \in {"find", "wait", "launched"}

\* `resolving`: the attempt that every client without a conversation shares.
Resolving == {a \in Starts : task[a].goal = "default" /\ InFlight(a)}

\* resolveDefaultSession: the last one used, else a recent one, else a new one.
DefaultTargets ==
  IF last \in stored THEN {last} ELSE IF stored # {} THEN stored ELSE {None}

Pursues(a, s, goal, c) == task' = [task EXCEPT ![a] = [for |-> {s}, goal |-> goal, want |-> c]]

\* onConnection: the hello, then the default conversation.
Accepts(p) ==
  LET s == page[p].socket
      hello == <<"hello", up = "up">> IN
  /\ up # "down" /\ s \in Sockets
  /\ \/ /\ Resolving = {} /\ last \in live /\ Connect(s)
        /\ viewing' = [viewing EXCEPT ![s] = last]
        /\ down' = [down EXCEPT ![s] = <<hello, <<"show", last, pending[last]>>>>]
        /\ UNCHANGED task
     \/ /\ Resolving # {} /\ Connect(s)
        /\ task' = [a \in Starts |-> IF a \in Resolving
                                     THEN [task[a] EXCEPT !.for = @ \cup {s}] ELSE task[a]]
        /\ down' = [down EXCEPT ![s] = <<hello>>] /\ UNCHANGED viewing
     \/ /\ Resolving = {} /\ last \notin live /\ HasFreeStart
        /\ \E c \in DefaultTargets :
             /\ Arrive(FreeStart, s, IF c = None THEN Home ELSE Place[c])
             /\ Pursues(FreeStart, s, "default", c)
        /\ down' = [down EXCEPT ![s] = <<hello>>]
        /\ UNCHANGED viewing
  /\ NoTrouble /\ UNCHANGED <<up, stored, live, last, pending, away, page>>

\* A start that asks a new question sends it to its client.
AsksClient(a) ==
  down' = IF start'[a].on = a THEN Sent({start'[a].who}, <<"trust", a>>) ELSE down

\* A start finds the file of its conversation, or has none to find.
Finds(a) ==
  /\ InFlight(a) /\ Found(a) /\ AsksClient(a)
  /\ NoTrouble /\ UNCHANGED coreVars /\ UNCHANGED <<up, away, page>>

\* The file went away; another client's sweep of the disk, or Pi's own.
FindsNot(a) ==
  /\ task[a].goal = "open" /\ NotFound(a) /\ Trouble
  /\ stored' = stored \ ({task[a].want} \ live)
  /\ UNCHANGED <<up, live, last, viewing, task, pending, down, away, page>>

\* sessions.open ends: a Pi serves the conversation, and it is shown.
Opens(a) ==
  /\ InFlight(a) /\ start[a].pc = "launched"
  /\ \E c \in IF task[a].want # None THEN {task[a].want}
              ELSE {c \in Conversations \ stored : Place[c] = start[a].dir} :
       /\ live' = live \cup {c} /\ stored' = stored \cup {c}
       /\ Shows(task[a].for, c)
  /\ task' = [task EXCEPT ![a] = NoTask]
  /\ NoTrouble /\ UNCHANGED <<up, away, page, conn>> /\ UNCHANGED gateVars

OpenFails(a) ==
  /\ InFlight(a) /\ start[a].pc = "launched"
  /\ \/ Trouble
     \/ /\ task[a].want = None /\ {c \in Conversations \ stored : Place[c] = start[a].dir} = {}
        /\ NoTrouble
  /\ task' = [task EXCEPT ![a].goal = "failed"]
  /\ UNCHANGED <<up, stored, live, last, viewing, pending, down, away, page, conn>>
  /\ UNCHANGED gateVars

\* handle(), for one message.
Handles(s) ==
  /\ conn[s] = "open" /\ away[s] # <<>>
  /\ LET m == Head(away[s]) IN
     \/ /\ m[1] = "list"
        /\ down' = Sent({s}, <<"listing", stored>>)
        /\ UNCHANGED <<conn, task, viewing, pending, last>> /\ UNCHANGED gateVars
     \/ /\ m[1] = "open" /\ m[2] \in live /\ Shows({s}, m[2])
        /\ UNCHANGED <<conn, task>> /\ UNCHANGED gateVars
     \/ /\ m[1] = "open" /\ m[2] \notin live /\ HasFreeStart
        /\ Begin(FreeStart, s, Place[m[2]]) /\ Pursues(FreeStart, s, "open", m[2])
        /\ UNCHANGED <<viewing, pending, last, down>>
     \/ /\ m[1] = "create" /\ HasFreeStart
        /\ Create(FreeStart, s, m[2]) /\ Pursues(FreeStart, s, "create", None)
        /\ AsksClient(FreeStart) /\ UNCHANGED <<viewing, pending, last>>
     \/ /\ m[1] = "trust"
        /\ IF m[2] \in byId /\ start[m[2]].who = s THEN Respond(s, m[2], m[3])
           ELSE UNCHANGED vars
        /\ UNCHANGED <<task, viewing, pending, last, down>>
     \/ /\ m[1] = "tool"
        /\ pending' = [c \in Conversations |->
             IF c = viewing[s] /\ c \in live /\ pending[c] = m[2] THEN 0 ELSE pending[c]]
        /\ UNCHANGED <<task, viewing, last, down, conn>> /\ UNCHANGED gateVars
  /\ away' = [away EXCEPT ![s] = Tail(@)]
  /\ NoTrouble /\ UNCHANGED <<up, stored, live, page>>

\* A tool of a watched conversation asks; its viewers are told.
ToolAsks(c) ==
  /\ c \in live /\ pending[c] = 0 /\ tools < MaxTools /\ tools' = tools + 1
  /\ \E s \in Sockets : viewing[s] = c /\ conn[s] = "open"
  /\ pending' = [pending EXCEPT ![c] = tools']
  /\ down' = Sent({s \in Sockets : viewing[s] = c}, <<"tool", tools'>>)
  /\ UNCHANGED <<conn, up, stored, live, last, viewing, task, away, page, asks, troubles>>
  /\ UNCHANGED gateVars

\* The close of a socket that no client holds any more.
HearsClose(s) ==
  /\ \A p \in Pages : ~Holds(p, s)
  /\ Leave(s)
  /\ viewing' = [viewing EXCEPT ![s] = None]
  /\ pending' = [c \in Conversations |->
       IF c = viewing[s] /\ \A t \in Sockets \ {s} : viewing[t] # c THEN 0 ELSE pending[c]]
  /\ away' = [away EXCEPT ![s] = <<>>]
  /\ NoTrouble /\ UNCHANGED <<up, stored, live, last, task, down, page>>

\* A sweep stops the Pi of a conversation nobody watches (IdleReclaim).
Reclaims(c) ==
  /\ c \in live /\ \A s \in Sockets : viewing[s] # c
  /\ live' = live \ {c}
  /\ NoTrouble /\ UNCHANGED <<conn, up, stored, last, viewing, task, pending, down, away, page>>
  /\ UNCHANGED gateVars

\* Core stops, and comes back, perhaps as another version.
CoreStops ==
  /\ up = "up" /\ up' = "down" /\ Trouble
  /\ Stop
  /\ task' = [a \in Starts |->
       IF InFlight(a) THEN [task[a] EXCEPT !.goal = "failed"] ELSE task[a]]
  /\ live' = {} /\ viewing' = [s \in Sockets |-> None]
  /\ pending' = [c \in Conversations |-> 0] /\ away' = [s \in Sockets |-> <<>>]
  /\ UNCHANGED <<stored, last, down, page>>

CoreReturns ==
  /\ up = "down" /\ up' \in {"up", "incompatible"} /\ NoTrouble
  /\ UNCHANGED coreVars /\ UNCHANGED <<down, away, page>> /\ UNCHANGED vars

\* Trust is decided, or resources appear, outside (TrustGate).
DirectoryChanges ==
  /\ Trouble /\ \E d \in Dirs : ResourcesChange(d) \/ \E answer \in Answers : DecidedElsewhere(d, answer)
  /\ UNCHANGED coreVars /\ UNCHANGED <<up, down, away, page>>

-----------------------------------------------------------------------------
(* A client: its connection.                                               *)

Becomes(p, new) == page' = [page EXCEPT ![p] = new]
CoreOnly == UNCHANGED vars /\ UNCHANGED coreVars /\ UNCHANGED up

\* #connect, at first or when the timer fires.
Dials(p) ==
  /\ page[p].timer /\ FreeSockets # {}
  /\ Becomes(p, [page[p] EXCEPT !.state = "connecting", !.timer = FALSE,
                                !.socket = CHOOSE s \in FreeSockets : TRUE])
  /\ CoreOnly /\ UNCHANGED <<down, away>> /\ NoTrouble

\* MUTANT of Dropped: the timer is only armed by the loss of a connection that
\* stood, and not by an attempt that fails.
DroppedOnce(p) ==
  [page[p] EXCEPT !.state = "disconnected", !.socket = None,
                  !.timer = page[p].kind = "web" /\ page[p].state = "connected",
                  !.over = page[p].kind = "tui" /\ ~page[p].handing]

\* What a page is after the end of its socket: it waits to reconnect; a terminal
\* ends, unless it hands over to an update or an uninstall.
Dropped(p) ==
  [page[p] EXCEPT !.state = "disconnected", !.socket = None,
                  !.timer = page[p].kind = "web",
                  !.over = page[p].kind = "tui" /\ ~page[p].handing]

Unwired(p) == down' = [down EXCEPT ![page[p].socket] = <<>>]

\* onclose: nobody answered, Core closed it, or the network did.
Loses(p) ==
  LET s == page[p].socket IN
  /\ s \in Sockets
  /\ \/ conn[s] = "new" /\ up = "down" /\ NoTrouble
     \/ conn[s] = "closed" /\ NoTrouble
     \/ conn[s] = "open" /\ Trouble
  /\ Becomes(p, Dropped(p)) /\ Unwired(p) /\ CoreOnly /\ UNCHANGED away

-----------------------------------------------------------------------------
(* What it makes of a message.                                             *)

\* InteractionOwner.cancel: a dialog that loses its place is answered with a no.
Refused(p) ==
  IF page[p].dialog[1] \in {"trust", "tool"}
  THEN Wired(p, Append(page[p].dialog, "no")) ELSE away

\* MUTANT of Raises: the dialog that was up is gone without an answer.
RaisesOver(p, dialog) ==
  /\ Becomes(p, [page[p] EXCEPT !.dialog = dialog])
  /\ UNCHANGED away

\* A terminal has one dialog: a new one replaces it.
Raises(p, dialog) ==
  /\ Becomes(p, [page[p] EXCEPT !.dialog = dialog])
  /\ away' = Refused(p)

\* A terminal that hands over denies what is asked of it.
Confronted(p, dialog) ==
  IF page[p].handing THEN away' = Wired(p, Append(dialog, "no")) /\ UNCHANGED page
  ELSE Raises(p, dialog)

\* land: to its own directory, once.
Lands(p, listed) ==
  LET here == {c \in listed : Place[c] = Home} IN
  /\ Becomes(p, [page[p] EXCEPT !.landed = TRUE])
  /\ \/ here = {} /\ away' = Wired(p, <<"create", Home>>)
     \/ \E c \in here :
          away' = IF c = page[p].shown THEN away ELSE Wired(p, <<"open", c>>)

\* The hello of a Core that fits connects; another one ends the client for good.
HearsHello(p, compatible) ==
  IF compatible
  THEN /\ Becomes(p, [page[p] EXCEPT !.state = "connected"])
       /\ away' = IF page[p].kind = "tui"
                  THEN [away EXCEPT ![page[p].socket] = <<<<"list">>>>] ELSE away
  ELSE /\ Becomes(p, [page[p] EXCEPT !.state = "disconnected", !.socket = None, !.over = TRUE])
       /\ UNCHANGED away

\* A question of trust fills the one slot of a web page, whatever was in it.
Hears(p, m) ==
  \/ m[1] = "hello" /\ HearsHello(p, m[2])
  \/ /\ m[1] = "show"
     /\ Becomes(p, [page[p] EXCEPT !.shown = m[2],
                      !.card = IF page[p].kind = "web" THEN m[3] ELSE 0])
     /\ UNCHANGED away
  \/ m[1] = "trust" /\ page[p].kind = "web"
     /\ Becomes(p, [page[p] EXCEPT !.dialog = m]) /\ UNCHANGED away
  \/ m[1] \in {"trust", "tool"} /\ page[p].kind = "tui" /\ Confronted(p, m)
  \/ m[1] = "tool" /\ page[p].kind = "web"
     /\ Becomes(p, [page[p] EXCEPT !.card = m[2]]) /\ UNCHANGED away
  \/ m[1] = "listing" /\ ~page[p].landed /\ Lands(p, m[2])
  \/ m[1] = "listing" /\ page[p].landed /\ Raises(p, <<"choice", None>>)

Receives(p) ==
  LET s == page[p].socket IN
  /\ s \in Sockets /\ down[s] # <<>> /\ Hears(p, Head(down[s]))
  /\ down' = [down EXCEPT ![s] = IF page'[p].socket = s THEN Tail(@) ELSE <<>>]
  /\ CoreOnly /\ NoTrouble

-----------------------------------------------------------------------------
(* The person in front of it.                                              *)

Asks == asks < MaxAsks /\ asks' = asks + 1 /\ UNCHANGED <<tools, troubles>>

\* A web page opens what its list shows, and creates in any directory; a
\* terminal creates at home, and asks for the list to choose from.
WebRequests == ({"open"} \X stored) \cup ({"create"} \X Dirs)
TuiRequests == {<<"list">>, <<"create", Home>>}

\* Behind no question.
PersonAsks(p) ==
  /\ CanSend(p) /\ page[p].dialog = Nothing /\ ~page[p].handing /\ Asks
  /\ \E m \in IF page[p].kind = "web" THEN WebRequests ELSE TuiRequests :
       away' = Wired(p, m)
  /\ UNCHANGED <<page, down>> /\ CoreOnly

\* An answer that cannot be sent leaves a web page's question where it is.
Answered(p) ==
  IF CanSend(p) \/ page[p].kind = "tui" THEN [page[p] EXCEPT !.dialog = Nothing] ELSE page[p]

PersonAnswers(p, answer) ==
  /\ page[p].dialog[1] \in {"trust", "tool"} /\ ~page[p].over
  /\ away' = Wired(p, Append(page[p].dialog, answer))
  /\ Becomes(p, Answered(p))
  /\ UNCHANGED down /\ CoreOnly /\ NoTrouble

PersonChooses(p) ==
  /\ page[p].dialog[1] = "choice" /\ ~page[p].over
  /\ Becomes(p, [page[p] EXCEPT !.dialog = Nothing])
  /\ away' \in {away} \cup {Wired(p, <<"open", c>>) : c \in stored}
  /\ UNCHANGED down /\ CoreOnly /\ NoTrouble

\* The card in a page's transcript.
PersonPermits(p, answer) ==
  /\ CanSend(p) /\ page[p].card # 0 /\ page[p].dialog = Nothing
  /\ away' = Wired(p, <<"tool", page[p].card, answer>>)
  /\ Becomes(p, [page[p] EXCEPT !.card = 0])
  /\ UNCHANGED down /\ CoreOnly /\ NoTrouble

\* An update or an uninstall is confirmed in a terminal: its dialog took the
\* place of whatever was asked.
HandsOver(p) ==
  /\ page[p].kind = "tui" /\ CanSend(p) /\ ~page[p].handing /\ Asks
  /\ Becomes(p, [page[p] EXCEPT !.handing = TRUE, !.dialog = Nothing])
  /\ away' = Refused(p)
  /\ UNCHANGED down /\ CoreOnly

\* The handoff is refused; without its Core a terminal cannot go on.
HandoffEnds(p) ==
  /\ page[p].handing /\ ~page[p].over
  /\ Becomes(p, [page[p] EXCEPT !.handing = FALSE, !.over = page[p].state = "disconnected"])
  /\ UNCHANGED <<down, away>> /\ CoreOnly /\ NoTrouble

\* close(): nothing of the socket is heard any more.
Quits(p) ==
  /\ ~page[p].over /\ Trouble
  /\ Becomes(p, [page[p] EXCEPT !.state = "disconnected", !.socket = None,
                                !.timer = FALSE, !.over = TRUE])
  /\ down' = [s \in Sockets |-> IF Holds(p, s) THEN <<>> ELSE down[s]]
  /\ CoreOnly /\ UNCHANGED away

CoreStep ==
  \/ \E p \in Pages : Accepts(p)
  \/ \E a \in Starts : Finds(a) \/ FindsNot(a) \/ Opens(a) \/ OpenFails(a)
  \/ \E s \in Sockets : Handles(s) \/ HearsClose(s)
  \/ \E c \in Conversations : ToolAsks(c) \/ Reclaims(c)
  \/ CoreStops \/ CoreReturns \/ DirectoryChanges

PageStep(p) ==
  \/ Dials(p) \/ Loses(p) \/ Receives(p)
  \/ PersonAsks(p) \/ PersonChooses(p) \/ HandsOver(p) \/ HandoffEnds(p) \/ Quits(p)
  \/ \E answer \in Answers : PersonAnswers(p, answer) \/ PersonPermits(p, answer)

ClientNext == CoreStep \/ \E p \in Pages : PageStep(p)

\* Timers fire, sockets deliver and Core goes on with what it began, as long as
\* it lives; a service manager or a person starts it again.  Persons and tools
\* do as they please.
ClientFairness ==
  /\ \A p \in Pages : WF_allVars(Dials(p)) /\ WF_allVars(Accepts(p))
                      /\ WF_allVars(Receives(p)) /\ WF_allVars(Loses(p) /\ UNCHANGED troubles)
  /\ \A s \in Sockets : WF_allVars(Handles(s)) /\ WF_allVars(HearsClose(s))
  /\ \A a \in Starts : WF_allVars(Finds(a)) /\ WF_allVars(Opens(a) \/ OpenFails(a))
  /\ WF_allVars(CoreReturns)

ClientSpec == ClientInit /\ [][ClientNext]_allVars /\ ClientFairness

-----------------------------------------------------------------------------
(* Properties.                                                             *)

\* A client has one socket or, if it reconnects, one timer; nobody else has the
\* socket, and Core is only told things over one that it still knows.
OneConnection ==
  /\ \A p \in Pages :
       /\ page[p].timer => page[p].socket = None /\ ~page[p].over
       /\ page[p].kind = "web" /\ ~page[p].over => page[p].timer \/ page[p].socket # None
       /\ page[p].state = "connected" => page[p].socket # None /\ conn[page[p].socket] # "new"
       /\ page[p].over => page[p].socket = None
  /\ \A p, q \in Pages : p # q /\ page[p].socket # None => page[p].socket # page[q].socket

\* Whoever shows the conversation "at" shows c after hearing these messages.
Leads(messages, at, c) ==
  LET shows == {i \in DOMAIN messages : messages[i][1] = "show"} IN
  IF shows = {} THEN at = c
  ELSE \E i \in shows : messages[i][2] = c /\ \A j \in shows : j <= i

\* No message names its conversation, so that the two ends must agree on it: the
\* conversation Core takes a client's messages for is the one the client shows,
\* or is being told to show, over lost sockets, restarts, shared attempts and
\* several conversations opening at once.
Agree ==
  \A p \in Pages :
    LET s == page[p].socket IN
    s \in Sockets /\ conn[s] = "open" /\ viewing[s] # None =>
      Leads(down[s], page[p].shown, viewing[s])

ClientInv == ClientTypeOK /\ OneConnection /\ Agree /\ WaitersAreHeld

\* What Core waits for is before a person, on its way there, or answered: a
\* question of trust put to a terminal, a tool's request to whoever watches it
\* in a page.  (A page has one slot for questions of trust, and forgets the
\* first of two.)
NothingIsForgotten ==
  \A p \in Pages :
    LET s == page[p].socket IN
    s \in Sockets /\ conn[s] = "open" =>
      /\ page[p].kind = "tui" =>
           \A q \in byId : start[q].who = s =>
             \/ page[p].dialog = <<"trust", q>> \/ <<"trust", q>> \in ToSet(down[s])
             \/ \E answer \in Answers : <<"trust", q, answer>> \in ToSet(away[s])
      /\ page[p].kind = "web" /\ viewing[s] # None =>
           LET n == pending[viewing[s]] IN
           n # 0 =>
             \/ page[p].card = n
             \/ {<<"tool", n>>, <<"show", viewing[s], n>>} \cap ToSet(down[s]) # {}
             \/ \E answer \in Answers : <<"tool", n, answer>> \in ToSet(away[s])

\* A start that has not shown its client anything yet, for a reason.
Waits(s) ==
  \E a \in Starts : s \in task[a].for /\ start[a].pc # "find"
                    /\ (start[a].pc = "launched" => task[a].goal = "failed")

\* However often the connection and Core are lost, a page connects again and
\* shows a conversation Core has it on, unless Core cannot serve one: the
\* question of trust is open or refused, or its Pi would not start.
PagesComeBack ==
  \A p \in Pages :
    []<>(LET s == page[p].socket IN
         \/ page[p].over \/ page[p].kind = "tui" \/ (page[p].timer /\ FreeSockets = {})
         \/ /\ page[p].state = "connected" /\ down[s] = <<>>
            /\ viewing[s] = page[p].shown \/ Waits(s))
=============================================================================
