----------------------------- MODULE LedgerFeed -----------------------------
(***************************************************************************)
(* How a client comes to see a conversation.  Core folds Pi's events into  *)
(* view actions, applies them to its ledger and collects them for 30 ms    *)
(* before they go out in one batch; a client gets a snapshot of the ledger *)
(* when it is shown the conversation, or when the ledger is rebuilt from   *)
(* Pi's file, and applies the batches to its own copy.                     *)
(*                                                                         *)
(* Translated from packages/server/src/session-registry.ts (emitManaged,   *)
(* snapshot, reconcile), packages/contract/src/session.ts (the ledger and  *)
(* the client's mirror of it), packages/agent/src/events.ts and show() in  *)
(* packages/server/src/index.ts.  One conversation, whose Pi stays up.     *)
(* Of the ledger three kinds of field are kept: messages, which actions    *)
(* add to (a delta is text or thinking), cards of tools, which actions     *)
(* change and a question is attached to, and one field that actions        *)
(* replace (busy, for the usage, context, model, retry and queue too).     *)
(* A message calls one tool or none.                                       *)
(***************************************************************************)
EXTENDS Naturals, Sequences, SequencesExt

CONSTANTS
  Clients,
  MaxMessages,   \* bound: messages of the conversation
  MaxText,       \* bound: deltas of a message
  MaxUnread,     \* bound: messages on their way to a socket
  MaxUnsent,     \* bound: actions collected for a batch
  NoCopy

ASSUME FeedAssumption == {MaxMessages, MaxText, MaxUnread, MaxUnsent} \subseteq Nat

VARIABLES
  pi,           \* what Pi is doing
  count,        \* messages Pi has started
  written,      \* deltas of the message being streamed
  stored,       \* Pi's file: the text and the tool call of every finished message
  ledger,       \* session.ledger
  outbox,       \* actions not sent yet
  timer,        \* flushTimer is armed
  reconciling,  \* getEntries calls that a reconcile awaits
  watching,     \* sockets that look at the conversation
  channel,      \* socket -> messages on their way to it
  mirror,       \* socket -> its copy of the ledger
  clean         \* history: its last snapshot was taken with nothing unsent

piVars     == <<pi, count, written, stored>>
clientVars == <<watching, channel, mirror, clean>>
feedVars   == <<pi, count, written, stored, ledger, outbox, timer, reconciling,
                watching, channel, mirror, clean>>

\* A message that was streamed has an id of this process's, one that was read
\* from Pi's file has the id of its entry there.
Ended     == {"done", "error"}
Statuses  == {"running", "pending"} \cup Ended
EntryType ==
  [kind : {"message"}, id : 1 .. MaxMessages, stable : BOOLEAN, text : 0 .. (2 * MaxText)]
  \cup [kind : {"tool"}, id : 1 .. MaxMessages, status : Statuses, asks : BOOLEAN]
Msg(n, stable, text) == [kind |-> "message", id |-> n, stable |-> stable, text |-> text]
Card(n, status)      == [kind |-> "tool", id |-> n, status |-> status, asks |-> FALSE]

Added(n)   == [type |-> "message_added", id |-> n]
Text(n)    == [type |-> "text_appended", id |-> n]
Tool(n, s) == [type |-> "tool_changed", id |-> n, status |-> s]
Confirm    == [type |-> "confirm_requested"]
Busy(b)    == [type |-> "busy_changed", busy |-> b]

Ledger(entries, busy) == [entries |-> entries, busy |-> busy]

FeedTypeOK ==
  /\ pi \in {"idle", "prompted", "working", "streaming", "calling", "running", "asking", "answered"}
  /\ count \in 0 .. MaxMessages /\ written \in 0 .. MaxText
  /\ stored \in Seq([text : 0 .. MaxText, tool : {"none", "pending"} \cup Ended])
  /\ ledger.entries \in Seq(EntryType) /\ ledger.busy \in BOOLEAN
  /\ timer \in BOOLEAN /\ timer <=> outbox # <<>>
  /\ reconciling \in 0 .. MaxMessages
  /\ watching \in SUBSET Clients /\ clean \in SUBSET Clients
  /\ \A s \in Clients :
       /\ s \notin watching => mirror[s] = NoCopy /\ channel[s] = <<>>
       /\ mirror[s] # NoCopy => mirror[s].entries \in Seq(EntryType) /\ mirror[s].busy \in BOOLEAN

FeedInit ==
  /\ pi = "idle" /\ count = 0 /\ written = 0 /\ stored = <<>>
  /\ ledger = Ledger(<<>>, FALSE)
  /\ outbox = <<>> /\ timer = FALSE /\ reconciling = 0
  /\ watching = {} /\ clean = {}
  /\ channel = [s \in Clients |-> <<>>]
  /\ mirror = [s \in Clients |-> NoCopy]

-----------------------------------------------------------------------------
(* The ledger, on either side.                                             *)

\* findMessage, findTool and the latest card under way: the last such entry, or 0.
Find(entries, n) ==
  SelectLastInSeq(entries, LAMBDA e : e.kind = "message" /\ e.id = n /\ ~e.stable)
FindTool(entries, n) == SelectLastInSeq(entries, LAMBDA e : e.kind = "tool" /\ e.id = n)
FindActive(entries) ==
  SelectLastInSeq(entries, LAMBDA e : e.kind = "tool" /\ e.status \notin Ended)

\* A card that is no longer pending asks nothing.
Moved(card, status) ==
  [card EXCEPT !.status = status, !.asks = @ /\ status = "pending"]

\* apply: text for a message the ledger does not have is dropped, and so is a
\* question when no tool is under way.
Apply(l, a) ==
  CASE a.type = "message_added" ->
         [l EXCEPT !.entries = Append(@, Msg(a.id, FALSE, 0))]
    [] a.type = "text_appended" ->
         IF Find(l.entries, a.id) = 0 THEN l
         ELSE [l EXCEPT !.entries[Find(l.entries, a.id)].text = @ + 1]
    [] a.type = "tool_changed" ->
         IF FindTool(l.entries, a.id) = 0
         THEN [l EXCEPT !.entries = Append(@, Card(a.id, a.status))]
         ELSE [l EXCEPT !.entries[FindTool(l.entries, a.id)] = Moved(@, a.status)]
    [] a.type = "confirm_requested" ->
         IF FindActive(l.entries) = 0 THEN l
         ELSE [l EXCEPT !.entries[FindActive(l.entries)] =
                 [@ EXCEPT !.status = "pending", !.asks = TRUE]]
    [] OTHER -> [l EXCEPT !.busy = a.busy]

ApplyAll(l, actions) == FoldLeft(Apply, l, actions)

\* createSession(snapshot) or the actions of a batch.
Receive(copy, m) == IF m.kind = "snapshot" THEN m.ledger ELSE ApplyAll(copy, m.actions)

Snapshot(l)  == [kind |-> "snapshot", ledger |-> l]
Batch(as)    == [kind |-> "actions", actions |-> as]

\* A message put on the way to the sockets ss.
Sent(ss, m) == [s \in Clients |-> IF s \in ss THEN Append(channel[s], m) ELSE channel[s]]

Room(ss) == \A s \in ss : Len(channel[s]) < MaxUnread

\* MUTANT of Emit: a timer that is armed already is taken to have been sent.
EmitUnlessArmed(actions) ==
  /\ Len(outbox) < MaxUnsent
  /\ ledger' = ApplyAll(ledger, actions)
  /\ outbox' = IF timer THEN outbox ELSE outbox \o actions
  /\ timer' = TRUE

\* emitManaged: into the ledger at once, to the clients with the next batch.
Emit(actions) ==
  /\ Len(outbox) < MaxUnsent
  /\ ledger' = ApplyAll(ledger, actions)
  /\ outbox' = outbox \o actions
  /\ timer' = TRUE

Asks(e) == e.kind = "tool" /\ e.asks

-----------------------------------------------------------------------------
(* Pi's turn, as its events tell it.                                       *)

\* prompt() marks the conversation busy before Pi says so.
TurnPrompted ==
  /\ pi = "idle" /\ count < MaxMessages
  /\ pi' = "prompted"
  /\ Emit(<<Busy(TRUE)>>)
  /\ UNCHANGED <<count, written, stored, reconciling>> /\ UNCHANGED clientVars

AgentStart ==
  /\ pi = "prompted" /\ pi' = "working"
  /\ Emit(<<Busy(TRUE)>>)
  /\ UNCHANGED <<count, written, stored, reconciling>> /\ UNCHANGED clientVars

MessageStart ==
  /\ pi = "working" /\ count < MaxMessages
  /\ pi' = "streaming" /\ count' = count + 1 /\ written' = 0
  /\ Emit(<<Added(count + 1)>>)
  /\ UNCHANGED <<stored, reconciling>> /\ UNCHANGED clientVars

MessageUpdate ==
  /\ pi = "streaming" /\ written < MaxText
  /\ written' = written + 1
  /\ Emit(<<Text(count)>>)
  /\ UNCHANGED <<pi, count, stored, reconciling>> /\ UNCHANGED clientVars

\* Pi writes a message to its file when it is complete, with the tool it calls.
MessageEnd ==
  /\ pi = "streaming"
  /\ \E tool \in {"none", "pending"} :
       /\ stored' = Append(stored, [text |-> written, tool |-> tool])
       /\ pi' = IF tool = "none" THEN "working" ELSE "calling"
  /\ UNCHANGED <<count, written, ledger, outbox, timer, reconciling>>
  /\ UNCHANGED clientVars

\* Most tools run without a question: the card is optimistic.
ToolStart ==
  /\ pi = "calling" /\ pi' = "running"
  /\ Emit(<<Tool(count, "running")>>)
  /\ UNCHANGED <<count, written, stored, reconciling>> /\ UNCHANGED clientVars

\* The permission gate asks, once; without viewers the answer is no, and nothing shows.
ConfirmRequested ==
  /\ pi = "running" /\ watching # {} /\ pi' = "asking"
  /\ Emit(<<Confirm>>)
  /\ UNCHANGED <<count, written, stored, reconciling>> /\ UNCHANGED clientVars

\* A yes and a question that timed out move the card that asks, if the ledger
\* still has one; a no leaves it to the end of the tool.
FinishConfirmation ==
  /\ pi = "asking" /\ pi' = "answered"
  /\ \E status \in {"running", "error", "unchanged"} :
       IF status # "unchanged" /\ \E i \in DOMAIN ledger.entries : Asks(ledger.entries[i])
       THEN Emit(<<Tool(count, status)>>)
       ELSE UNCHANGED <<ledger, outbox, timer>>
  /\ UNCHANGED <<count, written, stored, reconciling>> /\ UNCHANGED clientVars

ToolEnd ==
  /\ pi \in {"running", "answered"} /\ pi' = "working"
  /\ \E status \in Ended :
       /\ stored' = [stored EXCEPT ![count].tool = status]
       /\ Emit(<<Tool(count, status)>>)
  /\ UNCHANGED <<count, written, reconciling>> /\ UNCHANGED clientVars

\* agent_settled: no longer busy, and a reconcile asks Pi for its entries.
AgentSettled ==
  /\ pi = "working" /\ pi' = "idle" /\ reconciling < MaxMessages
  /\ Emit(<<Busy(FALSE)>>)
  /\ reconciling' = reconciling + 1
  /\ UNCHANGED <<count, written, stored>> /\ UNCHANGED clientVars

-----------------------------------------------------------------------------
(* What goes to the clients.                                               *)

\* MUTANT of Flush: whoever is sent a batch while another is unread misses it.
FlushToReaders ==
  /\ timer /\ Room(watching) /\ timer' = FALSE /\ outbox' = <<>>
  /\ channel' = Sent({s \in watching : channel[s] = <<>>}, Batch(outbox))
  /\ UNCHANGED piVars /\ UNCHANGED <<ledger, reconciling, watching, mirror, clean>>

\* The timer fires: the outbox goes to those who look at this moment.
Flush ==
  /\ timer /\ Room(watching) /\ timer' = FALSE /\ outbox' = <<>>
  /\ channel' = Sent(watching, Batch(outbox))
  /\ UNCHANGED piVars /\ UNCHANGED <<ledger, reconciling, watching, mirror, clean>>

\* foldSessionEntries over Pi's file: each message under its own id, then its tool.
Truth ==
  FlattenSeq([i \in DOMAIN stored |->
    <<Msg(i, TRUE, stored[i].text)>>
      \o (IF stored[i].tool = "none" THEN <<>> ELSE <<Card(i, stored[i].tool)>>)])

\* sameTranscript compares what is said and how the tools stand, not the ids.
Meaning(entries) ==
  [i \in DOMAIN entries |-> IF entries[i].kind = "message" THEN [text |-> entries[i].text]
                            ELSE [status |-> entries[i].status]]
\* Nothing to correct: that agrees, and every message has Pi's own id.
Agrees ==
  /\ Meaning(ledger.entries) = Meaning(Truth)
  /\ \A i \in DOMAIN ledger.entries :
       ledger.entries[i].kind = "message" => ledger.entries[i].stable

\* MUTANT of Rebuild: the new ledger is kept to itself.
RebuildSilently ==
  /\ ledger' = Ledger(Truth, FALSE)
  /\ UNCHANGED <<channel, clean>>

\* Pi's copy becomes the ledger, without what the old one said of the present,
\* and everyone who looks gets it.
Rebuild ==
  /\ ledger' = Ledger(Truth, FALSE)
  /\ channel' = Sent(watching, Snapshot(ledger'))
  /\ clean' = IF outbox = <<>> THEN clean \cup watching ELSE clean \ watching

\* getEntries answered.  The answer comes down the same pipe as the events, so
\* it tells of the file as the ledger knows the turn.
Reconcile ==
  /\ reconciling > 0 /\ Room(watching) /\ reconciling' = reconciling - 1
  /\ IF Agrees THEN UNCHANGED <<ledger, channel, clean>> ELSE Rebuild
  /\ UNCHANGED piVars /\ UNCHANGED <<outbox, timer, watching, mirror>>

\* getEntries failed or timed out.
ReconcileFails ==
  /\ reconciling > 0 /\ reconciling' = reconciling - 1
  /\ UNCHANGED piVars /\ UNCHANGED clientVars /\ UNCHANGED <<ledger, outbox, timer>>

\* show(): the socket looks at the conversation from here on.
ShowLedger(s) ==
  /\ Room({s})
  /\ watching' = watching \cup {s}
  /\ channel' = Sent({s}, Snapshot(ledger))
  /\ clean' = IF outbox = <<>> THEN clean \cup {s} ELSE clean \ {s}
  /\ UNCHANGED piVars /\ UNCHANGED <<ledger, outbox, timer, reconciling, mirror>>

\* It closes, or is shown another conversation, whose snapshot replaces its copy.
Leave(s) ==
  /\ s \in watching
  /\ watching' = watching \ {s} /\ clean' = clean \ {s}
  /\ channel' = [channel EXCEPT ![s] = <<>>]
  /\ mirror' = [mirror EXCEPT ![s] = NoCopy]
  /\ UNCHANGED piVars /\ UNCHANGED <<ledger, outbox, timer, reconciling>>

\* The client reads its next message.
Deliver(s) ==
  /\ channel[s] # <<>>
  /\ channel' = [channel EXCEPT ![s] = Tail(@)]
  /\ mirror' = [mirror EXCEPT ![s] = Receive(@, Head(channel[s]))]
  /\ UNCHANGED piVars
  /\ UNCHANGED <<ledger, outbox, timer, reconciling, watching, clean>>

FeedNext ==
  \/ TurnPrompted \/ AgentStart \/ MessageStart \/ MessageUpdate \/ MessageEnd \/ AgentSettled
  \/ ToolStart \/ ConfirmRequested \/ FinishConfirmation \/ ToolEnd
  \/ Flush \/ Reconcile \/ ReconcileFails
  \/ \E s \in Clients : ShowLedger(s) \/ Leave(s) \/ Deliver(s)

FeedSpec == FeedInit /\ [][FeedNext]_feedVars

-----------------------------------------------------------------------------
(* Properties.                                                             *)

\* What a client will see once everything on its way, and the next batch, are in.
CaughtUp(s) ==
  ApplyAll(FoldLeft(Receive, mirror[s], channel[s]), outbox)

\* "Take a snapshot on connect, then follow the incremental actions": a client
\* whose snapshot was taken with nothing unsent ends with exactly the ledger,
\* however its messages, the batches and the turn interleave.
CleanFollows == \A s \in clean : CaughtUp(s) = ledger

\* Whoever looks misses nothing: every message of the ledger reaches its copy
\* with at least the text it has there, every question is asked there too, and
\* a tool that has ended has ended there as it did.
Shown(e, f) ==
  /\ f.kind = e.kind /\ f.id = e.id
  /\ IF e.kind = "message" THEN f.stable = e.stable /\ f.text >= e.text
     ELSE (e.asks => f.asks) /\ (e.status \in Ended => f.status = e.status)
NothingIsMissed ==
  \A s \in watching :
    LET copy == CaughtUp(s).entries IN
    \A i \in DOMAIN ledger.entries :
      \E j \in DOMAIN copy : Shown(ledger.entries[i], copy[j])

-----------------------------------------------------------------------------
=============================================================================
