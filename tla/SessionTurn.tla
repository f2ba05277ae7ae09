----------------------------- MODULE SessionTurn -----------------------------
(* One live conversation from Core's side: the ledger it shows, the remote   *)
(* procedure calls it makes to its Pi process over one ordered pipe each     *)
(* way, and the operations of server/src/session-registry.ts, each a job     *)
(* that awaits answers while everything else goes on.                        *)
(*                                                                           *)
(* Pi is external: it keeps the tree of stored entries, runs turns and       *)
(* compactions and asks for permission.  An entry is its number in the       *)
(* session file, and stands for its content too.  Slots bounds the jobs in   *)
(* flight, Ids the requests whose trace is still somewhere, MaxEntries the   *)
(* session file and MaxCommands what clients ask for.                        *)
EXTENDS Naturals, Sequences, FiniteSets, SequencesExt
CONSTANTS Slots, Ids, Questions, MaxEntries, MaxCommands, Nil

ASSUME NilIsNobody == Nil \notin Slots \cup Ids \cup Questions

VARIABLES
  agent,     \* Pi: its state, its turn, its question, its queue, its compaction
  tree,      \* the session file: a sequence of [kind, parent]
  leaf,      \* the entry the conversation continues from; 0 is the root
  toPi,      \* lines on stdin that Pi has not handled
  fromPi,    \* lines on stdout that Core has not handled
  ledger,    \* what Core shows: busy, compacting, the transcript, the card that asks
  copy,      \* what Core has read of the session file
  pendingConfirms,  \* questions a person has yet to answer
  pending,   \* PiClient #pending: which job waits for the answer to which request
  jobs,      \* the operation in each slot and what it awaits
  session,   \* managed (the live map has this session), closed, stopping, watched
  drift,     \* history: the ledger may differ from the file until a reconcile
  issued     \* history: commands of clients so far

piVars == <<agent, tree, leaf>>
wires == <<toPi, fromPi>>
turnVars == <<agent, tree, leaf, toPi, fromPi, ledger, copy, pendingConfirms, pending, jobs, session, drift, issued>>

Idle == [op |-> "none", at |-> "none", was |-> FALSE, target |-> 0]
Partial == 0  \* a message that is still being streamed

\* What open() ends with: the file read, its branch shown, nothing in flight.
OneTurn == <<[kind |-> "user", parent |-> 0], [kind |-> "answer", parent |-> 1]>>
TurnInit ==
  /\ agent = [state |-> "up", turn |-> FALSE, asks |-> Nil, queued |-> 0, packing |-> Nil]
  /\ tree \in {<<>>, OneTurn} /\ leaf = Len(tree)
  /\ toPi = <<>> /\ fromPi = <<>>
  /\ ledger = [busy |-> FALSE, compacting |-> FALSE, card |-> Nil,
               shown |-> [n \in 1..Len(tree) |-> [entry |-> n, stable |-> TRUE]]]
  /\ copy = [stored |-> 1..Len(tree), upTo |-> Len(tree), leaf |-> leaf]
  /\ pendingConfirms = {}
  /\ pending = [id \in Ids |-> Nil]
  /\ jobs = [j \in Slots |-> Idle]
  /\ session = [managed |-> TRUE, closed |-> FALSE, stopping |-> FALSE, watched |-> TRUE]
  /\ drift = FALSE /\ issued = 0

-----------------------------------------------------------------------------
(* The pipe and the requests on it *)

Line(type, id) == [type |-> type, id |-> id, command |-> "", entry |-> 0, last |-> 0, leaf |-> 0, ok |-> TRUE]
Reply(r, yes) == [Line("reply", r) EXCEPT !.ok = yes]

\* A job whose request was forgotten (timer, closed transport): its promise is
\* rejected, and its continuation runs before any other callback.
Rejected == {j \in Slots : jobs[j].op # "none" /\ \A id \in Ids : pending[id] # j}
Quiescent == Rejected = {}
Forgotten(j) == [id \in Ids |-> IF pending[id] = j THEN Nil ELSE pending[id]]

\* What is written once Pi has gone is lost.
Sent(lines) == IF agent.state = "up" THEN toPi \o lines ELSE toPi
DenyAll == SetToSeq({Reply(r, FALSE) : r \in pendingConfirms})

\* #send: a request id is never used twice, so one is taken that has left no
\* trace; a closed transport rejects at once.  `first` are the lines the same
\* callback wrote before.
FreeIds(j) == {id \in Ids : /\ Forgotten(j)[id] = Nil /\ id # agent.packing
                            /\ \A l \in Range(toPi) \cup Range(fromPi') : l.id # id}
Call(j, job, command, entry, first) ==
  /\ jobs' = [jobs EXCEPT ![j] = [job EXCEPT !.at = command]]
  /\ IF session.closed
     THEN pending' = Forgotten(j) /\ toPi' = Sent(first)
     ELSE /\ FreeIds(j) # {}
          /\ LET id == CHOOSE i \in FreeIds(j) : TRUE
             IN  /\ pending' = [Forgotten(j) EXCEPT ![id] = j]
                 /\ toPi' = Sent(Append(first, [Line(command, id) EXCEPT !.entry = entry]))

Release(j) == /\ jobs' = [jobs EXCEPT ![j] = Idle]
              /\ pending' = Forgotten(j)
              /\ UNCHANGED toPi

\* Job j goes on after an await: with the answer at the head of the pipe, or
\* with the rejection of its promise.
Resumes(j, op, at) ==
  /\ jobs[j].op = op /\ jobs[j].at = at
  /\ \/ j \in Rejected /\ UNCHANGED fromPi
     \/ /\ Quiescent /\ fromPi # <<>>
        /\ Head(fromPi).type = "response" /\ pending[Head(fromPi).id] = j
        /\ fromPi' = Tail(fromPi)
Silent == Head(fromPi).command = "abort" /\ Head(fromPi).last # 0  \* a turn ended without a word
Result(j) == IF j \in Rejected THEN "lost" ELSE IF Head(fromPi).ok THEN "ok" ELSE "refused"

-----------------------------------------------------------------------------
(* The ledger and the copy of the session file *)

Message(entry, stable) == [entry |-> entry, stable |-> stable]
\* text_appended finds the latest message of that id, or none.
Completed(shown, entry) ==
  LET open == {i \in 1..Len(shown) : shown[i].entry = Partial}
  IN  [i \in 1..Len(shown) |->
         IF i \in open /\ \A k \in open : k <= i THEN Message(entry, FALSE) ELSE shown[i]]

\* activeBranchEntries: from the leaf to the root through the entries at hand.
Branch(entries, from) ==
  LET path[n \in 0..Len(tree)] ==
        IF n = 0 \/ n \notin entries THEN <<>> ELSE Append(path[tree[n].parent], n)
  IN  path[from]

\* Mutant: an answer without new entries does not move the leaf.
AbsorbedNewOnly(line) ==
  [stored |-> copy.stored \cup (line.entry + 1)..line.last,
   upTo   |-> IF line.last > line.entry THEN line.last ELSE copy.upTo,
   leaf   |-> IF line.last > line.entry THEN line.leaf ELSE copy.leaf]
\* absorb: an answer brings what follows the entry named in the request.
Absorbed(line) ==
  [stored |-> copy.stored \cup (line.entry + 1)..line.last,
   upTo   |-> IF line.last > line.entry THEN line.last ELSE copy.upTo,
   leaf   |-> line.leaf]

\* foldSessionEntries: each stored message under its own id, in order.
FoldEntries(branch) == [i \in 1..Len(branch) |-> Message(branch[i], TRUE)]
\* sameTranscript compares what is said, never under which id.
SameTranscript(left, right) ==
  /\ Len(left) = Len(right)
  /\ \A i \in 1..Len(left) : left[i].entry = right[i].entry

\* reconcile: keep the ledger if it says what the file says and each message
\* carries its stored id; else take Pi's copy, which is not busy and has no
\* card that asks.
Reconciled(line) ==
  LET now == Absorbed(line)
      truth == FoldEntries(Branch(now.stored, now.leaf))
  IN  IF SameTranscript(ledger.shown, truth) /\ \A i \in 1..Len(ledger.shown) : ledger.shown[i].stable
      THEN ledger
      ELSE [ledger EXCEPT !.busy = FALSE, !.card = Nil, !.shown = truth]
\* The effect of an answered get_entries on everything Core knows.
TakesFile == /\ copy' = Absorbed(Head(fromPi))
             /\ ledger' = Reconciled(Head(fromPi))
             /\ drift' = FALSE

Finished(l) == IF l.compacting THEN [l EXCEPT !.compacting = FALSE] ELSE l
NotBusy == [ledger EXCEPT !.busy = FALSE]
Working == ledger.busy \/ ledger.compacting \/ pendingConfirms # {}

-----------------------------------------------------------------------------
(* Commands of the clients that look at the conversation *)

\* The handler finds the live session; the job it starts takes a free slot.
Command(j, op, was, target, command, entry, first) ==
  /\ session.managed /\ session.watched /\ Quiescent
  /\ jobs[j].op = "none" /\ issued < MaxCommands /\ issued' = issued + 1
  /\ UNCHANGED <<piVars, fromPi, copy, drift>>
  /\ Call(j, [op |-> op, at |-> command, was |-> was, target |-> target], command, entry, first)

SendPrompt(j) ==
  /\ ~session.stopping /\ ~ledger.compacting
  /\ Command(j, "prompt", ledger.busy, 0, "prompt", 0, <<>>)
  /\ ledger' = [ledger EXCEPT !.busy = TRUE]
  /\ UNCHANGED <<pendingConfirms, session>>

ClearQueue(j) ==
  /\ Command(j, "clear", FALSE, 0, "clear_queue", 0, <<>>)
  /\ UNCHANGED <<ledger, pendingConfirms, session>>

Abort(j) ==
  /\ ~session.stopping
  /\ Command(j, "abort", ledger.compacting, 0, "clear_queue", 0, <<>>)
  /\ session' = [session EXCEPT !.stopping = TRUE]
  /\ UNCHANGED <<ledger, pendingConfirms>>

Compact(j) ==
  /\ ~Working
  /\ Command(j, "compact", FALSE, 0, "compact", 0, <<>>)
  /\ ledger' = [ledger EXCEPT !.compacting = TRUE]
  /\ UNCHANGED <<pendingConfirms, session>>

\* Editing denies what is asked, stops the turn, then reads where it stands.
EditMessage(j) ==
  \E i \in 1..Len(ledger.shown) :
    /\ ledger.shown[i].stable /\ tree[ledger.shown[i].entry].kind = "user"
    /\ LET target == ledger.shown[i].entry
       IN  IF ledger.busy
           THEN Command(j, "edit", TRUE, target, "abort", 0, DenyAll)
           ELSE Command(j, "edit", FALSE, target, "get_entries", copy.upTo, DenyAll)
    /\ ledger' = [ledger EXCEPT !.busy = TRUE]
    /\ pendingConfirms' = {}
    /\ UNCHANGED session

SetModel(j) ==
  /\ ~ledger.compacting
  /\ Command(j, "model", FALSE, 0, "set_model", 0, <<>>)
  /\ UNCHANGED <<ledger, pendingConfirms, session>>

\* rename and listModels: at any time.
Ask(j) ==
  /\ Command(j, "tune", FALSE, 0, "tune", 0, <<>>)
  /\ UNCHANGED <<ledger, pendingConfirms, session>>
\* setThinkingLevel and cycleThinkingLevel: only between two turns.
SetThinking(j) ==
  /\ ~Working
  /\ Command(j, "tune", FALSE, 0, "tune", 0, <<>>)
  /\ UNCHANGED <<ledger, pendingConfirms, session>>

RespondToConfirmation(r, yes) ==
  /\ session.managed /\ session.watched /\ Quiescent /\ r \in pendingConfirms
  /\ pendingConfirms' = pendingConfirms \ {r}
  /\ ledger' = IF yes THEN [ledger EXCEPT !.card = IF @ = r THEN Nil ELSE @] ELSE ledger
  /\ toPi' = Sent(<<Reply(r, yes)>>)
  /\ UNCHANGED <<piVars, fromPi, copy, pending, jobs, session, drift, issued>>

ConfirmationTimesOut(r) ==
  /\ Quiescent /\ r \in pendingConfirms
  /\ pendingConfirms' = pendingConfirms \ {r}
  /\ ledger' = [ledger EXCEPT !.card = IF @ = r THEN Nil ELSE @]
  /\ toPi' = Sent(<<Reply(r, FALSE)>>)
  /\ UNCHANGED <<piVars, fromPi, copy, pending, jobs, session, drift, issued>>

\* Mutant: the questions are dropped, and nobody tells Pi.
ViewersLeaveSilently ==
  /\ Quiescent /\ session.watched
  /\ session' = [session EXCEPT !.watched = FALSE]
  /\ IF session.managed THEN pendingConfirms' = {} ELSE UNCHANGED pendingConfirms
  /\ UNCHANGED <<piVars, wires, ledger, copy, pending, jobs, drift, issued>>
\* The last viewer leaves; Core denies what is asked only if the session is live.
ViewersLeave ==
  /\ Quiescent /\ session.watched
  /\ session' = [session EXCEPT !.watched = FALSE]
  /\ IF session.managed THEN pendingConfirms' = {} /\ toPi' = Sent(DenyAll) ELSE UNCHANGED <<pendingConfirms, toPi>>
  /\ UNCHANGED <<piVars, fromPi, ledger, copy, pending, jobs, drift, issued>>
ViewerComes ==
  /\ Quiescent /\ session.managed /\ ~session.watched
  /\ session' = [session EXCEPT !.watched = TRUE]
  /\ UNCHANGED <<piVars, wires, ledger, copy, pendingConfirms, pending, jobs, drift, issued>>

-----------------------------------------------------------------------------
(* Jobs go on *)

\* Mutant: a prompt that is lost, not refused, leaves busy as it set it.
PromptEndsRefused(j) ==
  /\ Resumes(j, "prompt", "prompt") /\ Release(j)
  /\ ledger' = IF Result(j) = "refused" /\ session.managed /\ ~jobs[j].was THEN NotBusy ELSE ledger
  /\ UNCHANGED <<piVars, copy, pendingConfirms, session, drift, issued>>
\* A refused or lost prompt takes busy back only if it was the one that set it.
PromptEnds(j) ==
  /\ Resumes(j, "prompt", "prompt") /\ Release(j)
  /\ ledger' = IF Result(j) # "ok" /\ session.managed /\ ~jobs[j].was THEN NotBusy ELSE ledger
  /\ UNCHANGED <<piVars, copy, pendingConfirms, session, drift, issued>>

\* clearQueue hands the drafts to the client; setThinkingLevel shows the level.
SimpleEnds(j) ==
  /\ Resumes(j, "clear", "clear_queue") \/ Resumes(j, "tune", "tune")
  /\ Release(j)
  /\ UNCHANGED <<piVars, ledger, copy, pendingConfirms, session, drift, issued>>

ModelEnds(j) ==
  /\ Resumes(j, "model", "set_model") /\ Release(j)
  /\ ledger' = IF Result(j) = "ok"
               THEN [ledger EXCEPT !.shown = Append(@, Message(Head(fromPi).last, TRUE))]
               ELSE ledger
  /\ UNCHANGED <<piVars, copy, pendingConfirms, session, drift, issued>>

\* A queue that could not be cleared is reported, and the turn stopped all the same.
AbortGoesOn(j) ==
  /\ Resumes(j, "abort", "clear_queue")
  /\ Call(j, jobs[j], "abort", 0, <<>>)
  /\ UNCHANGED <<piVars, ledger, copy, pendingConfirms, session, drift, issued>>
\* Mutant: a stop that fails returns before it clears the flag.
AbortEndsAnswered(j) ==
  /\ Resumes(j, "abort", "abort") /\ Release(j)
  /\ ledger' = IF Result(j) = "ok" /\ session.managed
               THEN IF jobs[j].was THEN Finished(NotBusy) ELSE NotBusy
               ELSE ledger
  /\ session' = [session EXCEPT !.stopping = Result(j) = "lost"]
  /\ drift' = (drift \/ (Result(j) = "ok" /\ Silent))
  /\ UNCHANGED <<piVars, copy, pendingConfirms, issued>>
AbortEnds(j) ==
  /\ Resumes(j, "abort", "abort") /\ Release(j)
  /\ ledger' = IF Result(j) = "ok" /\ session.managed
               THEN IF jobs[j].was THEN Finished(NotBusy) ELSE NotBusy
               ELSE ledger
  /\ session' = [session EXCEPT !.stopping = FALSE]
  /\ drift' = (drift \/ (Result(j) = "ok" /\ Silent))
  /\ UNCHANGED <<piVars, copy, pendingConfirms, issued>>

CompactGoesOn(j) ==
  /\ Resumes(j, "compact", "compact")
  /\ IF Result(j) = "ok"
     THEN Call(j, jobs[j], "get_entries", copy.upTo, <<>>) /\ ledger' = Finished(ledger)
     ELSE Release(j) /\ ledger' = IF session.managed THEN Finished(ledger) ELSE ledger
  /\ UNCHANGED <<piVars, copy, pendingConfirms, session, drift, issued>>
ReconcileEnds(j) ==
  /\ Resumes(j, "reconcile", "get_entries") \/ Resumes(j, "compact", "get_entries")
  /\ Release(j)
  /\ IF Result(j) = "ok"
     THEN TakesFile
     ELSE /\ ledger' = IF jobs[j].op = "compact" /\ session.managed THEN Finished(ledger) ELSE ledger
          /\ UNCHANGED <<copy, drift>>
  /\ UNCHANGED <<piVars, pendingConfirms, session, issued>>

\* Whatever goes wrong in an edit ends it with busy taken back.
EditFails(j) == Release(j) /\ ledger' = NotBusy /\ UNCHANGED <<copy, drift>>
EditStopped(j) ==
  /\ Resumes(j, "edit", "abort")
  /\ IF Result(j) = "lost"
     THEN EditFails(j)
     ELSE /\ Call(j, jobs[j], "get_entries", copy.upTo, <<>>)
          /\ drift' = (drift \/ Silent)
          /\ UNCHANGED <<ledger, copy>>
  /\ UNCHANGED <<piVars, pendingConfirms, session, issued>>
EditReads(j) ==
  /\ Resumes(j, "edit", "get_entries")
  /\ IF Result(j) = "lost"
     THEN EditFails(j)
     ELSE /\ copy' = Absorbed(Head(fromPi)) /\ drift' = FALSE
          /\ IF jobs[j].target \in Range(Branch(copy'.stored, copy'.leaf))
             THEN /\ Call(j, jobs[j], "navigate", jobs[j].target, <<>>)
                  /\ ledger' = Reconciled(Head(fromPi))
             ELSE Release(j) /\ ledger' = [Reconciled(Head(fromPi)) EXCEPT !.busy = FALSE]
  /\ UNCHANGED <<piVars, pendingConfirms, session, issued>>
EditMoves(j) ==
  /\ Resumes(j, "edit", "navigate")
  /\ IF Result(j) = "ok"
     THEN /\ Call(j, [jobs[j] EXCEPT !.op = "resend"], "get_entries", copy.upTo, <<>>)
          /\ UNCHANGED <<ledger, copy, drift>>
     ELSE EditFails(j)
  /\ UNCHANGED <<piVars, pendingConfirms, session, issued>>
\* The branch moved: the edited text is sent like any prompt, which the
\* conversation may refuse by then.
Sendable == session.managed /\ ~session.stopping /\ ~ledger.compacting
EditResends(j) ==
  /\ Resumes(j, "resend", "get_entries")
  /\ IF Result(j) = "lost"
     THEN EditFails(j)
     ELSE LET now == Reconciled(Head(fromPi))
          IN  /\ copy' = Absorbed(Head(fromPi)) /\ drift' = FALSE
              /\ IF copy'.leaf # tree[jobs[j].target].parent
                 THEN Release(j) /\ ledger' = [now EXCEPT !.busy = FALSE]
                 ELSE IF Sendable
                 THEN /\ ledger' = [now EXCEPT !.busy = TRUE]
                      /\ Call(j, [jobs[j] EXCEPT !.op = "prompt", !.was = now.busy], "prompt", 0, <<>>)
                 ELSE Release(j) /\ ledger' = now
  /\ UNCHANGED <<piVars, pendingConfirms, session, issued>>

RequestTimesOut(id) ==
  /\ Quiescent /\ pending[id] # Nil
  /\ pending' = [pending EXCEPT ![id] = Nil]
  /\ UNCHANGED <<piVars, wires, ledger, copy, pendingConfirms, jobs, session, drift, issued>>

-----------------------------------------------------------------------------
(* What Pi says of itself *)

Hears(type) == /\ Quiescent /\ fromPi # <<>> /\ Head(fromPi).type = type
               /\ fromPi' = Tail(fromPi)

LateAnswer ==
  /\ Hears("response") /\ pending[Head(fromPi).id] = Nil
  /\ drift' = (drift \/ Silent \/ Head(fromPi).command \in {"get_entries", "set_model", "navigate"})
  /\ UNCHANGED <<piVars, toPi, ledger, copy, pendingConfirms, pending, jobs, session, issued>>

\* agent_start, the user's message and the start of the answer.
TurnStarts ==
  /\ Hears("turn")
  /\ ledger' = [ledger EXCEPT !.busy = TRUE,
                              !.shown = @ \o <<Message(Head(fromPi).last, FALSE), Message(Partial, FALSE)>>]
  /\ UNCHANGED <<piVars, toPi, copy, pendingConfirms, pending, jobs, session, drift, issued>>
MessageEnds ==
  /\ Hears("answer")
  /\ ledger' = [ledger EXCEPT !.shown = Completed(@, Head(fromPi).last), !.card = Nil]
  /\ UNCHANGED <<piVars, toPi, copy, pendingConfirms, pending, jobs, session, drift, issued>>
\* agent_settled: not busy, and the ledger is compared with the file.
AgentSettles(j) ==
  /\ Hears("settled") /\ jobs[j].op = "none"
  /\ ledger' = NotBusy
  /\ Call(j, [Idle EXCEPT !.op = "reconcile"], "get_entries", copy.upTo, <<>>)
  /\ UNCHANGED <<piVars, copy, pendingConfirms, session, drift, issued>>
CompactionChanges ==
  /\ Hears("compaction")
  /\ ledger' = [ledger EXCEPT !.compacting = Head(fromPi).ok]
  /\ UNCHANGED <<piVars, toPi, copy, pendingConfirms, pending, jobs, session, drift, issued>>
\* A permission request: refused at once when nobody looks, else shown and kept.
OnUiRequest ==
  /\ Hears("ask")
  /\ LET r == Head(fromPi).id
     IN  IF session.watched
         THEN /\ pendingConfirms' = pendingConfirms \cup {r} /\ ledger' = [ledger EXCEPT !.card = r]
              /\ UNCHANGED toPi
         ELSE toPi' = Sent(<<Reply(r, FALSE)>>) /\ UNCHANGED <<pendingConfirms, ledger>>
  /\ UNCHANGED <<piVars, copy, pending, jobs, session, drift, issued>>

\* The output of the process has ended: #failPending, then the registry's listener.
PiClosed ==
  /\ Quiescent /\ agent.state = "gone" /\ fromPi = <<>>
  /\ ~session.closed \/ session.managed
  /\ session' = [session EXCEPT !.closed = TRUE, !.managed = FALSE]
  /\ pending' = [id \in Ids |-> Nil]
  /\ pendingConfirms' = IF session.managed THEN {} ELSE pendingConfirms
  /\ drift' = TRUE
  /\ UNCHANGED <<piVars, wires, ledger, copy, jobs, issued>>
\* stop: deleted, reclaimed or recycled.
Stop ==
  /\ Quiescent /\ session.managed
  /\ session' = [session EXCEPT !.closed = TRUE, !.managed = FALSE]
  /\ pending' = [id \in Ids |-> Nil]
  /\ pendingConfirms' = {} /\ toPi' = Sent(DenyAll)
  /\ agent' = [agent EXCEPT !.state = IF @ = "up" THEN "killed" ELSE @]
  /\ drift' = TRUE
  /\ UNCHANGED <<tree, leaf, fromPi, ledger, copy, jobs, issued>>

-----------------------------------------------------------------------------
(* Pi *)

Alive == agent.state \in {"up", "killed"}
Entry(kind) == [kind |-> kind, parent |-> leaf]
Newest(type) == [Line(type, Nil) EXCEPT !.last = Len(tree')]
Response(l, ok) == [Line("response", l.id) EXCEPT !.ok = ok, !.command = l.type]
Stored(kind) == tree' = Append(tree, Entry(kind)) /\ leaf' = Len(tree')
PiReads(type) == /\ Alive /\ toPi # <<>> /\ Head(toPi).type = type /\ toPi' = Tail(toPi)
PiSteps == UNCHANGED <<ledger, copy, pendingConfirms, pending, jobs, session, issued>>
Room(n) == Len(tree) + n <= MaxEntries

PiPrompt ==
  /\ PiReads("prompt") /\ PiSteps /\ UNCHANGED drift
  /\ \/ /\ fromPi' = Append(fromPi, Response(Head(toPi), FALSE)) /\ UNCHANGED piVars
     \/ /\ ~agent.turn /\ agent.packing = Nil /\ Room(2)
        /\ Stored("user") /\ agent' = [agent EXCEPT !.turn = TRUE]
        /\ fromPi' = fromPi \o <<Newest("turn"), Response(Head(toPi), TRUE)>>
     \/ /\ agent.turn /\ agent.queued = 0 /\ agent' = [agent EXCEPT !.queued = 1]
        /\ fromPi' = Append(fromPi, Response(Head(toPi), TRUE)) /\ UNCHANGED <<tree, leaf>>
PiClearQueue ==
  /\ PiReads("clear_queue") /\ PiSteps /\ UNCHANGED <<tree, leaf, drift>>
  /\ agent' = [agent EXCEPT !.queued = 0]
  /\ \E ok \in BOOLEAN : fromPi' = Append(fromPi, Response(Head(toPi), ok))
\* A stopped turn stores what there is of its answer; Pi may not say it settled.
PiAbort ==
  /\ PiReads("abort") /\ PiSteps /\ UNCHANGED drift
  /\ LET l == Head(toPi)
     IN  \/ /\ ~agent.turn /\ UNCHANGED <<tree, leaf>>
            /\ agent' = [agent EXCEPT !.packing = Nil]
            /\ fromPi' = fromPi \o (IF agent.packing = Nil THEN <<>>
                            ELSE <<[Line("compaction", Nil) EXCEPT !.ok = FALSE], Response(Line("compact", agent.packing), FALSE)>>)
                         \o <<Response(l, TRUE)>>
         \/ /\ agent.turn /\ Stored("answer")
            /\ agent' = [agent EXCEPT !.turn = FALSE, !.asks = Nil, !.queued = 0]
            /\ \/ fromPi' = Append(fromPi, [Response(l, TRUE) EXCEPT !.last = Len(tree')])
               \/ fromPi' = fromPi \o <<Newest("answer"), Line("settled", Nil), Response(l, TRUE)>>
PiCompact ==
  /\ PiReads("compact") /\ PiSteps /\ UNCHANGED <<tree, leaf, drift>>
  /\ \/ /\ ~agent.turn /\ agent.packing = Nil /\ agent' = [agent EXCEPT !.packing = Head(toPi).id]
        /\ fromPi' = Append(fromPi, Line("compaction", Nil))
     \/ /\ fromPi' = Append(fromPi, Response(Head(toPi), FALSE)) /\ UNCHANGED agent
PiCompacted ==
  /\ Alive /\ agent.packing # Nil /\ PiSteps /\ UNCHANGED <<tree, leaf, toPi, drift>>
  /\ agent' = [agent EXCEPT !.packing = Nil]
  /\ \E ok \in BOOLEAN :
       fromPi' = fromPi \o <<[Line("compaction", Nil) EXCEPT !.ok = FALSE], Response(Line("compact", agent.packing), ok)>>
PiEntries ==
  /\ PiReads("get_entries") /\ PiSteps /\ UNCHANGED <<piVars, drift>>
  /\ fromPi' = Append(fromPi, [Response(Head(toPi), TRUE) EXCEPT
                                 !.entry = Head(toPi).entry, !.last = Len(tree), !.leaf = leaf])
\* The bundled /cinba-edit-message: back to before a user message of the branch.
PiNavigate ==
  /\ PiReads("navigate") /\ PiSteps /\ UNCHANGED <<agent, tree, drift>>
  /\ LET l == Head(toPi)
         found == l.entry \in Range(Branch(1..Len(tree), leaf)) /\ ~agent.turn
     IN  /\ leaf' = IF found THEN tree[l.entry].parent ELSE leaf
         /\ fromPi' = Append(fromPi, Response(l, found))
PiSetModel ==
  /\ PiReads("set_model") /\ PiSteps /\ UNCHANGED <<agent, drift>>
  /\ \/ Room(IF agent.turn THEN 2 ELSE 1) /\ Stored("model")
        /\ fromPi' = Append(fromPi, [Response(Head(toPi), TRUE) EXCEPT !.last = Len(tree')])
     \/ UNCHANGED <<tree, leaf>> /\ fromPi' = Append(fromPi, Response(Head(toPi), FALSE))
PiTune ==
  /\ PiReads("tune") /\ PiSteps /\ UNCHANGED <<piVars, drift>>
  /\ \E ok \in BOOLEAN : fromPi' = Append(fromPi, Response(Head(toPi), ok))
PiHearsReply ==
  /\ PiReads("reply") /\ PiSteps /\ UNCHANGED <<tree, leaf, fromPi, drift>>
  /\ agent' = [agent EXCEPT !.asks = IF @ = Head(toPi).id THEN Nil ELSE @]

PiAsks(r) ==
  /\ Alive /\ agent.turn /\ agent.asks = Nil /\ PiSteps
  /\ r \notin pendingConfirms /\ \A l \in Range(toPi) \cup Range(fromPi) : l.id # r
  /\ agent' = [agent EXCEPT !.asks = r] /\ fromPi' = Append(fromPi, Line("ask", r))
  /\ UNCHANGED <<tree, leaf, toPi, drift>>
PiAnswers ==
  /\ Alive /\ agent.turn /\ agent.asks = Nil /\ PiSteps /\ UNCHANGED <<toPi, drift>>
  /\ IF agent.queued > 0 /\ Room(3)
     THEN /\ tree' = tree \o <<Entry("answer"), [kind |-> "user", parent |-> Len(tree) + 1]>>
          /\ leaf' = Len(tree') /\ agent' = [agent EXCEPT !.queued = 0]
          /\ fromPi' = fromPi \o <<[Line("answer", Nil) EXCEPT !.last = Len(tree) + 1], Newest("turn")>>
     ELSE /\ Stored("answer") /\ agent' = [agent EXCEPT !.turn = FALSE, !.queued = 0]
          /\ fromPi' = fromPi \o <<Newest("answer"), Line("settled", Nil)>>
PiExits ==
  /\ Alive /\ PiSteps /\ UNCHANGED <<tree, leaf, fromPi, drift>>
  /\ agent' = [agent EXCEPT !.state = "gone"] /\ toPi' = <<>>

-----------------------------------------------------------------------------
Core ==
  \/ \E j \in Slots :
       \/ SendPrompt(j) \/ ClearQueue(j) \/ Abort(j) \/ Compact(j) \/ EditMessage(j)
       \/ SetModel(j) \/ SetThinking(j) \/ Ask(j)
  \/ \E r \in Questions :
       ConfirmationTimesOut(r) \/ \E yes \in BOOLEAN : RespondToConfirmation(r, yes)
  \/ ViewersLeave \/ ViewerComes \/ Stop
Continues ==
  \/ \E j \in Slots :
       \/ PromptEnds(j) \/ SimpleEnds(j) \/ ModelEnds(j) \/ AbortGoesOn(j) \/ AbortEnds(j)
       \/ CompactGoesOn(j) \/ ReconcileEnds(j) \/ EditStopped(j) \/ EditReads(j) \/ EditMoves(j)
       \/ EditResends(j) \/ AgentSettles(j)
  \/ LateAnswer \/ TurnStarts \/ MessageEnds \/ CompactionChanges \/ OnUiRequest \/ PiClosed
TimesOut == \E id \in Ids : RequestTimesOut(id)
Pi ==
  \/ PiPrompt \/ PiClearQueue \/ PiAbort \/ PiCompact \/ PiCompacted \/ PiEntries \/ PiNavigate
  \/ PiSetModel \/ PiTune \/ PiHearsReply \/ PiAnswers \/ PiExits
  \/ \E r \in Questions : PiAsks(r)
TurnNext == Core \/ Continues \/ TimesOut \/ Pi
TurnSpec == TurnInit /\ [][TurnNext]_turnVars
\* Node's event loop runs what is ready, and timers fire; Pi and people promise nothing.
FairTurnSpec == TurnSpec /\ WF_turnVars(Continues) /\ \A id \in Ids : WF_turnVars(RequestTimesOut(id))

-----------------------------------------------------------------------------
TurnTypeOK ==
  /\ agent \in [state : {"up", "killed", "gone"}, turn : BOOLEAN, asks : Questions \cup {Nil},
             queued : 0..1, packing : Ids \cup {Nil}]
  /\ leaf \in 0..Len(tree) /\ Len(tree) <= MaxEntries
  /\ \A n \in 1..Len(tree) : tree[n].kind \in {"user", "answer", "model"} /\ tree[n].parent \in 0..(n - 1)
  /\ ledger.busy \in BOOLEAN /\ ledger.compacting \in BOOLEAN /\ ledger.card \in Questions \cup {Nil}
  /\ \A i \in 1..Len(ledger.shown) : ledger.shown[i] \in [entry : 0..Len(tree), stable : BOOLEAN]
  /\ copy.stored \subseteq 1..Len(tree) /\ copy.upTo \in 0..Len(tree) /\ copy.leaf \in 0..Len(tree)
  /\ pendingConfirms \subseteq Questions
  /\ pending \in [Ids -> Slots \cup {Nil}]
  /\ session \in [managed : BOOLEAN, closed : BOOLEAN, stopping : BOOLEAN, watched : BOOLEAN]

\* A question Pi is blocked on is on its way to Core, kept by Core, or answered
\* by a line on its way back, and only one of these: none is lost when viewers
\* leave, a timer fires or a message is edited, and none is answered twice
\* (onUiRequest, finishConfirmation, denyAllConfirmations).
Places(r) == Cardinality({i \in 1..Len(fromPi) : fromPi[i].type = "ask" /\ fromPi[i].id = r})
             + Cardinality({i \in 1..Len(toPi) : toPi[i].type = "reply" /\ toPi[i].id = r})
             + IF r \in pendingConfirms THEN 1 ELSE 0
NoQuestionIsLost ==
  /\ agent.state = "up" /\ agent.asks # Nil => Places(agent.asks) = 1
  /\ \A r \in Questions : agent.state = "up" => Places(r) <= 1

\* Once nothing is in flight and no answer of the file was lost, the ledger
\* shows the active branch of Pi's file, message by message, under stored ids,
\* whatever turns, edits, model changes and compactions overlapped (reconcile).
AtRest == /\ agent.state = "up" /\ ~agent.turn /\ agent.packing = Nil /\ toPi = <<>> /\ fromPi = <<>>
          /\ \A j \in Slots : jobs[j].op = "none"
LedgerShowsFile ==
  AtRest /\ ~drift =>
    ledger.shown = FoldEntries(Branch(1..Len(tree), leaf))

\* ... and then the conversation takes a new prompt: no overlap of prompts that
\* are refused or late, stops, edits and compactions leaves it busy, compacting
\* or stopping for good.
RestIsFree == AtRest /\ ~drift /\ session.managed => ~ledger.busy /\ ~ledger.compacting /\ ~session.stopping

\* A stop comes to an end, whatever Pi answers: else every later prompt would be
\* told that a stop is still in progress (abort's finally).
StopEnds == session.stopping ~> ~session.stopping
=============================================================================
