------------------------ MODULE SessionTurnInvariants ------------------------
(* What the proofs about SessionTurn say of its states and steps: where a    *)
(* question is, who ends a stop, a compaction and busy, what Core knows of   *)
(* the session file, and what a step of Core or of Pi does to all of it.     *)
(* QInv, EInv, FInv, LInv and BInv are inductive, each given those before    *)
(* it; CoreSessionsProofs has the proofs.                                    *)
EXTENDS SessionTurn

-----------------------------------------------------------------------------
(* Pipes *)

\* Nothing is said of the lines of a pipe but that they are in a sequence.
Elements(s) == {s[i] : i \in 1..Len(s)}
Pipe(s) == s \in Seq(Elements(s))
\* A line of this type and id is in the pipe; and is there once at most.
Told(s, type, id) == \E i \in 1..Len(s) : s[i].type = type /\ s[i].id = id
Once(s, type, id) ==
  \A i, k \in 1..Len(s) :
    s[i].type = type /\ s[i].id = id /\ s[k].type = type /\ s[k].id = id => i = k
\* A line of this type turns something off; turns it on, and none after it off.
Closing(s, type) == \E i \in 1..Len(s) : s[i].type = type /\ ~s[i].ok
Unclosed(s, type) ==
  \E i \in 1..Len(s) :
    s[i].type = type /\ s[i].ok /\ \A k \in 1..Len(s) : k > i => ~(s[k].type = type /\ ~s[k].ok)
\* As far as lines of a type go, the one pipe is like the other.
Quiet(s, t, type) ==
  /\ Pipe(t) /\ (Closing(t, type) <=> Closing(s, type)) /\ (Unclosed(t, type) => Unclosed(s, type))
  /\ \A id : (Told(t, type, id) <=> Told(s, type, id)) /\ (Once(s, type, id) => Once(t, type, id))

-----------------------------------------------------------------------------
(* Where a question is *)

Asking(r) == Told(fromPi, "ask", r)
Replied(r) == Told(toPi, "reply", r)
Waiting(r) == r \in pendingConfirms
AgentIs ==
  agent = [state |-> agent.state, turn |-> agent.turn, asks |-> agent.asks, queued |-> agent.queued,
           packing |-> agent.packing]
\* A question is in one place at most; that which Pi is blocked on is in one.
InOnePlace(r) ==
  /\ Once(fromPi, "ask", r) /\ Once(toPi, "reply", r)
  /\ ~(Asking(r) /\ Replied(r)) /\ ~(Asking(r) /\ Waiting(r)) /\ ~(Replied(r) /\ Waiting(r))
Blocked(r) == agent.asks = r => Asking(r) \/ Replied(r) \/ Waiting(r)
PipesHold == Pipe(toPi) /\ Pipe(fromPi) /\ IsFiniteSet(pendingConfirms) /\ agent.asks \in Questions \cup {Nil}
QInv ==
  /\ AgentIs
  /\ agent.state = "up" => PipesHold /\ \A r \in Questions : InOnePlace(r) /\ Blocked(r)
\* A job that goes on makes another request of Pi, or none.
Touches(j) == Release(j) \/ \E work, command, entry : command # "reply" /\ Call(j, work, command, entry, <<>>)

-----------------------------------------------------------------------------
(* Stops and compactions *)

Aborting(j) == jobs[j].op = "abort"
Compacts(j) == jobs[j].op = "compact" /\ jobs[j].at = "compact"
IsJob(work) == work = [op |-> work.op, at |-> work.at, was |-> work.was, target |-> work.target]
IsLedger(l) == l = [busy |-> l.busy, compacting |-> l.compacting, card |-> l.card, shown |-> l.shown]
IsSession(s) ==
  s = [managed |-> s.managed, closed |-> s.closed, stopping |-> s.stopping, watched |-> s.watched]
JobsAreFiled == jobs = [j \in Slots |-> jobs[j]] /\ \A j \in Slots : IsJob(jobs[j])
Shapes == JobsAreFiled /\ IsLedger(ledger) /\ IsSession(session)
\* A stop that is shown has a job that will end it.
StopHasJob == session.stopping => \E j \in Slots : Aborting(j)
\* A compaction that is shown goes on, or its end is under way, or its job ends it.
CompactionEnds ==
  ledger.compacting =>
    \/ agent.packing # Nil \/ Closing(fromPi, "compaction")
    \/ \E j \in Slots : Compacts(j)
\* A start on its way is followed by its end, or Pi is still at it.
StartsAreTrue == Unclosed(fromPi, "compaction") => agent.packing # Nil
Named(s) == ~Told(s, "compact", Nil)
EInv ==
  /\ Shapes /\ StopHasJob
  /\ agent.state = "up" => session.managed /\ Named(toPi) /\ CompactionEnds /\ StartsAreTrue

-----------------------------------------------------------------------------
(* Branches of the session file *)

\* Branch, of any file.
BranchOf(file, entries, from) ==
  LET path[n \in 0..Len(file)] ==
        IF n = 0 \/ n \notin entries THEN <<>> ELSE Append(path[file[n].parent], n)
  IN  path[from]
Unrolls(path, file, entries, m) ==
  path = [n \in 0..m |-> IF n = 0 \/ n \notin entries THEN <<>> ELSE Append(path[file[n].parent], n)]
\* An entry follows one that is older.
Rooted(file) == Len(file) \in Nat /\ \A n \in 1..Len(file) : file[n].parent \in 0..(n - 1)
\* What a branch of the whole file shows, and the entries on it.
Truth(file, x) == FoldEntries(BranchOf(file, 1..Len(file), x))
OnPath(file, n, x) == n \in Range(BranchOf(file, 1..Len(file), x))
\* The other file goes on where this one ends.
Begins(file, other) ==
  Len(file) <= Len(other) /\ \A n \in 1..Len(file) : other[n] = file[n]
\* Lines of Pi: what it read for Core, a model it stored, a branch it left, a turn
\* that ended without a word, the end of a turn, and what it says within one.
Answers(l, command) == l.type = "response" /\ l.command = command
IsRead(l) == Answers(l, "get_entries")
IsModel(l) == Answers(l, "set_model") /\ l.ok
IsMove(l) == Answers(l, "navigate") /\ l.ok
IsSilent(l) == Answers(l, "abort") /\ l.last # 0
Ends(l) == l.type = "settled" \/ IsSilent(l)
TurnLine(l) == l.type \in {"turn", "answer"}
\* What a turn says is followed by its end, or the turn goes on.
Followed(s, going) ==
  going \/ \A q \in 1..Len(s) : TurnLine(s[q]) => \E r \in 1..Len(s) : r > q /\ Ends(s[r])
\* Later reads tell more.
Ordered(s) ==
  \A q, r \in 1..Len(s) : q < r /\ IsRead(s[q]) /\ IsRead(s[r]) => s[q].last <= s[r].last
\* After a place in the pipe: Core will read the file once more, or learn that it must.
DueAfter(s, going, q) == going \/ \E r \in 1..Len(s) : r > q /\ (Ends(s[r]) \/ IsMove(s[r]))
\* From a place in the pipe on, models lead from one leaf to another.
Steps(s, f, r, file) ==
  IF IsModel(s[r]) THEN f[r] = s[r].last /\ file[s[r].last].parent = f[r - 1] ELSE f[r] = f[r - 1]
Leads(s, q, from, file, to) ==
  \E f : f[q] = from /\ f[Len(s)] = to /\ \A r \in 1..Len(s) : r > q => Steps(s, f, r, file)
ReadsAreTrue(s, going, file, to) ==
  \A q \in 1..Len(s) : IsRead(s[q]) => DueAfter(s, going, q) \/ Leads(s, q, s[q].leaf, file, to)

-----------------------------------------------------------------------------
(* What Core knows of the session file *)

\* The request of this id, if a job still awaits its answer, is of this kind.
Owned(id, at) == pending[id] # Nil => jobs[pending[id]].at = at
FileHolds == Pipe(tree) /\ Rooted(tree) /\ leaf \in 0..Len(tree)
CopyHolds == copy.upTo \in 0..Len(tree) /\ copy.stored = 1..copy.upTo
WiresHold ==
  /\ pending \in [Ids -> Slots \cup {Nil}]
  /\ \A l \in Elements(fromPi) : l.type = "response" => l.id \in Ids /\ Owned(l.id, l.command)
  /\ \A l \in Elements(toPi) : l.type # "reply" => l.id \in Ids /\ Owned(l.id, l.type)
  /\ agent.packing # Nil => agent.packing \in Ids /\ Owned(agent.packing, "compact")
ReadHolds(l) ==
  l.ok /\ l.entry \in 0..copy.upTo /\ l.last \in copy.upTo..Len(tree) /\ l.leaf \in 0..l.last
LinesHold ==
  /\ \A l \in Elements(fromPi) :
       /\ IsRead(l) => ReadHolds(l)
       /\ IsModel(l) => l.last \in 1..Len(tree) /\ tree[l.last].kind = "model"
       /\ IsSilent(l) => l.ok
  /\ \A l \in Elements(toPi) : l.type = "get_entries" => l.entry \in 0..copy.upTo
  /\ Ordered(fromPi) /\ Followed(fromPi, agent.turn)
Transcript(shown) == Pipe(shown) /\ \A i \in 1..Len(shown) :
                                     /\ shown[i] = Message(shown[i].entry, shown[i].stable)
                                     /\ shown[i].stable \in BOOLEAN
FInv ==
  agent.state = "up" =>
    ~session.closed /\ FileHolds /\ CopyHolds /\ WiresHold /\ LinesHold /\ Transcript(ledger.shown)
\* The ledger shows the branch that the models under way lead on from; or Core will
\* hear of the file once more; or it may differ.
LedgerIsTrue ==
  \/ drift \/ DueAfter(fromPi, agent.turn, 0)
  \/ \E l \in Elements(toPi) : l.type = "get_entries"
  \/ \E l \in Elements(fromPi) : IsRead(l)
  \/ \E x \in 0..Len(tree) : ledger.shown = Truth(tree, x) /\ Leads(fromPi, 0, x, tree, leaf)
LInv == agent.state = "up" => ReadsAreTrue(fromPi, agent.turn, tree, leaf) /\ LedgerIsTrue
\* A request of this id has left a trace that this step does not take away.
Traced(id) ==
  \/ \E l \in Elements(toPi) \cup Elements(fromPi') : l.id = id
  \/ agent.packing = id
\* What a step of Core writes, and which answers it stops awaiting.
Writes(t) ==
  /\ Pipe(t) /\ toPi' = toPi \o t /\ pending' \in [Ids -> Slots \cup {Nil}]
  /\ \A id \in Ids : Traced(id) =>
       \/ pending'[id] = Nil
       \/ pending'[id] = pending[id] /\ jobs'[pending[id]] = jobs[pending[id]]
  /\ \A l \in Elements(t) :
       \/ l.type = "reply"
       \/ /\ l.id \in Ids /\ pending'[l.id] # Nil /\ jobs'[pending'[l.id]].at = l.type
          /\ l.type = "get_entries" => l.entry = copy.upTo
Asks(t) == \E l \in Elements(t) : l.type = "get_entries"
\* A line that Core handles, and what it shows then.
Handles(l, t) ==
  \/ drift' /\ copy' = copy /\ ledger'.shown = ledger.shown
  \/ /\ copy' = copy /\ (drift => drift') /\ ledger'.shown = ledger.shown
     /\ ~IsRead(l) /\ ~IsModel(l) /\ (IsMove(l) \/ Ends(l) => Asks(t))
  \/ /\ copy' = copy /\ (drift => drift') /\ IsModel(l)
     /\ ledger'.shown = Append(ledger.shown, Message(l.last, TRUE))
  \/ copy' = copy /\ TurnLine(l) /\ Transcript(ledger'.shown)
  \/ IsRead(l) /\ copy' = Absorbed(l) /\ ledger'.shown = Reconciled(l).shown
CoreMoves(t) ==
  /\ UNCHANGED piVars /\ session'.closed = session.closed /\ Writes(t)
  /\ \/ UNCHANGED <<fromPi, copy>> /\ (drift => drift') /\ ledger'.shown = ledger.shown
     \/ fromPi # <<>> /\ fromPi' = Tail(fromPi) /\ Handles(Head(fromPi), t)
\* What is known while Pi runs.
Runs ==
  /\ agent.state = "up" /\ ~session.closed /\ JobsAreFiled /\ IsLedger(ledger) /\ IsSession(session)
  /\ Pipe(toPi) /\ Pipe(fromPi) /\ IsFiniteSet(pendingConfirms)
  /\ FileHolds /\ CopyHolds /\ WiresHold /\ LinesHold /\ Transcript(ledger.shown)

-----------------------------------------------------------------------------
(* What Pi says of its file *)

\* A line that Pi may write.
Fits(l) ==
  /\ l.type = "response" => l.id \in Ids /\ Owned(l.id, l.command)
  /\ IsRead(l) => /\ l.ok /\ l.entry \in 0..copy.upTo
                  /\ l.last = Len(tree') /\ l.leaf \in 0..Len(tree')
  /\ IsModel(l) => l.last \in 1..Len(tree') /\ tree'[l.last].kind = "model"
  /\ IsSilent(l) => l.ok
Awaits == \A l \in Elements(toPi) : l.type = "get_entries" => l \in Elements(toPi')
\* What its lines say of its file: a turn goes on, or ends; nothing; that a branch
\* was left; the file as it is; one model more.
Tells(t) ==
  \/ agent'.turn
  \/ /\ \E e \in 1..Len(t) : Ends(t[e]) /\ \A q \in 1..Len(t) : q >= e => ~TurnLine(t[q])
     /\ \A l \in Elements(t) : ~IsRead(l)
  \/ /\ agent'.turn = agent.turn /\ \A l \in Elements(t) : ~TurnLine(l)
     /\ \/ /\ UNCHANGED <<tree, leaf>> /\ Awaits
           /\ \A l \in Elements(t) : ~IsRead(l) /\ ~IsModel(l)
        \/ /\ \E l \in Elements(t) : IsMove(l)
           /\ \A l \in Elements(t) : ~IsRead(l)
        \/ /\ UNCHANGED <<tree, leaf>>
           /\ \E e : t = <<e>> /\ IsRead(e) /\ ~IsModel(e) /\ e.leaf = leaf
        \/ /\ Awaits
           /\ \E e : t = <<e>> /\ IsModel(e) /\ tree'[e.last].parent = leaf /\ leaf' = e.last
PiSays(t) ==
  /\ PiSteps /\ (drift => drift') /\ Pipe(t) /\ fromPi' = fromPi \o t /\ \A l \in Elements(t) : Fits(l)
  /\ Elements(toPi') \subseteq Elements(toPi)
  /\ Pipe(tree') /\ Rooted(tree') /\ leaf' \in 0..Len(tree') /\ Begins(tree, tree')
  /\ \/ agent'.packing \in {agent.packing, Nil}
     \/ \E l \in Elements(toPi) : l.type = "compact" /\ agent'.packing = l.id
  /\ Tells(t)

-----------------------------------------------------------------------------
(* Who owes the end of a busy conversation *)

Unstable == \E i \in 1..Len(ledger.shown) : ~ledger.shown[i].stable
Shows(n) == \E i \in 1..Len(ledger.shown) : ledger.shown[i].entry = n
\* What is shown under the id of an entry that Core has not read is a model.
ShownIsKnown ==
  \A i \in 1..Len(ledger.shown) : ledger.shown[i].stable =>
    /\ ledger.shown[i].entry \in 1..Len(tree)
    /\ ledger.shown[i].entry > copy.upTo => tree[ledger.shown[i].entry].kind = "model"
TargetsAreStored == \A j \in Slots : jobs[j].op \in {"edit", "resend"} => jobs[j].target \in 1..Len(tree)
\* After place p of the pipe, each read tells of an answer that Core has not seen.
Unread(n, p) ==
  /\ n \in 1..Len(tree) /\ n > copy.upTo /\ tree[n].kind = "answer" /\ OnPath(tree, n, leaf)
  /\ \A q \in 1..Len(fromPi) : IsRead(fromPi[q]) =>
       IF q > p THEN n <= fromPi[q].last /\ OnPath(tree, n, fromPi[q].leaf) ELSE fromPi[q].last < n
\* A turn ends without a word here, or has done so, and its answer came too late.
Missed(p) == IF p = 0 THEN drift ELSE IsSilent(fromPi[p])
\* A job that will take busy back, or learn that a read has.
EditOwns(j) ==
  \/ jobs[j].op = "edit" /\ (jobs[j].at # "navigate" \/ Shows(jobs[j].target))
  \/ jobs[j].op = "resend" /\ Shows(jobs[j].target)
PromptOwns(j) ==
  /\ jobs[j].op = "prompt" /\ jobs[j].at = "prompt" /\ ~jobs[j].was
  /\ \A l \in Elements(fromPi) : l.type = "response" /\ pending[l.id] = j => ~l.ok
\* ... that Pi has not handled when it comes to the line at place k.
PromptFollows(j, k) ==
  /\ jobs[j].op = "prompt" /\ jobs[j].at = "prompt" /\ ~jobs[j].was
  /\ \A l \in Elements(fromPi) : l.type = "response" => pending[l.id] # j
  /\ \A i \in 1..k : toPi[i].type # "reply" => pending[toPi[i].id] # j
BusyIsOwned ==
  ledger.busy =>
    \/ agent.turn \/ \E l \in Elements(fromPi) : l.type = "settled"
    \/ \E p \in 0..Len(fromPi) : Missed(p) /\ (Unstable \/ \E n : Unread(n, p))
    \/ \E j \in Slots : EditOwns(j) \/ PromptOwns(j)
\* While an edit moves the branch back, busy is not owed by what it leaves behind.
MovesAreOwned ==
  \A k \in 1..Len(toPi) : toPi[k].type = "navigate" /\ ledger.busy =>
    Unstable \/ \E j \in Slots : EditOwns(j) \/ PromptFollows(j, k)
BusyHolds == ShownIsKnown /\ TargetsAreStored /\ BusyIsOwned /\ MovesAreOwned
BInv == agent.state = "up" => BusyHolds
\* A step of Core that touches one job at most.
TouchesOne(j, t) == Writes(t) /\ \A k \in Slots : k # j => jobs'[k] = jobs[k]
\* A job that does not owe the end of busy goes on, or stays as it is.
Passes(j) ==
  \/ jobs'[j] = jobs[j]
  \/ /\ ~EditOwns(j) /\ ~PromptOwns(j)
     /\ jobs'[j].op \in {"edit", "resend"} => jobs'[j].target \in 1..Len(tree)
Handled == fromPi' = fromPi \/ (fromPi # <<>> /\ fromPi' = Tail(fromPi))

-----------------------------------------------------------------------------
(* What a step of Pi leaves to the others *)

Reads == toPi # <<>> /\ toPi' = Tail(toPi)
\* A turn that ends without a word leaves its answer behind.
EndsSilently(t) ==
  /\ \E l : t = <<l>> /\ IsSilent(l)
  /\ leaf' = Len(tree') /\ Len(tree') = Len(tree) + 1 /\ tree'[Len(tree')].kind = "answer"
Owes(t) ==
  /\ toPi' = toPi \/ Reads
  /\ \A l \in Elements(t) : l.type = "response" =>
       \/ l.command = "compact"
       \/ Reads /\ Head(toPi).type # "reply" /\ l.id = Head(toPi).id /\ l.command = Head(toPi).type
  /\ \A l \in Elements(t) : Answers(l, "prompt") /\ l.ok => agent'.turn
  /\ agent.turn => agent'.turn \/ (\E l \in Elements(t) : l.type = "settled") \/ EndsSilently(t)
  /\ \/ \A n : OnPath(tree, n, leaf) => OnPath(tree', n, leaf')
     \/ Reads /\ Head(toPi).type = "navigate"
  /\ \A l \in Elements(t) : IsRead(l) => l.leaf = leaf'
PiOwes == \E t : Pipe(t) /\ fromPi' = fromPi \o t /\ Owes(t)
KeepsBranch == \A n : OnPath(tree, n, leaf) => OnPath(tree', n, leaf')
=============================================================================
