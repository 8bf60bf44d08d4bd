------------------------------ MODULE MainLoop ------------------------------
(***************************************************************************)
(* mainLoop() of pipeline.cc, as the server of requests: messages come     *)
(* from the stdin thread, index updates from the indexers.  A request for  *)
(* a file that is not indexed yet throws NotIndexed and waits in backlog,  *)
(* with a pointer to it in path2backlog, until the update of its file or   *)
(* its deadline.  The loop answers what is overdue, then the new messages, *)
(* then what a batch of updates sets free, then sleeps.                    *)
(*                                                                         *)
(* The queues are those of module ThreadedQueue and main_waiter that of    *)
(* module QueueWaiter; nothing urgent is told apart here.  The progress    *)
(* report is module Progress.                                              *)
(***************************************************************************)
EXTENDS Integers, Sequences, FiniteSets

CONSTANTS
  Paths,       \* the files that requests name
  None,        \* the empty path
  Timeout,     \* request.timeout
  Batch,       \* updates applied per turn (20 in the code)
  MaxNow,      \* bound on the time
  MaxRequests, \* bound on the number of requests
  MaxUpdates,  \* bound on the number of updates
  MaxNotes     \* bound on the number of notifications

ASSUME NoneAssumption == None \notin Paths
ASSUME TimeAssumption == Timeout \in Nat /\ Batch \in Nat /\ MaxNow \in Nat
ASSUME RequestsAssumption == MaxRequests \in Nat

VARIABLES
  now,           \* steady_clock
  on_request,    \* messages from the client
  on_indexed,    \* updates from the indexers
  updates,       \* number of updates so far (bounded)
  notes,         \* number of notifications so far (bounded)
  received,      \* history: the number of requests the client has sent
  opened,        \* the working files
  indexed,       \* the files with a definition in the database
  owned,         \* history: those whose own update was applied
  phase,         \* where the loop is
  turn,          \* the locals of a turn: now, messages, updates left, did_work
  backlog,       \* the deque of waiting messages, with their backlog_path
  path2backlog,  \* per file, the waiting messages
  replies,       \* replies[id]: what was sent to the client for a request
  g_quit

inVars == <<now, on_request, on_indexed, updates, notes, received>>
dbVars == <<opened, indexed, owned>>
loopVars == <<phase, turn>>
backVars == <<backlog, path2backlog>>
vars == <<inVars, dbVars, loopVars, backVars, replies, g_quit>>

\* The ids of requests, given in the order they are sent.
Requests == 1..MaxRequests

Methods == {"request", "didOpen", "didClose", "reload", "exit"}

Message(method, id, path) ==
  [method |-> method, id |-> id, path |-> path, deadline |-> now + Timeout,
   backlog_path |-> None]

Updates == [path : Paths, lid2path : SUBSET Paths]

Phases == {"expire", "messages", "updates", "sleep", "stopped"}

NewTurn == [now |-> 0, messages |-> <<>>, left |-> 0, did_work |-> FALSE]

Init ==
  /\ now = 0 /\ on_request = <<>> /\ on_indexed = <<>>
  /\ updates = 0 /\ notes = 0 /\ received = 0
  /\ opened = Paths /\ indexed = {} /\ owned = {}
  /\ phase = "expire" /\ turn = NewTurn
  /\ backlog = <<>> /\ path2backlog = [p \in Paths |-> <<>>]
  /\ replies = [id \in Requests |-> <<>>]
  /\ g_quit = FALSE

----------------------------------------------------------------------------
(* The other threads *)
Tick ==
  /\ now < MaxNow /\ now' = now + 1
  /\ UNCHANGED <<on_request, on_indexed, updates, notes, received, dbVars,
                 loopVars, backVars, replies, g_quit>>

\* launchStdin: the deadline is set when the message is read, and lies within the
\* bound on the time; exit is the last message.
Receive ==
  /\ now + Timeout <= MaxNow
  /\ \A k \in DOMAIN on_request : on_request[k].method /= "exit"
  /\ ~g_quit /\ \A k \in DOMAIN turn.messages : turn.messages[k].method /= "exit"
  /\ \/ \E p \in Paths :
          /\ received < MaxRequests /\ received' = received + 1
          /\ on_request' = Append(on_request, Message("request", received', p))
          /\ UNCHANGED notes
     \/ \E method \in Methods \ {"request"}, p \in Paths :
          /\ notes < MaxNotes
          /\ on_request' = Append(on_request, Message(method, None, p))
          /\ notes' = notes + 1
          /\ UNCHANGED received
  /\ UNCHANGED <<now, on_indexed, updates, dbVars, loopVars, backVars, replies, g_quit>>

\* An indexer pushes an update that names its own file and others.
Indexed ==
  /\ updates < MaxUpdates /\ updates' = updates + 1
  /\ \E u \in Updates : on_indexed' = Append(on_indexed, u)
  /\ UNCHANGED <<now, on_request, notes, received, dbVars, loopVars, backVars,
                 replies, g_quit>>

----------------------------------------------------------------------------
(* MessageHandler::run *)
Reply(id, what) == replies' = [replies EXCEPT ![id] = Append(@, what)]

\* findOrFail throws NotIndexed.
NotIndexedYet(m) == m.path \in opened \ indexed

\* What the handler of a request sends, unless it throws; overdue, it does not.
Answer(m) ==
  IF m.path \notin opened THEN "not opened"
  ELSE IF m.path \in indexed THEN "result" ELSE "not indexed"

----------------------------------------------------------------------------
(* One turn of the loop *)

\* The loop waits for work only.
WakeMutant ==
  /\ phase = "sleep"
  /\ on_request /= <<>> \/ on_indexed /= <<>> \/ g_quit
  /\ phase' = "expire"
  /\ turn' = [NewTurn EXCEPT !.now = now]
  /\ UNCHANGED <<inVars, dbVars, backVars, replies, g_quit>>

\* The wait ends: both sleeps end on work or on quit, the one with a deadline
\* also when it passes (or for no reason).
Wake ==
  /\ phase = "sleep"
  /\ on_request /= <<>> \/ on_indexed /= <<>> \/ g_quit \/ backlog /= <<>>
  /\ phase' = "expire"
  /\ turn' = [NewTurn EXCEPT !.now = now]
  /\ UNCHANGED <<inVars, dbVars, backVars, replies, g_quit>>

\* The pointer is not dropped with the message.
ExpireMutant ==
  /\ phase = "expire" /\ backlog /= <<>>
  /\ LET m == Head(backlog) IN
     \/ /\ m.backlog_path = None
        /\ UNCHANGED <<path2backlog, replies>>
     \/ /\ m.backlog_path /= None /\ turn.now >= m.deadline
        /\ Reply(m.id, Answer(m))
        /\ UNCHANGED path2backlog
  /\ backlog' = Tail(backlog)
  /\ UNCHANGED <<inVars, dbVars, loopVars, g_quit>>

\* The head of the backlog is not given its time.
ExpireEarlyMutant ==
  /\ phase = "expire" /\ backlog /= <<>>
  /\ LET m == Head(backlog) IN
     \/ m.backlog_path = None /\ UNCHANGED <<path2backlog, replies>>
     \/ /\ m.backlog_path /= None
        /\ Reply(m.id, Answer(m))
        /\ path2backlog' = [path2backlog EXCEPT ![m.backlog_path] = Tail(@)]
  /\ backlog' = Tail(backlog)
  /\ UNCHANGED <<inVars, dbVars, loopVars, g_quit>>

\* The head of the backlog is dropped if it was answered, or answered at last
\* if it is overdue.
Expire ==
  /\ phase = "expire" /\ backlog /= <<>>
  /\ LET m == Head(backlog) IN
     \/ /\ m.backlog_path = None
        /\ UNCHANGED <<path2backlog, replies>>
     \/ /\ m.backlog_path /= None /\ turn.now >= m.deadline
        /\ Reply(m.id, Answer(m))
        /\ path2backlog' = [path2backlog EXCEPT ![m.backlog_path] = Tail(@)]
  /\ backlog' = Tail(backlog)
  /\ UNCHANGED <<inVars, dbVars, loopVars, g_quit>>

\* The rest of the backlog may wait; dequeueAll.
Expired ==
  /\ phase = "expire"
  /\ backlog /= <<>> => /\ Head(backlog).backlog_path /= None
                       /\ turn.now < Head(backlog).deadline
  /\ phase' = "messages"
  /\ turn' = [turn EXCEPT !.messages = on_request, !.did_work = on_request /= <<>>]
  /\ on_request' = <<>>
  /\ UNCHANGED <<now, on_indexed, updates, notes, received, dbVars, backVars,
                 replies, g_quit>>

\* A request is answered, or waits for its file.
runRequest(m) ==
  /\ IF NotIndexedYet(m)
     THEN /\ backlog' = Append(backlog, [m EXCEPT !.backlog_path = m.path])
          /\ path2backlog' = [path2backlog EXCEPT ![m.path] = Append(@, m.id)]
          /\ UNCHANGED replies
     ELSE Reply(m.id, Answer(m)) /\ UNCHANGED backVars
  /\ UNCHANGED <<dbVars, g_quit>>

\* A notification changes the working files or the database, or ends it all.
runNotification(m) ==
  /\ opened' = CASE m.method = "didOpen" -> opened \cup {m.path}
                 [] m.method = "didClose" -> opened \ {m.path}
                 [] OTHER -> opened
  /\ indexed' = IF m.method = "reload" THEN {} ELSE indexed
  /\ owned' = IF m.method = "reload" THEN {} ELSE owned
  /\ g_quit' = (g_quit \/ m.method = "exit")
  /\ UNCHANGED <<backVars, replies>>

Handle ==
  /\ phase = "messages" /\ turn.messages /= <<>>
  /\ LET m == Head(turn.messages) IN
     IF m.method = "request" THEN runRequest(m) ELSE runNotification(m)
  /\ turn' = [turn EXCEPT !.messages = Tail(@)]
  /\ UNCHANGED <<inVars, phase>>

\* One update too many.
Handled ==
  /\ phase = "messages" /\ turn.messages = <<>>
  /\ phase' = "updates"
  /\ turn' = [turn EXCEPT !.left = Batch]
  /\ UNCHANGED <<inVars, dbVars, backVars, replies, g_quit>>

\* The messages are answered but stay marked as waiting.
ResolvedMutant(p) == backlog

\* backlog_path.clear() of those that wait for p.
Resolved(p) ==
  [k \in DOMAIN backlog |->
     IF backlog[k].backlog_path = p THEN [backlog[k] EXCEPT !.backlog_path = None]
     ELSE backlog[k]]

\* main_OnIndexed without a look at path2backlog.
UpdateMutant ==
  /\ phase = "updates" /\ turn.left > 0 /\ on_indexed /= <<>>
  /\ indexed' = indexed \cup Head(on_indexed).lid2path \cup {Head(on_indexed).path}
  /\ owned' = owned \cup {Head(on_indexed).path}
  /\ on_indexed' = Tail(on_indexed)
  /\ turn' = [turn EXCEPT !.left = @ - 1, !.did_work = TRUE]
  /\ UNCHANGED <<now, on_request, updates, notes, received, opened, phase,
                 backVars, replies, g_quit>>

\* main_OnIndexed, then all that waited for the update's own file is answered:
\* the file is indexed now, so none of them throws.
Update ==
  /\ phase = "updates" /\ turn.left > 0 /\ on_indexed /= <<>>
  /\ LET u == Head(on_indexed)
         waiting == path2backlog[u.path]
         what == IF u.path \in opened THEN "result" ELSE "not opened"
     IN
     /\ indexed' = indexed \cup u.lid2path \cup {u.path}
     /\ owned' = owned \cup {u.path}
     /\ replies' = [id \in Requests |->
          IF \E k \in DOMAIN waiting : waiting[k] = id
          THEN Append(replies[id], what) ELSE replies[id]]
     /\ backlog' = Resolved(u.path)
     /\ path2backlog' = [path2backlog EXCEPT ![u.path] = <<>>]
  /\ on_indexed' = Tail(on_indexed)
  /\ turn' = [turn EXCEPT !.left = @ - 1, !.did_work = TRUE]
  /\ UNCHANGED <<now, on_request, updates, notes, received, opened, phase, g_quit>>

\* The loop ends only after a turn that did something.
EndTurn ==
  /\ phase = "updates" /\ (turn.left = 0 \/ on_indexed = <<>>)
  /\ phase' = IF ~turn.did_work THEN "sleep" ELSE IF g_quit THEN "stopped" ELSE "expire"
  /\ turn' = IF turn.did_work /\ ~g_quit THEN [NewTurn EXCEPT !.now = now] ELSE NewTurn
  /\ UNCHANGED <<inVars, dbVars, backVars, replies, g_quit>>

mainLoop ==
  Wake \/ Expire \/ Expired \/ Handle \/ Handled \/ Update \/ EndTurn

Next == Tick \/ Receive \/ Indexed \/ mainLoop

Spec == Init /\ [][Next]_vars

\* The clock and the main thread go on; the client and the indexers may stop.
FairSpec == Spec /\ WF_vars(Tick) /\ WF_vars(mainLoop)

----------------------------------------------------------------------------
Messages == [method : Methods, id : Requests \cup {None}, path : Paths,
             deadline : Nat, backlog_path : Paths \cup {None}]

TypeOK ==
  /\ now \in Nat /\ updates \in Nat /\ notes \in Nat
  /\ received \in 0..MaxRequests
  /\ on_request \in Seq(Messages) /\ on_indexed \in Seq(Updates)
  /\ opened \subseteq Paths /\ indexed \subseteq Paths /\ owned \subseteq indexed
  /\ phase \in Phases
  /\ turn \in [now : Nat, messages : Seq(Messages), left : 0..Batch, did_work : BOOLEAN]
  /\ backlog \in Seq(Messages)
  /\ path2backlog \in [Paths -> Seq(Requests)]
  /\ replies \in [Requests -> Seq({"result", "not opened", "not indexed"})]
  /\ g_quit \in BOOLEAN

PointersTo(p) == {path2backlog[p][k] : k \in DOMAIN path2backlog[p]}
WaitingFor(p) == {backlog[k].id : k \in {i \in DOMAIN backlog : backlog[i].backlog_path = p}}

\* The pointers in path2backlog are exactly the messages of the backlog that
\* wait for the file, both in the order in which the client sent them: none
\* dangles, none is missing, and pop_front() drops the pointer to the message at
\* hand (pipeline.cc:668).
BacklogIndexed ==
  /\ \A i, j \in DOMAIN backlog : i < j => backlog[i].id < backlog[j].id
  /\ \A p \in Paths :
       /\ PointersTo(p) = WaitingFor(p)
       /\ \A i, j \in DOMAIN path2backlog[p] :
            i < j => path2backlog[p][i] < path2backlog[p][j]

Asked(ms) == {ms[k].id : k \in {i \in DOMAIN ms : ms[i].method = "request"}}

Waiting == {backlog[k].id : k \in {i \in DOMAIN backlog : backlog[i].backlog_path /= None}}

\* A request is answered once: never twice, by its update and its deadline, and
\* it waits somewhere until it is.
AnsweredOnce ==
  /\ \A id \in Requests : Len(replies[id]) <= 1
  /\ {id \in 1..received : replies[id] = <<>>}
       = Asked(on_request) \cup Asked(turn.messages) \cup Waiting

\* What still waits, waits for a file whose own update has not come.
WaitsForUpdate ==
  \A k \in DOMAIN backlog : backlog[k].backlog_path \notin owned

\* "If the document of a request has not been indexed, wait up to this many
\* milleseconds before reporting error" (config.hh:300): a request is refused as
\* not indexed only if it has waited that long.
RefusedLate ==
  [][\A id \in Requests :
       replies'[id] = Append(replies[id], "not indexed")
         => \E k \in DOMAIN backlog : backlog[k].id = id /\ now >= backlog[k].deadline]_vars

\* Every request is answered, unless the server ends first.
Served ==
  \A id \in Requests : id <= received ~> (replies[id] /= <<>> \/ phase = "stopped")

============================================================================
