---------------------------- MODULE SemaManager ----------------------------
(***************************************************************************)
(* SemaManager (sema_manager.cc): the sessions of the files being edited,  *)
(* the three threads that build preambles, complete code and diagnose, and *)
(* their queues of tasks.  A thread is cut where it takes a mutex that     *)
(* others take; the handlers of the main thread are cut at every call they *)
(* make.  Times are in seconds.                                            *)
(*                                                                         *)
(* A text is the number of the edit that made it and `bounds', which       *)
(* stands for its preamble: the #include lines at its top.  Two preambles  *)
(* may have one size, and their sizes are all that the threads of          *)
(* completion and diagnosis compare.                                       *)
(***************************************************************************)
EXTENDS Integers, Sequences, FiniteSets

CONSTANTS
  Paths, None,
  Includes,    \* Includes[p]: the files whose text the preamble of p contains
  Bounds,      \* Bounds[p]: the preambles that texts of p may have
  Size(_),     \* Size(bounds): PreambleBounds::Size, the bytes of a preamble
  MaxNum,      \* session.maxNum
  DropOld,     \* completion.dropOldRequests
  OnChange, OnOpen, OnSave,  \* diagnostics.onChange, onOpen, onSave
  ClangFails,  \* TRUE: clang may fail or crash on a file
  MaxEdits,    \* bound on the number of texts
  MaxCalls,    \* bound on the number of saves, closes, clears and exit
  MaxRequests  \* bound on the number of completion requests

ASSUME SemaAssumption ==
  /\ None \notin Paths \cup [edit : 1..MaxEdits, bounds : Nat] /\ Includes \in [Paths -> SUBSET Paths]
  /\ Bounds \in [Paths -> SUBSET Nat] /\ MaxNum \in Nat \ {0}
  /\ {OnChange, OnOpen, OnSave} \subseteq Nat \cup {-1}
  /\ {DropOld, ClangFails} \subseteq BOOLEAN
  /\ {MaxEdits, MaxCalls, MaxRequests} \subseteq Nat

VARIABLES
  now,             \* the clock
  text,            \* text[p]: the working file's buffer, or None
  timestamp,       \* timestamp[p]: when a working file was last changed
  edits, calls,    \* numbers of texts and calls so far (bounded)
  received,        \* number of completion requests so far: the newest id
  todo,            \* the calls the main thread's handler has still to make
  sessions,        \* LruCache: [path, session], the latest used first
  preambles,       \* preambles[s]: the PreambleData of session s, or None
  next_diag,       \* next_diag[p]
  preamble_tasks, comp_tasks, diag_tasks,
  preamble, comp, diag,  \* the three threads
  replies,         \* replies[id]: what the client was sent for a completion
  lost,            \* history: completions given up without a reply
  published,       \* published[p]: the text last diagnosed, and its preamble
  waived,          \* history: files whose diagnosis was given up
  g_quit

docVars == <<text, timestamp, edits>>
inVars == <<now, calls, received, todo>>
sessionVars == <<sessions, preambles>>
diagVars == <<next_diag, diag_tasks>>
outVars == <<replies, lost, published, waived>>
vars == <<docVars, inVars, sessionVars, diagVars, preamble_tasks, comp_tasks,
          preamble, comp, diag, outVars, g_quit>>

Requests == 1..MaxRequests
Sids == 1..(MaxNum + 3)   \* the cached ones, one for each of two threads, a new one

NullTask == [id |-> 0, path |-> None]
Idle == [pc |-> "idle"]

\* The session of path p, as the map of `items' has it.
Cached(p) == {k \in DOMAIN sessions : sessions[k].path = p}

Erased(k) == SubSeq(sessions, 1, k - 1) \o SubSeq(sessions, k + 1, Len(sessions))

\* LruCache::get leaves what it found at the front, LruCache::take takes it out.
Touched(k) == <<sessions[k]>> \o Erased(k)
Without(p) ==
  IF Cached(p) = {} THEN sessions ELSE Erased(CHOOSE k \in Cached(p) : TRUE)

Held == {t.sid : t \in {u \in {preamble, diag} : "sid" \in DOMAIN u}}
Free == Sids \ (Held \cup {sessions[k].sid : k \in DOMAIN sessions})

Init ==
  /\ now = 1 /\ edits = 0 /\ calls = 0 /\ received = 0
  /\ text = [p \in Paths |-> None] /\ timestamp = [p \in Paths |-> 0]
  /\ todo = <<>>
  /\ sessions = <<>> /\ preambles = [s \in Sids |-> None]
  /\ next_diag = [p \in Paths |-> 0]
  /\ preamble_tasks = <<>> /\ comp_tasks = <<>> /\ diag_tasks = <<>>
  /\ preamble = Idle /\ comp = Idle /\ diag = Idle
  /\ replies = [id \in Requests |-> <<>>] /\ lost = {}
  /\ published = [p \in Paths |-> None] /\ waived = {}
  /\ g_quit = FALSE

----------------------------------------------------------------------------
(* SemaManager's calls *)

\* `!session' made a new one: the oldest goes if the cache is full.
ensureSession(p) ==
  IF Cached(p) /= {}
  THEN sessions' = Touched(CHOOSE k \in Cached(p) : TRUE) /\ UNCHANGED preambles
  ELSE LET new == CHOOSE x \in Free : TRUE
           kept == IF Len(sessions) >= MaxNum THEN SubSeq(sessions, 1, Len(sessions) - 1)
                   ELSE sessions
       IN /\ sessions' = <<[path |-> p, sid |-> new]>> \o kept
          /\ preambles' = [x \in Sids |-> IF x \in Free THEN None ELSE preambles[x]]

\* Changes are refused for a second after the diagnosis, too.
scheduleDiagMutant(p, debounce) ==
  IF next_diag[p] <= now
  THEN /\ next_diag' = [next_diag EXCEPT ![p] = now + debounce + 1]
       /\ diag_tasks' = Append(diag_tasks, [path |-> p, wait_until |-> now + debounce])
  ELSE UNCHANGED diagVars

\* A change that comes while a diagnosis is due is left to that one.
scheduleDiag(p, debounce) ==
  IF next_diag[p] <= now
  THEN /\ next_diag' = [next_diag EXCEPT ![p] = now + debounce]
       /\ diag_tasks' = Append(diag_tasks, [path |-> p, wait_until |-> now + debounce])
  ELSE UNCHANGED diagVars

PreambleTask(p, task, from_diag) == [path |-> p, comp_task |-> task, from_diag |-> from_diag]

----------------------------------------------------------------------------
(* The main thread *)
Listening == ~g_quit /\ todo = <<>>

Call(name, p) == [name |-> name, path |-> p]

\* The client's new text of p, with the preamble it had or another.
NewText(p) ==
  /\ edits < MaxEdits /\ edits' = edits + 1
  /\ \E bounds \in Bounds[p] : text' = [text EXCEPT ![p] = [edit |-> edits', bounds |-> bounds]]
  /\ waived' = waived \ {p}

textDocument_didOpen(p) ==
  /\ Listening /\ text[p] = None
  /\ NewText(p)
  /\ timestamp' = [timestamp EXCEPT ![p] = 0]
  /\ todo' = <<Call("onView", p)>>
  /\ UNCHANGED <<now, calls, received, sessionVars, diagVars, preamble_tasks,
                 comp_tasks, preamble, comp, diag, replies, lost, published, g_quit>>

textDocument_didChange(p) ==
  /\ Listening /\ text[p] /= None
  /\ NewText(p)
  /\ timestamp' = [timestamp EXCEPT ![p] = now]
  /\ todo' = <<Call("onView", p)>>
             \o IF OnChange >= 0 THEN <<Call("scheduleDiag", p)>> ELSE <<>>
  /\ UNCHANGED <<now, calls, received, sessionVars, diagVars, preamble_tasks,
                 comp_tasks, preamble, comp, diag, replies, lost, published, g_quit>>

textDocument_didSave(p) ==
  /\ Listening /\ text[p] /= None
  /\ calls < MaxCalls /\ calls' = calls + 1
  /\ todo' = <<Call("onSave", p)>>
  /\ UNCHANGED <<docVars, now, received, sessionVars, diagVars, preamble_tasks,
                 comp_tasks, preamble, comp, diag, outVars, g_quit>>

textDocument_didClose(p) ==
  /\ Listening /\ text[p] /= None
  /\ calls < MaxCalls /\ calls' = calls + 1
  /\ text' = [text EXCEPT ![p] = None]
  /\ todo' = <<Call("onClose", p)>>
  /\ UNCHANGED <<timestamp, edits, now, received, sessionVars, diagVars,
                 preamble_tasks, comp_tasks, preamble, comp, diag, outVars, g_quit>>

\* A file changes, or goes, behind the client's back; it may be open.
workspace_didChangeWatchedFiles(p) ==
  /\ Listening
  /\ calls < MaxCalls /\ calls' = calls + 1
  /\ \/ todo' = <<Call("onClose", p)>>
     \/ text[p] /= None /\ todo' = <<Call("onSave", p)>>
  /\ UNCHANGED <<docVars, now, received, sessionVars, diagVars, preamble_tasks,
                 comp_tasks, preamble, comp, diag, outVars, g_quit>>

\* workspace/didChangeConfiguration, didChangeWorkspaceFolders and $ccls/reload.
clear ==
  /\ Listening
  /\ calls < MaxCalls /\ calls' = calls + 1
  /\ sessions' = <<>>
  /\ UNCHANGED <<docVars, now, received, todo, preambles, diagVars, preamble_tasks,
                 comp_tasks, preamble, comp, diag, outVars, g_quit>>

\* textDocument/completion and signatureHelp for an open file, not answered from
\* their cache.
textDocument_completion(p) ==
  /\ Listening /\ text[p] /= None
  /\ received < MaxRequests /\ received' = received + 1
  /\ comp_tasks' = Append(comp_tasks, [id |-> received', path |-> p])
  /\ UNCHANGED <<docVars, now, calls, todo, sessionVars, diagVars, preamble_tasks,
                 preamble, comp, diag, outVars, g_quit>>

\* The diagnostic thread is forgotten.
exitMutant ==
  /\ Listening
  /\ calls < MaxCalls /\ calls' = calls + 1
  /\ g_quit' = TRUE
  /\ todo' = <<Call("quitComp", None), Call("quitPreamble", None)>>
  /\ UNCHANGED <<docVars, now, received, sessionVars, diagVars, preamble_tasks,
                 comp_tasks, preamble, comp, diag, outVars>>

\* exit: g_quit first, then a task for every thread.
exit ==
  /\ Listening
  /\ calls < MaxCalls /\ calls' = calls + 1
  /\ g_quit' = TRUE
  /\ todo' = <<Call("quitComp", None), Call("quitDiag", None), Call("quitPreamble", None)>>
  /\ UNCHANGED <<docVars, now, received, sessionVars, diagVars, preamble_tasks,
                 comp_tasks, preamble, comp, diag, outVars>>

\* A file that has a session is not diagnosed for being shown: when it is opened
\* (no other call follows) that session was left by a task of an earlier opening.
onView(p) ==
  /\ IF Cached(p) = {}
     THEN /\ preamble_tasks' = Append(preamble_tasks, PreambleTask(p, NullTask, FALSE))
          /\ UNCHANGED <<sessions, waived>>
     ELSE /\ sessions' = Touched(CHOOSE k \in Cached(p) : TRUE)
          /\ waived' = IF Tail(todo) = <<>> THEN waived \cup {p} ELSE waived
          /\ UNCHANGED preamble_tasks
  /\ UNCHANGED <<diagVars, comp_tasks>>

\* The next call of the handler.
MainCall ==
  /\ todo /= <<>> /\ todo' = Tail(todo)
  /\ LET call == Head(todo)
         p == call.path
     IN \/ call.name = "onView" /\ onView(p)
        \/ /\ call.name = "scheduleDiag" /\ scheduleDiag(p, OnChange)
           /\ UNCHANGED <<sessions, preamble_tasks, comp_tasks, waived>>
        \/ /\ call.name \in {"onSave", "quitPreamble"}
           /\ preamble_tasks' = Append(preamble_tasks, PreambleTask(p, NullTask, FALSE))
           /\ UNCHANGED <<sessions, diagVars, comp_tasks, waived>>
        \/ /\ call.name = "onClose" /\ sessions' = Without(p)
           /\ UNCHANGED <<diagVars, preamble_tasks, comp_tasks, waived>>
        \/ /\ call.name = "quitComp" /\ comp_tasks' = Append(comp_tasks, NullTask)
           /\ UNCHANGED <<sessions, diagVars, preamble_tasks, waived>>
        \/ /\ call.name = "quitDiag"
           /\ diag_tasks' = Append(diag_tasks, [path |-> None, wait_until |-> 0])
           /\ UNCHANGED <<sessions, next_diag, preamble_tasks, comp_tasks, waived>>
  /\ UNCHANGED <<docVars, now, calls, received, preambles, preamble, comp, diag,
                 replies, lost, published, g_quit>>

----------------------------------------------------------------------------
(* The preamble thread *)
docAndClient == <<docVars, inVars, g_quit>>

\* dequeue(session.maxNum) forgets all but the newest tasks; what they were to do
\* is not done.
PreambleTake ==
  /\ preamble.pc = "idle" /\ preamble_tasks /= <<>>
  /\ LET gone == IF Len(preamble_tasks) > MaxNum THEN Len(preamble_tasks) - MaxNum ELSE 0
         erased == {preamble_tasks[k] : k \in 1..gone}
     IN
     /\ preamble_tasks' = SubSeq(preamble_tasks, gone + 2, Len(preamble_tasks))
     /\ preamble' = IF g_quit THEN [pc |-> "left"]
                    ELSE [pc |-> "session", task |-> preamble_tasks[gone + 1]]
     /\ lost' = lost \cup {t.comp_task.id : t \in {u \in erased : u.comp_task /= NullTask}}
     /\ waived' = waived \cup {t.path : t \in {u \in erased : u.comp_task = NullTask}}
  /\ UNCHANGED <<docAndClient, sessionVars, diagVars, comp_tasks, comp, diag, replies,
                 published>>

PreambleSession ==
  /\ preamble.pc = "session"
  /\ LET p == preamble.task.path IN
     /\ ensureSession(p)
     /\ preamble' = [pc |-> "build", task |-> preamble.task, created |-> Cached(p) = {},
                     sid |-> sessions'[1].sid]
  /\ UNCHANGED <<docAndClient, diagVars, preamble_tasks, comp_tasks, comp, diag, outVars>>

BoundsIn(data) == IF data = None THEN None ELSE data.bounds
BoundsOf(p) == IF text[p] = None THEN 0 ELSE text[p].bounds

\* What the threads of completion and diagnosis call a preamble of the buffer.
Fits(bounds, p) == bounds = None \/ Size(bounds) = Size(BoundsOf(p))

\* A preamble is used again whatever its bounds.
PreambleBuildMutant ==
  /\ preamble.pc = "build"
  /\ LET p == preamble.task.path
         mayReuse == ~preamble.task.from_diag /\ preambles[preamble.sid] /= None
     IN \E built \in {None, BoundsOf(p)} :
          /\ built = None => mayReuse \/ ClangFails
          /\ preamble' = [pc |-> "forward", task |-> preamble.task, sid |-> preamble.sid,
                          created |-> preamble.created, built |-> built]
  /\ UNCHANGED <<docAndClient, sessionVars, diagVars, preamble_tasks, comp_tasks, comp,
                 diag, outVars>>

\* buildPreamble reads the buffer.  A preamble of the same contents may do
\* (CanReuse), if no file it includes was written; a diagnosis wants a new one.
PreambleBuild ==
  /\ preamble.pc = "build"
  /\ LET p == preamble.task.path
         old == preambles[preamble.sid]
         mayReuse == ~preamble.task.from_diag /\ old /= None /\ old.bounds = BoundsOf(p)
     IN \E built \in {None, BoundsOf(p)} :
          /\ built = None => mayReuse \/ ClangFails
          /\ preamble' = [pc |-> "forward", task |-> preamble.task, sid |-> preamble.sid,
                          created |-> preamble.created, built |-> built]
  /\ UNCHANGED <<docAndClient, sessionVars, diagVars, preamble_tasks, comp_tasks, comp,
                 diag, outVars>>

\* The new preamble takes the time stamps of the old one; then the completion
\* goes back to its queue, or a diagnosis is due.
PreambleForward ==
  /\ preamble.pc = "forward"
  /\ LET p == preamble.task.path
         old == preambles[preamble.sid]
     IN
     /\ preambles' = IF preamble.built = None THEN preambles
          ELSE [preambles EXCEPT ![preamble.sid] =
            [bounds |-> preamble.built,
             includes |-> IF old = None THEN [f \in Includes[p] |-> 0] ELSE old.includes]]
     /\ IF preamble.task.comp_task /= NullTask
        THEN comp_tasks' = Append(comp_tasks, preamble.task.comp_task) /\ UNCHANGED diagVars
        ELSE LET debounce == IF preamble.task.from_diag THEN 0
                             ELSE IF preamble.created THEN OnOpen ELSE OnSave
             IN /\ IF debounce >= 0 THEN scheduleDiag(p, debounce) ELSE UNCHANGED diagVars
                /\ UNCHANGED comp_tasks
  /\ preamble' = Idle
  /\ diag' = IF preamble.built /= None /\ diag.pc = "check" /\ diag.sid = preamble.sid
             THEN [diag EXCEPT !.current = FALSE] ELSE diag
  /\ UNCHANGED <<docAndClient, sessions, preamble_tasks, comp, outVars>>

PreambleMain == PreambleTake \/ PreambleSession \/ PreambleBuild \/ PreambleForward

----------------------------------------------------------------------------
(* The completion thread *)

\* The task is read, but stays in the queue.
CompTakeMutant ==
  /\ comp.pc = "idle" /\ comp_tasks /= <<>>
  /\ comp' = IF g_quit THEN [pc |-> "left"] ELSE [pc |-> "drop", task |-> Head(comp_tasks)]
  /\ UNCHANGED <<docAndClient, sessionVars, diagVars, comp_tasks, preamble_tasks, preamble,
                 diag, outVars>>

CompTake ==
  /\ comp.pc = "idle" /\ comp_tasks /= <<>>
  /\ comp' = IF g_quit THEN [pc |-> "left"] ELSE [pc |-> "drop", task |-> Head(comp_tasks)]
  /\ comp_tasks' = Tail(comp_tasks)
  /\ UNCHANGED <<docAndClient, sessionVars, diagVars, preamble_tasks, preamble, diag, outVars>>

\* While others wait, the request is dropped for the next one.  If the server
\* quits, only this loop ends.
CompDrop ==
  /\ comp.pc = "drop"
  /\ IF DropOld /\ comp_tasks /= <<>>
     THEN /\ replies' = [replies EXCEPT ![comp.task.id] = Append(@, "dropped")]
          /\ comp' = [pc |-> IF g_quit THEN "session" ELSE "drop", task |-> Head(comp_tasks)]
          /\ comp_tasks' = Tail(comp_tasks)
     ELSE comp' = [comp EXCEPT !.pc = "session"] /\ UNCHANGED <<replies, comp_tasks>>
  /\ UNCHANGED <<docAndClient, sessionVars, diagVars, preamble_tasks, preamble, diag,
                 lost, published, waived>>

\* task->path: the task of quit() is a null pointer, and the server crashes; what
\* its other threads do after that is of no account.
CompSession ==
  /\ comp.pc = "session"
  /\ IF comp.task = NullTask THEN comp' = [pc |-> "crashed"] /\ UNCHANGED sessionVars
     ELSE /\ ensureSession(comp.task.path)
          /\ comp' = [pc |-> "complete", task |-> comp.task,
                      bounds |-> BoundsIn(preambles'[sessions'[1].sid])]
  /\ UNCHANGED <<docAndClient, diagVars, preamble_tasks, comp_tasks, preamble, diag, outVars>>

\* The buffer is read and clang completes; if the preamble is not of the size that
\* the buffer's is, and the cursor behind it, the preamble thread has a turn first.
CompComplete ==
  /\ comp.pc = "complete"
  /\ LET t == comp.task
         other == ~Fits(comp.bounds, t.path)
     IN
     \/ \E in_preamble \in BOOLEAN :
          /\ IF other /\ ~in_preamble
             THEN /\ preamble_tasks' = Append(preamble_tasks, PreambleTask(t.path, t, FALSE))
                  /\ UNCHANGED replies
             ELSE /\ replies' = [replies EXCEPT ![t.id] = Append(@, "result")]
                  /\ UNCHANGED preamble_tasks
          /\ UNCHANGED lost
     \/ ClangFails /\ lost' = lost \cup {t.id} /\ UNCHANGED <<replies, preamble_tasks>>
  /\ comp' = Idle
  /\ UNCHANGED <<docAndClient, sessionVars, diagVars, comp_tasks, preamble, diag,
                 published, waived>>

CompletionMain == CompTake \/ CompDrop \/ CompSession \/ CompComplete

----------------------------------------------------------------------------
(* The diagnostic thread *)
DiagTake ==
  /\ diag.pc = "idle" /\ diag_tasks /= <<>>
  /\ diag' = IF g_quit THEN [pc |-> "left"] ELSE [pc |-> "sleep", task |-> Head(diag_tasks)]
  /\ diag_tasks' = Tail(diag_tasks)
  /\ UNCHANGED <<docAndClient, sessionVars, next_diag, preamble_tasks, comp_tasks,
                 preamble, comp, outVars>>

\* sleep_for(min(wait, debounce)): no task waits longer than its debounce.  The
\* thread keeps the PreambleData that the session has now; `current' tells whether
\* the session still has it.
DiagSession ==
  /\ diag.pc = "sleep" /\ now >= diag.task.wait_until
  /\ ensureSession(diag.task.path)
  /\ diag' = [pc |-> "check", path |-> diag.task.path, sid |-> sessions'[1].sid,
               preamble |-> preambles'[sessions'[1].sid], current |-> TRUE]
  /\ UNCHANGED <<docAndClient, diagVars, preamble_tasks, comp_tasks, preamble, comp, outVars>>

\* Is the preamble older than an open file that it includes, or has the buffer's
\* another size?  Then it is built again, and the diagnosis comes after that.
DiagCheck ==
  /\ diag.pc = "check"
  /\ LET p == diag.path
         old == diag.preamble
         newer == {f \in Includes[p] : text[f] /= None /\ old.includes[f] < timestamp[f]}
         rebuild == old /= None /\ (newer /= {} \/ ~Fits(old.bounds, p))
     IN
     /\ preambles' = IF old = None \/ ~diag.current THEN preambles
          ELSE [preambles EXCEPT ![diag.sid].includes =
                  [f \in Includes[p] |-> IF f \in newer THEN timestamp[f] ELSE @[f]]]
     /\ IF rebuild
        THEN /\ preamble_tasks' = Append(preamble_tasks, PreambleTask(p, NullTask, TRUE))
             /\ diag' = Idle
        ELSE /\ diag' = [pc |-> "parse", path |-> p, bounds |-> BoundsIn(old)]
             /\ UNCHANGED preamble_tasks
  /\ UNCHANGED <<docAndClient, sessions, diagVars, comp_tasks, preamble, comp, outVars>>

\* The buffer is read again and parsed with the preamble found before.
DiagParse ==
  /\ diag.pc = "parse"
  /\ LET p == diag.path
         edit == IF text[p] = None THEN 0 ELSE text[p].edit
     IN
     \/ /\ published' = [published EXCEPT ![p] =
             [edit |-> edit, fits |-> Fits(diag.bounds, p)]]
        /\ UNCHANGED waived
     \/ ClangFails /\ waived' = waived \cup {p} /\ UNCHANGED published
  /\ diag' = Idle
  /\ UNCHANGED <<docAndClient, sessionVars, diagVars, preamble_tasks, comp_tasks, preamble,
                 comp, replies, lost>>

DiagnosticMain == DiagTake \/ DiagSession \/ DiagCheck \/ DiagParse

----------------------------------------------------------------------------
\* Time matters while a diagnosis is due, and stands still (is bounded) otherwise.
Tick ==
  /\ \/ diag.pc = "sleep" /\ now < diag.task.wait_until
     \/ \E k \in DOMAIN diag_tasks : now < diag_tasks[k].wait_until
  /\ now' = now + 1
  /\ UNCHANGED <<docVars, calls, received, todo, sessionVars, diagVars, preamble_tasks,
                 comp_tasks, preamble, comp, diag, outVars, g_quit>>

Client ==
  \/ \E p \in Paths :
       \/ textDocument_didOpen(p) \/ textDocument_didChange(p) \/ textDocument_didSave(p)
       \/ textDocument_didClose(p) \/ workspace_didChangeWatchedFiles(p)
       \/ textDocument_completion(p)
  \/ clear \/ exit

Next == Client \/ MainCall \/ PreambleMain \/ CompletionMain \/ DiagnosticMain \/ Tick

Spec == Init /\ [][Next]_vars

\* The threads and the clock go on; the client may stop at any time.
FairSpec ==
  /\ Spec
  /\ WF_vars(Tick) /\ WF_vars(MainCall) /\ WF_vars(PreambleMain)
  /\ WF_vars(CompletionMain) /\ WF_vars(DiagnosticMain)

----------------------------------------------------------------------------
Texts == [edit : 1..MaxEdits, bounds : Nat]

TypeOK ==
  /\ now \in Nat /\ edits \in 0..MaxEdits /\ received \in 0..MaxRequests
  /\ \A p \in Paths : text[p] \in Texts \cup {None} /\ timestamp[p] \in 0..now
  /\ \A k \in DOMAIN sessions : sessions[k] \in [path : Paths, sid : Sids]
  /\ \A s \in Sids : preambles[s] = None \/ preambles[s].bounds \in Nat
  /\ Len(sessions) <= MaxNum
  /\ \A j, k \in DOMAIN sessions :
       j /= k => sessions[j].path /= sessions[k].path /\ sessions[j].sid /= sessions[k].sid
  /\ preamble.pc \in {"idle", "session", "build", "forward", "left"}
  /\ comp.pc \in {"idle", "drop", "session", "complete", "left", "crashed"}
  /\ diag.pc \in {"idle", "sleep", "check", "parse", "left"}

\* The completions that wait in a queue or that a thread is at.
InQueues ==
  {comp_tasks[k].id : k \in DOMAIN comp_tasks}
  \cup {preamble_tasks[k].comp_task.id : k \in DOMAIN preamble_tasks}
InThreads ==
  (IF "task" \in DOMAIN comp THEN {comp.task.id} ELSE {})
  \cup (IF "task" \in DOMAIN preamble THEN {preamble.task.comp_task.id} ELSE {})

\* A completion request is answered once, as dropped or with a result, however
\* often it goes back and forth between the threads; until then it is in a queue
\* or at a thread, unless clang failed or the queue of preambles overflowed.
CompletedOnce ==
  /\ \A id \in Requests : Len(replies[id]) <= 1
  /\ ~g_quit =>
       {id \in 1..received : replies[id] = <<>>} \ lost = (InQueues \cup InThreads) \ {0}

Quiet ==
  /\ todo = <<>> /\ preamble_tasks = <<>> /\ comp_tasks = <<>> /\ diag_tasks = <<>>
  /\ preamble = Idle /\ comp = Idle /\ diag = Idle

UpToDate(p) == published[p] = [edit |-> text[p].edit, fits |-> TRUE]

\* Debouncing, reopening and the way over the preamble thread lose no change: when
\* all is done, what was last published for an open file is about its last text,
\* read with no preamble or with one of the size of that text's own.  (One of equal
\* size and other contents stays in use.)  Excepted are files on which clang failed,
\* whose task the queue overflowed, and that were opened onto a session left over.
LastChangeDiagnosed ==
  Quiet => \A p \in Paths \ waived : text[p] /= None => UpToDate(p)

\* quit() reaches every thread, wherever it is: none sleeps for ever on its queue.
AllLeave ==
  g_quit ~> (comp.pc = "crashed" \/ \A t \in {preamble, comp, diag} : t.pc = "left")

\* No completion goes back and forth between the threads for ever, as long as
\* preambles can be built.  (If the build fails each time, it does.)
Completes == \A id \in Requests :
  id <= received ~> (replies[id] /= <<>> \/ id \in lost \/ g_quit)
============================================================================
