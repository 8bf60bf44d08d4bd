------------------------- MODULE SemaManagerProofs -------------------------
(***************************************************************************)
(* Proofs about SemaManager for any files, preambles, delays, size of the  *)
(* cache of sessions and number of edits, calls and requests: a completion *)
(* is answered once, whatever way it takes between the threads, and no     *)
(* change of an open file stays undiagnosed.                               *)
(***************************************************************************)
EXTENDS SemaManager, FiniteSetTheorems, SequenceTheorems, TLAPS

----------------------------------------------------------------------------
(* Types *)
Task == [id : Requests, path : Paths]
Tasks == Task \cup {NullTask}
PTask == [path : Paths, comp_task : Tasks, from_diag : BOOLEAN]
PTasks == PTask \cup {PreambleTask(None, NullTask, FALSE)}
DTask == [path : Paths, wait_until : Int]
DTasks == DTask \cup {[path |-> None, wait_until |-> 0]}

ClientCalls ==
  [name : {"onView", "scheduleDiag", "onSave", "onClose"}, path : Paths]
Calls == ClientCalls \cup [name : {"quitComp", "quitDiag", "quitPreamble"}, path : {None}]

Items == [path : Paths, sid : Sids]
Fit == Nat \cup {None}
IsData(d) == d = None \/ ("bounds" \in DOMAIN d /\ d.bounds \in Nat)

PreambleStates ==
  [pc : {"idle", "left"}] \cup [pc : {"session"}, task : PTask]
  \cup [pc : {"build"}, task : PTask, created : BOOLEAN, sid : Sids]
  \cup [pc : {"forward"}, task : PTask, sid : Sids, created : BOOLEAN, built : Fit]

CompStates ==
  [pc : {"idle", "left", "crashed"}] \cup [pc : {"drop"}, task : Task]
  \cup [pc : {"session"}, task : Tasks]
  \cup [pc : {"complete"}, task : Task, bounds : Fit]

\* What a diagnosis found of its session is a PreambleData, of no fixed set.
DiagStates(d) ==
  [pc : {"idle", "left"}] \cup [pc : {"sleep"}, task : DTask]
  \cup [pc : {"check"}, path : Paths, sid : Sids, preamble : {d}, current : BOOLEAN]
  \cup [pc : {"parse"}, path : Paths, bounds : Fit]
DiagData == IF "preamble" \in DOMAIN diag THEN diag.preamble ELSE None
DiagOK == IsData(DiagData) /\ diag \in DiagStates(DiagData)

ClockOK ==
  /\ now \in Nat /\ edits \in 0..MaxEdits /\ received \in 0..MaxRequests
  /\ g_quit \in BOOLEAN
DocsOK ==
  /\ text \in [Paths -> Texts \cup {None}]
  /\ timestamp \in [Paths -> Nat] /\ \A p \in Paths : timestamp[p] <= now
SessionsOK ==
  /\ sessions \in Seq(Items) /\ Len(sessions) <= MaxNum
  /\ \A j, k \in DOMAIN sessions :
       j /= k => sessions[j].path /= sessions[k].path /\ sessions[j].sid /= sessions[k].sid
DataOK ==
  /\ preambles = [s \in Sids |-> preambles[s]]
  /\ \A s \in Sids : IsData(preambles[s])
  /\ diag.pc = "check" /\ diag.current => preambles[diag.sid] = diag.preamble
QueuesOK ==
  /\ todo \in Seq(Calls) /\ preamble_tasks \in Seq(PTasks) /\ comp_tasks \in Seq(Tasks)
  /\ diag_tasks \in Seq(DTasks) /\ next_diag \in [Paths -> Int]
  /\ ~g_quit => /\ todo \in Seq(ClientCalls) /\ preamble_tasks \in Seq(PTask)
                /\ comp_tasks \in Seq(Task) /\ diag_tasks \in Seq(DTask)
ThreadsOK == preamble \in PreambleStates /\ comp \in CompStates /\ DiagOK
OutOK ==
  /\ replies \in [Requests -> Seq({"dropped", "result"})]
  /\ published = [p \in Paths |-> published[p]]

Types == ClockOK /\ DocsOK /\ SessionsOK /\ DataOK /\ QueuesOK /\ ThreadsOK /\ OutOK

----------------------------------------------------------------------------
(* The invariants *)

\* What a thread has of a completion, or 0.
CompAt == IF "task" \in DOMAIN comp THEN comp.task.id ELSE 0
PreambleAt == IF "task" \in DOMAIN preamble THEN preamble.task.comp_task.id ELSE 0
CompIds == {comp_tasks[k].id : k \in DOMAIN comp_tasks}
PreambleIds == {preamble_tasks[k].comp_task.id : k \in DOMAIN preamble_tasks}

Waiting == CompIds \cup PreambleIds \cup {CompAt, PreambleAt}

\* A completion is at one place, and once.
CompOnce ==
  \A j, k \in DOMAIN comp_tasks :
    j /= k => comp_tasks[j].id /= comp_tasks[k].id \/ comp_tasks[j].id = 0
PreambleOnce ==
  \A j, k \in DOMAIN preamble_tasks :
    j /= k => preamble_tasks[j].comp_task.id /= preamble_tasks[k].comp_task.id
              \/ preamble_tasks[j].comp_task.id = 0
Apart ==
  /\ CompIds \cap PreambleIds \subseteq {0}
  /\ CompAt \in CompIds \cup PreambleIds => CompAt = 0
  /\ PreambleAt \in CompIds \cup PreambleIds => PreambleAt = 0
  /\ CompAt = PreambleAt => CompAt = 0

Open(id) == id \in 1..received /\ replies[id] = <<>> /\ id \notin lost

\* What is at a place has no answer; while the server runs the converse holds.
WaitingOpen == \A id \in Waiting \ {0} : id \in Requests /\ Open(id)
OpenWaiting == ~g_quit => \A id \in Requests : Open(id) => id \in Waiting
Answers == \A id \in Requests :
  /\ Len(replies[id]) <= 1
  /\ id > received => replies[id] = <<>> /\ id \notin lost

OnceInv == CompOnce /\ PreambleOnce /\ Apart /\ WaitingOpen /\ OpenWaiting /\ Answers

\* The client's changes are followed by a diagnosis.
Scope == {OnChange, OnOpen, OnSave} \subseteq Nat

\* A change is refused only while a diagnosis of the file is still to start.
Coming(p) ==
  \/ \E k \in DOMAIN diag_tasks :
       diag_tasks[k].path = p /\ diag_tasks[k].wait_until >= next_diag[p]
  \/ diag.pc = "sleep" /\ diag.task.path = p /\ diag.task.wait_until >= next_diag[p]
NextDue == diag.pc /= "left" => \A p \in Paths : next_diag[p] > now => Coming(p)

\* didOpen's only call; didChange's is followed by scheduleDiag.
Opening(p) == Len(todo) = 1 /\ todo[1] = Call("onView", p)

\* The ways to a diagnosis that has not read the buffer.
InTodo(p) == \E k \in DOMAIN todo : todo[k] = Call("scheduleDiag", p)
InPreambles(p) == \E k \in DOMAIN preamble_tasks :
  preamble_tasks[k].path = p /\ preamble_tasks[k].comp_task = NullTask
AtPreamble(p) ==
  preamble.pc \in {"session", "build", "forward"}
  /\ preamble.task.path = p /\ preamble.task.comp_task = NullTask
InDiags(p) == \E k \in DOMAIN diag_tasks : diag_tasks[k].path = p
AtDiag(p) ==
  \/ diag.pc = "sleep" /\ diag.task.path = p
  \/ diag.pc = "check" /\ diag.path = p
Pending(p) ==
  InTodo(p) \/ Opening(p) \/ InPreambles(p) \/ AtPreamble(p) \/ InDiags(p) \/ AtDiag(p)

Parsed(p) == diag.pc = "parse" /\ diag.path = p

\* An open file is diagnosed, or will be; a parse with a preamble that does not fit
\* the buffer is followed by another one.
Followed(p) ==
  /\ UpToDate(p) \/ Pending(p) \/ Parsed(p)
  /\ Parsed(p) => Fits(diag.bounds, p) \/ Pending(p)
DueInv ==
  diag.pc /= "left" /\ preamble.pc /= "left" =>
    \A p \in Paths \ waived : text[p] /= None => Followed(p)

DiagnosedInv == NextDue /\ DueInv

----------------------------------------------------------------------------
(* Sequences *)
LEMMA Appended ==
  ASSUME NEW S, NEW s \in Seq(S), NEW x
  PROVE  /\ x \in S => Append(s, x) \in Seq(S)
         /\ DOMAIN Append(s, x) = DOMAIN s \cup {Len(s) + 1}
         /\ \A k \in DOMAIN s : Append(s, x)[k] = s[k]
         /\ Append(s, x)[Len(s) + 1] = x
  OBVIOUS

LEMMA AppendTyped ==
  ASSUME NEW S, NEW s \in Seq(S), NEW x \in S PROVE Append(s, x) \in Seq(S)
  OBVIOUS

LEMMA Popped ==
  ASSUME NEW S, NEW s \in Seq(S), s /= <<>>
  PROVE  /\ Head(s) = s[1] /\ Head(s) \in S /\ 1 \in DOMAIN s /\ Tail(s) \in Seq(S)
         /\ \A k \in DOMAIN Tail(s) : k + 1 \in DOMAIN s /\ Tail(s)[k] = s[k + 1] /\ k + 1 /= 1
         /\ \A k \in DOMAIN s : k = 1 \/ (k - 1 \in DOMAIN Tail(s) /\ Tail(s)[k - 1] = s[k])
  OBVIOUS

\* What dequeue(n) leaves behind the element it takes.
LEMMA Cut ==
  ASSUME NEW S, NEW s \in Seq(S), s /= <<>>, NEW g \in 0..(Len(s) - 1)
  PROVE  /\ SubSeq(s, g + 2, Len(s)) \in Seq(S)
         /\ g + 1 \in DOMAIN s /\ s[g + 1] \in S
         /\ \A k \in DOMAIN SubSeq(s, g + 2, Len(s)) :
              k + g + 1 \in DOMAIN s /\ SubSeq(s, g + 2, Len(s))[k] = s[k + g + 1]
         /\ \A k \in DOMAIN s :
              k <= g + 1 \/ (k - g - 1 \in DOMAIN SubSeq(s, g + 2, Len(s))
                             /\ SubSeq(s, g + 2, Len(s))[k - g - 1] = s[k])
<1> DEFINE t == SubSeq(s, g + 2, Len(s))
<1>1. t \in Seq(S) /\ DOMAIN t = 1..(Len(s) - g - 1) /\ Len(s) \in Nat \ {0}
      /\ \A k \in DOMAIN t : t[k] = s[k + g + 1]
  OBVIOUS
<1>2. g + 1 \in DOMAIN s /\ s[g + 1] \in S
  BY <1>1
<1> HIDE DEF t
<1>3. DOMAIN s = 1..Len(s)
  OBVIOUS
<1>4. \A k \in DOMAIN t : k + g + 1 \in DOMAIN s
  BY <1>1, <1>3
<1>5. \A k \in DOMAIN s : k <= g + 1 \/ k - g - 1 \in DOMAIN t
  BY <1>1, <1>3
<1>6. \A k \in DOMAIN s : k - g - 1 \in DOMAIN t => t[k - g - 1] = s[k]
  <2> TAKE k \in DOMAIN s
  <2> HAVE k - g - 1 \in DOMAIN t
  <2>1. t[k - g - 1] = s[(k - g - 1) + g + 1]
    BY <1>1
  <2>2. (k - g - 1) + g + 1 = k
    BY <1>3
  <2> QED
    BY <2>1, <2>2
<1> QED
  BY <1>1, <1>2, <1>4, <1>5, <1>6 DEF t

----------------------------------------------------------------------------
(* The cache of sessions *)
LEMMA ErasedFacts ==
  ASSUME SessionsOK, NEW k \in DOMAIN sessions
  PROVE  /\ Erased(k) \in Seq(Items) /\ Len(Erased(k)) = Len(sessions) - 1
         /\ \A j \in DOMAIN Erased(k) :
              Erased(k)[j] = sessions[IF j < k THEN j ELSE j + 1]
<1> DEFINE a == SubSeq(sessions, 1, k - 1)
           b == SubSeq(sessions, k + 1, Len(sessions))
<1>1. sessions \in Seq(Items) /\ k \in 1..Len(sessions) /\ Len(sessions) \in Nat
  BY DEF SessionsOK
<1>2. a \in Seq(Items) /\ Len(a) = k - 1 /\ \A j \in 1..(k - 1) : a[j] = sessions[j]
  BY <1>1
<1>3. b \in Seq(Items) /\ Len(b) = Len(sessions) - k
      /\ \A j \in 1..(Len(sessions) - k) : b[j] = sessions[k + j]
  BY <1>1
<1> HIDE DEF a, b
<1>4. /\ a \o b \in Seq(Items) /\ Len(a \o b) = Len(sessions) - 1
      /\ \A j \in 1..(Len(sessions) - 1) :
           (a \o b)[j] = IF j <= k - 1 THEN a[j] ELSE b[j - (k - 1)]
  <2>1. /\ a \o b \in Seq(Items) /\ Len(a \o b) = Len(a) + Len(b)
        /\ \A j \in 1..(Len(a) + Len(b)) :
             (a \o b)[j] = IF j <= Len(a) THEN a[j] ELSE b[j - Len(a)]
    BY <1>2, <1>3, ConcatProperties
  <2>2. Len(a) + Len(b) = Len(sessions) - 1 /\ Len(a) = k - 1
    BY <1>1, <1>2, <1>3
  <2> QED
    BY <2>1, <2>2
<1>5. \A j \in 1..(Len(sessions) - 1) : (a \o b)[j] = sessions[IF j < k THEN j ELSE j + 1]
  <2> TAKE j \in 1..(Len(sessions) - 1)
  <2>1. CASE j < k
    <3>1. j \in 1..(k - 1) /\ j <= k - 1
      BY <1>1, <2>1
    <3> QED
      BY <1>2, <1>4, <2>1, <3>1
  <2>2. CASE ~(j < k)
    <3>1. j - (k - 1) \in 1..(Len(sessions) - k) /\ ~(j <= k - 1) /\ k + (j - (k - 1)) = j + 1
      BY <1>1, <2>2
    <3>2. (a \o b)[j] = b[j - (k - 1)]
      BY <1>4, <3>1
    <3>3. b[j - (k - 1)] = sessions[j + 1]
      BY <1>3, <3>1
    <3> QED
      BY <2>2, <3>2, <3>3
  <2> QED
    BY <2>1, <2>2
<1>6. DOMAIN (a \o b) = 1..(Len(sessions) - 1)
  BY <1>4
<1> QED
  BY <1>4, <1>5, <1>6 DEF Erased, a, b

\* The positions of the cache without k, in their order.
Rest(k, j) == IF j < k THEN j ELSE j + 1

LEMMA ErasedOK ==
  ASSUME SessionsOK, NEW k \in DOMAIN sessions, sessions' = Erased(k)
  PROVE  /\ SessionsOK'
         /\ \A j \in DOMAIN sessions' : \E i \in DOMAIN sessions : sessions'[j] = sessions[i]
<1>1. /\ sessions' \in Seq(Items) /\ Len(sessions') = Len(sessions) - 1
      /\ \A j \in DOMAIN sessions' : sessions'[j] = sessions[Rest(k, j)]
  BY ErasedFacts DEF Rest
<1>2. k \in 1..Len(sessions) /\ Len(sessions) \in Nat /\ DOMAIN sessions = 1..Len(sessions)
      /\ DOMAIN sessions' = 1..(Len(sessions) - 1) /\ Len(sessions) <= MaxNum
  BY <1>1 DEF SessionsOK
<1>3. \A j \in DOMAIN sessions' : Rest(k, j) \in DOMAIN sessions
  BY <1>2 DEF Rest
<1>4. \A i, j \in DOMAIN sessions' : i /= j => Rest(k, i) /= Rest(k, j)
  BY <1>2 DEF Rest
<1>5. \A i, j \in DOMAIN sessions' : i /= j =>
        sessions'[i].path /= sessions'[j].path /\ sessions'[i].sid /= sessions'[j].sid
  BY <1>1, <1>3, <1>4 DEF SessionsOK
<1>6. Len(sessions') <= MaxNum
  BY <1>1, <1>2, SemaAssumption
<1> QED
  BY <1>1, <1>3, <1>5, <1>6 DEF SessionsOK

LEMMA WithoutOK ==
  ASSUME SessionsOK, NEW p, sessions' = Without(p)
  PROVE  /\ SessionsOK'
         /\ \A j \in DOMAIN sessions' : \E i \in DOMAIN sessions : sessions'[j] = sessions[i]
<1>1. CASE Cached(p) = {}
  <2>1. sessions' = sessions
    BY <1>1 DEF Without
  <2> QED
    BY <2>1 DEF SessionsOK
<1>2. CASE Cached(p) /= {}
  <2>1. PICK k \in Cached(p) : k = CHOOSE x \in Cached(p) : TRUE
    BY <1>2
  <2>2. k \in DOMAIN sessions /\ sessions' = Erased(k)
    BY <1>2, <2>1 DEF Without, Cached
  <2> QED
    BY <2>2, ErasedOK
<1> QED
  BY <1>1, <1>2

\* Putting a new item in front.
LEMMA PrependOK ==
  ASSUME NEW s \in Seq(Items), NEW x \in Items, Len(s) < MaxNum, sessions' = <<x>> \o s,
         \A j, k \in DOMAIN s : j /= k => s[j].path /= s[k].path /\ s[j].sid /= s[k].sid,
         \A k \in DOMAIN s : s[k].path /= x.path /\ s[k].sid /= x.sid
  PROVE  /\ SessionsOK' /\ sessions'[1] = x
         /\ \A j \in DOMAIN sessions' : j = 1 \/ \E i \in DOMAIN s : sessions'[j] = s[i]
<1>1. /\ sessions' \in Seq(Items) /\ Len(sessions') = Len(s) + 1 /\ sessions'[1] = x
      /\ \A j \in 1..(Len(s) + 1) : j = 1 \/ sessions'[j] = s[j - 1]
      /\ Len(s) \in Nat /\ DOMAIN s = 1..Len(s) /\ DOMAIN sessions' = 1..(Len(s) + 1)
  OBVIOUS
<1>2. \A j \in DOMAIN sessions' : j = 1 \/ (j - 1 \in DOMAIN s /\ sessions'[j] = s[j - 1])
  BY <1>1
<1>3. \A j, k \in DOMAIN sessions' : j /= k => j - 1 /= k - 1
  BY <1>1
<1>4. \A j, k \in DOMAIN sessions' : j /= k =>
        sessions'[j].path /= sessions'[k].path /\ sessions'[j].sid /= sessions'[k].sid
  BY <1>1, <1>2, <1>3
<1>5. Len(sessions') <= MaxNum
  BY <1>1, SemaAssumption
<1> QED
  BY <1>1, <1>2, <1>4, <1>5 DEF SessionsOK

LEMMA TouchedOK ==
  ASSUME SessionsOK, NEW k \in DOMAIN sessions, sessions' = Touched(k)
  PROVE  /\ SessionsOK' /\ sessions'[1] = sessions[k]
         /\ \A j \in DOMAIN sessions' : \E i \in DOMAIN sessions : sessions'[j] = sessions[i]
<1> DEFINE s == Erased(k)
<1>1. /\ s \in Seq(Items) /\ Len(s) = Len(sessions) - 1
      /\ \A j \in DOMAIN s : s[j] = sessions[Rest(k, j)]
  BY ErasedFacts DEF Rest
<1>2. k \in 1..Len(sessions) /\ Len(sessions) \in Nat /\ DOMAIN sessions = 1..Len(sessions)
      /\ Len(sessions) <= MaxNum /\ sessions[k] \in Items
  BY <1>1 DEF SessionsOK
<1> HIDE DEF s
<1>3. DOMAIN s = 1..(Len(sessions) - 1)
  BY <1>1
<1>4. \A j \in DOMAIN s : Rest(k, j) \in DOMAIN sessions /\ Rest(k, j) /= k
  BY <1>2, <1>3 DEF Rest
<1>5. \A i, j \in DOMAIN s : i /= j => Rest(k, i) /= Rest(k, j)
  BY <1>2, <1>3 DEF Rest
<1>6. \A i, j \in DOMAIN s : i /= j => s[i].path /= s[j].path /\ s[i].sid /= s[j].sid
  BY <1>1, <1>4, <1>5 DEF SessionsOK
<1>7. \A j \in DOMAIN s : s[j].path /= sessions[k].path /\ s[j].sid /= sessions[k].sid
  BY <1>1, <1>4 DEF SessionsOK
<1>8. Len(s) < MaxNum
  BY <1>1, <1>2, SemaAssumption
<1>9. sessions' = <<sessions[k]>> \o s
  BY DEF Touched, s
<1>10. /\ SessionsOK' /\ sessions'[1] = sessions[k]
       /\ \A j \in DOMAIN sessions' : j = 1 \/ \E i \in DOMAIN s : sessions'[j] = s[i]
  BY <1>1, <1>2, <1>6, <1>7, <1>8, <1>9, PrependOK
<1> QED
  BY <1>1, <1>2, <1>4, <1>10

\* There are more sids than can be in use when a session is made.
LEMMA FreeExists == ASSUME SessionsOK PROVE Free /= {}
<1> SUFFICES ASSUME Free = {} PROVE FALSE
  OBVIOUS
<1> DEFINE Has(x) == {k \in DOMAIN sessions : sessions[k].sid = x}
           f == [x \in Sids |-> IF Has(x) /= {} THEN CHOOSE k \in Has(x) : TRUE
                                ELSE IF "sid" \in DOMAIN preamble /\ preamble.sid = x
                                     THEN MaxNum + 1 ELSE MaxNum + 2]
<1>1. MaxNum \in Nat /\ DOMAIN sessions = 1..Len(sessions) /\ Len(sessions) \in Nat
      /\ Len(sessions) <= MaxNum
  BY SemaAssumption DEF SessionsOK
<1>2. \A x \in Sids : Has(x) /= {} => (CHOOSE k \in Has(x) : TRUE) \in Has(x)
  OBVIOUS
<1>3. f \in [Sids -> 1..(MaxNum + 2)]
  <2>1. \A x \in Sids : f[x] \in 1..(MaxNum + 2)
    <3> TAKE x \in Sids
    <3>1. CASE Has(x) /= {}
      <4>1. f[x] \in DOMAIN sessions
        BY <1>2, <3>1
      <4> HIDE DEF f
      <4> QED
        BY <4>1, <1>1
    <3>2. CASE Has(x) = {}
      <4>1. f[x] \in {MaxNum + 1, MaxNum + 2}
        BY <3>2
      <4> HIDE DEF f
      <4> QED
        BY <4>1, <1>1
    <3> QED
      BY <3>1, <3>2
  <2> QED
    BY <2>1
<1>4. /\ IsFiniteSet(Sids) /\ Cardinality(Sids) = MaxNum + 3
      /\ IsFiniteSet(1..(MaxNum + 2)) /\ Cardinality(1..(MaxNum + 2)) = MaxNum + 2
  <2>1. \A n \in Nat : IsFiniteSet(1..n) /\ Cardinality(1..n) = n
    <3> TAKE n \in Nat
    <3>1. IsFiniteSet(1..n) /\ Cardinality(1..n) = IF 1 > n THEN 0 ELSE n - 1 + 1
      BY FS_Interval
    <3> QED
      BY <3>1
  <2>2. MaxNum + 3 \in Nat /\ MaxNum + 2 \in Nat
    BY <1>1
  <2> QED
    BY <2>1, <2>2 DEF Sids
<1>5. Cardinality(1..(MaxNum + 2)) < Cardinality(Sids)
  BY <1>4, <1>1
<1> HIDE DEF f
<1>6. PICK x, y \in Sids : x /= y /\ f[x] = f[y]
  BY <1>3, <1>4, <1>5, FS_PigeonHole
<1> USE DEF f
<1>7. \A z \in Sids : Has(z) /= {} \/ ("sid" \in DOMAIN preamble /\ preamble.sid = z)
                     \/ ("sid" \in DOMAIN diag /\ diag.sid = z)
  BY DEF Free, Held
<1>8. \A z \in Sids : Has(z) /= {} => f[z] \in DOMAIN sessions /\ sessions[f[z]].sid = z
  BY <1>2
<1>9. \A z \in Sids : Has(z) = {} =>
        f[z] = IF "sid" \in DOMAIN preamble /\ preamble.sid = z THEN MaxNum + 1 ELSE MaxNum + 2
  OBVIOUS
<1> HIDE DEF f
<1>10. MaxNum + 1 /= MaxNum + 2 /\ \A z \in Sids : Has(z) /= {} => f[z] \notin {MaxNum + 1, MaxNum + 2}
  BY <1>1, <1>8
<1>11. CASE Has(x) /= {}
  <2>1. Has(y) /= {}
    BY <1>6, <1>9, <1>10, <1>11
  <2> HIDE DEF Has
  <2> QED
    BY <1>6, <1>8, <1>11, <2>1
<1>12. CASE Has(x) = {}
  <2>1. Has(y) = {}
    BY <1>6, <1>9, <1>10, <1>12
  <2> HIDE DEF Has
  <2> QED
    BY <1>6, <1>7, <1>9, <1>10, <1>12, <2>1
<1> QED
  BY <1>11, <1>12

\* ensureSession leaves the session of p in front, and takes no sid that a thread has.
LEMMA EnsureOK ==
  ASSUME SessionsOK, DataOK, NEW p \in Paths, ensureSession(p)
  PROVE  /\ SessionsOK' /\ sessions'[1] \in Items /\ 1 \in DOMAIN sessions'
         /\ \A j \in DOMAIN sessions' :
              sessions'[j].path = p \/ \E i \in DOMAIN sessions : sessions'[j] = sessions[i]
         /\ preambles' = [s \in Sids |-> preambles'[s]]
         /\ \A s \in Sids : IsData(preambles'[s])
         /\ \A s \in Held \cap Sids : preambles'[s] = preambles[s]
<1>1. CASE Cached(p) /= {}
  <2>1. PICK k \in Cached(p) : k = CHOOSE x \in Cached(p) : TRUE
    BY <1>1
  <2>2. k \in DOMAIN sessions /\ sessions' = Touched(k) /\ preambles' = preambles
    BY <1>1, <2>1 DEF ensureSession, Cached
  <2>3. /\ SessionsOK' /\ sessions'[1] = sessions[k]
        /\ \A j \in DOMAIN sessions' : \E i \in DOMAIN sessions : sessions'[j] = sessions[i]
    BY <2>2, TouchedOK
  <2>4. sessions[k] \in Items /\ 1 \in DOMAIN sessions'
    BY <2>2, ErasedFacts DEF SessionsOK, Touched
  <2> QED
    BY <2>2, <2>3, <2>4 DEF DataOK
<1>2. CASE Cached(p) = {}
  <2> DEFINE new == CHOOSE x \in Free : TRUE
             kept == IF Len(sessions) >= MaxNum THEN SubSeq(sessions, 1, Len(sessions) - 1)
                     ELSE sessions
             item == [path |-> p, sid |-> new]
  <2>1. /\ sessions' = <<item>> \o kept
        /\ preambles' = [x \in Sids |-> IF x \in Free THEN None ELSE preambles[x]]
    BY <1>2 DEF ensureSession
  <2>2. new \in Free
    BY FreeExists
  <2>3. new \in Sids /\ item \in Items
    BY <2>2 DEF Free, Items
  <2>4. /\ kept \in Seq(Items) /\ Len(kept) < MaxNum /\ Len(kept) <= Len(sessions)
        /\ \A j \in DOMAIN kept : j \in DOMAIN sessions /\ kept[j] = sessions[j]
    <3>1. sessions \in Seq(Items) /\ Len(sessions) \in Nat /\ MaxNum \in Nat \ {0}
          /\ Len(sessions) <= MaxNum
      BY SemaAssumption DEF SessionsOK
    <3>2. CASE Len(sessions) >= MaxNum
      <4>1. kept = SubSeq(sessions, 1, Len(sessions) - 1)
        BY <3>2
      <4> HIDE DEF kept
      <4> QED
        BY <3>1, <3>2, <4>1
    <3>3. CASE ~(Len(sessions) >= MaxNum)
      BY <3>1, <3>3
    <3> QED
      BY <3>2, <3>3
  <2>5. \A k \in DOMAIN kept : kept[k].path /= p /\ kept[k].sid /= new
    BY <1>2, <2>2, <2>4 DEF Cached, Free
  <2>6. \A j, k \in DOMAIN kept :
          j /= k => kept[j].path /= kept[k].path /\ kept[j].sid /= kept[k].sid
    BY <2>4 DEF SessionsOK
  <2>7. item.path = p /\ item.sid = new
    OBVIOUS
  <2> HIDE DEF kept, new, item
  <2>8. /\ SessionsOK' /\ sessions'[1] = item
        /\ \A j \in DOMAIN sessions' : j = 1 \/ \E i \in DOMAIN kept : sessions'[j] = kept[i]
    BY <2>1, <2>3, <2>4, <2>5, <2>6, <2>7, PrependOK
  <2>9. 1 \in DOMAIN sessions'
    BY <2>1, <2>3, <2>4
  <2>10. \A j \in DOMAIN sessions' :
           sessions'[j].path = p \/ \E i \in DOMAIN sessions : sessions'[j] = sessions[i]
    BY <2>4, <2>7, <2>8
  <2>11. \A s \in Held \cap Sids : s \notin Free
    BY DEF Free
  <2>12. \A s \in Sids : IsData(preambles'[s])
    BY <2>1 DEF DataOK, IsData
  <2>13. \A s \in Held \cap Sids : preambles'[s] = preambles[s]
    BY <2>1, <2>11
  <2>14. preambles' = [s \in Sids |-> preambles'[s]]
    BY <2>1
  <2> QED
    BY <2>3, <2>8, <2>9, <2>10, <2>12, <2>13, <2>14
<1> QED
  BY <1>1, <1>2

----------------------------------------------------------------------------
(* What the position of a thread says of its record *)
LEMMA PreambleShape ==
  ASSUME preamble \in PreambleStates
  PROVE  /\ preamble.pc \in {"idle", "session", "build", "forward", "left"}
         /\ "task" \in DOMAIN preamble <=> preamble.pc \in {"session", "build", "forward"}
         /\ "sid" \in DOMAIN preamble <=> preamble.pc \in {"build", "forward"}
         /\ preamble.pc \in {"session", "build", "forward"} => preamble.task \in PTask
         /\ preamble.pc \in {"build", "forward"} =>
              preamble.sid \in Sids /\ preamble.created \in BOOLEAN
         /\ preamble.pc = "forward" => preamble.built \in Fit
  BY DEF PreambleStates

LEMMA CompShape ==
  ASSUME comp \in CompStates
  PROVE  /\ comp.pc \in {"idle", "drop", "session", "complete", "left", "crashed"}
         /\ "task" \in DOMAIN comp <=> comp.pc \in {"drop", "session", "complete"}
         /\ comp.pc \in {"drop", "complete"} => comp.task \in Task
         /\ comp.pc = "session" => comp.task \in Tasks
         /\ comp.pc = "complete" => comp.bounds \in Fit
         /\ comp.pc = "drop" => [comp EXCEPT !.pc = "session"] = [pc |-> "session", task |-> comp.task]
  BY DEF CompStates, Tasks

LEMMA DiagShape ==
  ASSUME NEW d, diag \in DiagStates(d)
  PROVE  /\ diag.pc \in {"idle", "sleep", "check", "parse", "left"}
         /\ "task" \in DOMAIN diag <=> diag.pc = "sleep"
         /\ "sid" \in DOMAIN diag <=> diag.pc = "check"
         /\ "preamble" \in DOMAIN diag <=> diag.pc = "check"
         /\ "path" \in DOMAIN diag <=> diag.pc \in {"check", "parse"}
         /\ diag.pc = "sleep" => diag.task \in DTask
         /\ diag.pc \in {"check", "parse"} => diag.path \in Paths
         /\ diag.pc = "check" => /\ diag.sid \in Sids /\ diag.preamble = d
                                 /\ diag.current \in BOOLEAN
         /\ diag.pc = "parse" => diag.bounds \in Fit
  BY DEF DiagStates

LEMMA TaskIds ==
  /\ \A t \in Task : t.id \in Requests /\ t.id /= 0 /\ t.path \in Paths /\ t /= NullTask
  /\ \A t \in Tasks : t = NullTask \/ t \in Task
  /\ NullTask.id = 0 /\ NullTask.path = None
<1>1. MaxRequests \in Nat /\ None \notin Paths
  BY SemaAssumption
<1> QED
  BY <1>1 DEF Task, Tasks, NullTask, Requests

LEMMA InitTypes == Init => Types
<1> SUFFICES ASSUME Init PROVE Types
  OBVIOUS
<1> USE DEF Init
<1>1. MaxEdits \in Nat /\ MaxRequests \in Nat /\ MaxNum \in Nat
  BY SemaAssumption
<1>2. ClockOK
  <2>1. now = 1 /\ edits = 0 /\ received = 0 /\ g_quit = FALSE
    OBVIOUS
  <2>2. g_quit \in BOOLEAN
    BY <2>1
  <2>3. now \in Nat /\ edits \in 0..MaxEdits /\ received \in 0..MaxRequests
    BY <1>1, <2>1
  <2> QED
    BY <2>2, <2>3 DEF ClockOK
<1>3. DocsOK
  BY DEF DocsOK
<1>4. SessionsOK
  BY <1>1 DEF SessionsOK
<1>5. DataOK
  BY DEF DataOK, IsData, Idle
<1>6. QueuesOK
  BY DEF QueuesOK
<1>7. ThreadsOK
  BY DEF ThreadsOK, PreambleStates, CompStates, DiagStates, DiagOK, DiagData, IsData, Idle
<1>8. OutOK
  BY DEF OutOK
<1> QED
  BY <1>2, <1>3, <1>4, <1>5, <1>6, <1>7, <1>8 DEF Types

----------------------------------------------------------------------------
(* The types are kept: the client and the main thread *)
LEMMA NewTextTypes ==
  ASSUME Types, NEW p \in Paths, NewText(p)
  PROVE  text' \in [Paths -> Texts \cup {None}] /\ edits' \in 0..MaxEdits
<1>1. /\ MaxEdits \in Nat /\ edits \in 0..MaxEdits /\ edits' = edits + 1 /\ edits < MaxEdits
      /\ Bounds[p] \subseteq Nat /\ text \in [Paths -> Texts \cup {None}]
  BY SemaAssumption DEF Types, ClockOK, DocsOK, NewText
<1>2. PICK b \in Bounds[p] : text' = [text EXCEPT ![p] = [edit |-> edits', bounds |-> b]]
  BY DEF NewText
<1>3. edits' \in 1..MaxEdits
  BY <1>1
<1>4. [edit |-> edits', bounds |-> b] \in Texts
  BY <1>1, <1>3 DEF Texts
<1> QED
  BY <1>1, <1>2, <1>3, <1>4

\* What the client's calls leave alone.
Threads == <<preamble, comp, diag>>

LEMMA ThreadsStay ==
  ASSUME Types, UNCHANGED <<preambles, Threads>> PROVE ThreadsOK' /\ DataOK'
  BY DEF Types, ThreadsOK, DataOK, Threads, DiagOK, DiagData

LEMMA EditTypes ==
  ASSUME Types, NEW p \in Paths, textDocument_didOpen(p) \/ textDocument_didChange(p)
  PROVE  Types'
<1> USE DEF Types
<1>1. /\ UNCHANGED <<now, received, g_quit, sessions, preambles, next_diag, diag_tasks,
                     preamble_tasks, comp_tasks, Threads, replies, published>>
      /\ ~g_quit /\ todo = <<>>
      /\ NewText(p)
  BY DEF textDocument_didOpen, textDocument_didChange, Threads, Listening, sessionVars, diagVars
<1>2. ClockOK'
  BY <1>1, NewTextTypes DEF ClockOK
<1>3. DocsOK'
  <2>1. \E t \in {0, now} : timestamp' = [timestamp EXCEPT ![p] = t]
    BY DEF textDocument_didOpen, textDocument_didChange
  <2>2. timestamp' \in [Paths -> Nat] /\ \A q \in Paths : timestamp'[q] <= now
    BY <2>1 DEF DocsOK, ClockOK
  <2> QED
    BY <1>1, <2>2, NewTextTypes DEF DocsOK
<1>4. SessionsOK'
  BY <1>1 DEF SessionsOK
<1>5. DataOK' /\ ThreadsOK'
  BY <1>1, ThreadsStay
<1>6. QueuesOK'
  <2>1. todo' \in Seq(ClientCalls) /\ todo' \in Seq(Calls)
    <3>1. \A name \in {"onView", "scheduleDiag"} : Call(name, p) \in ClientCalls
      BY DEF Call, ClientCalls
    <3>2. Call("onView", p) \in ClientCalls /\ Call("scheduleDiag", p) \in ClientCalls
      BY <3>1
    <3>3. todo' = <<Call("onView", p)>> \/ todo' = <<Call("onView", p)>> \o <<Call("scheduleDiag", p)>>
          \/ todo' = <<Call("onView", p)>> \o <<>>
      BY DEF textDocument_didOpen, textDocument_didChange
    <3>4. todo' \in Seq(ClientCalls)
      <4> DEFINE a == Call("onView", p)
                 b == Call("scheduleDiag", p)
      <4>1. a \in ClientCalls /\ b \in ClientCalls
        BY <3>2
      <4>2. todo' = <<a>> \/ todo' = <<a>> \o <<b>> \/ todo' = <<a>> \o <<>>
        BY <3>3
      <4> HIDE DEF a, b
      <4>3. <<a>> \in Seq(ClientCalls) /\ <<b>> \in Seq(ClientCalls) /\ <<>> \in Seq(ClientCalls)
        BY <4>1
      <4>4. <<a>> \o <<b>> \in Seq(ClientCalls)
        BY <4>1
      <4>5. <<a>> \o <<>> \in Seq(ClientCalls)
        BY <4>3
      <4> QED
        BY <4>2, <4>3, <4>4, <4>5
    <3> QED
      BY <3>4 DEF Calls
  <2> QED
    BY <1>1, <2>1 DEF QueuesOK
<1>7. OutOK'
  BY <1>1 DEF OutOK
<1> QED
  BY <1>2, <1>3, <1>4, <1>5, <1>6, <1>7

LEMMA CallTypes ==
  ASSUME Types, NEW p \in Paths,
         textDocument_didSave(p) \/ textDocument_didClose(p)
         \/ workspace_didChangeWatchedFiles(p)
  PROVE  Types'
<1> USE DEF Types
<1>1. /\ UNCHANGED <<now, edits, received, g_quit, sessions, preambles, next_diag, diag_tasks,
                     preamble_tasks, comp_tasks, Threads, replies, published, timestamp>>
      /\ text' = text \/ text' = [text EXCEPT ![p] = None]
  BY DEF textDocument_didSave, textDocument_didClose, workspace_didChangeWatchedFiles,
         Threads, sessionVars, diagVars, docVars, outVars
<1>2. ClockOK' /\ SessionsOK' /\ OutOK'
  BY <1>1 DEF ClockOK, SessionsOK, OutOK
<1>3. DocsOK'
  BY <1>1 DEF DocsOK
<1>5. DataOK' /\ ThreadsOK'
  BY <1>1, ThreadsStay
<1>6. QueuesOK'
  <2>1. \E name \in {"onSave", "onClose"} : todo' = <<Call(name, p)>>
    BY DEF textDocument_didSave, textDocument_didClose, workspace_didChangeWatchedFiles
  <2>2. \A name \in {"onSave", "onClose"} : Call(name, p) \in ClientCalls
    BY DEF Call, ClientCalls
  <2>3. todo' \in Seq(ClientCalls)
    BY <2>1, <2>2
  <2>4. todo' \in Seq(Calls)
    BY <2>3 DEF Calls
  <2> QED
    BY <1>1, <2>3, <2>4 DEF QueuesOK
<1> QED
  BY <1>2, <1>3, <1>5, <1>6

LEMMA RequestTypes ==
  ASSUME Types, NEW p \in Paths, textDocument_completion(p) PROVE Types'
<1> USE DEF Types, textDocument_completion
<1>1. /\ UNCHANGED <<now, edits, g_quit, sessions, preambles, next_diag, diag_tasks,
                     preamble_tasks, todo, Threads, replies, published, text, timestamp>>
      /\ ~g_quit /\ received < MaxRequests /\ received' = received + 1
      /\ comp_tasks' = Append(comp_tasks, [id |-> received', path |-> p])
  BY DEF Threads, Listening, sessionVars, diagVars, docVars, outVars
<1>2. SessionsOK' /\ OutOK' /\ DocsOK'
  BY <1>1 DEF SessionsOK, OutOK, DocsOK
<1>3. received' \in 1..MaxRequests
  BY <1>1, SemaAssumption DEF ClockOK
<1>4. ClockOK'
  BY <1>1, <1>3 DEF ClockOK
<1>5. DataOK' /\ ThreadsOK'
  BY <1>1, ThreadsStay
<1>6. QueuesOK'
  <2>1. [id |-> received', path |-> p] \in Task /\ [id |-> received', path |-> p] \in Tasks
    BY <1>3 DEF Task, Tasks, Requests
  <2>2. comp_tasks' \in Seq(Task) /\ comp_tasks' \in Seq(Tasks)
    BY <1>1, <2>1, Appended DEF QueuesOK
  <2> QED
    BY <1>1, <2>2 DEF QueuesOK
<1> QED
  BY <1>2, <1>4, <1>5, <1>6

LEMMA ClearTypes == ASSUME Types, clear PROVE Types'
<1> USE DEF Types, clear
<1>1. /\ UNCHANGED <<now, edits, received, g_quit, preambles, next_diag, diag_tasks, comp_tasks,
                     preamble_tasks, todo, Threads, replies, published, text, timestamp>>
      /\ sessions' = <<>>
  BY DEF Threads, diagVars, docVars, outVars
<1>2. ClockOK' /\ OutOK' /\ DocsOK' /\ QueuesOK'
  BY <1>1 DEF ClockOK, OutOK, DocsOK, QueuesOK
<1>3. SessionsOK'
  BY <1>1, SemaAssumption DEF SessionsOK
<1>5. DataOK' /\ ThreadsOK'
  BY <1>1, ThreadsStay
<1> QED
  BY <1>2, <1>3, <1>5

LEMMA ExitTypes == ASSUME Types, exit PROVE Types'
<1> USE DEF Types, exit
<1>1. /\ UNCHANGED <<now, edits, received, sessions, preambles, next_diag, diag_tasks,
                     comp_tasks, preamble_tasks, Threads, replies, published, text, timestamp>>
      /\ g_quit' = TRUE
      /\ todo' = <<Call("quitComp", None), Call("quitDiag", None), Call("quitPreamble", None)>>
  BY DEF Threads, sessionVars, diagVars, docVars, outVars
<1>2. ClockOK' /\ OutOK' /\ DocsOK' /\ SessionsOK'
  BY <1>1 DEF ClockOK, OutOK, DocsOK, SessionsOK
<1>3. todo' \in Seq(Calls)
  <2>1. /\ Call("quitComp", None) \in Calls /\ Call("quitDiag", None) \in Calls
        /\ Call("quitPreamble", None) \in Calls
    BY DEF Call, Calls
  <2> QED
    BY <1>1, <2>1
<1>4. QueuesOK'
  BY <1>1, <1>3 DEF QueuesOK
<1>5. DataOK' /\ ThreadsOK'
  BY <1>1, ThreadsStay
<1> QED
  BY <1>2, <1>4, <1>5

LEMMA ScheduleTypes ==
  ASSUME QueuesOK, ClockOK, NEW p \in Paths, NEW debounce \in Int, scheduleDiag(p, debounce)
  PROVE  /\ next_diag' \in [Paths -> Int] /\ diag_tasks' \in Seq(DTasks)
         /\ ~g_quit => diag_tasks' \in Seq(DTask)
<1> DEFINE task == [path |-> p, wait_until |-> now + debounce]
<1>1. now + debounce \in Int
  BY DEF ClockOK
<1>2. task \in DTask /\ task \in DTasks
  BY <1>1 DEF DTask, DTasks
<1>3. CASE next_diag[p] <= now
  <2>1. /\ next_diag' = [next_diag EXCEPT ![p] = now + debounce]
        /\ diag_tasks' = Append(diag_tasks, task)
    BY <1>3 DEF scheduleDiag
  <2> HIDE DEF task
  <2>2. next_diag' \in [Paths -> Int]
    BY <1>1, <2>1 DEF QueuesOK
  <2>3. diag_tasks' \in Seq(DTasks) /\ (~g_quit => diag_tasks' \in Seq(DTask))
    BY <1>2, <2>1, Appended DEF QueuesOK
  <2> QED
    BY <2>2, <2>3
<1>4. CASE ~(next_diag[p] <= now)
  BY <1>4 DEF scheduleDiag, diagVars, QueuesOK
<1> QED
  BY <1>3, <1>4

\* A task for the preamble thread that no completion waits for.
LEMMA NullPreambleTypes ==
  ASSUME NEW p, NEW b \in BOOLEAN
  PROVE  /\ p \in Paths => PreambleTask(p, NullTask, b) \in PTask
         /\ p \in Paths \/ (p = None /\ b = FALSE) => PreambleTask(p, NullTask, b) \in PTasks
<1>1. NullTask \in Tasks
  BY DEF Tasks
<1>2. p \in Paths => PreambleTask(p, NullTask, b) \in PTask
  BY <1>1 DEF PreambleTask, PTask
<1> QED
  BY <1>2 DEF PTasks

LEMMA OnIntegers == OnChange \in Int /\ OnOpen \in Int /\ OnSave \in Int
<1>1. {OnChange, OnOpen, OnSave} \subseteq Int
  BY SemaAssumption
<1> QED
  BY <1>1

LEMMA MainCallTypes == ASSUME Types, MainCall PROVE Types'
<1> USE DEF Types
<1> DEFINE call == Head(todo)
           p == call.path
<1>1. /\ UNCHANGED <<now, edits, received, g_quit, preambles, Threads, replies, published,
                     text, timestamp>>
      /\ todo /= <<>> /\ todo' = Tail(todo)
  BY DEF MainCall, Threads, docVars, outVars
<1>2. ClockOK' /\ OutOK' /\ DocsOK'
  BY <1>1 DEF ClockOK, OutOK, DocsOK
<1>3. DataOK' /\ ThreadsOK'
  BY <1>1, ThreadsStay
<1>4. /\ call \in Calls /\ todo' \in Seq(Calls)
      /\ ~g_quit => call \in ClientCalls /\ todo' \in Seq(ClientCalls)
  BY <1>1, Popped DEF QueuesOK
<1>5. /\ call.name \in {"onView", "scheduleDiag", "onSave", "onClose"} => p \in Paths
      /\ ~g_quit => call.name \in {"onView", "scheduleDiag", "onSave", "onClose"}
      /\ p \in Paths \cup {None}
  BY <1>4 DEF Calls, ClientCalls
<1>6. \/ call.name = "onView" /\ onView(p)
      \/ /\ call.name = "scheduleDiag" /\ scheduleDiag(p, OnChange)
         /\ UNCHANGED <<sessions, preamble_tasks, comp_tasks>>
      \/ /\ call.name \in {"onSave", "quitPreamble"}
         /\ preamble_tasks' = Append(preamble_tasks, PreambleTask(p, NullTask, FALSE))
         /\ UNCHANGED <<sessions, diagVars, comp_tasks>>
      \/ /\ call.name = "onClose" /\ sessions' = Without(p)
         /\ UNCHANGED <<diagVars, preamble_tasks, comp_tasks>>
      \/ /\ call.name = "quitComp" /\ comp_tasks' = Append(comp_tasks, NullTask)
         /\ UNCHANGED <<sessions, diagVars, preamble_tasks>>
      \/ /\ call.name = "quitDiag"
         /\ diag_tasks' = Append(diag_tasks, [path |-> None, wait_until |-> 0])
         /\ UNCHANGED <<sessions, next_diag, preamble_tasks, comp_tasks>>
  BY DEF MainCall
<1> HIDE DEF call, p
<1>7. SessionsOK'
  <2>1. CASE sessions' = sessions
    BY <2>1 DEF SessionsOK
  <2>2. CASE sessions' = Without(p)
    BY <2>2, WithoutOK
  <2>3. CASE Cached(p) /= {} /\ sessions' = Touched(CHOOSE k \in Cached(p) : TRUE)
    <3>1. PICK k \in Cached(p) : k = CHOOSE x \in Cached(p) : TRUE
      BY <2>3
    <3>2. k \in DOMAIN sessions
      BY <3>1 DEF Cached
    <3> QED
      BY <2>3, <3>1, <3>2, TouchedOK
  <2> QED
    BY <1>6, <2>1, <2>2, <2>3 DEF onView
<1>8. /\ preamble_tasks' \in Seq(PTasks)
      /\ ~g_quit => preamble_tasks' \in Seq(PTask)
  <2>1. CASE preamble_tasks' = preamble_tasks
    BY <2>1 DEF QueuesOK
  <2>2. CASE preamble_tasks' = Append(preamble_tasks, PreambleTask(p, NullTask, FALSE))
    <3>1. PreambleTask(p, NullTask, FALSE) \in PTasks
      BY <1>5, NullPreambleTypes
    <3>2. ~g_quit => PreambleTask(p, NullTask, FALSE) \in PTask
      BY <1>5, NullPreambleTypes
    <3> QED
      BY <2>2, <3>1, <3>2, Appended DEF QueuesOK
  <2> QED
    BY <1>6, <2>1, <2>2 DEF onView
<1>9. comp_tasks' \in Seq(Tasks) /\ (~g_quit => comp_tasks' \in Seq(Task))
  <2>1. CASE comp_tasks' = comp_tasks
    BY <2>1 DEF QueuesOK
  <2>2. CASE g_quit /\ comp_tasks' = Append(comp_tasks, NullTask)
    <3>1. NullTask \in Tasks
      BY DEF Tasks
    <3> QED
      BY <2>2, <3>1, Appended DEF QueuesOK
  <2> QED
    BY <1>5, <1>6, <2>1, <2>2 DEF onView
<1>10. /\ diag_tasks' \in Seq(DTasks) /\ next_diag' \in [Paths -> Int]
       /\ ~g_quit => diag_tasks' \in Seq(DTask)
  <2>1. CASE UNCHANGED diagVars
    BY <2>1 DEF QueuesOK, diagVars
  <2>2. CASE p \in Paths /\ scheduleDiag(p, OnChange)
    BY <2>2, ScheduleTypes, OnIntegers
  <2>3. CASE g_quit /\ UNCHANGED next_diag
             /\ diag_tasks' = Append(diag_tasks, [path |-> None, wait_until |-> 0])
    <3>1. [path |-> None, wait_until |-> 0] \in DTasks
      BY DEF DTasks
    <3> QED
      BY <2>3, <3>1, Appended DEF QueuesOK
  <2> QED
    BY <1>5, <1>6, <2>1, <2>2, <2>3 DEF onView
<1>11. QueuesOK'
  BY <1>1, <1>4, <1>8, <1>9, <1>10 DEF QueuesOK
<1> QED
  BY <1>2, <1>3, <1>7, <1>11

LEMMA TickTypes == ASSUME Types, Tick PROVE Types'
<1> USE DEF Types
<1>1. /\ UNCHANGED <<edits, received, g_quit, sessions, preambles, next_diag, diag_tasks,
                     preamble_tasks, comp_tasks, todo, Threads, replies, published, text,
                     timestamp>>
      /\ now' = now + 1
  BY DEF Tick, Threads, docVars, sessionVars, diagVars, outVars
<1>2. OutOK' /\ SessionsOK' /\ QueuesOK'
  BY <1>1 DEF OutOK, SessionsOK, QueuesOK
<1>3. ClockOK'
  BY <1>1 DEF ClockOK
<1>4. DocsOK'
  BY <1>1 DEF DocsOK, ClockOK
<1>5. DataOK' /\ ThreadsOK'
  BY <1>1, ThreadsStay
<1> QED
  BY <1>2, <1>3, <1>4, <1>5

----------------------------------------------------------------------------
(* The types are kept: the preamble thread *)

\* dequeue(n) erases all but the newest n tasks; one is taken.
Gone == IF Len(preamble_tasks) > MaxNum THEN Len(preamble_tasks) - MaxNum ELSE 0

LEMMA GoneRange ==
  ASSUME NEW S, preamble_tasks \in Seq(S), preamble_tasks /= <<>>
  PROVE  Gone \in 0..(Len(preamble_tasks) - 1)
<1>1. Len(preamble_tasks) \in Nat \ {0} /\ MaxNum \in Nat \ {0}
  BY SemaAssumption
<1> QED
  BY <1>1 DEF Gone

LEMMA PreambleTakeTypes == ASSUME Types, PreambleTake PROVE Types'
<1> USE DEF Types
<1>1. /\ UNCHANGED <<now, edits, received, g_quit, sessions, preambles, next_diag, diag_tasks,
                     comp_tasks, comp, diag, todo, replies, published, text, timestamp>>
      /\ preamble_tasks /= <<>>
      /\ preamble_tasks' = SubSeq(preamble_tasks, Gone + 2, Len(preamble_tasks))
      /\ preamble' = IF g_quit THEN [pc |-> "left"]
                     ELSE [pc |-> "session", task |-> preamble_tasks[Gone + 1]]
  BY DEF PreambleTake, docAndClient, docVars, inVars, sessionVars, diagVars, Gone
<1>2. /\ preamble_tasks \in Seq(PTasks) /\ (~g_quit => preamble_tasks \in Seq(PTask))
      /\ Gone \in 0..(Len(preamble_tasks) - 1)
  BY <1>1, GoneRange DEF QueuesOK
<1>3. /\ preamble_tasks' \in Seq(PTasks)
      /\ ~g_quit => preamble_tasks' \in Seq(PTask) /\ preamble_tasks[Gone + 1] \in PTask
  BY <1>1, <1>2, Cut
<1>4. ClockOK' /\ OutOK' /\ DocsOK' /\ SessionsOK' /\ DataOK'
  BY <1>1 DEF ClockOK, OutOK, DocsOK, SessionsOK, DataOK
<1>5. QueuesOK'
  BY <1>1, <1>3 DEF QueuesOK
<1>6. preamble' \in PreambleStates
  BY <1>1, <1>3 DEF PreambleStates
<1>7. ThreadsOK'
  BY <1>1, <1>6 DEF ThreadsOK, DiagOK, DiagData
<1> QED
  BY <1>4, <1>5, <1>7

LEMMA PreambleSessionTypes == ASSUME Types, PreambleSession PROVE Types'
<1> USE DEF Types
<1> DEFINE p == preamble.task.path
<1>1. /\ UNCHANGED <<now, edits, received, g_quit, next_diag, diag_tasks, preamble_tasks,
                     comp_tasks, comp, diag, todo, replies, published, text, timestamp>>
      /\ preamble.pc = "session" /\ ensureSession(p)
      /\ preamble' = [pc |-> "build", task |-> preamble.task, created |-> Cached(p) = {},
                      sid |-> sessions'[1].sid]
  BY DEF PreambleSession, docAndClient, docVars, inVars, diagVars, outVars
<1>2. preamble.task \in PTask /\ p \in Paths
  BY <1>1, PreambleShape DEF ThreadsOK, PTask
<1> HIDE DEF p
<1>3. /\ SessionsOK' /\ sessions'[1] \in Items
      /\ preambles' = [s \in Sids |-> preambles'[s]]
      /\ \A s \in Sids : IsData(preambles'[s])
      /\ \A s \in Held \cap Sids : preambles'[s] = preambles[s]
  BY <1>1, <1>2, EnsureOK
<1>4. ClockOK' /\ OutOK' /\ DocsOK' /\ QueuesOK'
  BY <1>1 DEF ClockOK, OutOK, DocsOK, QueuesOK
<1>5. DataOK'
  <2>1. diag.pc = "check" => diag.sid \in Held \cap Sids
    <3>1. diag.pc = "check" => "sid" \in DOMAIN diag /\ diag.sid \in Sids
      BY DiagShape DEF ThreadsOK, DiagOK
    <3> QED
      BY <3>1 DEF Held
  <2> QED
    BY <1>1, <1>3, <2>1 DEF DataOK
<1>6. preamble' \in PreambleStates
  <2>1. (Cached(p) = {}) \in BOOLEAN /\ sessions'[1].sid \in Sids
    BY <1>3 DEF Items
  <2> QED
    BY <1>1, <1>2, <2>1 DEF PreambleStates
<1>7. ThreadsOK'
  BY <1>1, <1>6 DEF ThreadsOK, DiagOK, DiagData
<1> QED
  BY <1>3, <1>4, <1>5, <1>7

LEMMA BoundsTyped == ASSUME DocsOK, NEW p \in Paths PROVE BoundsOf(p) \in Nat
  BY DEF DocsOK, BoundsOf, Texts

LEMMA PreambleBuildTypes == ASSUME Types, PreambleBuild PROVE Types'
<1> USE DEF Types
<1> DEFINE p == preamble.task.path
<1>1. /\ UNCHANGED <<now, edits, received, g_quit, next_diag, diag_tasks, preamble_tasks, sessions,
                     preambles, comp_tasks, comp, diag, todo, replies, published, text, timestamp>>
      /\ preamble.pc = "build"
      /\ \E built \in {None, BoundsOf(p)} :
           preamble' = [pc |-> "forward", task |-> preamble.task, sid |-> preamble.sid,
                        created |-> preamble.created, built |-> built]
  BY DEF PreambleBuild, docAndClient, docVars, inVars, diagVars, outVars, sessionVars
<1>2. preamble.task \in PTask /\ p \in Paths /\ preamble.sid \in Sids /\ preamble.created \in BOOLEAN
  BY <1>1, PreambleShape DEF ThreadsOK, PTask
<1> HIDE DEF p
<1>3. BoundsOf(p) \in Nat
  BY <1>2, BoundsTyped
<1>4. ClockOK' /\ OutOK' /\ DocsOK' /\ QueuesOK' /\ SessionsOK' /\ DataOK'
  BY <1>1 DEF ClockOK, OutOK, DocsOK, QueuesOK, SessionsOK, DataOK
<1>6. preamble' \in PreambleStates
  BY <1>1, <1>2, <1>3 DEF PreambleStates, Fit
<1>7. ThreadsOK'
  BY <1>1, <1>6 DEF ThreadsOK, DiagOK, DiagData
<1> QED
  BY <1>4, <1>7

LEMMA PreambleForwardTypes == ASSUME Types, PreambleForward PROVE Types'
<1> USE DEF Types
<1> DEFINE p == preamble.task.path
           task == preamble.task.comp_task
           old == preambles[preamble.sid]
           includes == IF old = None THEN [f \in Includes[p] |-> 0] ELSE old.includes
           data == [bounds |-> preamble.built, includes |-> includes]
           debounce == IF preamble.task.from_diag THEN 0
                       ELSE IF preamble.created THEN OnOpen ELSE OnSave
<1>1. /\ UNCHANGED <<now, edits, received, g_quit, preamble_tasks, sessions, comp, todo, replies,
                     published, text, timestamp>>
      /\ preamble.pc = "forward" /\ preamble' = Idle
      /\ preambles' = IF preamble.built = None THEN preambles
                      ELSE [preambles EXCEPT ![preamble.sid] = data]
      /\ \/ task /= NullTask /\ comp_tasks' = Append(comp_tasks, task) /\ UNCHANGED diagVars
         \/ scheduleDiag(p, debounce) /\ UNCHANGED comp_tasks
         \/ UNCHANGED <<diagVars, comp_tasks>>
      /\ diag' = IF preamble.built /= None /\ diag.pc = "check" /\ diag.sid = preamble.sid
                 THEN [diag EXCEPT !.current = FALSE] ELSE diag
  BY DEF PreambleForward, docAndClient, docVars, inVars, outVars
<1>2. /\ preamble.task \in PTask /\ preamble.sid \in Sids /\ preamble.created \in BOOLEAN
      /\ preamble.built \in Fit
  BY <1>1, PreambleShape DEF ThreadsOK
<1>3. p \in Paths /\ task \in Tasks /\ debounce \in Int
  BY <1>2, OnIntegers DEF PTask
<1>4. preamble.built /= None => IsData(data)
  BY <1>2 DEF IsData, Fit
<1> HIDE DEF p, task, data, includes, old, debounce
<1>5. ClockOK' /\ OutOK' /\ DocsOK' /\ SessionsOK'
  BY <1>1 DEF ClockOK, OutOK, DocsOK, SessionsOK
<1>6. QueuesOK'
  <2>1. comp_tasks' \in Seq(Tasks) /\ (~g_quit => comp_tasks' \in Seq(Task))
    <3>1. CASE UNCHANGED comp_tasks
      BY <3>1 DEF QueuesOK
    <3>2. CASE task /= NullTask /\ comp_tasks' = Append(comp_tasks, task)
      <4>1. task \in Task
        BY <1>3, <3>2 DEF Tasks
      <4> QED
        BY <1>3, <3>2, <4>1, Appended DEF QueuesOK
    <3> QED
      BY <1>1, <3>1, <3>2
  <2>2. /\ diag_tasks' \in Seq(DTasks) /\ next_diag' \in [Paths -> Int]
        /\ ~g_quit => diag_tasks' \in Seq(DTask)
    <3>1. CASE UNCHANGED diagVars
      BY <3>1 DEF QueuesOK, diagVars
    <3>2. CASE scheduleDiag(p, debounce)
      BY <1>3, <3>2, ScheduleTypes
    <3> QED
      BY <1>1, <3>1, <3>2
  <2> QED
    BY <1>1, <2>1, <2>2 DEF QueuesOK
<1>7. diag \in DiagStates(DiagData) /\ IsData(DiagData)
  BY DEF ThreadsOK, DiagOK
<1>8. /\ diag' \in DiagStates(DiagData) /\ DiagData' = DiagData
      /\ diag'.pc = diag.pc
      /\ diag.pc = "check" => diag'.sid = diag.sid /\ diag'.preamble = diag.preamble
      /\ diag'.pc = "check" /\ diag'.current =>
           diag.current /\ (preamble.built = None \/ diag.sid /= preamble.sid)
  <2>1. CASE diag' = diag /\ ~(preamble.built /= None /\ diag.pc = "check" /\ diag.sid = preamble.sid)
    BY <1>7, <2>1 DEF DiagData
  <2>2. CASE diag.pc = "check" /\ diag' = [diag EXCEPT !.current = FALSE]
    <3>1. diag \in [pc : {"check"}, path : Paths, sid : Sids, preamble : {DiagData}, current : BOOLEAN]
      BY <1>7, <2>2 DEF DiagStates
    <3>2. /\ diag' \in [pc : {"check"}, path : Paths, sid : Sids, preamble : {DiagData}, current : BOOLEAN]
          /\ diag'.pc = diag.pc /\ diag'.sid = diag.sid /\ diag'.preamble = diag.preamble
          /\ diag'.current = FALSE
          /\ "preamble" \in DOMAIN diag' /\ "preamble" \in DOMAIN diag
      BY <2>2, <3>1
    <3> QED
      BY <3>2 DEF DiagStates, DiagData
  <2> QED
    BY <1>1, <2>1, <2>2
<1>9. ThreadsOK'
  <2>1. preamble' \in PreambleStates
    BY <1>1 DEF PreambleStates, Idle
  <2> QED
    BY <1>1, <1>7, <1>8, <2>1 DEF ThreadsOK, DiagOK
<1>10. DataOK'
  <2>1. /\ preambles' = [s \in Sids |-> preambles'[s]]
        /\ \A s \in Sids : IsData(preambles'[s])
        /\ \A s \in Sids : preamble.built = None \/ s /= preamble.sid => preambles'[s] = preambles[s]
    <3>1. CASE preamble.built = None
      BY <1>1, <3>1 DEF DataOK
    <3>2. CASE preamble.built /= None
      <4>1. preambles' = [preambles EXCEPT ![preamble.sid] = data]
        BY <1>1, <3>2
      <4> QED
        BY <1>2, <1>4, <3>2, <4>1 DEF DataOK
    <3> QED
      BY <3>1, <3>2
  <2>2. diag.pc = "check" => diag.sid \in Sids
    BY <1>7, DiagShape
  <2>3. diag'.pc = "check" /\ diag'.current => preambles'[diag'.sid] = diag'.preamble
    BY <1>8, <2>1, <2>2 DEF DataOK
  <2> QED
    BY <2>1, <2>3 DEF DataOK
<1> QED
  BY <1>5, <1>6, <1>9, <1>10

LEMMA PreambleTypes == ASSUME Types, PreambleMain PROVE Types'
  BY PreambleTakeTypes, PreambleSessionTypes, PreambleBuildTypes, PreambleForwardTypes
  DEF PreambleMain

----------------------------------------------------------------------------
(* The types are kept: the completion thread *)
LEMMA CompTakeTypes == ASSUME Types, CompTake PROVE Types'
<1> USE DEF Types
<1>1. /\ UNCHANGED <<now, edits, received, g_quit, sessions, preambles, next_diag, diag_tasks,
                     preamble_tasks, preamble, diag, todo, replies, published, text, timestamp>>
      /\ comp_tasks /= <<>> /\ comp_tasks' = Tail(comp_tasks)
      /\ comp' = IF g_quit THEN [pc |-> "left"] ELSE [pc |-> "drop", task |-> Head(comp_tasks)]
  BY DEF CompTake, docAndClient, docVars, inVars, sessionVars, diagVars, outVars
<1>2. /\ comp_tasks' \in Seq(Tasks)
      /\ ~g_quit => comp_tasks' \in Seq(Task) /\ Head(comp_tasks) \in Task
  BY <1>1, Popped DEF QueuesOK
<1>3. ClockOK' /\ OutOK' /\ DocsOK' /\ SessionsOK' /\ DataOK'
  BY <1>1 DEF ClockOK, OutOK, DocsOK, SessionsOK, DataOK
<1>4. QueuesOK'
  BY <1>1, <1>2 DEF QueuesOK
<1>5. comp' \in CompStates
  BY <1>1, <1>2 DEF CompStates
<1>6. ThreadsOK'
  BY <1>1, <1>5 DEF ThreadsOK, DiagOK, DiagData
<1> QED
  BY <1>3, <1>4, <1>6

\* Answers go to requests of the client.
LEMMA ReplyTypes ==
  ASSUME OutOK, NEW t \in Task, NEW r \in {"dropped", "result"},
         replies' = [replies EXCEPT ![t.id] = Append(@, r)]
  PROVE  /\ replies' \in [Requests -> Seq({"dropped", "result"})]
         /\ t.id \in Requests /\ Len(replies'[t.id]) = Len(replies[t.id]) + 1
         /\ \A id \in Requests : id /= t.id => replies'[id] = replies[id]
<1>1. t.id \in Requests
  BY TaskIds
<1>2. replies \in [Requests -> Seq({"dropped", "result"})]
  BY DEF OutOK
<1>3. replies[t.id] \in Seq({"dropped", "result"})
  BY <1>1, <1>2
<1>4. /\ Append(replies[t.id], r) \in Seq({"dropped", "result"})
      /\ Len(Append(replies[t.id], r)) = Len(replies[t.id]) + 1
  BY <1>3
<1>5. replies'[t.id] = Append(replies[t.id], r)
  BY <1>1, <1>2
<1> QED
  BY <1>1, <1>2, <1>4, <1>5

LEMMA CompDropTypes == ASSUME Types, CompDrop PROVE Types'
<1> USE DEF Types
<1>1. /\ UNCHANGED <<now, edits, received, g_quit, sessions, preambles, next_diag, diag_tasks,
                     preamble_tasks, preamble, diag, todo, published, text, timestamp>>
      /\ comp.pc = "drop"
  BY DEF CompDrop, docAndClient, docVars, inVars, sessionVars, diagVars
<1>2. comp.task \in Task
  BY <1>1, CompShape DEF ThreadsOK
<1>3. ClockOK' /\ DocsOK' /\ SessionsOK' /\ DataOK'
  BY <1>1 DEF ClockOK, DocsOK, SessionsOK, DataOK
<1>4. CASE DropOld /\ comp_tasks /= <<>>
  <2>1. /\ replies' = [replies EXCEPT ![comp.task.id] = Append(@, "dropped")]
        /\ comp' = [pc |-> IF g_quit THEN "session" ELSE "drop", task |-> Head(comp_tasks)]
        /\ comp_tasks' = Tail(comp_tasks)
    BY <1>4 DEF CompDrop
  <2>2. /\ comp_tasks' \in Seq(Tasks) /\ Head(comp_tasks) \in Tasks
        /\ ~g_quit => comp_tasks' \in Seq(Task) /\ Head(comp_tasks) \in Task
    BY <1>4, <2>1, Popped DEF QueuesOK
  <2>3. OutOK'
    BY <1>1, <1>2, <2>1, ReplyTypes DEF OutOK
  <2>4. QueuesOK'
    BY <1>1, <2>2 DEF QueuesOK
  <2>5. comp' \in CompStates
    BY <2>1, <2>2 DEF CompStates
  <2>6. ThreadsOK'
    BY <1>1, <2>5 DEF ThreadsOK, DiagOK, DiagData
  <2> QED
    BY <1>3, <2>3, <2>4, <2>6
<1>5. CASE ~(DropOld /\ comp_tasks /= <<>>)
  <2>1. comp' = [comp EXCEPT !.pc = "session"] /\ UNCHANGED <<replies, comp_tasks>>
    BY <1>5 DEF CompDrop
  <2>2. comp' = [pc |-> "session", task |-> comp.task]
    BY <1>1, <2>1, CompShape DEF ThreadsOK
  <2>3. comp' \in CompStates
    BY <1>2, <2>2 DEF CompStates, Tasks
  <2>4. OutOK' /\ QueuesOK'
    BY <1>1, <2>1 DEF OutOK, QueuesOK
  <2>5. ThreadsOK'
    BY <1>1, <2>3 DEF ThreadsOK, DiagOK, DiagData
  <2> QED
    BY <1>3, <2>4, <2>5
<1> QED
  BY <1>4, <1>5

LEMMA BoundsInTyped == ASSUME NEW d, IsData(d) PROVE BoundsIn(d) \in Fit
  BY DEF IsData, BoundsIn, Fit

LEMMA CompSessionTypes == ASSUME Types, CompSession PROVE Types'
<1> USE DEF Types
<1>1. /\ UNCHANGED <<now, edits, received, g_quit, next_diag, diag_tasks, preamble_tasks,
                     comp_tasks, preamble, diag, todo, replies, published, text, timestamp>>
      /\ comp.pc = "session"
  BY DEF CompSession, docAndClient, docVars, inVars, diagVars, outVars
<1>2. comp.task \in Tasks
  BY <1>1, CompShape DEF ThreadsOK
<1>3. ClockOK' /\ OutOK' /\ DocsOK' /\ QueuesOK'
  BY <1>1 DEF ClockOK, OutOK, DocsOK, QueuesOK
<1>4. CASE comp.task = NullTask
  <2>1. comp' = [pc |-> "crashed"] /\ UNCHANGED sessionVars
    BY <1>4 DEF CompSession
  <2>2. comp' \in CompStates
    BY <2>1 DEF CompStates
  <2>3. SessionsOK' /\ DataOK'
    BY <1>1, <2>1 DEF SessionsOK, DataOK, sessionVars
  <2>4. ThreadsOK'
    BY <1>1, <2>2 DEF ThreadsOK, DiagOK, DiagData
  <2> QED
    BY <1>3, <2>3, <2>4
<1>5. CASE comp.task /= NullTask
  <2>1. /\ ensureSession(comp.task.path)
        /\ comp' = [pc |-> "complete", task |-> comp.task,
                    bounds |-> BoundsIn(preambles'[sessions'[1].sid])]
    BY <1>5 DEF CompSession
  <2>2. comp.task \in Task /\ comp.task.path \in Paths
    BY <1>2, <1>5 DEF Tasks, Task
  <2>3. /\ SessionsOK' /\ sessions'[1] \in Items
        /\ preambles' = [s \in Sids |-> preambles'[s]]
        /\ \A s \in Sids : IsData(preambles'[s])
        /\ \A s \in Held \cap Sids : preambles'[s] = preambles[s]
    BY <2>1, <2>2, EnsureOK
  <2>4. DataOK'
    <3>1. diag.pc = "check" => diag.sid \in Held \cap Sids
      <4>1. diag.pc = "check" => "sid" \in DOMAIN diag /\ diag.sid \in Sids
        BY DiagShape DEF ThreadsOK, DiagOK
      <4> QED
        BY <4>1 DEF Held
    <3> QED
      BY <1>1, <2>3, <3>1 DEF DataOK
  <2>5. comp' \in CompStates
    <3>1. sessions'[1].sid \in Sids
      BY <2>3 DEF Items
    <3>2. BoundsIn(preambles'[sessions'[1].sid]) \in Fit
      BY <2>3, <3>1, BoundsInTyped
    <3> QED
      BY <2>1, <2>2, <3>2 DEF CompStates
  <2>6. ThreadsOK'
    BY <1>1, <2>5 DEF ThreadsOK, DiagOK, DiagData
  <2> QED
    BY <1>3, <2>3, <2>4, <2>6
<1> QED
  BY <1>4, <1>5

LEMMA CompCompleteTypes == ASSUME Types, CompComplete PROVE Types'
<1> USE DEF Types
<1> DEFINE t == comp.task
<1>1. /\ UNCHANGED <<now, edits, received, g_quit, sessions, preambles, next_diag, diag_tasks,
                     comp_tasks, preamble, diag, todo, published, text, timestamp>>
      /\ comp.pc = "complete" /\ comp' = Idle
      /\ \/ preamble_tasks' = Append(preamble_tasks, PreambleTask(t.path, t, FALSE)) /\ UNCHANGED replies
         \/ replies' = [replies EXCEPT ![t.id] = Append(@, "result")] /\ UNCHANGED preamble_tasks
         \/ UNCHANGED <<replies, preamble_tasks>>
  BY DEF CompComplete, docAndClient, docVars, inVars, sessionVars, diagVars
<1>2. t \in Task
  BY <1>1, CompShape DEF ThreadsOK
<1> HIDE DEF t
<1>3. ClockOK' /\ DocsOK' /\ SessionsOK' /\ DataOK'
  BY <1>1 DEF ClockOK, DocsOK, SessionsOK, DataOK
<1>4. QueuesOK'
  <2>1. PreambleTask(t.path, t, FALSE) \in PTask /\ PreambleTask(t.path, t, FALSE) \in PTasks
    BY <1>2 DEF PreambleTask, PTask, PTasks, Task, Tasks
  <2>2. preamble_tasks \in Seq(PTasks) /\ (~g_quit => preamble_tasks \in Seq(PTask))
    BY DEF QueuesOK
  <2>3. preamble_tasks' \in Seq(PTasks)
    <3>1. Append(preamble_tasks, PreambleTask(t.path, t, FALSE)) \in Seq(PTasks)
      BY <2>1, <2>2, AppendTyped
    <3> QED
      BY <1>1, <2>2, <3>1
  <2>4. ~g_quit => preamble_tasks' \in Seq(PTask)
    <3>1. ~g_quit => Append(preamble_tasks, PreambleTask(t.path, t, FALSE)) \in Seq(PTask)
      BY <2>1, <2>2, AppendTyped
    <3> QED
      BY <1>1, <2>2, <3>1
  <2> QED
    BY <1>1, <2>3, <2>4 DEF QueuesOK
<1>5. OutOK'
  BY <1>1, <1>2, ReplyTypes DEF OutOK
<1>6. ThreadsOK'
  <2>1. comp' \in CompStates
    BY <1>1 DEF CompStates, Idle
  <2> QED
    BY <1>1, <2>1 DEF ThreadsOK, DiagOK, DiagData
<1> QED
  BY <1>3, <1>4, <1>5, <1>6

LEMMA CompTypes == ASSUME Types, CompletionMain PROVE Types'
  BY CompTakeTypes, CompDropTypes, CompSessionTypes, CompCompleteTypes DEF CompletionMain

----------------------------------------------------------------------------
(* The types are kept: the diagnostic thread *)
LEMMA DiagTakeTypes == ASSUME Types, DiagTake PROVE Types'
<1> USE DEF Types
<1>1. /\ UNCHANGED <<now, edits, received, g_quit, sessions, preambles, next_diag, comp_tasks,
                     preamble_tasks, preamble, comp, todo, replies, published, text, timestamp>>
      /\ diag_tasks /= <<>> /\ diag_tasks' = Tail(diag_tasks)
      /\ diag' = IF g_quit THEN [pc |-> "left"] ELSE [pc |-> "sleep", task |-> Head(diag_tasks)]
  BY DEF DiagTake, docAndClient, docVars, inVars, sessionVars, outVars
<1>2. /\ diag_tasks' \in Seq(DTasks)
      /\ ~g_quit => diag_tasks' \in Seq(DTask) /\ Head(diag_tasks) \in DTask
  BY <1>1, Popped DEF QueuesOK
<1>3. ClockOK' /\ OutOK' /\ DocsOK' /\ SessionsOK'
  BY <1>1 DEF ClockOK, OutOK, DocsOK, SessionsOK
<1>4. QueuesOK'
  BY <1>1, <1>2 DEF QueuesOK
<1>5. diag'.pc \in {"left", "sleep"} /\ DiagData' = None
  BY <1>1 DEF DiagData
<1>6. diag' \in DiagStates(None)
  BY <1>1, <1>2 DEF DiagStates
<1>7. DataOK'
  BY <1>1, <1>5 DEF DataOK
<1>8. ThreadsOK'
  BY <1>1, <1>5, <1>6 DEF ThreadsOK, DiagOK, IsData
<1> QED
  BY <1>3, <1>4, <1>7, <1>8

LEMMA DiagSessionTypes == ASSUME Types, DiagSession PROVE Types'
<1> USE DEF Types
<1> DEFINE p == diag.task.path
           d == preambles'[sessions'[1].sid]
<1>1. /\ UNCHANGED <<now, edits, received, g_quit, next_diag, diag_tasks, preamble_tasks,
                     comp_tasks, preamble, comp, todo, replies, published, text, timestamp>>
      /\ diag.pc = "sleep" /\ ensureSession(p)
      /\ diag' = [pc |-> "check", path |-> p, sid |-> sessions'[1].sid,
                  preamble |-> d, current |-> TRUE]
  BY DEF DiagSession, docAndClient, docVars, inVars, diagVars, outVars
<1>2. p \in Paths
  BY <1>1, DiagShape DEF ThreadsOK, DiagOK, DTask
<1>3. /\ SessionsOK' /\ sessions'[1] \in Items
      /\ preambles' = [s \in Sids |-> preambles'[s]]
      /\ \A s \in Sids : IsData(preambles'[s])
  BY <1>1, <1>2, EnsureOK
<1>4. sessions'[1].sid \in Sids /\ IsData(d)
  BY <1>3 DEF Items
<1>5. /\ diag'.pc = "check" /\ diag'.path = p /\ diag'.sid = sessions'[1].sid
      /\ diag'.preamble = d /\ "preamble" \in DOMAIN diag' /\ DiagData' = diag'.preamble
  BY <1>1 DEF DiagData
<1> HIDE DEF p, d
<1>6. DiagData' = d
  BY <1>5
<1>7. ClockOK' /\ OutOK' /\ DocsOK' /\ QueuesOK'
  BY <1>1 DEF ClockOK, OutOK, DocsOK, QueuesOK
<1>8. DataOK'
  <2>1. preambles'[diag'.sid] = diag'.preamble
    BY <1>5 DEF d
  <2> QED
    BY <1>3, <2>1 DEF DataOK
<1>9. diag' \in DiagStates(d)
  BY <1>1, <1>2, <1>4 DEF DiagStates
<1>10. ThreadsOK'
  BY <1>1, <1>4, <1>6, <1>9 DEF ThreadsOK, DiagOK
<1> QED
  BY <1>3, <1>7, <1>8, <1>10

LEMMA DiagCheckTypes == ASSUME Types, DiagCheck PROVE Types'
<1> USE DEF Types
<1> DEFINE p == diag.path
           old == diag.preamble
           newer == {f \in Includes[p] : text[f] /= None /\ old.includes[f] < timestamp[f]}
<1>1. /\ UNCHANGED <<now, edits, received, g_quit, next_diag, diag_tasks, sessions,
                     comp_tasks, preamble, comp, todo, replies, published, text, timestamp>>
      /\ diag.pc = "check"
      /\ \/ /\ preamble_tasks' = Append(preamble_tasks, PreambleTask(p, NullTask, TRUE))
            /\ diag' = Idle
         \/ diag' = [pc |-> "parse", path |-> p, bounds |-> BoundsIn(old)]
            /\ UNCHANGED preamble_tasks
  BY DEF DiagCheck, docAndClient, docVars, inVars, diagVars, outVars
<1>2. preambles' = IF old = None \/ ~diag.current THEN preambles
        ELSE [preambles EXCEPT ![diag.sid].includes =
                  [f \in Includes[p] |-> IF f \in newer THEN timestamp[f] ELSE @[f]]]
  BY DEF DiagCheck
<1>3. /\ p \in Paths /\ diag.sid \in Sids /\ old = DiagData /\ IsData(old)
      /\ diag.current \in BOOLEAN
  BY <1>1, DiagShape DEF ThreadsOK, DiagOK
<1>4. diag.current => preambles[diag.sid] = old
  BY <1>1 DEF DataOK
<1> HIDE DEF p, old
<1>5. ClockOK' /\ OutOK' /\ DocsOK' /\ SessionsOK'
  BY <1>1 DEF ClockOK, OutOK, DocsOK, SessionsOK
<1>6. QueuesOK'
  <2>1. PreambleTask(p, NullTask, TRUE) \in PTask /\ PreambleTask(p, NullTask, TRUE) \in PTasks
    BY <1>3, NullPreambleTypes
  <2>2. preamble_tasks \in Seq(PTasks) /\ (~g_quit => preamble_tasks \in Seq(PTask))
    BY DEF QueuesOK
  <2>3. preamble_tasks' \in Seq(PTasks)
    <3>1. Append(preamble_tasks, PreambleTask(p, NullTask, TRUE)) \in Seq(PTasks)
      BY <2>1, <2>2, AppendTyped
    <3> QED
      BY <1>1, <2>2, <3>1
  <2>4. ~g_quit => preamble_tasks' \in Seq(PTask)
    <3>1. ~g_quit => Append(preamble_tasks, PreambleTask(p, NullTask, TRUE)) \in Seq(PTask)
      BY <2>1, <2>2, AppendTyped
    <3> QED
      BY <1>1, <2>2, <3>1
  <2> QED
    BY <1>1, <2>3, <2>4 DEF QueuesOK
<1>7. diag'.pc \in {"idle", "parse"} /\ DiagData' = None
  <2>1. CASE diag' = Idle
    BY <2>1 DEF DiagData, Idle
  <2>2. CASE diag' = [pc |-> "parse", path |-> p, bounds |-> BoundsIn(old)]
    BY <2>2 DEF DiagData
  <2> QED
    BY <1>1, <2>1, <2>2
<1>8. diag' \in DiagStates(None)
  <2>1. BoundsIn(old) \in Fit
    BY <1>3, BoundsInTyped
  <2>2. CASE diag' = Idle
    BY <2>2 DEF DiagStates, Idle
  <2>3. CASE diag' = [pc |-> "parse", path |-> p, bounds |-> BoundsIn(old)]
    BY <1>3, <2>1, <2>3 DEF DiagStates
  <2> QED
    BY <1>1, <2>2, <2>3
<1>9. DataOK'
  <2>1. /\ preambles' = [s \in Sids |-> preambles'[s]]
        /\ \A s \in Sids : IsData(preambles'[s])
    <3>1. CASE old = None \/ ~diag.current
      BY <1>2, <3>1 DEF DataOK
    <3>2. CASE old /= None /\ diag.current
      <4> DEFINE D(f) == IF f \in newer THEN timestamp[f] ELSE old.includes[f]
                 new == [old EXCEPT !.includes = [f \in Includes[p] |->
                           IF f \in newer THEN timestamp[f] ELSE @[f]]]
      <4>1. preambles' = [preambles EXCEPT ![diag.sid] = new]
        BY <1>2, <1>4, <3>2
      <4>2. IsData(new)
        <5>1. "bounds" \in DOMAIN old /\ old.bounds \in Nat
          BY <1>3, <3>2 DEF IsData
        <5>2. "bounds" \in DOMAIN new /\ new.bounds = old.bounds
          BY <5>1
        <5> HIDE DEF new
        <5> QED
          BY <5>1, <5>2 DEF IsData
      <4> HIDE DEF new
      <4> QED
        BY <1>3, <4>1, <4>2 DEF DataOK
    <3> QED
      BY <1>3, <3>1, <3>2
  <2> QED
    BY <1>7, <2>1 DEF DataOK
<1>10. ThreadsOK'
  BY <1>1, <1>7, <1>8 DEF ThreadsOK, DiagOK, IsData
<1> QED
  BY <1>5, <1>6, <1>9, <1>10

LEMMA DiagParseTypes == ASSUME Types, DiagParse PROVE Types'
<1> USE DEF Types
<1>1. /\ UNCHANGED <<now, edits, received, g_quit, next_diag, diag_tasks, sessions, preambles,
                     preamble_tasks, comp_tasks, preamble, comp, todo, replies, text, timestamp>>
      /\ diag' = Idle
      /\ \/ \E x : published' = [published EXCEPT ![diag.path] = x]
         \/ UNCHANGED published
  BY DEF DiagParse, docAndClient, docVars, inVars, diagVars, outVars, sessionVars
<1>2. ClockOK' /\ DocsOK' /\ SessionsOK' /\ QueuesOK'
  BY <1>1 DEF ClockOK, DocsOK, SessionsOK, QueuesOK
<1>3. OutOK'
  BY <1>1 DEF OutOK
<1>4. diag'.pc = "idle" /\ DiagData' = None /\ diag' \in DiagStates(None)
  BY <1>1 DEF DiagData, Idle, DiagStates
<1>5. DataOK'
  BY <1>1, <1>4 DEF DataOK
<1>6. ThreadsOK'
  BY <1>1, <1>4 DEF ThreadsOK, DiagOK, IsData
<1> QED
  BY <1>2, <1>3, <1>5, <1>6

LEMMA DiagTypes == ASSUME Types, DiagnosticMain PROVE Types'
  BY DiagTakeTypes, DiagSessionTypes, DiagCheckTypes, DiagParseTypes DEF DiagnosticMain

LEMMA TypesStep == ASSUME Types, [Next]_vars PROVE Types'
<1>1. CASE UNCHANGED vars
  BY <1>1 DEF vars, docVars, inVars, sessionVars, diagVars, outVars, Types, ClockOK, DocsOK,
              SessionsOK, DataOK, QueuesOK, ThreadsOK, OutOK, DiagOK, DiagData
<1>2. CASE Client
  BY <1>2, EditTypes, CallTypes, RequestTypes, ClearTypes, ExitTypes DEF Client
<1>3. CASE MainCall \/ Tick
  BY <1>3, MainCallTypes, TickTypes
<1>4. CASE PreambleMain \/ CompletionMain \/ DiagnosticMain
  BY <1>4, PreambleTypes, CompTypes, DiagTypes
<1> QED
  BY <1>1, <1>2, <1>3, <1>4 DEF Next

\* What the server keeps has its type, for all values of the constants; only
\* tasks that quit() made name no file.
THEOREM Typed == Spec => []Types
<1>1. Init => Types
  BY InitTypes
<1>2. Types /\ [Next]_vars => Types'
  BY TypesStep
<1> QED
  BY <1>1, <1>2, PTL DEF Spec

\* The cache never has more sessions than it may, nor two of one file, and a new
\* session always finds a place beside those that the threads still hold.
THEOREM TypeCorrect == Spec => []TypeOK
<1>1. Types => TypeOK
  <2> SUFFICES ASSUME Types PROVE TypeOK
    OBVIOUS
  <2> USE DEF Types
  <2>1. now \in Nat /\ edits \in 0..MaxEdits /\ received \in 0..MaxRequests
    BY DEF ClockOK
  <2>2. \A p \in Paths : text[p] \in Texts \cup {None} /\ timestamp[p] \in 0..now
    BY <2>1 DEF DocsOK
  <2>3. \A k \in DOMAIN sessions : sessions[k] \in [path : Paths, sid : Sids]
    <3>1. \A k \in DOMAIN sessions : sessions[k] \in Items
      BY DEF SessionsOK
    <3> QED
      BY <3>1 DEF Items
  <2>4. \A s \in Sids : preambles[s] = None \/ preambles[s].bounds \in Nat
    BY DEF DataOK, IsData
  <2>5. /\ Len(sessions) <= MaxNum
        /\ \A j, k \in DOMAIN sessions :
             j /= k => sessions[j].path /= sessions[k].path /\ sessions[j].sid /= sessions[k].sid
    BY DEF SessionsOK
  <2>6. preamble.pc \in {"idle", "session", "build", "forward", "left"}
    BY PreambleShape DEF ThreadsOK
  <2>7. comp.pc \in {"idle", "drop", "session", "complete", "left", "crashed"}
    BY CompShape DEF ThreadsOK
  <2>8. diag.pc \in {"idle", "sleep", "check", "parse", "left"}
    BY DiagShape DEF ThreadsOK, DiagOK
  <2> QED
    BY <2>1, <2>2, <2>3, <2>4, <2>5, <2>6, <2>7, <2>8 DEF TypeOK
<1> QED
  BY <1>1, Typed, PTL

----------------------------------------------------------------------------
(* Completions move between the places *)
LEMMA CompPopped ==
  ASSUME comp_tasks \in Seq(Tasks), comp_tasks /= <<>>, comp_tasks' = Tail(comp_tasks), CompOnce
  PROVE  /\ CompOnce' /\ CompIds = CompIds' \cup {Head(comp_tasks).id}
         /\ Head(comp_tasks).id \in CompIds' => Head(comp_tasks).id = 0
<1>1. /\ Head(comp_tasks) = comp_tasks[1] /\ 1 \in DOMAIN comp_tasks
      /\ \A k \in DOMAIN comp_tasks' : k + 1 \in DOMAIN comp_tasks
             /\ comp_tasks'[k] = comp_tasks[k + 1] /\ k + 1 /= 1
      /\ \A k \in DOMAIN comp_tasks : k = 1 \/ (k - 1 \in DOMAIN comp_tasks'
             /\ comp_tasks'[k - 1] = comp_tasks[k])
  BY Popped
<1>2. CompIds = CompIds' \cup {comp_tasks[1].id}
  <2>1. CompIds' \subseteq CompIds /\ comp_tasks[1].id \in CompIds
    BY <1>1 DEF CompIds
  <2>2. \A k \in DOMAIN comp_tasks : comp_tasks[k].id \in CompIds' \cup {comp_tasks[1].id}
    <3> TAKE k \in DOMAIN comp_tasks
    <3>1. CASE k = 1
      BY <3>1
    <3>2. CASE k /= 1
      <4>1. k - 1 \in DOMAIN comp_tasks' /\ comp_tasks'[k - 1].id = comp_tasks[k].id
        BY <1>1, <3>2
      <4> QED
        BY <4>1 DEF CompIds
    <3> QED
      BY <3>1, <3>2
  <2>3. CompIds \subseteq CompIds' \cup {comp_tasks[1].id}
    BY <2>2 DEF CompIds
  <2> QED
    BY <2>1, <2>3
<1>3. \A k \in DOMAIN comp_tasks' : comp_tasks'[k].id = comp_tasks[1].id => comp_tasks[1].id = 0
  BY <1>1 DEF CompOnce
<1>4. \A j, k \in DOMAIN comp_tasks' : j /= k => j + 1 /= k + 1
  <2>1. DOMAIN comp_tasks' \subseteq Int
    <3>1. comp_tasks' \in Seq(Tasks)
      BY Popped
    <3> QED
      BY <3>1
  <2> QED
    BY <2>1
<1>5. CompOnce'
  BY <1>1, <1>4 DEF CompOnce
<1> QED
  BY <1>1, <1>2, <1>3, <1>5 DEF CompIds

LEMMA CompAppended ==
  ASSUME comp_tasks \in Seq(Tasks), CompOnce, NEW t, comp_tasks' = Append(comp_tasks, t),
         t.id \in CompIds => t.id = 0
  PROVE  CompOnce' /\ CompIds' = CompIds \cup {t.id}
<1> DEFINE n == Len(comp_tasks) + 1
<1>1. /\ DOMAIN comp_tasks' = DOMAIN comp_tasks \cup {n}
      /\ \A k \in DOMAIN comp_tasks : comp_tasks'[k] = comp_tasks[k]
      /\ comp_tasks'[n] = t
  BY Appended
<1>2. \A k \in DOMAIN comp_tasks : comp_tasks[k].id = t.id => t.id = 0
  BY DEF CompIds
<1> HIDE DEF n
<1>3. CompIds' = CompIds \cup {t.id}
  BY <1>1 DEF CompIds
<1>4. CompOnce'
  BY <1>1, <1>2 DEF CompOnce
<1> QED
  BY <1>3, <1>4

LEMMA PreambleAppended ==
  ASSUME preamble_tasks \in Seq(PTasks), PreambleOnce, NEW t,
         preamble_tasks' = Append(preamble_tasks, t),
         t.comp_task.id \in PreambleIds => t.comp_task.id = 0
  PROVE  PreambleOnce' /\ PreambleIds' = PreambleIds \cup {t.comp_task.id}
<1> DEFINE n == Len(preamble_tasks) + 1
<1>1. /\ DOMAIN preamble_tasks' = DOMAIN preamble_tasks \cup {n}
      /\ \A k \in DOMAIN preamble_tasks : preamble_tasks'[k] = preamble_tasks[k]
      /\ preamble_tasks'[n] = t
  BY Appended
<1>2. \A k \in DOMAIN preamble_tasks : preamble_tasks[k].comp_task.id = t.comp_task.id
                                         => t.comp_task.id = 0
  BY DEF PreambleIds
<1> HIDE DEF n
<1>3. PreambleIds' = PreambleIds \cup {t.comp_task.id}
  BY <1>1 DEF PreambleIds
<1>4. PreambleOnce'
  BY <1>1, <1>2 DEF PreambleOnce
<1> QED
  BY <1>3, <1>4

\* The completions whose tasks dequeue(n) erases.
ErasedIds == {preamble_tasks[k].comp_task.id : k \in 1..Gone}

LEMMA PreambleCut ==
  ASSUME preamble_tasks \in Seq(PTasks), preamble_tasks /= <<>>, PreambleOnce,
         preamble_tasks' = SubSeq(preamble_tasks, Gone + 2, Len(preamble_tasks))
  PROVE  LET taken == preamble_tasks[Gone + 1].comp_task.id IN
         /\ PreambleOnce' /\ PreambleIds = PreambleIds' \cup {taken} \cup ErasedIds
         /\ taken \in PreambleIds' \cup ErasedIds => taken = 0
         /\ PreambleIds' \cap ErasedIds \subseteq {0}
<1> DEFINE Id(k) == preamble_tasks[k].comp_task.id
           taken == Id(Gone + 1)
           g == Gone
<1>1. g \in 0..(Len(preamble_tasks) - 1)
  BY GoneRange
<1> HIDE DEF g
<1>2. /\ g + 1 \in DOMAIN preamble_tasks
      /\ \A k \in DOMAIN preamble_tasks' : k + g + 1 \in DOMAIN preamble_tasks
           /\ preamble_tasks'[k] = preamble_tasks[k + g + 1]
      /\ \A k \in DOMAIN preamble_tasks : k <= g + 1 \/ (k - g - 1 \in DOMAIN preamble_tasks'
           /\ preamble_tasks'[k - g - 1] = preamble_tasks[k])
      /\ preamble_tasks' \in Seq(PTasks)
  BY <1>1, Cut DEF g
<1>3. /\ DOMAIN preamble_tasks' \subseteq Nat \ {0} /\ DOMAIN preamble_tasks = 1..Len(preamble_tasks)
      /\ Len(preamble_tasks) \in Nat
  BY <1>2
<1>4. /\ \A k \in 1..g : k \in DOMAIN preamble_tasks /\ k /= g + 1
      /\ \A k \in DOMAIN preamble_tasks : k <= g + 1 => k = g + 1 \/ k \in 1..g
      /\ \A k \in DOMAIN preamble_tasks' : k + g + 1 \notin 1..(g + 1)
      /\ \A j, k \in DOMAIN preamble_tasks' : j /= k => j + g + 1 /= k + g + 1
      /\ g + 1 \in 1..(g + 1) /\ \A k \in 1..g : k \in 1..(g + 1)
  BY <1>1, <1>3
<1>5. /\ \A j, k \in DOMAIN preamble_tasks : j /= k => Id(j) /= Id(k) \/ Id(j) = 0
      /\ PreambleIds = {Id(k) : k \in DOMAIN preamble_tasks}
      /\ ErasedIds = {Id(k) : k \in 1..g}
  BY DEF PreambleOnce, PreambleIds, ErasedIds, g
<1>6. /\ PreambleIds' = {Id(k + g + 1) : k \in DOMAIN preamble_tasks'}
      /\ taken = Id(g + 1)
  BY <1>2 DEF PreambleIds, g
<1>7. PreambleOnce'
  <2>1. \A j, k \in DOMAIN preamble_tasks' : j /= k => Id(j + g + 1) /= Id(k + g + 1) \/ Id(j + g + 1) = 0
    BY <1>2, <1>4, <1>5
  <2> QED
    BY <1>2, <2>1 DEF PreambleOnce
<1>8. \A k \in DOMAIN preamble_tasks : k <= g + 1 \/ Id(k) \in PreambleIds'
  <2>1. \A k \in DOMAIN preamble_tasks : k <= g + 1 \/ (k - g - 1 \in DOMAIN preamble_tasks'
           /\ preamble_tasks'[k - g - 1].comp_task.id = Id(k))
    BY <1>2
  <2> QED
    BY <2>1 DEF PreambleIds
<1> HIDE DEF Id, taken
<1>9. PreambleIds = PreambleIds' \cup {taken} \cup ErasedIds
  <2>1. \A k \in DOMAIN preamble_tasks : Id(k) \in PreambleIds' \cup {taken} \cup ErasedIds
    BY <1>4, <1>5, <1>6, <1>8
  <2>2. PreambleIds' \subseteq PreambleIds /\ taken \in PreambleIds /\ ErasedIds \subseteq PreambleIds
    BY <1>2, <1>4, <1>5, <1>6
  <2>3. PreambleIds \subseteq PreambleIds' \cup {taken} \cup ErasedIds
    BY <1>5, <2>1
  <2> QED
    BY <2>2, <2>3
<1>10. taken \in PreambleIds' => taken = 0
  BY <1>2, <1>4, <1>5, <1>6
<1>11. taken \in ErasedIds => taken = 0
  BY <1>2, <1>4, <1>5, <1>6
<1>12. PreambleIds' \cap ErasedIds \subseteq {0}
  BY <1>2, <1>4, <1>5, <1>6
<1> QED
  BY <1>7, <1>9, <1>10, <1>11, <1>12 DEF taken, Id

\* The requests in E, and no others, stop waiting: they are answered or given up.
LEMMA OnceStep ==
  ASSUME OnceInv, CompOnce', PreambleOnce', Apart', Answers', NEW E,
         Waiting' \subseteq (Waiting \ E) \cup {0},
         ~g_quit' => ~g_quit /\ Waiting \subseteq Waiting' \cup E \cup {0},
         \A id \in Requests \ E : Open(id)' <=> Open(id),
         \A id \in Requests \cap E : ~Open(id)'
  PROVE  OnceInv'
<1>1. WaitingOpen'
  BY DEF OnceInv, WaitingOpen
<1>2. OpenWaiting'
  <2>1. \A id \in Requests : id /= 0
    BY DEF Requests
  <2> QED
    BY <2>1 DEF OnceInv, OpenWaiting
<1> QED
  BY <1>1, <1>2 DEF OnceInv

\* Nothing is answered.
LEMMA OnceMoved ==
  ASSUME OnceInv, CompOnce', PreambleOnce', Apart', UNCHANGED <<received, replies, lost>>,
         Waiting' \subseteq Waiting \cup {0},
         ~g_quit' => ~g_quit /\ Waiting \subseteq Waiting' \cup {0}
  PROVE  OnceInv'
<1>1. Answers'
  BY DEF OnceInv, Answers
<1>2. \A id \in Requests : Open(id)' <=> Open(id)
  BY DEF Open
<1> DEFINE E == {}
<1>3. Waiting' \subseteq (Waiting \ E) \cup {0} /\ \A id \in Requests \ E : Open(id)' <=> Open(id)
  BY <1>2
<1>4. (~g_quit' => Waiting \subseteq Waiting' \cup E \cup {0}) /\ \A id \in Requests \cap E : ~Open(id)'
  OBVIOUS
<1> HIDE DEF E
<1> QED
  BY <1>1, <1>3, <1>4, OnceStep

\* The places stay as they are; tasks that no completion waits for may come.
LEMMA OnceStays ==
  ASSUME OnceInv, CompOnce', PreambleOnce', UNCHANGED <<received, replies, lost>>,
         CompIds' \in {CompIds, CompIds \cup {0}},
         PreambleIds' \in {PreambleIds, PreambleIds \cup {0}},
         CompAt' = CompAt, PreambleAt' = PreambleAt, ~g_quit' => ~g_quit
  PROVE  OnceInv'
<1>1. Apart'
  BY DEF OnceInv, Apart
<1>2. Waiting' \subseteq Waiting \cup {0} /\ Waiting \subseteq Waiting' \cup {0}
  BY DEF Waiting
<1> QED
  BY <1>1, <1>2, OnceMoved

LEMMA OnceFrame ==
  ASSUME OnceInv,
         UNCHANGED <<received, replies, lost, comp_tasks, preamble_tasks, comp, preamble>>,
         ~g_quit' => ~g_quit
  PROVE  OnceInv'
<1>1. CompOnce' /\ PreambleOnce' /\ CompIds' = CompIds /\ PreambleIds' = PreambleIds
      /\ CompAt' = CompAt /\ PreambleAt' = PreambleAt
  BY DEF OnceInv, CompOnce, PreambleOnce, CompIds, PreambleIds, CompAt, PreambleAt
<1> QED
  BY <1>1, OnceStays

LEMMA OnceRequest ==
  ASSUME Types, OnceInv, NEW p \in Paths, textDocument_completion(p) PROVE OnceInv'
<1>0. PICK new : new = received + 1
  OBVIOUS
<1>1. /\ UNCHANGED <<replies, lost, preamble_tasks, comp, preamble, g_quit>>
      /\ received' = new /\ received < MaxRequests
      /\ comp_tasks' = Append(comp_tasks, [id |-> new, path |-> p])
  BY <1>0 DEF textDocument_completion, outVars
<1>2. /\ comp_tasks \in Seq(Tasks) /\ received \in 0..MaxRequests /\ MaxRequests \in Nat
  BY SemaAssumption DEF Types, QueuesOK, ClockOK
<1>3. /\ new \in Requests /\ new > received /\ new \notin 1..received /\ new \in 1..new /\ new /= 0
      /\ \A id \in Requests \ {new} : id \in 1..received <=> id \in 1..new
      /\ \A id \in Requests : id > new => id > received
  BY <1>0, <1>1, <1>2 DEF Requests
<1>4. replies[new] = <<>> /\ new \notin lost /\ ~Open(new) /\ Open(new)'
  BY <1>1, <1>3 DEF OnceInv, Answers, Open
<1>5. new \notin Waiting
  BY <1>3, <1>4 DEF OnceInv, WaitingOpen
<1>6. CompOnce' /\ CompIds' = CompIds \cup {new}
  BY <1>1, <1>2, <1>5, CompAppended DEF OnceInv, Waiting
<1>7. PreambleOnce' /\ PreambleIds' = PreambleIds /\ CompAt' = CompAt /\ PreambleAt' = PreambleAt
  BY <1>1 DEF OnceInv, PreambleOnce, PreambleIds, CompAt, PreambleAt
<1>8. Apart'
  BY <1>5, <1>6, <1>7 DEF OnceInv, Apart, Waiting
<1>9. Waiting' = Waiting \cup {new}
  BY <1>6, <1>7 DEF Waiting
<1>10. \A id \in Requests \ {new} : Open(id)' <=> Open(id)
  <2>1. replies' = replies /\ lost' = lost /\ received' = new
    BY <1>1
  <2> TAKE id \in Requests \ {new}
  <2>2. id \in 1..received <=> id \in 1..new
    BY <1>3
  <2> QED
    BY <2>1, <2>2, Zenon DEF Open
<1>11. WaitingOpen'
  BY <1>3, <1>4, <1>9, <1>10 DEF OnceInv, WaitingOpen
<1>12. OpenWaiting'
  BY <1>1, <1>9, <1>10 DEF OnceInv, OpenWaiting
<1>13. Answers'
  <2>1. replies' = replies /\ lost' = lost /\ received' = new
    BY <1>1
  <2>2. \A id \in Requests : id > new => id > received
    BY <1>3
  <2> QED
    BY <2>1, <2>2, Zenon DEF OnceInv, Answers
<1> QED
  BY <1>6, <1>7, <1>8, <1>11, <1>12, <1>13 DEF OnceInv

LEMMA OnceMain == ASSUME Types, OnceInv, MainCall PROVE OnceInv'
<1>1. /\ UNCHANGED <<received, replies, lost, comp, preamble, g_quit>>
      /\ \/ UNCHANGED <<comp_tasks, preamble_tasks>>
         \/ comp_tasks' = Append(comp_tasks, NullTask) /\ UNCHANGED preamble_tasks
         \/ /\ \E p : preamble_tasks' = Append(preamble_tasks, PreambleTask(p, NullTask, FALSE))
            /\ UNCHANGED comp_tasks
  BY DEF MainCall, onView, outVars
<1>2. comp_tasks \in Seq(Tasks) /\ preamble_tasks \in Seq(PTasks)
  BY DEF Types, QueuesOK
<1>3. CompAt' = CompAt /\ PreambleAt' = PreambleAt
  BY <1>1 DEF CompAt, PreambleAt
<1>4. CompOnce' /\ CompIds' \in {CompIds, CompIds \cup {0}}
  <2>1. CASE UNCHANGED comp_tasks
    BY <2>1 DEF OnceInv, CompOnce, CompIds
  <2>2. CASE comp_tasks' = Append(comp_tasks, NullTask)
    <3>1. NullTask.id = 0
      BY TaskIds
    <3> QED
      BY <1>2, <2>2, <3>1, CompAppended DEF OnceInv
  <2> QED
    BY <1>1, <2>1, <2>2
<1>5. PreambleOnce' /\ PreambleIds' \in {PreambleIds, PreambleIds \cup {0}}
  <2>1. CASE UNCHANGED preamble_tasks
    BY <2>1 DEF OnceInv, PreambleOnce, PreambleIds
  <2>2. CASE \E p : preamble_tasks' = Append(preamble_tasks, PreambleTask(p, NullTask, FALSE))
    <3>1. PICK p : preamble_tasks' = Append(preamble_tasks, PreambleTask(p, NullTask, FALSE))
      BY <2>2
    <3>2. PreambleTask(p, NullTask, FALSE).comp_task.id = 0
      BY TaskIds DEF PreambleTask
    <3> QED
      BY <1>2, <3>1, <3>2, PreambleAppended DEF OnceInv
  <2> QED
    BY <1>1, <2>1, <2>2
<1> QED
  BY <1>1, <1>3, <1>4, <1>5, OnceStays

\* The places of the threads, by their positions.
LEMMA Places ==
  ASSUME Types
  PROVE  /\ comp.pc \in {"drop", "session", "complete"} => CompAt = comp.task.id
         /\ comp.pc \notin {"drop", "session", "complete"} => CompAt = 0
         /\ preamble.pc \in {"session", "build", "forward"} => PreambleAt = preamble.task.comp_task.id
         /\ preamble.pc \notin {"session", "build", "forward"} => PreambleAt = 0
  BY PreambleShape, CompShape DEF Types, ThreadsOK, CompAt, PreambleAt

LEMMA OncePreambleTake == ASSUME Types, OnceInv, PreambleTake PROVE OnceInv'
<1> DEFINE taken == preamble_tasks[Gone + 1].comp_task.id
           E == (ErasedIds \ {0}) \cup (IF g_quit THEN {taken} \ {0} ELSE {})
<1>1. /\ UNCHANGED <<g_quit, comp_tasks, comp, received, replies>>
      /\ preamble.pc = "idle" /\ preamble_tasks /= <<>>
      /\ preamble_tasks' = SubSeq(preamble_tasks, Gone + 2, Len(preamble_tasks))
      /\ preamble' = IF g_quit THEN [pc |-> "left"]
                     ELSE [pc |-> "session", task |-> preamble_tasks[Gone + 1]]
      /\ lost' = lost \cup {t.comp_task.id : t \in
                   {u \in {preamble_tasks[k] : k \in 1..Gone} : u.comp_task /= NullTask}}
  BY DEF PreambleTake, docAndClient, inVars, Gone
<1>2. preamble_tasks \in Seq(PTasks)
  BY DEF Types, QueuesOK
<1>3. /\ PreambleOnce' /\ PreambleIds = PreambleIds' \cup {taken} \cup ErasedIds
      /\ taken \in PreambleIds' \cup ErasedIds => taken = 0
      /\ PreambleIds' \cap ErasedIds \subseteq {0}
  BY <1>1, <1>2, PreambleCut DEF OnceInv
<1>4. lost' = lost \cup (ErasedIds \ {0})
  <2>1. Gone \in 0..(Len(preamble_tasks) - 1)
    BY <1>1, <1>2, GoneRange
  <2>2. \A k \in 1..Gone : k \in DOMAIN preamble_tasks
    BY <1>2, <2>1
  <2>3. \A k \in 1..Gone : preamble_tasks[k].comp_task \in Tasks
    <3>1. \A k \in 1..Gone : preamble_tasks[k] \in PTasks
      BY <1>2, <2>2
    <3>2. \A t \in PTasks : t.comp_task \in Tasks
      BY DEF PTasks, PTask, PreambleTask, Tasks
    <3> QED
      BY <3>1, <3>2
  <2>4. \A k \in 1..Gone : preamble_tasks[k].comp_task /= NullTask <=> preamble_tasks[k].comp_task.id /= 0
    BY <2>3, TaskIds
  <2>5. {t.comp_task.id : t \in {u \in {preamble_tasks[k] : k \in 1..Gone} : u.comp_task /= NullTask}}
        = ErasedIds \ {0}
    BY <2>4 DEF ErasedIds
  <2> QED
    BY <1>1, <2>5
<1>5. PreambleAt = 0 /\ PreambleAt' = (IF g_quit THEN 0 ELSE taken) /\ CompAt' = CompAt
      /\ CompIds' = CompIds
  <2>1. PreambleAt = 0
    BY <1>1, Places
  <2>2. PreambleAt' = IF g_quit THEN 0 ELSE taken
    BY <1>1 DEF PreambleAt
  <2> QED
    BY <1>1, <2>1, <2>2 DEF CompAt, CompIds
<1>6. CompOnce'
  BY <1>1 DEF OnceInv, CompOnce
<1> HIDE DEF taken, E
<1>7. Apart'
  BY <1>3, <1>5 DEF OnceInv, Apart
<1>8. Waiting' \subseteq Waiting \cup {0}
  BY <1>3, <1>5 DEF Waiting
<1>9. \A id \in ErasedIds \ {0} : id \notin Waiting'
  BY <1>3, <1>5 DEF Waiting, OnceInv, Apart
<1>10. ErasedIds \ {0} \subseteq Waiting
  BY <1>3 DEF Waiting
<1>11. ~g_quit => Waiting \subseteq Waiting' \cup (ErasedIds \ {0}) \cup {0}
  BY <1>3, <1>5 DEF Waiting
<1>12. Answers'
  <2>1. \A id \in ErasedIds \ {0} : Open(id) /\ id \in 1..received
    BY <1>10 DEF OnceInv, WaitingOpen, Open
  <2>2. \A id \in Requests : id > received => id \notin 1..received
    BY DEF Requests, Types, ClockOK
  <2> QED
    BY <1>1, <1>4, <2>1, <2>2 DEF OnceInv, Answers
<1>13. \A id \in Requests \ (ErasedIds \ {0}) : Open(id)' <=> Open(id)
  BY <1>1, <1>4 DEF Open
<1>14. \A id \in Requests \cap (ErasedIds \ {0}) : ~Open(id)'
  BY <1>4 DEF Open
<1>15. Waiting' \subseteq (Waiting \ (ErasedIds \ {0})) \cup {0}
  BY <1>8, <1>9
<1> QED
  BY <1>1, <1>3, <1>6, <1>7, <1>11, <1>12, <1>13, <1>14, <1>15, OnceStep

LEMMA OncePreambleKeeps ==
  ASSUME Types, OnceInv, PreambleSession \/ PreambleBuild PROVE OnceInv'
<1>1. /\ UNCHANGED <<g_quit, comp_tasks, preamble_tasks, comp, received, replies, lost>>
      /\ preamble.pc \in {"session", "build"}
      /\ "task" \in DOMAIN preamble' /\ preamble'.task = preamble.task
  BY DEF PreambleSession, PreambleBuild, docAndClient, inVars, outVars
<1>2. PreambleAt' = PreambleAt
  <2>1. PreambleAt' = preamble.task.comp_task.id
    BY <1>1 DEF PreambleAt
  <2> QED
    BY <1>1, <2>1, Places
<1>3. CompOnce' /\ PreambleOnce' /\ CompIds' = CompIds /\ PreambleIds' = PreambleIds
      /\ CompAt' = CompAt
  BY <1>1 DEF OnceInv, CompOnce, PreambleOnce, CompIds, PreambleIds, CompAt
<1> QED
  BY <1>1, <1>2, <1>3, OnceStays

\* A completion that waited for its preamble goes back to its queue.
LEMMA OncePreambleForward == ASSUME Types, OnceInv, PreambleForward PROVE OnceInv'
<1> DEFINE task == preamble.task.comp_task
<1>1. /\ UNCHANGED <<g_quit, preamble_tasks, comp, received, replies, lost>>
      /\ preamble.pc = "forward" /\ preamble' = Idle
      /\ IF task /= NullTask THEN comp_tasks' = Append(comp_tasks, task) ELSE UNCHANGED comp_tasks
  BY DEF PreambleForward, docAndClient, inVars, outVars
<1>2. PreambleAt = task.id /\ task \in Tasks
  BY <1>1, Places, PreambleShape DEF Types, ThreadsOK, PTask
<1>3. PreambleAt' = 0 /\ CompAt' = CompAt /\ PreambleIds' = PreambleIds /\ PreambleOnce'
  BY <1>1 DEF PreambleAt, CompAt, PreambleIds, OnceInv, PreambleOnce, Idle
<1> HIDE DEF task
<1>4. CASE task = NullTask
  <2>1. CompOnce' /\ CompIds' = CompIds /\ PreambleAt = 0
    BY <1>1, <1>2, <1>4, TaskIds DEF OnceInv, CompOnce, CompIds
  <2> QED
    BY <1>1, <1>3, <2>1, OnceStays
<1>5. CASE task /= NullTask
  <2>1. comp_tasks' = Append(comp_tasks, task) /\ comp_tasks \in Seq(Tasks)
    BY <1>1, <1>5 DEF Types, QueuesOK
  <2>2. task.id \in CompIds => task.id = 0
    BY <1>2 DEF OnceInv, Apart
  <2>3. CompOnce' /\ CompIds' = CompIds \cup {task.id}
    BY <2>1, <2>2, CompAppended DEF OnceInv
  <2>4. Apart'
    BY <1>2, <1>3, <2>3 DEF OnceInv, Apart
  <2>5. Waiting' \subseteq Waiting \cup {0} /\ Waiting \subseteq Waiting' \cup {0}
    BY <1>2, <1>3, <2>3 DEF Waiting
  <2> QED
    BY <1>1, <1>3, <2>3, <2>4, <2>5, OnceMoved
<1> QED
  BY <1>4, <1>5

LEMMA OnceCompTake == ASSUME Types, OnceInv, CompTake PROVE OnceInv'
<1> DEFINE h == Head(comp_tasks).id
<1>1. /\ UNCHANGED <<g_quit, preamble_tasks, preamble, received, replies, lost>>
      /\ comp.pc = "idle" /\ comp_tasks /= <<>> /\ comp_tasks' = Tail(comp_tasks)
      /\ comp' = IF g_quit THEN [pc |-> "left"] ELSE [pc |-> "drop", task |-> Head(comp_tasks)]
  BY DEF CompTake, docAndClient, inVars, outVars
<1>2. CompOnce' /\ CompIds = CompIds' \cup {h} /\ (h \in CompIds' => h = 0)
  BY <1>1, CompPopped DEF OnceInv, Types, QueuesOK
<1>3. CompAt = 0 /\ CompAt' = IF g_quit THEN 0 ELSE h
  <2>1. CompAt = 0
    BY <1>1, Places
  <2> QED
    BY <1>1, <2>1 DEF CompAt
<1>4. PreambleAt' = PreambleAt /\ PreambleIds' = PreambleIds /\ PreambleOnce'
  BY <1>1 DEF PreambleAt, PreambleIds, OnceInv, PreambleOnce
<1> HIDE DEF h
<1>5. Apart'
  BY <1>2, <1>3, <1>4 DEF OnceInv, Apart
<1>6. Waiting' \subseteq Waiting \cup {0} /\ (~g_quit => Waiting \subseteq Waiting' \cup {0})
  BY <1>2, <1>3, <1>4 DEF Waiting
<1> QED
  BY <1>1, <1>2, <1>4, <1>5, <1>6, OnceMoved

\* The request i is answered.
LEMMA AnswerStep ==
  ASSUME Types, OnceInv, NEW i \in Requests, i \in Waiting, NEW r \in {"dropped", "result"},
         replies' = [replies EXCEPT ![i] = Append(@, r)], UNCHANGED <<received, lost>>
  PROVE  /\ Answers' /\ ~Open(i)'
         /\ \A id \in Requests \ {i} : Open(id)' <=> Open(id)
<1>1. i \in 1..received /\ replies[i] = <<>>
  <2>1. i /= 0
    BY DEF Requests
  <2> QED
    BY <2>1 DEF OnceInv, WaitingOpen, Open
<1>2. received \in Nat /\ replies \in [Requests -> Seq({"dropped", "result"})]
  BY SemaAssumption DEF Types, ClockOK, OutOK
<1>3. replies'[i] = <<r>> /\ \A id \in Requests : id /= i => replies'[id] = replies[id]
  <2>1. replies'[i] = Append(replies[i], r) /\ \A id \in Requests : id /= i => replies'[id] = replies[id]
    BY <1>2
  <2>2. Append(<<>>, r) = <<r>>
    OBVIOUS
  <2> QED
    BY <1>1, <2>1, <2>2
<1>4. Len(<<r>>) = 1 /\ <<r>> /= <<>>
  OBVIOUS
<1>5. received' = received /\ lost' = lost
  OBVIOUS
<1>6. Answers'
  <2> SUFFICES ASSUME NEW id \in Requests
               PROVE  Len(replies'[id]) <= 1 /\ (id > received => replies'[id] = <<>> /\ id \notin lost)
    BY <1>5 DEF Answers
  <2>1. CASE id = i
    <3>1. ~(i > received)
      BY <1>1, <1>2
    <3>2. Len(replies'[id]) <= 1
      <4>1. Len(replies'[id]) = 1
        BY <1>3, <1>4, <2>1, Zenon
      <4>2. 1 <= 1
        OBVIOUS
      <4> QED
        BY <4>1, <4>2, Zenon
    <3> QED
      BY <2>1, <3>1, <3>2
  <2>2. CASE id /= i
    BY <1>3, <2>2 DEF OnceInv, Answers
  <2> QED
    BY <2>1, <2>2
<1>7. \A id \in Requests \ {i} : Open(id)' <=> Open(id)
  BY <1>3, <1>5, Zenon DEF Open
<1>8. ~Open(i)'
  BY <1>3, <1>4, Zenon DEF Open
<1> QED
  BY <1>6, <1>7, <1>8

LEMMA OnceCompDrop == ASSUME Types, OnceInv, CompDrop PROVE OnceInv'
<1>1. /\ UNCHANGED <<g_quit, preamble_tasks, preamble, received, lost>>
      /\ comp.pc = "drop"
  BY DEF CompDrop, docAndClient, inVars
<1>2. comp.task \in Task /\ CompAt = comp.task.id
  BY <1>1, CompShape, Places DEF Types, ThreadsOK
<1>3. PreambleAt' = PreambleAt /\ PreambleIds' = PreambleIds /\ PreambleOnce'
  BY <1>1 DEF PreambleAt, PreambleIds, OnceInv, PreambleOnce
<1>4. CASE DropOld /\ comp_tasks /= <<>>
  <2>0. PICK h, i : h = Head(comp_tasks).id /\ i = comp.task.id
    OBVIOUS
  <2>1. /\ replies' = [replies EXCEPT ![comp.task.id] = Append(@, "dropped")]
        /\ comp' = [pc |-> IF g_quit THEN "session" ELSE "drop", task |-> Head(comp_tasks)]
        /\ comp_tasks' = Tail(comp_tasks)
    BY <1>4 DEF CompDrop
  <2>2. CompOnce' /\ CompIds = CompIds' \cup {h} /\ (h \in CompIds' => h = 0)
    BY <1>4, <2>0, <2>1, CompPopped DEF OnceInv, Types, QueuesOK
  <2>3. CompAt' = h /\ CompAt = i
    BY <1>2, <2>0, <2>1 DEF CompAt
  <2>4. /\ i \in Requests /\ i /= 0 /\ Answers' /\ ~Open(i)'
        /\ \A id \in Requests \ {i} : Open(id)' <=> Open(id)
    <3>1. i \in Waiting /\ i \in Requests /\ i /= 0
      BY <1>2, <2>0, TaskIds DEF Waiting
    <3>2. replies' = [replies EXCEPT ![i] = Append(@, "dropped")]
      BY <2>0, <2>1
    <3> QED
      BY <1>1, <3>1, <3>2, AnswerStep
  <2>5. Apart'
    BY <1>3, <2>2, <2>3 DEF OnceInv, Apart
  <2>6. i \notin Waiting'
    BY <1>3, <2>2, <2>3, <2>4 DEF Waiting, OnceInv, Apart
  <2> DEFINE E == {i}
  <2>7. Waiting' \subseteq (Waiting \ E) \cup {0} /\ (~g_quit => Waiting \subseteq Waiting' \cup E \cup {0})
    BY <1>3, <2>2, <2>3, <2>6 DEF Waiting
  <2>8. (\A id \in Requests \ E : Open(id)' <=> Open(id)) /\ \A id \in Requests \cap E : ~Open(id)'
    BY <2>4
  <2> HIDE DEF E
  <2> QED
    BY <1>1, <1>3, <2>2, <2>4, <2>5, <2>7, <2>8, OnceStep
<1>5. CASE ~(DropOld /\ comp_tasks /= <<>>)
  <2>1. comp' = [comp EXCEPT !.pc = "session"] /\ UNCHANGED <<replies, comp_tasks>>
    BY <1>5 DEF CompDrop
  <2>2. comp' = [pc |-> "session", task |-> comp.task]
    BY <1>1, <2>1, CompShape DEF Types, ThreadsOK
  <2>3. CompAt' = CompAt
    BY <1>2, <2>2 DEF CompAt
  <2>4. CompOnce' /\ CompIds' = CompIds
    BY <2>1 DEF OnceInv, CompOnce, CompIds
  <2> QED
    BY <1>1, <1>3, <2>1, <2>3, <2>4, OnceStays
<1> QED
  BY <1>4, <1>5

LEMMA OnceCompSession == ASSUME Types, OnceInv, CompSession PROVE OnceInv'
<1>1. /\ UNCHANGED <<g_quit, comp_tasks, preamble_tasks, preamble, received, replies, lost>>
      /\ comp.pc = "session"
  BY DEF CompSession, docAndClient, inVars, outVars
<1>2. CompAt = comp.task.id
  BY <1>1, Places
<1>3. CompAt' = CompAt
  <2>1. CASE comp.task = NullTask
    <3>1. comp' = [pc |-> "crashed"]
      BY <2>1 DEF CompSession
    <3>2. CompAt' = 0
      BY <3>1 DEF CompAt
    <3> QED
      BY <1>2, <2>1, <3>2, TaskIds
  <2>2. CASE comp.task /= NullTask
    <3>1. comp' = [pc |-> "complete", task |-> comp.task,
                   bounds |-> BoundsIn(preambles'[sessions'[1].sid])]
      BY <2>2 DEF CompSession
    <3>2. CompAt' = comp.task.id
      BY <3>1 DEF CompAt
    <3> QED
      BY <1>2, <3>2
  <2> QED
    BY <2>1, <2>2
<1>4. CompOnce' /\ PreambleOnce' /\ CompIds' = CompIds /\ PreambleIds' = PreambleIds
      /\ PreambleAt' = PreambleAt
  BY <1>1 DEF OnceInv, CompOnce, PreambleOnce, CompIds, PreambleIds, PreambleAt
<1> QED
  BY <1>1, <1>3, <1>4, OnceStays

LEMMA OnceCompComplete == ASSUME Types, OnceInv, CompComplete PROVE OnceInv'
<1>0. PICK t : t = comp.task
  OBVIOUS
<1>1. /\ UNCHANGED <<g_quit, comp_tasks, preamble, received>>
      /\ comp.pc = "complete" /\ comp' = Idle
      /\ \/ /\ preamble_tasks' = Append(preamble_tasks, PreambleTask(t.path, t, FALSE))
            /\ UNCHANGED <<replies, lost>>
         \/ /\ replies' = [replies EXCEPT ![t.id] = Append(@, "result")]
            /\ UNCHANGED <<preamble_tasks, lost>>
         \/ lost' = lost \cup {t.id} /\ UNCHANGED <<replies, preamble_tasks>>
  BY <1>0 DEF CompComplete, docAndClient, inVars
<1>2. PICK i : i = t.id
  OBVIOUS
<1>3. i \in Requests /\ i /= 0 /\ CompAt = i /\ i \in Waiting
  <2>1. t \in Task /\ CompAt = t.id
    BY <1>0, <1>1, CompShape, Places DEF Types, ThreadsOK
  <2> QED
    BY <1>2, <2>1, TaskIds DEF Waiting
<1>4. CompAt' = 0 /\ PreambleAt' = PreambleAt /\ CompIds' = CompIds /\ CompOnce'
  BY <1>1 DEF CompAt, PreambleAt, CompIds, OnceInv, CompOnce, Idle
<1>5. CASE /\ preamble_tasks' = Append(preamble_tasks, PreambleTask(t.path, t, FALSE))
           /\ UNCHANGED <<replies, lost>>
  <2>1. i \in PreambleIds => i = 0
    BY <1>3 DEF OnceInv, Apart
  <2>2. PreambleTask(t.path, t, FALSE).comp_task.id = i
    BY <1>2 DEF PreambleTask
  <2>3. PreambleOnce' /\ PreambleIds' = PreambleIds \cup {i}
    BY <1>5, <2>1, <2>2, PreambleAppended DEF OnceInv, Types, QueuesOK
  <2>4. Apart'
    BY <1>3, <1>4, <2>3 DEF OnceInv, Apart
  <2>5. Waiting' \subseteq Waiting \cup {0} /\ Waiting \subseteq Waiting' \cup {0}
    BY <1>3, <1>4, <2>3 DEF Waiting
  <2> QED
    BY <1>1, <1>4, <1>5, <2>3, <2>4, <2>5, OnceMoved
<1>6. CASE UNCHANGED preamble_tasks
           /\ Answers' /\ ~Open(i)' /\ \A id \in Requests \ {i} : Open(id)' <=> Open(id)
  <2>1. PreambleOnce' /\ PreambleIds' = PreambleIds
    BY <1>6 DEF OnceInv, PreambleOnce, PreambleIds
  <2>2. Apart'
    BY <1>4, <2>1 DEF OnceInv, Apart
  <2> DEFINE E == {i}
  <2>3. Waiting' \subseteq (Waiting \ E) \cup {0}
    BY <1>3, <1>4, <2>1 DEF Waiting, OnceInv, Apart
  <2>4. Waiting \subseteq Waiting' \cup E \cup {0}
    BY <1>3, <1>4, <2>1 DEF Waiting
  <2>5. (\A id \in Requests \ E : Open(id)' <=> Open(id)) /\ \A id \in Requests \cap E : ~Open(id)'
    BY <1>6
  <2> HIDE DEF E
  <2> QED
    BY <1>1, <1>4, <1>6, <2>1, <2>2, <2>3, <2>4, <2>5, OnceStep
<1>7. CASE /\ replies' = [replies EXCEPT ![t.id] = Append(@, "result")]
           /\ UNCHANGED <<preamble_tasks, lost>>
  <2>1. Answers' /\ ~Open(i)' /\ \A id \in Requests \ {i} : Open(id)' <=> Open(id)
    <3>1. replies' = [replies EXCEPT ![i] = Append(@, "result")]
      BY <1>2, <1>7
    <3> QED
      BY <1>1, <1>3, <1>7, <3>1, AnswerStep
  <2> QED
    BY <1>6, <1>7, <2>1
<1>8. CASE lost' = lost \cup {t.id} /\ UNCHANGED <<replies, preamble_tasks>>
  <2>1. lost' = lost \cup {i} /\ replies' = replies /\ received' = received
    BY <1>1, <1>2, <1>8
  <2>2. ~Open(i)'
    BY <2>1 DEF Open
  <2>3. \A id \in Requests \ {i} : Open(id)' <=> Open(id)
    BY <2>1 DEF Open
  <2>4. ~(i > received)
    BY <1>3, SemaAssumption DEF OnceInv, WaitingOpen, Open, Types, ClockOK
  <2>5. Answers'
    BY <2>1, <2>4 DEF OnceInv, Answers
  <2> QED
    BY <1>6, <1>8, <2>2, <2>3, <2>5
<1> QED
  BY <1>1, <1>5, <1>7, <1>8

LEMMA OnceDiag == ASSUME Types, OnceInv, DiagnosticMain PROVE OnceInv'
<1>1. CASE DiagTake \/ DiagSession \/ DiagParse
  <2>1. UNCHANGED <<received, replies, lost, comp_tasks, preamble_tasks, comp, preamble, g_quit>>
    BY <1>1 DEF DiagTake, DiagSession, DiagParse, docAndClient, inVars, outVars
  <2> QED
    BY <2>1, OnceFrame
<1>2. CASE DiagCheck
  <2>1. /\ UNCHANGED <<received, replies, lost, comp_tasks, comp, preamble, g_quit>>
        /\ \/ UNCHANGED preamble_tasks
           \/ preamble_tasks' = Append(preamble_tasks, PreambleTask(diag.path, NullTask, TRUE))
    BY <1>2 DEF DiagCheck, docAndClient, inVars, outVars
  <2>2. CompOnce' /\ CompIds' = CompIds /\ CompAt' = CompAt /\ PreambleAt' = PreambleAt
    BY <2>1 DEF OnceInv, CompOnce, CompIds, CompAt, PreambleAt
  <2>3. PreambleOnce' /\ PreambleIds' \in {PreambleIds, PreambleIds \cup {0}}
    <3>1. CASE UNCHANGED preamble_tasks
      BY <3>1 DEF OnceInv, PreambleOnce, PreambleIds
    <3>2. CASE preamble_tasks' = Append(preamble_tasks, PreambleTask(diag.path, NullTask, TRUE))
      <4>1. PreambleTask(diag.path, NullTask, TRUE).comp_task.id = 0
        BY TaskIds DEF PreambleTask
      <4> QED
        BY <3>2, <4>1, PreambleAppended DEF OnceInv, Types, QueuesOK
    <3> QED
      BY <2>1, <3>1, <3>2
  <2> QED
    BY <2>1, <2>2, <2>3, OnceStays
<1> QED
  BY <1>1, <1>2 DEF DiagnosticMain

LEMMA OnceNext == ASSUME Types, OnceInv, [Next]_vars PROVE OnceInv'
<1>1. CASE UNCHANGED vars
  BY <1>1, OnceFrame DEF vars, inVars, outVars
<1>2. CASE Client
  <2>1. CASE \E p \in Paths : textDocument_completion(p)
    BY <2>1, OnceRequest
  <2>2. CASE ~\E p \in Paths : textDocument_completion(p)
    <3>1. \/ \E p \in Paths : \/ textDocument_didOpen(p) \/ textDocument_didChange(p)
                              \/ textDocument_didSave(p) \/ textDocument_didClose(p)
                              \/ workspace_didChangeWatchedFiles(p)
          \/ clear \/ exit
      BY <1>2, <2>2 DEF Client
    <3>2. /\ UNCHANGED <<received, replies, lost, comp_tasks, preamble_tasks, comp, preamble>>
          /\ ~g_quit' => ~g_quit
      BY <3>1 DEF textDocument_didOpen, textDocument_didChange, textDocument_didSave,
             textDocument_didClose, workspace_didChangeWatchedFiles, clear, exit, inVars, outVars,
             Listening
    <3> QED
      BY <3>2, OnceFrame
  <2> QED
    BY <2>1, <2>2
<1>3. CASE MainCall
  BY <1>3, OnceMain
<1>4. CASE Tick
  <2>1. UNCHANGED <<received, replies, lost, comp_tasks, preamble_tasks, comp, preamble, g_quit>>
    BY <1>4 DEF Tick, outVars
  <2> QED
    BY <2>1, OnceFrame
<1>5. CASE PreambleMain
  BY <1>5, OncePreambleTake, OncePreambleKeeps, OncePreambleForward DEF PreambleMain
<1>6. CASE CompletionMain
  BY <1>6, OnceCompTake, OnceCompDrop, OnceCompSession, OnceCompComplete DEF CompletionMain
<1>7. CASE DiagnosticMain
  BY <1>7, OnceDiag
<1> QED
  BY <1>1, <1>2, <1>3, <1>4, <1>5, <1>6, <1>7 DEF Next

LEMMA OnceInit == Init => OnceInv
<1> SUFFICES ASSUME Init PROVE OnceInv
  OBVIOUS
<1>1. /\ comp_tasks = <<>> /\ preamble_tasks = <<>> /\ comp = Idle /\ preamble = Idle
      /\ received = 0 /\ replies = [id \in Requests |-> <<>>] /\ lost = {}
  BY DEF Init
<1>2. CompIds = {} /\ PreambleIds = {} /\ CompAt = 0 /\ PreambleAt = 0
  BY <1>1 DEF CompIds, PreambleIds, CompAt, PreambleAt, Idle
<1>3. CompOnce /\ PreambleOnce /\ Apart
  BY <1>1, <1>2 DEF CompOnce, PreambleOnce, Apart
<1>4. WaitingOpen
  BY <1>2 DEF WaitingOpen, Waiting
<1>5. OpenWaiting
  <2>1. \A id \in Requests : id \notin 1..received
    BY <1>1 DEF Requests
  <2> QED
    BY <2>1 DEF OpenWaiting, Open
<1>6. Answers
  BY <1>1 DEF Answers
<1> QED
  BY <1>3, <1>4, <1>5, <1>6 DEF OnceInv

\* A completion request is answered at most once and, while the server runs, is
\* forgotten by no thread: it is given up, or waits in one queue or at one thread.
THEOREM CompletedOnceHolds == Spec => []CompletedOnce
<1>1. Init => OnceInv
  BY OnceInit
<1>2. Types /\ OnceInv /\ [Next]_vars => OnceInv'
  BY OnceNext
<1>3. Types /\ OnceInv => CompletedOnce
  <2> SUFFICES ASSUME Types, OnceInv PROVE CompletedOnce
    OBVIOUS
  <2>1. \A id \in Requests : Len(replies[id]) <= 1
    BY DEF OnceInv, Answers
  <2>2. (InQueues \cup InThreads) \ {0} = Waiting \ {0}
    BY DEF InQueues, InThreads, Waiting, CompIds, PreambleIds, CompAt, PreambleAt
  <2>3. 1..received \subseteq Requests
    BY SemaAssumption DEF Types, ClockOK, Requests
  <2>4. {id \in 1..received : replies[id] = <<>>} \ lost = {id \in Requests : Open(id)}
    BY <2>3 DEF Open
  <2>5. ~g_quit => {id \in Requests : Open(id)} = Waiting \ {0}
    <3>1. \A id \in Requests : id /= 0
      BY DEF Requests
    <3> QED
      BY <3>1 DEF OnceInv, WaitingOpen, OpenWaiting
  <2> QED
    BY <2>1, <2>2, <2>4, <2>5 DEF CompletedOnce
<1> QED
  BY <1>1, <1>2, <1>3, Typed, PTL DEF Spec

----------------------------------------------------------------------------
(* Texts and handlers *)
LEMMA Joined == \A a, b : <<a>> \o <<b>> = <<a, b>>
<1> TAKE a, b
<1> DEFINE S == {a, b}
<1>1. <<a>> \in Seq(S) /\ <<b>> \in Seq(S) /\ <<a, b>> \in Seq(S)
  OBVIOUS
<1>2. Len(<<a>>) = 1 /\ Len(<<b>>) = 1 /\ Len(<<a, b>>) = 2
  OBVIOUS
<1>3. <<a>>[1] = a /\ <<b>>[1] = b /\ <<a, b>>[1] = a /\ <<a, b>>[2] = b
  OBVIOUS
<1> DEFINE x == <<a>>
           y == <<b>>
           z == <<a, b>>
<1> HIDE DEF S, x, y, z
<1>4. Len(x \o y) = 2 /\ (x \o y)[1] = x[1] /\ (x \o y)[2] = y[1] /\ x \o y \in Seq(S)
  <2>1. x \in Seq(S) /\ y \in Seq(S) /\ Len(x) = 1 /\ Len(y) = 1
    BY <1>1, <1>2 DEF x, y
  <2>2. /\ x \o y \in Seq(S) /\ Len(x \o y) = Len(x) + Len(y)
        /\ \A i \in 1..(Len(x) + Len(y)) : (x \o y)[i] = IF i <= Len(x) THEN x[i] ELSE y[i - Len(x)]
    BY <2>1, ConcatProperties
  <2>3. 1 \in 1..2 /\ 2 \in 1..2 /\ 2 - 1 = 1 /\ ~(2 <= 1) /\ 1 + 1 = 2
    OBVIOUS
  <2> QED
    BY <2>1, <2>2, <2>3
<1>5. z \in Seq(S) /\ Len(z) = 2 /\ z[1] = x[1] /\ z[2] = y[1]
  BY <1>1, <1>2, <1>3 DEF x, y, z
<1>6. x \o y = z
  BY <1>4, <1>5, SeqEqual
<1> QED
  BY <1>6 DEF x, y, z

LEMMA NoneIsNoText == None \notin Texts /\ None \notin Paths
  BY SemaAssumption DEF Texts

LEMMA OnceOpened ==
  ASSUME Types, NEW p \in Paths, NewText(p)
  PROVE  text'[p] /= None /\ \A q \in Paths \ {p} : text'[q] = text[q]
<1>1. PICK b \in Bounds[p] : text' = [text EXCEPT ![p] = [edit |-> edits', bounds |-> b]]
  BY DEF NewText
<1>2. /\ MaxEdits \in Nat /\ edits \in 0..MaxEdits /\ edits' = edits + 1 /\ edits < MaxEdits
      /\ b \in Nat /\ text \in [Paths -> Texts \cup {None}]
  BY <1>1, SemaAssumption DEF Types, ClockOK, DocsOK, NewText
<1>3. edits' \in 1..MaxEdits
  BY <1>2
<1>4. [edit |-> edits', bounds |-> b] \in Texts
  BY <1>2, <1>3 DEF Texts
<1>5. [edit |-> edits', bounds |-> b] /= None
  BY <1>4, NoneIsNoText
<1> QED
  BY <1>1, <1>2, <1>5

----------------------------------------------------------------------------
(* A change is refused only while a diagnosis is due *)
LEMMA DueFrame ==
  ASSUME NextDue, UNCHANGED <<now, next_diag>>,
         \A k \in DOMAIN diag_tasks : \E j \in DOMAIN diag_tasks' : diag_tasks'[j] = diag_tasks[k],
         diag.pc = "sleep" => diag' = diag, diag'.pc /= "left" => diag.pc /= "left"
  PROVE  NextDue'
  BY DEF NextDue, Coming

LEMMA Kept ==
  ASSUME NEW S, NEW s \in Seq(S), NEW x, NEW t, t = s \/ t = Append(s, x)
  PROVE  \A k \in DOMAIN s : \E j \in DOMAIN t : t[j] = s[k]
<1>1. CASE t = s
  BY <1>1
<1>2. CASE t = Append(s, x)
  <2>1. \A k \in DOMAIN s : k \in DOMAIN t /\ t[k] = s[k]
    BY <1>2, Appended
  <2> QED
    BY <2>1
<1> QED
  BY <1>1, <1>2

LEMMA DueSchedule ==
  ASSUME Types, NextDue, NEW p \in Paths, NEW debounce \in Nat, scheduleDiag(p, debounce),
         now' = now, diag.pc = "sleep" => diag' = diag, diag'.pc /= "left" => diag.pc /= "left"
  PROVE  /\ NextDue' /\ (diag'.pc /= "left" => InDiags(p)' \/ AtDiag(p)')
         /\ \A k \in DOMAIN diag_tasks : \E j \in DOMAIN diag_tasks' : diag_tasks'[j] = diag_tasks[k]
<1> DEFINE due == now + debounce
           task == [path |-> p, wait_until |-> due]
<1>1. /\ diag_tasks \in Seq(DTasks) /\ next_diag \in [Paths -> Int] /\ now \in Nat
      /\ due \in Int
  BY DEF Types, QueuesOK, ClockOK
<1>2. CASE ~(next_diag[p] <= now)
  <2>1. UNCHANGED <<next_diag, diag_tasks>>
    BY <1>2 DEF scheduleDiag, diagVars
  <2>2. next_diag[p] > now
    BY <1>1, <1>2
  <2>3. NextDue'
    BY <2>1, DueFrame
  <2>4. diag'.pc /= "left" => Coming(p)
    BY <2>2 DEF NextDue
  <2>5. Coming(p) => InDiags(p)' \/ AtDiag(p)'
    BY <2>1 DEF Coming, InDiags, AtDiag
  <2> QED
    BY <2>1, <2>3, <2>4, <2>5
<1>3. CASE next_diag[p] <= now
  <2>1. next_diag' = [next_diag EXCEPT ![p] = due] /\ diag_tasks' = Append(diag_tasks, task)
    BY <1>3 DEF scheduleDiag
  <2>2. task.path = p /\ task.wait_until = due
    OBVIOUS
  <2>3. next_diag'[p] = due /\ \A q \in Paths \ {p} : next_diag'[q] = next_diag[q]
    BY <1>1, <2>1
  <2> HIDE DEF due, task
  <2>4. /\ DOMAIN diag_tasks' = DOMAIN diag_tasks \cup {Len(diag_tasks) + 1}
        /\ \A k \in DOMAIN diag_tasks : diag_tasks'[k] = diag_tasks[k]
        /\ diag_tasks'[Len(diag_tasks) + 1] = task
    BY <1>1, <2>1, Appended
  <2>5. Coming(p)' /\ InDiags(p)'
    <3>1. due >= due
      BY <1>1
    <3> QED
      BY <2>2, <2>3, <2>4, <3>1 DEF Coming, InDiags
  <2>6. \A q \in Paths \ {p} : Coming(q) => Coming(q)'
    BY <2>3, <2>4 DEF Coming
  <2>7. NextDue'
    BY <2>3, <2>5, <2>6 DEF NextDue
  <2> QED
    BY <2>4, <2>5, <2>7
<1> QED
  BY <1>2, <1>3

LEMMA NextDueDiag == ASSUME Types, NextDue, DiagnosticMain PROVE NextDue'
<1>1. CASE DiagTake
  <2>1. /\ diag.pc = "idle" /\ diag_tasks /= <<>> /\ diag_tasks' = Tail(diag_tasks)
        /\ diag' = IF g_quit THEN [pc |-> "left"] ELSE [pc |-> "sleep", task |-> Head(diag_tasks)]
        /\ UNCHANGED <<now, next_diag>>
    BY <1>1 DEF DiagTake, docAndClient, inVars
  <2>2. /\ Head(diag_tasks) = diag_tasks[1]
        /\ \A k \in DOMAIN diag_tasks :
             k = 1 \/ (k - 1 \in DOMAIN diag_tasks' /\ diag_tasks'[k - 1] = diag_tasks[k])
    BY <2>1, Popped DEF Types, QueuesOK
  <2>3. diag'.pc /= "left" => diag'.pc = "sleep" /\ diag'.task = diag_tasks[1]
    BY <2>1, <2>2
  <2>4. ASSUME NEW p \in Paths, Coming(p), diag'.pc /= "left" PROVE Coming(p)'
    <3>1. PICK k \in DOMAIN diag_tasks :
            diag_tasks[k].path = p /\ diag_tasks[k].wait_until >= next_diag[p]
      BY <2>1, <2>4 DEF Coming
    <3> QED
      BY <2>1, <2>2, <2>3, <2>4, <3>1 DEF Coming
  <2> QED
    BY <2>1, <2>4 DEF NextDue
<1>2. CASE DiagSession
  <2>1. /\ diag.pc = "sleep" /\ now >= diag.task.wait_until /\ diag'.pc = "check"
        /\ UNCHANGED <<now, next_diag, diag_tasks>>
    BY <1>2 DEF DiagSession, docAndClient, inVars, diagVars
  <2>2. diag.task.wait_until \in Int /\ now \in Nat /\ next_diag \in [Paths -> Int]
    BY <2>1, DiagShape DEF Types, ThreadsOK, DiagOK, DTask, ClockOK, QueuesOK
  <2>3. \A p \in Paths : next_diag[p] > now => ~(diag.task.wait_until >= next_diag[p])
    BY <2>1, <2>2
  <2> QED
    BY <2>1, <2>3 DEF NextDue, Coming
<1>3. CASE DiagCheck \/ DiagParse
  <2>1. /\ diag.pc \in {"check", "parse"} /\ UNCHANGED <<now, next_diag, diag_tasks>>
    <3>1. CASE DiagCheck
      BY <3>1 DEF DiagCheck, docAndClient, inVars, diagVars
    <3>2. CASE DiagParse
      BY <3>2 DEF DiagParse, docAndClient, inVars, diagVars
    <3> QED
      BY <1>3, <3>1, <3>2
  <2> QED
    BY <2>1, DueFrame
<1> QED
  BY <1>1, <1>2, <1>3 DEF DiagnosticMain

LEMMA NextDueNext == ASSUME Types, Scope, NextDue, [Next]_vars PROVE NextDue'
<1> USE DEF Types
<1>1. diag_tasks \in Seq(DTasks)
  BY DEF QueuesOK
<1>2. CASE Tick
  <2>1. UNCHANGED <<next_diag, diag_tasks, diag>> /\ now' = now + 1 /\ now \in Nat
        /\ next_diag \in [Paths -> Int]
    BY <1>2 DEF Tick, diagVars, ClockOK, QueuesOK
  <2>2. \A p \in Paths : next_diag'[p] > now' => next_diag[p] > now
    BY <2>1
  <2> QED
    BY <2>1, <2>2 DEF NextDue, Coming
<1>3. CASE DiagnosticMain
  BY <1>3, NextDueDiag
<1>4. CASE PreambleForward
  <2>1. /\ now' = now
        /\ diag' = diag \/ (diag.pc = "check" /\ diag' = [diag EXCEPT !.current = FALSE])
        /\ \/ UNCHANGED <<next_diag, diag_tasks>>
           \/ /\ preamble.pc = "forward"
              /\ \E debounce \in {0, OnOpen, OnSave} : scheduleDiag(preamble.task.path, debounce)
    BY <1>4 DEF PreambleForward, docAndClient, inVars, diagVars
  <2>2. diag.pc = "sleep" => diag' = diag
    BY <2>1
  <2>3. diag'.pc /= "left" => diag.pc /= "left"
    BY <2>1, DiagShape DEF ThreadsOK, DiagOK
  <2>4. CASE UNCHANGED <<next_diag, diag_tasks>>
    BY <2>1, <2>2, <2>3, <2>4, DueFrame
  <2>5. ASSUME preamble.pc = "forward", NEW debounce \in {0, OnOpen, OnSave},
               scheduleDiag(preamble.task.path, debounce)
        PROVE  NextDue'
    <3>1. debounce \in Nat
      BY <2>5 DEF Scope
    <3>2. preamble.task.path \in Paths
      BY <2>5, PreambleShape DEF ThreadsOK, PTask
    <3> QED
      BY <2>1, <2>2, <2>3, <2>5, <3>1, <3>2, DueSchedule
  <2> QED
    BY <2>1, <2>4, <2>5
<1>5. CASE MainCall
  <2> DEFINE call == Head(todo)
  <2>1. /\ UNCHANGED <<now, diag>> /\ todo /= <<>>
        /\ \/ UNCHANGED diagVars
           \/ call.name = "scheduleDiag" /\ scheduleDiag(call.path, OnChange)
           \/ /\ diag_tasks' = Append(diag_tasks, [path |-> None, wait_until |-> 0])
              /\ UNCHANGED next_diag
    BY <1>5 DEF MainCall, onView
  <2>2. call \in Calls
    BY <2>1, Popped DEF QueuesOK
  <2> HIDE DEF call
  <2>3. CASE UNCHANGED diagVars
    BY <2>1, <2>3, DueFrame DEF diagVars
  <2>4. CASE call.name = "scheduleDiag" /\ scheduleDiag(call.path, OnChange)
    <3>1. call.path \in Paths /\ OnChange \in Nat
      BY <2>2, <2>4 DEF Calls, ClientCalls, Scope
    <3> QED
      BY <2>1, <2>4, <3>1, DueSchedule
  <2>5. CASE diag_tasks' = Append(diag_tasks, [path |-> None, wait_until |-> 0])
             /\ UNCHANGED next_diag
    <3>1. \A k \in DOMAIN diag_tasks : \E j \in DOMAIN diag_tasks' : diag_tasks'[j] = diag_tasks[k]
      BY <1>1, <2>5, Kept
    <3> QED
      BY <2>1, <2>5, <3>1, DueFrame
  <2> QED
    BY <2>1, <2>3, <2>4, <2>5
<1>6. ASSUME UNCHANGED <<now, next_diag, diag_tasks, diag>> PROVE NextDue'
  BY <1>6, DueFrame
<1>7. CASE Client
  <2>1. UNCHANGED <<now, next_diag, diag_tasks, diag>>
    BY <1>7 DEF Client, textDocument_didOpen, textDocument_didChange, textDocument_didSave,
       textDocument_didClose, workspace_didChangeWatchedFiles, textDocument_completion, clear,
       exit, inVars, diagVars
  <2> QED
    BY <1>6, <2>1
<1>8. CASE PreambleTake \/ PreambleSession \/ PreambleBuild
  <2>1. UNCHANGED <<now, next_diag, diag_tasks, diag>>
    BY <1>8 DEF PreambleTake, PreambleSession, PreambleBuild, docAndClient, inVars, diagVars
  <2> QED
    BY <1>6, <2>1
<1>9. CASE CompletionMain
  <2>1. UNCHANGED <<now, next_diag, diag_tasks, diag>>
    BY <1>9 DEF CompletionMain, CompTake, CompDrop, CompSession, CompComplete, docAndClient,
       inVars, diagVars
  <2> QED
    BY <1>6, <2>1
<1>10. CASE UNCHANGED vars
  <2>1. UNCHANGED <<now, next_diag, diag_tasks, diag>>
    BY <1>10 DEF vars, inVars, diagVars
  <2> QED
    BY <1>6, <2>1
<1> QED
  BY <1>2, <1>3, <1>4, <1>5, <1>7, <1>8, <1>9, <1>10 DEF Next, PreambleMain

----------------------------------------------------------------------------
(* Every open file is diagnosed, or will be *)
Alive == diag.pc /= "left" /\ preamble.pc /= "left"

LEMMA DueSame ==
  ASSUME DueInv, waived \subseteq waived', UNCHANGED <<text, published>>, Alive' => Alive,
         diag.pc = "parse" \/ diag'.pc = "parse" => diag' = diag,
         \A p \in Paths \ waived' : Alive' /\ text[p] /= None /\ Pending(p) => Pending(p)'
  PROVE  DueInv'
<1>1. ASSUME NEW p \in Paths \ waived', text'[p] /= None, Alive' PROVE Followed(p)'
  <2>1. Followed(p) /\ (Pending(p) => Pending(p)')
    BY <1>1 DEF DueInv, Alive
  <2>2. Parsed(p)' => diag' = diag /\ Parsed(p)
    BY DEF Parsed
  <2>3. Parsed(p) => Parsed(p)'
    BY DEF Parsed
  <2>4. UpToDate(p) => UpToDate(p)'
    BY DEF UpToDate
  <2>5. BoundsOf(p)' = BoundsOf(p)
    BY DEF BoundsOf
  <2>6. UpToDate(p)' \/ Pending(p)' \/ Parsed(p)'
    BY <2>1, <2>3, <2>4 DEF Followed
  <2>7. Parsed(p)' => Fits(diag.bounds, p)' \/ Pending(p)'
    BY <2>1, <2>2, <2>5 DEF Followed, Fits
  <2> QED
    BY <2>6, <2>7 DEF Followed
<1> QED
  BY <1>1 DEF DueInv, Alive

\* The queues and threads stay, or the queues grow.
LEMMA PendingGrows ==
  ASSUME Types, NEW p, NEW x, NEW y,
         preamble_tasks' = preamble_tasks \/ preamble_tasks' = Append(preamble_tasks, x),
         diag_tasks' = diag_tasks \/ diag_tasks' = Append(diag_tasks, y)
  PROVE  /\ InPreambles(p) => InPreambles(p)'
         /\ InDiags(p) => InDiags(p)'
<1>1. \A k \in DOMAIN preamble_tasks : \E j \in DOMAIN preamble_tasks' :
        preamble_tasks'[j] = preamble_tasks[k]
  <2>1. preamble_tasks \in Seq(PTasks)
    BY DEF Types, QueuesOK
  <2> QED
    BY <2>1, Kept
<1>2. \A k \in DOMAIN diag_tasks : \E j \in DOMAIN diag_tasks' : diag_tasks'[j] = diag_tasks[k]
  <2>1. diag_tasks \in Seq(DTasks)
    BY DEF Types, QueuesOK
  <2> QED
    BY <2>1, Kept
<1> QED
  BY <1>1, <1>2 DEF InPreambles, InDiags

LEMMA PendingIdle ==
  ASSUME UNCHANGED <<preamble_tasks, diag_tasks, preamble, diag>>, todo = <<>>, NEW p, Pending(p)
  PROVE  Pending(p)'
<1>1. ~InTodo(p) /\ ~Opening(p)
  BY DEF InTodo, Opening
<1>2. InPreambles(p)' = InPreambles(p) /\ AtPreamble(p)' = AtPreamble(p)
  BY DEF InPreambles, AtPreamble
<1>3. InDiags(p)' = InDiags(p) /\ AtDiag(p)' = AtDiag(p)
  BY DEF InDiags, AtDiag
<1> QED
  BY <1>1, <1>2, <1>3 DEF Pending

LEMMA DueClient == ASSUME Types, Scope, DueInv, Client PROVE DueInv'
<1>1. /\ UNCHANGED <<preamble_tasks, diag_tasks, preamble, diag, published>> /\ todo = <<>>
  BY DEF Client, textDocument_didOpen, textDocument_didChange, textDocument_didSave,
     textDocument_didClose, workspace_didChangeWatchedFiles, textDocument_completion, clear,
     exit, inVars, diagVars, outVars, Listening
<1>2. \A p \in Paths : Pending(p) => Pending(p)'
  BY <1>1, PendingIdle
<1>3. Alive' = Alive
  BY <1>1 DEF Alive
<1>4. ASSUME NEW q \in Paths, \A p \in Paths \ {q} : text'[p] = text[p],
             \A p \in Paths \ {q} : p \in waived => p \in waived',
             text'[q] = None \/ Pending(q)'
      PROVE  DueInv'
  <2>1. ASSUME NEW p \in Paths \ waived', text'[p] /= None, Alive' PROVE Followed(p)'
    <3>1. CASE p = q
      BY <1>4, <2>1, <3>1 DEF Followed
    <3>2. CASE p /= q
      <4>1. Followed(p) /\ text'[p] = text[p]
        BY <1>3, <1>4, <2>1, <3>2 DEF DueInv, Alive
      <4>2. UpToDate(p)' = UpToDate(p) /\ BoundsOf(p)' = BoundsOf(p)
        BY <1>1, <4>1 DEF UpToDate, BoundsOf
      <4>3. Parsed(p)' = Parsed(p)
        BY <1>1 DEF Parsed
      <4>4. UpToDate(p)' \/ Pending(p)' \/ Parsed(p)'
        BY <1>2, <4>1, <4>2, <4>3 DEF Followed
      <4>5. Parsed(p)' => Fits(diag.bounds, p)' \/ Pending(p)'
        BY <1>1, <1>2, <4>1, <4>2, <4>3 DEF Followed, Fits
      <4> QED
        BY <4>4, <4>5 DEF Followed
    <3> QED
      BY <3>1, <3>2
  <2> QED
    BY <2>1 DEF DueInv, Alive
<1>5. ASSUME UNCHANGED <<text, waived>> PROVE DueInv'
  BY <1>1, <1>2, <1>3, <1>5, DueSame
<1>6. ASSUME NEW q \in Paths, textDocument_didOpen(q) \/ textDocument_didChange(q)
      PROVE  DueInv'
  <2>1. /\ NewText(q) /\ waived' = waived \ {q}
        /\ \/ todo' = <<Call("onView", q)>>
           \/ todo' = <<Call("onView", q)>> \o <<Call("scheduleDiag", q)>>
    <3>1. OnChange >= 0
      BY DEF Scope
    <3> QED
      BY <1>6, <3>1 DEF textDocument_didOpen, textDocument_didChange, NewText
  <2>2. \A p \in Paths \ {q} : text'[p] = text[p]
    BY <2>1, OnceOpened
  <2>3. Opening(q)' \/ InTodo(q)'
    <3>1. CASE todo' = <<Call("onView", q)>>
      BY <3>1 DEF Opening
    <3>2. CASE todo' = <<Call("onView", q)>> \o <<Call("scheduleDiag", q)>>
      <4>1. todo' = <<Call("onView", q), Call("scheduleDiag", q)>>
        BY <3>2, Joined
      <4>2. 2 \in DOMAIN todo' /\ todo'[2] = Call("scheduleDiag", q)
        BY <4>1
      <4> QED
        BY <4>2 DEF InTodo
    <3> QED
      BY <2>1, <3>1, <3>2
  <2> QED
    BY <1>4, <2>1, <2>2, <2>3 DEF Pending
<1>7. ASSUME NEW q \in Paths, textDocument_didClose(q) PROVE DueInv'
  <2>1. text' = [text EXCEPT ![q] = None] /\ waived' = waived
    BY <1>7 DEF textDocument_didClose, outVars
  <2>2. text \in [Paths -> Texts \cup {None}]
    BY DEF Types, DocsOK
  <2>3. text'[q] = None /\ \A p \in Paths \ {q} : text'[p] = text[p]
    BY <2>1, <2>2
  <2> QED
    BY <1>4, <2>1, <2>3
<1>8. ASSUME NEW q \in Paths,
             \/ textDocument_didSave(q) \/ workspace_didChangeWatchedFiles(q)
             \/ textDocument_completion(q)
      PROVE  DueInv'
  BY <1>5, <1>8 DEF textDocument_didSave, workspace_didChangeWatchedFiles,
     textDocument_completion, docVars, outVars
<1>9. CASE clear \/ exit
  BY <1>5, <1>9 DEF clear, exit, docVars, outVars
<1> QED
  BY <1>6, <1>7, <1>8, <1>9 DEF Client

\* A handler goes on: its call to onView finds no session of a file just opened, or
\* the file is waived.
LEMMA DueMain == ASSUME Types, Scope, NextDue, DueInv, MainCall PROVE DueInv'
<1> DEFINE call == Head(todo)
           q == call.path
           noted == PreambleTask(q, NullTask, FALSE)
<1>1. /\ UNCHANGED <<now, text, preamble, diag, published>>
      /\ waived' = waived \/ waived' = waived \cup {q}
      /\ todo /= <<>> /\ todo' = Tail(todo)
      /\ call.name = "onView" => onView(q)
      /\ call.name = "scheduleDiag" => scheduleDiag(q, OnChange)
      /\ preamble_tasks' = preamble_tasks \/ preamble_tasks' = Append(preamble_tasks, noted)
      /\ \/ call.name = "scheduleDiag"
         \/ diag_tasks' = diag_tasks
         \/ diag_tasks' = Append(diag_tasks, [path |-> None, wait_until |-> 0])
  BY DEF MainCall, onView, docVars, diagVars
<1>2. /\ call = todo[1] /\ call \in Calls
      /\ \A k \in DOMAIN todo : k = 1 \/ (k - 1 \in DOMAIN todo' /\ todo'[k - 1] = todo[k])
  BY <1>1, Popped DEF Types, QueuesOK
<1> HIDE DEF call
<1>3. PICK r : r = q
  OBVIOUS
<1>4. ASSUME NEW p \in Paths \ waived', Alive', text[p] /= None, Pending(p)
      PROVE  Pending(p)'
  <2>1. CASE InPreambles(p)
    <3>1. preamble_tasks \in Seq(PTasks)
      BY DEF Types, QueuesOK
    <3> HIDE DEF noted
    <3>2. \A k \in DOMAIN preamble_tasks : \E j \in DOMAIN preamble_tasks' :
            preamble_tasks'[j] = preamble_tasks[k]
      BY <1>1, <3>1, Kept
    <3> QED
      BY <2>1, <3>2 DEF Pending, InPreambles
  <2>2. call.name = "scheduleDiag" =>
          /\ InDiags(r)' \/ AtDiag(r)'
          /\ \A k \in DOMAIN diag_tasks : \E j \in DOMAIN diag_tasks' : diag_tasks'[j] = diag_tasks[k]
    <3> HAVE call.name = "scheduleDiag"
    <3>1. r \in Paths /\ OnChange \in Nat
      BY <1>2, <1>3 DEF Calls, ClientCalls, Scope
    <3>2. diag'.pc /= "left" /\ scheduleDiag(r, OnChange)
      BY <1>1, <1>4, <1>3 DEF Alive
    <3> QED
      BY <1>1, <3>1, <3>2, DueSchedule
  <2>3. CASE InDiags(p)
    <3>1. diag_tasks \in Seq(DTasks)
      BY DEF Types, QueuesOK
    <3>2. CASE call.name = "scheduleDiag"
      BY <2>2, <2>3, <3>2 DEF Pending, InDiags
    <3>3. CASE call.name /= "scheduleDiag"
      BY <1>1, <2>3, <3>3, PendingGrows DEF Pending
    <3> QED
      BY <3>2, <3>3
  <2>4. CASE AtPreamble(p) \/ AtDiag(p)
    BY <1>1, <2>4 DEF Pending, AtPreamble, AtDiag
  <2>5. CASE InTodo(p)
    <3>1. PICK k \in DOMAIN todo : todo[k] = Call("scheduleDiag", p)
      BY <2>5 DEF InTodo
    <3>2. CASE k = 1
      <4>1. call.name = "scheduleDiag" /\ r = p
        BY <1>2, <1>3, <3>1, <3>2 DEF Call
      <4> QED
        BY <2>2, <4>1 DEF Pending
    <3>3. CASE k /= 1
      BY <1>2, <3>1, <3>3 DEF Pending, InTodo
    <3> QED
      BY <3>2, <3>3
  <2>6. CASE Opening(p)
    <3>1. call.name = "onView" /\ q = p
      BY <1>2, <2>6 DEF Opening, Call
    <3>2. Tail(todo) = <<>>
      <4>1. todo \in Seq(Calls) /\ Len(todo) = 1
        BY <2>6 DEF Opening, Types, QueuesOK
      <4>2. Tail(todo) \in Seq(Calls) /\ Len(Tail(todo)) = 0
        BY <1>1, <4>1, HeadTailProperties
      <4>3. Tail(todo) /= <<>> => Len(Tail(todo)) \in Nat \ {0}
        BY <4>2, EmptySeq
      <4> QED
        BY <4>2, <4>3
    <3>3. Cached(p) = {}
      BY <1>1, <1>4, <3>1, <3>2 DEF onView
    <3>4. preamble_tasks' = Append(preamble_tasks, noted)
      BY <1>1, <3>1, <3>3 DEF onView
    <3>5. noted.path = p /\ noted.comp_task = NullTask
      BY <3>1 DEF PreambleTask
    <3>6. preamble_tasks \in Seq(PTasks)
      BY DEF Types, QueuesOK
    <3> HIDE DEF noted
    <3>7. \E k \in DOMAIN preamble_tasks' : preamble_tasks'[k] = noted
      BY <3>4, <3>6, Appended
    <3> QED
      BY <3>5, <3>7 DEF Pending, InPreambles
  <2> QED
    BY <1>4, <2>1, <2>3, <2>4, <2>5, <2>6 DEF Pending
<1>5. Alive' = Alive
  BY <1>1 DEF Alive
<1> QED
  BY <1>1, <1>4, <1>5, DueSame

\* The tasks that dequeue(n) erases are given up; the one it takes goes on.
LEMMA DueTake == ASSUME Types, DueInv, PreambleTake PROVE DueInv'
<1>1. /\ UNCHANGED <<todo, text, diag, diag_tasks, published>>
      /\ preamble.pc = "idle" /\ preamble_tasks /= <<>>
      /\ preamble_tasks' = SubSeq(preamble_tasks, Gone + 2, Len(preamble_tasks))
      /\ preamble' = IF g_quit THEN [pc |-> "left"]
                     ELSE [pc |-> "session", task |-> preamble_tasks[Gone + 1]]
  BY DEF PreambleTake, docAndClient, docVars, inVars, diagVars, Gone
<1>2. waived' = waived \cup {t.path : t \in {u \in {preamble_tasks[k] : k \in 1..Gone} :
                                              u.comp_task = NullTask}}
  BY DEF PreambleTake, Gone
<1>3. preamble_tasks \in Seq(PTasks) /\ Gone \in 0..(Len(preamble_tasks) - 1)
  BY <1>1, GoneRange DEF Types, QueuesOK
<1>4. \A k \in DOMAIN preamble_tasks :
        k <= Gone + 1 \/ (k - Gone - 1 \in DOMAIN preamble_tasks'
                          /\ preamble_tasks'[k - Gone - 1] = preamble_tasks[k])
  BY <1>1, <1>3, Cut
<1>5. ASSUME NEW p \in Paths \ waived', Alive', text[p] /= None, Pending(p)
      PROVE  Pending(p)'
  <2>1. ~AtPreamble(p)
    BY <1>1 DEF AtPreamble
  <2>2. CASE InPreambles(p)
    <3>1. PICK k \in DOMAIN preamble_tasks :
            preamble_tasks[k].path = p /\ preamble_tasks[k].comp_task = NullTask
      BY <2>2 DEF InPreambles
    <3>2. k \in Nat \ {0} /\ Gone \in Nat
      BY <1>3
    <3>3. ~(k <= Gone)
      <4>1. k <= Gone => k \in 1..Gone
        BY <3>2
      <4>2. k \in 1..Gone => preamble_tasks[k].path \in waived'
        BY <1>2, <3>1
      <4> QED
        BY <1>5, <3>1, <4>1, <4>2
    <3>4. CASE k = Gone + 1
      <4>1. preamble' = [pc |-> "session", task |-> preamble_tasks[k]]
        BY <1>1, <1>5, <3>4 DEF Alive
      <4>2. preamble'.pc = "session" /\ preamble'.task = preamble_tasks[k]
        BY <4>1
      <4> QED
        BY <3>1, <4>2 DEF Pending, AtPreamble
    <3>5. CASE k /= Gone + 1
      <4>1. ~(k <= Gone + 1)
        BY <3>2, <3>3, <3>5
      <4> QED
        BY <1>4, <3>1, <4>1 DEF Pending, InPreambles
    <3> QED
      BY <3>4, <3>5
  <2>3. CASE InTodo(p) \/ Opening(p) \/ InDiags(p) \/ AtDiag(p)
    BY <1>1, <2>3 DEF Pending, InTodo, Opening, InDiags, AtDiag
  <2> QED
    BY <1>5, <2>1, <2>2, <2>3 DEF Pending
<1>6. Alive' => Alive
  BY <1>1 DEF Alive
<1>7. waived \subseteq waived'
  BY <1>2
<1> QED
  BY <1>1, <1>5, <1>6, <1>7, DueSame

\* A preamble that nobody's completion waits for is followed by a diagnosis, built
\* or not.
LEMMA DueForward == ASSUME Types, Scope, NextDue, DueInv, PreambleForward PROVE DueInv'
<1> DEFINE t == preamble.task
<1>1. /\ UNCHANGED <<now, todo, text, preamble_tasks, published, waived>>
      /\ preamble.pc = "forward" /\ preamble' = Idle
      /\ diag' = diag \/ (diag.pc = "check" /\ diag' = [diag EXCEPT !.current = FALSE])
  BY DEF PreambleForward, docAndClient, docVars, inVars, outVars
<1>2. t \in PTask /\ {0, OnOpen, OnSave} \subseteq Nat
  BY <1>1, PreambleShape DEF Types, ThreadsOK, Scope
<1>3. /\ t.comp_task /= NullTask => UNCHANGED diag_tasks
      /\ t.comp_task = NullTask =>
           \E debounce \in {0, OnOpen, OnSave} : scheduleDiag(t.path, debounce)
  <2>1. {0, OnOpen, OnSave} \subseteq Int /\ 0 >= 0 /\ OnOpen >= 0 /\ OnSave >= 0
    BY <1>2
  <2> QED
    BY <2>1 DEF PreambleForward, diagVars
<1> HIDE DEF t
<1>4. /\ diag'.pc = diag.pc /\ (diag.pc = "sleep" => diag' = diag)
      /\ diag.pc = "parse" => diag' = diag
      /\ diag.pc = "check" => diag'.path = diag.path
  <2>1. CASE diag' = diag
    BY <2>1
  <2>2. CASE diag.pc = "check" /\ diag' = [diag EXCEPT !.current = FALSE]
    BY <2>2, DiagShape DEF Types, ThreadsOK, DiagOK
  <2> QED
    BY <1>1, <2>1, <2>2
<1>5. PICK r : r = t.path
  OBVIOUS
<1>6. ASSUME NEW p \in Paths \ waived', Alive', text[p] /= None, Pending(p)
      PROVE  Pending(p)'
  <2>1. diag'.pc /= "left" /\ now' = now
    BY <1>1, <1>6 DEF Alive
  <2>2. t.comp_task = NullTask =>
          /\ InDiags(r)' \/ AtDiag(r)'
          /\ \A k \in DOMAIN diag_tasks : \E j \in DOMAIN diag_tasks' : diag_tasks'[j] = diag_tasks[k]
    <3> HAVE t.comp_task = NullTask
    <3>1. PICK debounce \in {0, OnOpen, OnSave} : scheduleDiag(r, debounce)
      BY <1>3, <1>5
    <3>2. debounce \in Nat /\ r \in Paths
      BY <1>2, <1>5 DEF PTask
    <3> QED
      BY <1>4, <2>1, <3>1, <3>2, DueSchedule
  <2>3. CASE AtPreamble(p)
    <3>1. t.comp_task = NullTask /\ r = p
      BY <1>5, <2>3 DEF AtPreamble, t
    <3> QED
      BY <2>2, <3>1 DEF Pending
  <2>4. CASE InDiags(p)
    <3>1. \A k \in DOMAIN diag_tasks : \E j \in DOMAIN diag_tasks' : diag_tasks'[j] = diag_tasks[k]
      BY <1>3, <2>2
    <3> QED
      BY <2>4, <3>1 DEF Pending, InDiags
  <2>5. CASE AtDiag(p)
    BY <1>4, <2>5 DEF Pending, AtDiag
  <2>6. CASE InTodo(p) \/ Opening(p) \/ InPreambles(p)
    BY <1>1, <2>6 DEF Pending, InTodo, Opening, InPreambles
  <2> QED
    BY <1>6, <2>3, <2>4, <2>5, <2>6 DEF Pending
<1>7. Alive' => Alive
  BY <1>1, <1>4 DEF Alive
<1>8. diag.pc = "parse" \/ diag'.pc = "parse" => diag' = diag
  BY <1>4
<1> QED
  BY <1>1, <1>6, <1>7, <1>8, DueSame

LEMMA DueDiag == ASSUME Types, DueInv, DiagnosticMain PROVE DueInv'
<1>1. CASE DiagTake
  <2>1. /\ UNCHANGED <<todo, text, preamble, preamble_tasks, published, waived>>
        /\ diag.pc = "idle" /\ diag_tasks /= <<>> /\ diag_tasks' = Tail(diag_tasks)
        /\ diag' = IF g_quit THEN [pc |-> "left"] ELSE [pc |-> "sleep", task |-> Head(diag_tasks)]
    BY <1>1 DEF DiagTake, docAndClient, docVars, inVars, outVars
  <2>2. /\ Head(diag_tasks) = diag_tasks[1]
        /\ \A k \in DOMAIN diag_tasks :
             k = 1 \/ (k - 1 \in DOMAIN diag_tasks' /\ diag_tasks'[k - 1] = diag_tasks[k])
    BY <2>1, Popped DEF Types, QueuesOK
  <2>3. diag'.pc /= "left" => diag'.pc = "sleep" /\ diag'.task = diag_tasks[1]
    BY <2>1, <2>2
  <2>4. ASSUME NEW p \in Paths, Alive', Pending(p) PROVE Pending(p)'
    <3>1. ~AtDiag(p)
      BY <2>1 DEF AtDiag
    <3>2. CASE InDiags(p)
      BY <2>2, <2>3, <2>4, <3>2 DEF Alive, Pending, InDiags, AtDiag
    <3>3. CASE InTodo(p) \/ Opening(p) \/ InPreambles(p) \/ AtPreamble(p)
      BY <2>1, <3>3 DEF Pending, InTodo, Opening, InPreambles, AtPreamble
    <3> QED
      BY <2>4, <3>1, <3>2, <3>3 DEF Pending
  <2>5. /\ Alive' => Alive
        /\ diag.pc /= "parse" /\ diag'.pc /= "parse"
    BY <2>1 DEF Alive
  <2> QED
    BY <2>1, <2>4, <2>5, DueSame
<1>2. CASE DiagSession
  <2>1. /\ UNCHANGED <<todo, text, preamble, preamble_tasks, diag_tasks, published, waived>>
        /\ diag.pc = "sleep" /\ diag'.pc = "check" /\ diag'.path = diag.task.path
    BY <1>2 DEF DiagSession, docAndClient, docVars, inVars, diagVars, outVars
  <2>2. ASSUME NEW p \in Paths, Pending(p) PROVE Pending(p)'
    BY <2>1, <2>2 DEF Pending, InTodo, Opening, InPreambles, AtPreamble, InDiags, AtDiag
  <2>3. Alive' => Alive
    BY <2>1 DEF Alive
  <2> QED
    BY <2>1, <2>2, <2>3, DueSame
<1>3. CASE DiagCheck
  <2> DEFINE old == diag.preamble
             q == diag.path
             again == PreambleTask(q, NullTask, TRUE)
  <2>1. /\ UNCHANGED <<todo, text, preamble, diag_tasks, published, waived>> /\ diag.pc = "check"
        /\ \/ preamble_tasks' = Append(preamble_tasks, again) /\ diag' = Idle
           \/ /\ diag' = [pc |-> "parse", path |-> q, bounds |-> BoundsIn(old)]
              /\ preamble_tasks' = preamble_tasks
              /\ old = None \/ Fits(old.bounds, q)
    BY <1>3 DEF DiagCheck, docAndClient, docVars, inVars, diagVars, outVars
  <2>2. ASSUME NEW p \in Paths, Pending(p), p /= q PROVE Pending(p)'
    <3>1. ~AtDiag(p)
      BY <2>1, <2>2 DEF AtDiag
    <3> HIDE DEF again, q, old
    <3>2. CASE InPreambles(p)
      BY <2>1, <3>2, PendingGrows DEF Pending
    <3>3. CASE InTodo(p) \/ Opening(p) \/ AtPreamble(p) \/ InDiags(p)
      BY <2>1, <3>3 DEF Pending, InTodo, Opening, AtPreamble, InDiags
    <3> QED
      BY <2>2, <3>1, <3>2, <3>3 DEF Pending
  <2>3. CASE preamble_tasks' = Append(preamble_tasks, again) /\ diag' = Idle
    <3>1. preamble_tasks \in Seq(PTasks) /\ again.path = q /\ again.comp_task = NullTask
      BY DEF Types, QueuesOK, PreambleTask
    <3> HIDE DEF again
    <3>2. \E k \in DOMAIN preamble_tasks' : preamble_tasks'[k] = again
      BY <2>3, <3>1, Appended
    <3>3. ASSUME NEW p \in Paths, Pending(p) PROVE Pending(p)'
      <4>1. CASE p = q
        BY <3>1, <3>2, <4>1 DEF Pending, InPreambles
      <4> QED
        BY <2>2, <3>3, <4>1
    <3>4. Alive' => Alive
      BY <2>1 DEF Alive
    <3>5. diag.pc /= "parse" /\ diag'.pc /= "parse"
      BY <2>1, <2>3 DEF Idle
    <3> QED
      BY <2>1, <3>3, <3>4, <3>5, DueSame
  <2>4. CASE /\ diag' = [pc |-> "parse", path |-> q, bounds |-> BoundsIn(old)]
             /\ old = None \/ Fits(old.bounds, q)
    <3>1. diag'.pc = "parse" /\ diag'.path = q /\ diag'.bounds = BoundsIn(old)
      BY <2>4
    <3>2. ASSUME NEW p, p = q PROVE Fits(diag.bounds, p)'
      <4>1. Fits(BoundsIn(old), p)
        BY <2>4, <3>2 DEF BoundsIn, Fits
      <4>2. BoundsOf(p)' = BoundsOf(p)
        BY <2>1 DEF BoundsOf
      <4> QED
        BY <3>1, <4>1, <4>2 DEF Fits
    <3> HIDE DEF old, q
    <3>3. ASSUME NEW p \in Paths \ waived, text[p] /= None, Alive PROVE Followed(p)'
      <4>1. UpToDate(p)' = UpToDate(p) /\ BoundsOf(p)' = BoundsOf(p)
        BY <2>1 DEF UpToDate, BoundsOf
      <4>2. Followed(p) /\ ~Parsed(p)
        BY <2>1, <3>3 DEF DueInv, Alive, Parsed
      <4>3. CASE p = q
        BY <3>1, <3>2, <4>1, <4>3 DEF Followed, Parsed
      <4>4. CASE p /= q
        <5>1. ~Parsed(p)'
          BY <3>1, <4>4 DEF Parsed
        <5> QED
          BY <2>2, <4>1, <4>2, <4>4, <5>1 DEF Followed
      <4> QED
        BY <4>3, <4>4
    <3>4. Alive' => Alive
      BY <2>1 DEF Alive
    <3> QED
      BY <2>1, <3>3, <3>4 DEF DueInv, Alive
  <2> QED
    BY <2>1, <2>3, <2>4
<1>4. CASE DiagParse
  <2> DEFINE q == diag.path
             edit == IF text[q] = None THEN 0 ELSE text[q].edit
             fits == Fits(diag.bounds, q)
  <2>1. /\ UNCHANGED <<todo, text, preamble, preamble_tasks, diag_tasks>>
        /\ diag.pc = "parse" /\ diag' = Idle
        /\ \/ published' = [published EXCEPT ![q] = [edit |-> edit, fits |-> fits]]
              /\ waived' = waived
           \/ waived' = waived \cup {q} /\ published' = published
    BY <1>4 DEF DiagParse, docAndClient, docVars, inVars, diagVars
  <2>2. published = [p \in Paths |-> published[p]]
    BY DEF Types, OutOK
  <2> HIDE DEF edit, fits
  <2>3. ASSUME NEW p \in Paths, Pending(p) PROVE Pending(p)'
    <3>1. ~AtDiag(p)
      BY <2>1 DEF AtDiag
    <3> QED
      BY <2>1, <2>3, <3>1 DEF Pending, InTodo, Opening, InPreambles, AtPreamble, InDiags
  <2>4. ASSUME NEW p \in Paths \ waived', text[p] /= None, Alive PROVE UpToDate(p)' \/ Pending(p)'
    <3>1. Followed(p)
      BY <2>1, <2>4 DEF DueInv, Alive
    <3>2. CASE p /= q
      <4>1. published'[p] = published[p] /\ ~Parsed(p)
        BY <2>1, <2>2, <3>2 DEF Parsed
      <4>2. UpToDate(p)' = UpToDate(p)
        BY <2>1, <4>1 DEF UpToDate
      <4> QED
        BY <2>3, <3>1, <4>1, <4>2 DEF Followed
    <3>3. CASE p = q
      <4>1. published'[p] = [edit |-> edit, fits |-> fits]
        BY <2>1, <2>2, <2>4, <3>3
      <4>2. edit = text[p].edit
        BY <2>4, <3>3 DEF edit
      <4>3. fits \/ Pending(p)
        BY <2>1, <3>1, <3>3 DEF Followed, Parsed, fits
      <4>4. fits => fits = TRUE
        BY DEF fits, Fits
      <4>5. fits => UpToDate(p)'
        BY <2>1, <4>1, <4>2, <4>4 DEF UpToDate
      <4> QED
        BY <2>3, <4>3, <4>5
    <3> QED
      BY <3>2, <3>3
  <2>5. \A p \in Paths : ~Parsed(p)'
    BY <2>1 DEF Parsed, Idle
  <2>6. Alive' => Alive
    BY <2>1 DEF Alive
  <2> QED
    BY <2>1, <2>4, <2>5, <2>6 DEF DueInv, Alive, Followed
<1> QED
  BY <1>1, <1>2, <1>3, <1>4 DEF DiagnosticMain

LEMMA DueNext ==
  ASSUME Types, Scope, NextDue, DueInv, [Next]_vars PROVE DueInv'
<1>1. CASE PreambleSession \/ PreambleBuild
  <2>1. /\ UNCHANGED <<todo, text, diag, diag_tasks, preamble_tasks, published, waived>>
        /\ preamble.pc \in {"session", "build"} /\ preamble'.pc \in {"build", "forward"}
        /\ preamble'.task = preamble.task
    BY <1>1 DEF PreambleSession, PreambleBuild, docAndClient, docVars, inVars, diagVars, outVars
  <2>2. ASSUME NEW p \in Paths, Pending(p) PROVE Pending(p)'
    BY <2>1, <2>2 DEF Pending, InTodo, Opening, InPreambles, AtPreamble, InDiags, AtDiag
  <2>3. Alive' => Alive
    BY <2>1 DEF Alive
  <2> QED
    BY <2>1, <2>2, <2>3, DueSame
<1>2. CASE CompletionMain
  <2>1. /\ UNCHANGED <<todo, text, diag, diag_tasks, preamble, published, waived>>
        /\ \E x : preamble_tasks' = preamble_tasks \/ preamble_tasks' = Append(preamble_tasks, x)
    BY <1>2 DEF CompletionMain, CompTake, CompDrop, CompSession, CompComplete, docAndClient,
       docVars, inVars, diagVars, outVars
  <2>2. PICK x : preamble_tasks' = preamble_tasks \/ preamble_tasks' = Append(preamble_tasks, x)
    BY <2>1
  <2>3. ASSUME NEW p \in Paths, Pending(p) PROVE Pending(p)'
    <3>1. InPreambles(p) => InPreambles(p)'
      BY <2>1, <2>2, PendingGrows
    <3> QED
      BY <2>1, <2>3, <3>1 DEF Pending, InTodo, Opening, AtPreamble, InDiags, AtDiag
  <2>4. Alive' => Alive
    BY <2>1 DEF Alive
  <2> QED
    BY <2>1, <2>3, <2>4, DueSame
<1>3. CASE Tick \/ UNCHANGED vars
  <2>1. UNCHANGED <<todo, text, diag, diag_tasks, preamble, preamble_tasks, published, waived>>
    BY <1>3 DEF Tick, vars, docVars, inVars, diagVars, outVars
  <2>2. ASSUME NEW p \in Paths, Pending(p) PROVE Pending(p)'
    BY <2>1, <2>2 DEF Pending, InTodo, Opening, InPreambles, AtPreamble, InDiags, AtDiag
  <2>3. Alive' => Alive
    BY <2>1 DEF Alive
  <2> QED
    BY <2>1, <2>2, <2>3, DueSame
<1> QED
  BY <1>1, <1>2, <1>3, DueClient, DueMain, DueTake, DueForward, DueDiag DEF Next, PreambleMain

\* When all is done, what was last published for an open file is about its last
\* text and was read with a preamble of that text's size: no change is lost to
\* debouncing, to reopening, to the way over the preamble thread or to a preamble
\* that has aged.
THEOREM LastChangeDiagnosedHolds == ASSUME Scope PROVE Spec => []LastChangeDiagnosed
<1>1. Init => DiagnosedInv
  <2> SUFFICES ASSUME Init PROVE DiagnosedInv
    OBVIOUS
  <2>1. text = [p \in Paths |-> None] /\ next_diag = [p \in Paths |-> 0] /\ now = 1
    BY DEF Init
  <2>2. NextDue
    BY <2>1 DEF NextDue
  <2>3. DueInv
    BY <2>1 DEF DueInv
  <2> QED
    BY <2>2, <2>3 DEF DiagnosedInv
<1>2. Types /\ DiagnosedInv /\ [Next]_vars => DiagnosedInv'
  BY Scope, NextDueNext, DueNext DEF DiagnosedInv
<1>3. DiagnosedInv => LastChangeDiagnosed
  <2> SUFFICES ASSUME DiagnosedInv, Quiet, NEW p \in Paths \ waived, text[p] /= None
               PROVE  UpToDate(p)
    BY DEF LastChangeDiagnosed
  <2>1. /\ todo = <<>> /\ preamble_tasks = <<>> /\ diag_tasks = <<>>
        /\ preamble.pc = "idle" /\ diag.pc = "idle"
    BY DEF Quiet, Idle
  <2>2. Followed(p)
    BY <2>1 DEF DiagnosedInv, DueInv
  <2>3. ~Pending(p)
    BY <2>1 DEF Pending, InTodo, Opening, InPreambles, AtPreamble, InDiags, AtDiag
  <2>4. ~Parsed(p)
    BY <2>1 DEF Parsed
  <2> QED
    BY <2>2, <2>3, <2>4 DEF Followed
<1> QED
  BY <1>1, <1>2, <1>3, Typed, PTL DEF Spec
=============================================================================
