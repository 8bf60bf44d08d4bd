--------------------------- MODULE MainLoopProofs ---------------------------
(***************************************************************************)
(* Proofs about MainLoop for any files, time, number of requests and batch *)
(* size: the backlog and the pointers into it agree, each request is       *)
(* answered once or still waits, what waits waits for an update to come,   *)
(* and none is refused before its deadline.                                *)
(***************************************************************************)
EXTENDS MainLoop, SequenceTheorems, TLAPS

\* Requests are numbered as they are sent and keep that order in the queue of
\* messages, in the messages of a turn and in the backlog, one after the other.
IsRequest(ms, i) == i \in 1..Len(ms) /\ ms[i].method = "request"
Numbered(ms) == \A i \in 1..Len(ms) : IsRequest(ms, i) => ms[i].id \in 1..received
Ascends(ms) ==
  \A i, j \in 1..Len(ms) : i < j /\ IsRequest(ms, i) /\ IsRequest(ms, j) => ms[i].id < ms[j].id
Precedes(ms, ns) ==
  \A i \in 1..Len(ms), j \in 1..Len(ns) :
    IsRequest(ms, i) /\ IsRequest(ns, j) => ms[i].id < ns[j].id

InOrder ==
  /\ Numbered(on_request) /\ Numbered(turn.messages) /\ Numbered(backlog)
  /\ Ascends(on_request) /\ Ascends(turn.messages)
  /\ Precedes(backlog, turn.messages) /\ Precedes(backlog, on_request)
  /\ Precedes(turn.messages, on_request)

\* The rest of what an inductive invariant needs: only requests wait, the loop
\* reads its clock, a turn has messages only while it handles them, and nothing
\* is sent for a request to come.
Loop ==
  /\ \A k \in 1..Len(backlog) : backlog[k].method = "request"
  /\ turn.now <= now
  /\ phase /= "messages" => turn.messages = <<>>
  /\ \A id \in Requests : id > received => replies[id] = <<>>

LoopInv == TypeOK /\ InOrder /\ Loop /\ BacklogIndexed /\ AnsweredOnce /\ WaitsForUpdate

USE NoneAssumption, TimeAssumption, RequestsAssumption

----------------------------------------------------------------------------
\* TypeOK in parts.
Counters == now \in Nat /\ updates \in Nat /\ notes \in Nat /\ received \in 0..MaxRequests
Queues ==
  /\ on_request \in Seq(Messages) /\ on_indexed \in Seq(Updates) /\ backlog \in Seq(Messages)
  /\ turn \in [now : Nat, messages : Seq(Messages), left : 0..Batch, did_work : BOOLEAN]
Files == opened \subseteq Paths /\ indexed \subseteq Paths /\ owned \subseteq indexed
Answers ==
  /\ path2backlog \in [Paths -> Seq(Requests)]
  /\ replies \in [Requests -> Seq({"result", "not opened", "not indexed"})]
States == phase \in Phases /\ g_quit \in BOOLEAN

LEMMA Types == LoopInv => Counters /\ Queues /\ Files /\ Answers /\ States
  BY DEF LoopInv, TypeOK, Counters, Queues, Files, Answers, States

----------------------------------------------------------------------------
LEMMA BacklogFrame ==
  ASSUME BacklogIndexed, UNCHANGED <<backlog, path2backlog>>
  PROVE  BacklogIndexed'
<1>1. (\A i, j \in DOMAIN backlog : i < j => backlog[i].id < backlog[j].id)'
  BY DEF BacklogIndexed
<1>2. ASSUME NEW p \in Paths
      PROVE  PointersTo(p)' = WaitingFor(p)'
  <2>1. PointersTo(p)' = PointersTo(p)
    BY DEF PointersTo
  <2>2. WaitingFor(p)' = WaitingFor(p)
    BY DEF WaitingFor
  <2> QED
    BY <2>1, <2>2 DEF BacklogIndexed
<1>3. ASSUME NEW p \in Paths
      PROVE  (\A i, j \in DOMAIN path2backlog[p] :
                i < j => path2backlog[p][i] < path2backlog[p][j])'
  BY DEF BacklogIndexed
<1> QED
  BY <1>1, <1>2, <1>3 DEF BacklogIndexed

\* What keeps the messages, the requests and the backlog keeps their order.
LEMMA Frame ==
  ASSUME LoopInv, TypeOK', Loop',
         UNCHANGED <<on_request, received, turn.messages, backlog, path2backlog, replies, owned>>
  PROVE  LoopInv'
<1>1. InOrder'
  BY DEF LoopInv, InOrder, Numbered, Ascends, Precedes, IsRequest
<1>2. BacklogIndexed'
  BY BacklogFrame DEF LoopInv
<1>3. AnsweredOnce'
  BY DEF LoopInv, AnsweredOnce, Asked, Waiting
<1>4. WaitsForUpdate'
  BY DEF LoopInv, WaitsForUpdate
<1> QED
  BY <1>1, <1>2, <1>3, <1>4 DEF LoopInv

LEMMA InitLoop == Init => LoopInv
<1> SUFFICES ASSUME Init PROVE LoopInv
  OBVIOUS
<1>1. Counters /\ Queues /\ Files /\ Answers /\ States
  <2>1. Counters /\ Files
    BY DEF Init, Counters, Files
  <2>2. Queues
    BY DEF Init, NewTurn, Queues
  <2>3. Answers
    BY DEF Init, Answers
  <2>4. States
    BY DEF Init, States, Phases
  <2> QED
    BY <2>1, <2>2, <2>3, <2>4
<1>2. InOrder
  BY DEF Init, NewTurn, InOrder, Numbered, Ascends, Precedes, IsRequest
<1>3. Loop
  BY DEF Init, NewTurn, Loop
<1>4. BacklogIndexed /\ WaitsForUpdate
  BY DEF Init, BacklogIndexed, PointersTo, WaitingFor, WaitsForUpdate
<1>5. AnsweredOnce
  BY DEF Init, NewTurn, AnsweredOnce, Asked, Waiting
<1> QED
  BY <1>1, <1>2, <1>3, <1>4, <1>5
     DEF LoopInv, TypeOK, Counters, Queues, Files, Answers, States

\* A turn begins, or ends, without messages.
NoMessages(t) == turn' = [now |-> t, messages |-> <<>>, left |-> 0, did_work |-> FALSE]

LEMMA NewTurnTypes ==
  ASSUME NEW t \in Nat, NoMessages(t)
  PROVE  turn' \in [now : Nat, messages : Seq(Messages), left : 0..Batch, did_work : BOOLEAN]
  BY DEF NoMessages

LEMMA TickStep == ASSUME LoopInv, Tick PROVE LoopInv'
<1> USE DEF Tick, dbVars, loopVars, backVars
<1>1. Counters'
  BY Types DEF Counters
<1>2. Queues' /\ Files' /\ Answers' /\ States'
  BY Types DEF Queues, Files, Answers, States
<1>3. TypeOK'
  BY <1>1, <1>2 DEF TypeOK, Counters, Queues, Files, Answers, States
<1>4. turn.now' <= now'
  <2>1. now \in Nat /\ turn.now \in Nat /\ turn.now <= now
    BY Types DEF Counters, Queues, LoopInv, Loop
  <2> QED
    BY <2>1
<1>5. Loop'
  BY <1>4 DEF LoopInv, Loop
<1> QED
  BY <1>3, <1>5, Frame

LEMMA IndexedStep == ASSUME LoopInv, Indexed PROVE LoopInv'
<1> USE DEF Indexed, dbVars, loopVars, backVars
<1>1. Counters'
  BY Types DEF Counters
<1>2. on_indexed' \in Seq(Updates)
  <2>1. PICK u \in Updates : on_indexed' = Append(on_indexed, u)
    OBVIOUS
  <2> QED
    BY <2>1, Types DEF Queues
<1>3. TypeOK'
  <2>1. Queues' /\ Files' /\ Answers' /\ States'
    BY <1>2, Types DEF Queues, Files, Answers, States
  <2> QED
    BY <1>1, <2>1 DEF TypeOK, Counters, Queues, Files, Answers, States
<1>4. Loop'
  BY DEF LoopInv, Loop
<1> QED
  BY <1>3, <1>4, Frame

LEMMA WakeStep == ASSUME LoopInv, Wake PROVE LoopInv'
<1> USE DEF Wake, inVars, dbVars, backVars
<1>1. NoMessages(now)
  BY DEF NewTurn, NoMessages
<1>2. Counters' /\ Files' /\ Answers' /\ States'
  BY Types DEF Counters, Files, Answers, States, Phases
<1>3. Queues'
  <2>1. now \in Nat
    BY Types DEF Counters
  <2>2. turn' \in [now : Nat, messages : Seq(Messages), left : 0..Batch, did_work : BOOLEAN]
    BY <1>1, <2>1, NewTurnTypes
  <2> QED
    BY Types, <2>2 DEF Queues
<1>4. TypeOK'
  BY <1>2, <1>3 DEF TypeOK, Counters, Queues, Files, Answers, States
<1>5. turn.messages' = <<>> /\ turn.now' <= now' /\ turn.messages = <<>>
  BY <1>1, Types DEF NoMessages, LoopInv, Loop, Counters
<1>6. Loop'
  BY <1>5 DEF LoopInv, Loop
<1> QED
  BY <1>4, <1>5, <1>6, Frame

LEMMA HandledStep == ASSUME LoopInv, Handled PROVE LoopInv'
<1> USE DEF Handled, inVars, dbVars, backVars
<1>1. turn' = [now |-> turn.now, messages |-> turn.messages, left |-> Batch,
               did_work |-> turn.did_work]
  BY Types DEF Queues
<1>2. Counters' /\ Files' /\ Answers' /\ States'
  BY Types DEF Counters, Files, Answers, States, Phases
<1>3. Queues'
  <2>1. turn' \in [now : Nat, messages : Seq(Messages), left : 0..Batch, did_work : BOOLEAN]
    BY Types DEF Queues
  <2> QED
    BY Types, <2>1 DEF Queues
<1>4. TypeOK'
  BY <1>2, <1>3 DEF TypeOK, Counters, Queues, Files, Answers, States
<1>5. Loop'
  BY <1>1 DEF LoopInv, Loop
<1> QED
  BY <1>1, <1>4, <1>5, Frame

LEMMA EndTurnStep == ASSUME LoopInv, EndTurn PROVE LoopInv'
<1> USE DEF EndTurn, inVars, dbVars, backVars
<1>1. PICK t \in {0, now} : NoMessages(t)
  BY DEF NewTurn, NoMessages
<1>2. Counters' /\ Files' /\ Answers' /\ States'
  BY Types DEF Counters, Files, Answers, States, Phases
<1>3. Queues'
  <2>1. now \in Nat
    BY Types DEF Counters
  <2>2. turn' \in [now : Nat, messages : Seq(Messages), left : 0..Batch, did_work : BOOLEAN]
    BY <1>1, <2>1, NewTurnTypes
  <2> QED
    BY Types, <2>2 DEF Queues
<1>4. TypeOK'
  BY <1>2, <1>3 DEF TypeOK, Counters, Queues, Files, Answers, States
<1>5. turn.messages' = <<>> /\ turn.now' <= now' /\ turn.messages = <<>>
  BY <1>1, Types DEF NoMessages, LoopInv, Loop, Counters
<1>6. Loop'
  BY <1>5 DEF LoopInv, Loop
<1> QED
  BY <1>4, <1>5, <1>6, Frame

----------------------------------------------------------------------------
(* Sequences of messages *)

LEMMA MessageFields ==
  ASSUME NEW m \in Messages
  PROVE  m.id \in Requests \cup {None} /\ m.path \in Paths /\ m.deadline \in Nat
  BY DEF Messages

LEMMA TailOf ==
  ASSUME NEW S, NEW s \in Seq(S), s /= <<>>
  PROVE  /\ Tail(s) \in Seq(S) /\ Head(s) = s[1] /\ Head(s) \in S
         /\ Len(s) \in Nat /\ Len(s) > 0 /\ Len(Tail(s)) = Len(s) - 1
         /\ \A i \in 1..Len(Tail(s)) : Tail(s)[i] = s[i + 1]
         /\ \A i \in 2..Len(s) : i - 1 \in 1..Len(Tail(s)) /\ Tail(s)[i - 1] = s[i]
  OBVIOUS

LEMMA AppendOf ==
  ASSUME NEW S, NEW s \in Seq(S), NEW x \in S
  PROVE  /\ Append(s, x) \in Seq(S) /\ Len(s) \in Nat
         /\ Len(Append(s, x)) = Len(s) + 1 /\ Append(s, x)[Len(s) + 1] = x
         /\ \A i \in 1..Len(s) : Append(s, x)[i] = s[i]
  OBVIOUS

LEMMA AskedMember ==
  ASSUME NEW s \in Seq(Messages), NEW id
  PROVE  id \in Asked(s) <=> \E i \in 1..Len(s) : IsRequest(s, i) /\ s[i].id = id
  BY DEF Asked, IsRequest

LEMMA AskedTail ==
  ASSUME NEW s \in Seq(Messages), s /= <<>>
  PROVE  Asked(s) = Asked(Tail(s)) \cup {id \in {Head(s).id} : Head(s).method = "request"}
<1>1. ASSUME NEW id \in Asked(s)
      PROVE  id \in Asked(Tail(s)) \cup {i \in {Head(s).id} : Head(s).method = "request"}
  <2>1. PICK i \in 1..Len(s) : IsRequest(s, i) /\ s[i].id = id
    BY <1>1, AskedMember
  <2>2. CASE i = 1
    BY <2>1, <2>2, TailOf DEF IsRequest
  <2>3. CASE i /= 1
    <3>1. i \in 2..Len(s)
      BY <2>3, TailOf
    <3>2. i - 1 \in 1..Len(Tail(s)) /\ Tail(s)[i - 1] = s[i]
      BY <3>1, TailOf
    <3>3. IsRequest(Tail(s), i - 1)
      BY <2>1, <3>2 DEF IsRequest
    <3> QED
      BY <2>1, <3>2, <3>3, AskedMember, TailOf
  <2> QED
    BY <2>2, <2>3
<1>2. ASSUME NEW id \in Asked(Tail(s)) PROVE id \in Asked(s)
  <2> Tail(s) \in Seq(Messages)
    BY TailOf
  <2>1. PICK i \in 1..Len(Tail(s)) : IsRequest(Tail(s), i) /\ Tail(s)[i].id = id
    BY <1>2, AskedMember
  <2>2. i + 1 \in 1..Len(s) /\ s[i + 1] = Tail(s)[i]
    BY TailOf
  <2> QED
    BY <2>1, <2>2, AskedMember DEF IsRequest
<1>3. ASSUME Head(s).method = "request" PROVE Head(s).id \in Asked(s)
  BY <1>3, TailOf, AskedMember DEF IsRequest
<1> QED
  BY <1>1, <1>2, <1>3

LEMMA AskedAppend ==
  ASSUME NEW s \in Seq(Messages), NEW m \in Messages
  PROVE  Asked(Append(s, m)) = Asked(s) \cup {id \in {m.id} : m.method = "request"}
<1> DEFINE t == Append(s, m)
<1>1. /\ t \in Seq(Messages) /\ Len(s) \in Nat /\ Len(t) = Len(s) + 1 /\ t[Len(s) + 1] = m
      /\ \A i \in 1..Len(s) : t[i] = s[i]
  BY AppendOf
<1> HIDE DEF t
<1>2. ASSUME NEW id \in Asked(t)
      PROVE  id \in Asked(s) \cup {i \in {m.id} : m.method = "request"}
  <2>1. PICK i \in 1..Len(t) : IsRequest(t, i) /\ t[i].id = id
    BY <1>1, <1>2, AskedMember
  <2>2. CASE i = Len(s) + 1
    BY <1>1, <2>1, <2>2 DEF IsRequest
  <2>3. CASE i \in 1..Len(s)
    BY <1>1, <2>1, <2>3, AskedMember DEF IsRequest
  <2> QED
    BY <1>1, <2>2, <2>3
<1>3. ASSUME NEW id \in Asked(s) PROVE id \in Asked(t)
  <2>1. PICK i \in 1..Len(s) : IsRequest(s, i) /\ s[i].id = id
    BY <1>3, AskedMember
  <2>2. i \in 1..Len(t) /\ t[i] = s[i]
    BY <1>1
  <2> QED
    BY <1>1, <2>1, <2>2, AskedMember DEF IsRequest
<1>4. ASSUME m.method = "request" PROVE m.id \in Asked(t)
  BY <1>1, <1>4, AskedMember DEF IsRequest
<1> QED
  BY <1>2, <1>3, <1>4 DEF t

\* The order of what is left when the first is taken.
LEMMA OrderOfTail ==
  ASSUME NEW s \in Seq(Messages), s /= <<>>
  PROVE  /\ Ascends(s) => Ascends(Tail(s))
         /\ Numbered(s) => Numbered(Tail(s))
         /\ \A t \in Seq(Messages) : Precedes(s, t) => Precedes(Tail(s), t)
         /\ \A t \in Seq(Messages) : Precedes(t, s) => Precedes(t, Tail(s))
<1>1. ASSUME NEW i \in 1..Len(Tail(s))
      PROVE  /\ i + 1 \in 1..Len(s) /\ Tail(s)[i] = s[i + 1]
             /\ IsRequest(Tail(s), i) => IsRequest(s, i + 1)
  BY TailOf DEF IsRequest
<1>2. Ascends(s) => Ascends(Tail(s))
  BY <1>1 DEF Ascends
<1>3. Numbered(s) => Numbered(Tail(s))
  BY <1>1 DEF Numbered
<1>4. ASSUME NEW t \in Seq(Messages)
      PROVE  (Precedes(s, t) => Precedes(Tail(s), t)) /\ (Precedes(t, s) => Precedes(t, Tail(s)))
  BY <1>1 DEF Precedes
<1> QED
  BY <1>2, <1>3, <1>4

\* The order of what a message is added to that is not less than any.
LEMMA OrderOfAppend ==
  ASSUME NEW s \in Seq(Messages), NEW m \in Messages
  PROVE  /\ /\ Ascends(s)
            /\ m.method = "request" => \A i \in 1..Len(s) : IsRequest(s, i) => s[i].id < m.id
            => Ascends(Append(s, m))
         /\ \A t \in Seq(Messages) :
              /\ Precedes(t, s)
              /\ m.method = "request" => \A i \in 1..Len(t) : IsRequest(t, i) => t[i].id < m.id
              => Precedes(t, Append(s, m))
         /\ \A t \in Seq(Messages) :
              /\ Precedes(s, t)
              /\ m.method = "request" => \A i \in 1..Len(t) : IsRequest(t, i) => m.id < t[i].id
              => Precedes(Append(s, m), t)
<1> DEFINE t == Append(s, m)
<1>1. /\ Len(s) \in Nat /\ Len(t) = Len(s) + 1 /\ t[Len(s) + 1] = m
      /\ \A i \in 1..Len(s) : t[i] = s[i]
  BY AppendOf
<1> HIDE DEF t
<1>2. \A i \in 1..Len(s) : IsRequest(t, i) <=> IsRequest(s, i)
  BY <1>1 DEF IsRequest
<1>3. IsRequest(t, Len(s) + 1) <=> m.method = "request"
  BY <1>1 DEF IsRequest
<1>4. \A i \in 1..Len(t) : i \in 1..Len(s) \/ i = Len(s) + 1
  BY <1>1
<1>5. ASSUME Ascends(s), m.method = "request" => \A i \in 1..Len(s) : IsRequest(s, i) => s[i].id < m.id
      PROVE  Ascends(t)
  BY <1>1, <1>2, <1>3, <1>4, <1>5 DEF Ascends
<1>6. ASSUME NEW u \in Seq(Messages), Precedes(u, s),
             m.method = "request" => \A i \in 1..Len(u) : IsRequest(u, i) => u[i].id < m.id
      PROVE  Precedes(u, t)
  BY <1>1, <1>2, <1>3, <1>4, <1>6 DEF Precedes
<1>7. ASSUME NEW u \in Seq(Messages), Precedes(s, u),
             m.method = "request" => \A i \in 1..Len(u) : IsRequest(u, i) => m.id < u[i].id
      PROVE  Precedes(t, u)
  BY <1>1, <1>2, <1>3, <1>4, <1>7 DEF Precedes
<1> QED
  BY <1>5, <1>6, <1>7 DEF t

----------------------------------------------------------------------------
(* The steps that move messages *)

Unanswered == {id \in 1..received : replies[id] = <<>>}

\* A client's request is numbered after all others.
LEMMA ReceiveStep == ASSUME LoopInv, Receive PROVE LoopInv'
<1> USE DEF dbVars, loopVars, backVars
<1>1. PICK m \in Messages :
        /\ on_request' = Append(on_request, m)
        /\ \/ /\ m.method = "request" /\ received < MaxRequests
              /\ received' = received + 1 /\ m.id = received' /\ notes' = notes
           \/ m.method /= "request" /\ received' = received /\ notes' = notes + 1
  <2>1. now + Timeout \in Nat /\ received \in Nat /\ MaxRequests \in Nat /\ received \in 0..MaxRequests
    BY Types DEF Counters
  <2>2. CASE \E p \in Paths :
          /\ received < MaxRequests /\ received' = received + 1
          /\ on_request' = Append(on_request, Message("request", received', p))
          /\ UNCHANGED notes
    <3>1. PICK p \in Paths : on_request' = Append(on_request, Message("request", received', p))
      BY <2>2
    <3>2. received' \in Requests
      BY <2>1, <2>2 DEF Requests
    <3>3. Message("request", received', p) \in Messages
      BY <2>1, <3>2 DEF Message, Messages, Methods
    <3> QED
      BY <2>2, <3>1, <3>3 DEF Message
  <2>3. CASE \E method \in Methods \ {"request"}, p \in Paths :
          /\ on_request' = Append(on_request, Message(method, None, p))
          /\ notes' = notes + 1 /\ UNCHANGED received
    <3>1. PICK method \in Methods \ {"request"}, p \in Paths :
            on_request' = Append(on_request, Message(method, None, p))
      BY <2>3
    <3>2. Message(method, None, p) \in Messages
      BY <2>1 DEF Message, Messages, Methods
    <3> QED
      BY <2>3, <3>1, <3>2 DEF Message
  <2> QED
    BY <2>2, <2>3 DEF Receive
<1>2. UNCHANGED <<now, on_indexed, updates, turn, phase, opened, indexed, owned, backlog,
                  path2backlog, replies, g_quit>>
  BY DEF Receive
<1>3. on_request' \in Seq(Messages)
  BY <1>1, Types DEF Queues
<1>4. TypeOK'
  <2>1. Counters'
    BY <1>1, <1>2, Types DEF Counters
  <2>2. Queues' /\ Files' /\ Answers' /\ States'
    BY <1>2, <1>3, Types DEF Queues, Files, Answers, States
  <2> QED
    BY <2>1, <2>2 DEF TypeOK, Counters, Queues, Files, Answers, States
<1>5. /\ on_request \in Seq(Messages) /\ turn.messages \in Seq(Messages) /\ backlog \in Seq(Messages)
      /\ received \in Nat /\ MaxRequests \in Nat /\ received' \in Nat /\ received <= received'
  BY <1>1, Types DEF Queues, Counters
<1>6. InOrder'
  <2>1. \A s \in Seq(Messages) : Numbered(s) /\ m.method = "request" =>
          \A i \in 1..Len(s) : IsRequest(s, i) => s[i].id < m.id
    BY <1>1, <1>5 DEF Numbered
  <2>2. \A s \in Seq(Messages) : Numbered(s) =>
          \A i \in 1..Len(s) : IsRequest(s, i) => s[i].id \in 1..received'
    BY <1>5 DEF Numbered
  <2>3. Ascends(on_request') /\ Precedes(backlog, on_request') /\ Precedes(turn.messages, on_request')
    BY <1>1, <1>5, <2>1, OrderOfAppend DEF LoopInv, InOrder
  <2>4. \A i \in 1..Len(on_request') : IsRequest(on_request', i) => on_request'[i].id \in 1..received'
    <3> TAKE i \in 1..Len(on_request')
    <3>1. CASE i \in 1..Len(on_request)
      BY <1>1, <1>5, <2>2, <3>1, AppendOf DEF LoopInv, InOrder, IsRequest
    <3>2. CASE i = Len(on_request) + 1
      BY <1>1, <1>5, <3>2, AppendOf DEF IsRequest
    <3> QED
      BY <1>1, <1>5, <3>1, <3>2, AppendOf
  <2> QED
    BY <1>2, <1>5, <2>2, <2>3, <2>4 DEF LoopInv, InOrder, Numbered, Ascends, Precedes, IsRequest
<1>7. Loop'
  <2>1. ASSUME NEW id \in Requests, id > received' PROVE replies[id] = <<>>
    BY <1>5, <2>1 DEF LoopInv, Loop, Requests
  <2> QED
    BY <1>2, <2>1 DEF LoopInv, Loop
<1>8. AnsweredOnce'
  <2>1. Asked(on_request)' = Asked(on_request) \cup {id \in {m.id} : m.method = "request"}
    BY <1>1, <1>5, AskedAppend
  <2>2. Unanswered' = Unanswered \cup {id \in {m.id} : m.method = "request"}
    <3>1. CASE m.method = "request"
      <4>1. m.id = received + 1 /\ m.id \in Requests /\ replies[m.id] = <<>>
        BY <1>1, <1>5, <3>1, Types DEF Requests, Counters, LoopInv, Loop
      <4> QED
        BY <1>1, <1>2, <1>5, <3>1, <4>1 DEF Unanswered
    <3>2. CASE m.method /= "request"
      BY <1>1, <1>2, <3>2 DEF Unanswered
    <3> QED
      BY <3>1, <3>2
  <2>3. Waiting' = Waiting /\ Asked(turn.messages)' = Asked(turn.messages)
    BY <1>2 DEF Waiting, Asked
  <2> QED
    BY <1>2, <2>1, <2>2, <2>3 DEF LoopInv, AnsweredOnce, Unanswered
<1>9. BacklogIndexed'
  BY <1>2, BacklogFrame DEF LoopInv
<1>10. WaitsForUpdate'
  BY <1>2 DEF LoopInv, WaitsForUpdate
<1> QED
  BY <1>4, <1>6, <1>7, <1>8, <1>9, <1>10 DEF LoopInv

LEMMA ExpiredStep == ASSUME LoopInv, Expired PROVE LoopInv'
<1> USE DEF dbVars, backVars
<1>1. /\ turn' = [now |-> turn.now, messages |-> on_request, left |-> turn.left,
                  did_work |-> on_request /= <<>>]
      /\ on_request' = <<>> /\ turn.messages = <<>> /\ phase' = "messages"
      /\ UNCHANGED <<now, on_indexed, updates, notes, received, opened, indexed, owned, backlog,
                     path2backlog, replies, g_quit>>
  BY Types DEF Expired, Queues, LoopInv, Loop
<1>2. TypeOK'
  <2>1. Counters' /\ Files' /\ Answers' /\ States'
    BY <1>1, Types DEF Counters, Files, Answers, States, Phases
  <2>2. on_request \in Seq(Messages) /\ turn.now \in Nat /\ turn.left \in 0..Batch
    BY Types DEF Queues
  <2>3. turn' \in [now : Nat, messages : Seq(Messages), left : 0..Batch, did_work : BOOLEAN]
    BY <1>1, <2>2
  <2>4. Queues'
    BY <1>1, <2>3, Types DEF Queues
  <2> QED
    BY <2>1, <2>4 DEF TypeOK, Counters, Queues, Files, Answers, States
<1>3. turn.messages' = on_request /\ turn.now' = turn.now
  BY <1>1
<1>4. InOrder'
  BY <1>1, <1>3 DEF LoopInv, InOrder, Numbered, Ascends, Precedes, IsRequest
<1>5. Loop'
  BY <1>1, <1>3 DEF LoopInv, Loop
<1>6. AnsweredOnce'
  <2>1. /\ Asked(turn.messages)' = Asked(on_request) /\ Asked(on_request)' = {}
        /\ Asked(turn.messages) = {}
    BY <1>1, <1>3 DEF Asked
  <2>2. Waiting' = Waiting
    BY <1>1 DEF Waiting
  <2> QED
    BY <1>1, <2>1, <2>2 DEF LoopInv, AnsweredOnce
<1>7. BacklogIndexed' /\ WaitsForUpdate'
  BY <1>1, BacklogFrame DEF LoopInv, WaitsForUpdate
<1> QED
  BY <1>2, <1>4, <1>5, <1>6, <1>7 DEF LoopInv

----------------------------------------------------------------------------
(* The steps that answer requests or let them wait *)

LEMMA WaitingMember ==
  ASSUME LoopInv, NEW id
  PROVE  id \in Waiting <=> \E k \in 1..Len(backlog) :
                             backlog[k].backlog_path /= None /\ backlog[k].id = id
  BY Types DEF Waiting, Queues

\* The backlog is all requests, in their order.
LEMMA BacklogOrder ==
  ASSUME LoopInv
  PROVE  /\ \A k \in 1..Len(backlog) : IsRequest(backlog, k) /\ backlog[k].id \in 1..received
         /\ Ascends(backlog)
<1>1. backlog \in Seq(Messages)
  BY Types DEF Queues
<1>2. \A k \in 1..Len(backlog) : IsRequest(backlog, k)
  BY DEF LoopInv, Loop, IsRequest
<1>3. \A k \in 1..Len(backlog) : backlog[k].id \in 1..received
  BY <1>2 DEF LoopInv, InOrder, Numbered
<1>4. Ascends(backlog)
  BY <1>1 DEF LoopInv, BacklogIndexed, Ascends
<1> QED
  BY <1>2, <1>3, <1>4

\* A request that is answered or waits is none of those that are still asked.
LEMMA HeadIsNew ==
  ASSUME LoopInv, turn.messages /= <<>>, Head(turn.messages).method = "request"
  PROVE  /\ Head(turn.messages).id \in 1..received
         /\ Head(turn.messages).id \notin Asked(Tail(turn.messages)) \cup Asked(on_request) \cup Waiting
         /\ \A k \in 1..Len(backlog) : backlog[k].id < Head(turn.messages).id
<1> DEFINE ms == turn.messages
           m == Head(ms)
<1>1. ms \in Seq(Messages) /\ on_request \in Seq(Messages) /\ received \in Nat /\ backlog \in Seq(Messages)
  BY Types DEF Queues, Counters
<1>2. /\ Tail(ms) \in Seq(Messages) /\ m = ms[1] /\ Len(ms) \in Nat /\ Len(ms) > 0
      /\ \A i \in 1..Len(Tail(ms)) : Tail(ms)[i] = ms[i + 1] /\ i + 1 \in 2..Len(ms)
  BY <1>1, TailOf
<1>3. IsRequest(ms, 1)
  BY <1>2 DEF IsRequest
<1>4. m.id \in 1..received
  BY <1>1, <1>2, <1>3 DEF LoopInv, InOrder, Numbered
<1>5. m.id \notin Asked(Tail(ms))
  <2>1. SUFFICES ASSUME NEW i \in 1..Len(Tail(ms)), IsRequest(Tail(ms), i), Tail(ms)[i].id = m.id
                 PROVE  FALSE
    BY <1>2, AskedMember
  <2>2. IsRequest(ms, i + 1) /\ 1 < i + 1 /\ i + 1 \in 1..Len(ms) /\ 1 \in 1..Len(ms)
    BY <1>2, <2>1 DEF IsRequest
  <2>3. ms[1].id < ms[i + 1].id
    BY <1>3, <2>2 DEF LoopInv, InOrder, Ascends
  <2> QED
    BY <1>1, <1>2, <1>4, <2>1, <2>3
<1>6. m.id \notin Asked(on_request)
  <2>1. SUFFICES ASSUME NEW i \in 1..Len(on_request), IsRequest(on_request, i), on_request[i].id = m.id
                 PROVE  FALSE
    BY <1>1, AskedMember
  <2>2. ms[1].id < on_request[i].id
    BY <1>2, <1>3, <2>1 DEF LoopInv, InOrder, Precedes
  <2> QED
    BY <1>1, <1>2, <1>4, <2>1, <2>2
<1>7. \A k \in 1..Len(backlog) : backlog[k].id < m.id
  BY <1>2, <1>3, BacklogOrder DEF LoopInv, InOrder, Precedes
<1>8. m.id \notin Waiting
  <2>1. SUFFICES ASSUME NEW k \in 1..Len(backlog), backlog[k].id = m.id PROVE FALSE
    BY WaitingMember
  <2>2. backlog[k].id \in Nat /\ m.id \in Nat
    BY <1>1, <1>4, BacklogOrder
  <2> QED
    BY <1>7, <2>1, <2>2
<1> QED
  BY <1>4, <1>5, <1>6, <1>7, <1>8

LEMMA ReceivedIds ==
  ASSUME received \in 0..MaxRequests
  PROVE  received \in Nat /\ \A r \in 1..received : r \in Requests
  BY DEF Requests

\* What is answered was not answered before.
LEMMA AnswerOnce ==
  ASSUME LoopInv, NEW id \in Requests, NEW S, NEW what \in S, replies \in [Requests -> Seq(S)],
         id \in Asked(turn.messages) \cup Waiting,
         Reply(id, what), received' = received
  PROVE  /\ replies' \in [Requests -> Seq(S)]
         /\ \A r \in Requests : Len(replies'[r]) <= 1
         /\ Unanswered' = Unanswered \ {id}
         /\ \A r \in Requests : r > received => replies'[r] = <<>>
<1>1. replies[id] = <<>> /\ id \in 1..received
  BY DEF LoopInv, AnsweredOnce
<1>2. replies \in [Requests -> Seq(S)]
  OBVIOUS
<1>3. received \in Nat /\ \A r \in 1..received : r \in Requests
  <2>1. received \in 0..MaxRequests
    BY Types DEF Counters
  <2> QED
    BY <2>1, ReceivedIds
<1> DEFINE one == Append(<<>>, what)
<1>4. one \in Seq(S) /\ Len(one) = 1 /\ one /= <<>>
  <2>1. <<>> \in Seq(S) /\ Len(<<>>) = 0
    OBVIOUS
  <2>2. one \in Seq(S) /\ Len(one) = 1
    BY <2>1, AppendOf
  <2> QED
    BY <2>1, <2>2
<1>5. replies' = [replies EXCEPT ![id] = one]
  BY <1>1 DEF Reply
<1> HIDE DEF one
<1>6. replies'[id] = one /\ \A r \in Requests : r /= id => replies'[r] = replies[r]
  BY <1>2, <1>5
<1>7. replies' \in [Requests -> Seq(S)]
  BY <1>2, <1>4, <1>5
<1>8. ASSUME NEW r \in Requests PROVE Len(replies'[r]) <= 1
  <2>1. Len(replies[r]) <= 1
    BY DEF LoopInv, AnsweredOnce
  <2> QED
    <3>1. CASE r = id
      <4>1. replies'[r] = one
        BY <1>6, <3>1
      <4>2. Len(replies'[r]) = 1
        BY <1>4, <4>1
      <4> QED
        BY <4>2
    <3>2. CASE r /= id
      <4>1. replies'[r] = replies[r]
        BY <1>6, <3>2
      <4> QED
        BY <2>1, <4>1
    <3> QED
      BY <3>1, <3>2
<1>9. Unanswered' = Unanswered \ {id}
  BY <1>3, <1>4, <1>6 DEF Unanswered
<1>10. ASSUME NEW r \in Requests, r > received PROVE replies'[r] = <<>>
  <2>1. id \in Nat /\ id <= received /\ r \in Nat
    BY <1>1, <1>3 DEF Requests
  <2> QED
    BY <1>3, <1>6, <1>10, <2>1 DEF LoopInv, Loop
<1> QED
  BY <1>7, <1>8, <1>9, <1>10

\* Of numbers in ascending order the first is none of the others.
LEMMA AscendingTail ==
  ASSUME NEW s \in Seq(Nat), s /= <<>>,
         \A i, j \in DOMAIN s : i < j => s[i] < s[j]
  PROVE  /\ {Tail(s)[k] : k \in DOMAIN Tail(s)} = {s[k] : k \in DOMAIN s} \ {s[1]}
         /\ \A i, j \in DOMAIN Tail(s) : i < j => Tail(s)[i] < Tail(s)[j]
<1>1. /\ Len(s) \in Nat /\ Len(s) > 0 /\ Tail(s) \in Seq(Nat) /\ Len(Tail(s)) = Len(s) - 1
      /\ \A i \in 1..Len(Tail(s)) : Tail(s)[i] = s[i + 1] /\ i + 1 \in 2..Len(s)
      /\ \A i \in 2..Len(s) : i - 1 \in 1..Len(Tail(s)) /\ Tail(s)[i - 1] = s[i]
  BY TailOf
<1>2. DOMAIN s = 1..Len(s) /\ DOMAIN Tail(s) = 1..Len(Tail(s))
  BY <1>1
<1>3. \A i \in 2..Len(s) : s[1] < s[i] /\ s[i] \in Nat /\ s[1] \in Nat
  BY <1>1, <1>2
<1>4. ASSUME NEW k \in 1..Len(Tail(s)) PROVE \E n \in 1..Len(s) : Tail(s)[k] = s[n] /\ s[n] /= s[1]
  BY <1>1, <1>3
<1>5. ASSUME NEW n \in 1..Len(s), s[n] /= s[1] PROVE \E k \in 1..Len(Tail(s)) : Tail(s)[k] = s[n]
  <2>1. n \in 2..Len(s)
    BY <1>1, <1>5
  <2> QED
    BY <1>1, <2>1
<1>6. {Tail(s)[k] : k \in DOMAIN Tail(s)} = {s[k] : k \in DOMAIN s} \ {s[1]}
  <2>1. ASSUME NEW k \in DOMAIN Tail(s) PROVE Tail(s)[k] \in {s[n] : n \in DOMAIN s} \ {s[1]}
    BY <1>2, <1>4
  <2>2. ASSUME NEW n \in DOMAIN s, s[n] /= s[1] PROVE s[n] \in {Tail(s)[k] : k \in DOMAIN Tail(s)}
    BY <1>2, <1>5, <2>2
  <2> QED
    BY <2>1, <2>2
<1>7. ASSUME NEW i \in DOMAIN Tail(s), NEW j \in DOMAIN Tail(s), i < j
      PROVE  Tail(s)[i] < Tail(s)[j]
  <2>1. i \in Nat /\ j \in Nat /\ i + 1 \in DOMAIN s /\ j + 1 \in DOMAIN s /\ i + 1 < j + 1
    BY <1>1, <1>2, <1>7
  <2>2. s[i + 1] < s[j + 1]
    BY <2>1
  <2> QED
    BY <1>1, <1>2, <2>2
<1> QED
  BY <1>6, <1>7

LEMMA AscendingAppend ==
  ASSUME NEW s \in Seq(Nat), NEW x \in Nat,
         \A i, j \in DOMAIN s : i < j => s[i] < s[j],
         \A i \in DOMAIN s : s[i] < x
  PROVE  /\ {Append(s, x)[k] : k \in DOMAIN Append(s, x)} = {s[k] : k \in DOMAIN s} \cup {x}
         /\ \A i, j \in DOMAIN Append(s, x) : i < j => Append(s, x)[i] < Append(s, x)[j]
<1> DEFINE t == Append(s, x)
<1>1. /\ Len(s) \in Nat /\ t \in Seq(Nat) /\ Len(t) = Len(s) + 1 /\ t[Len(s) + 1] = x
      /\ \A i \in 1..Len(s) : t[i] = s[i]
  BY AppendOf
<1> HIDE DEF t
<1>2. DOMAIN s = 1..Len(s) /\ DOMAIN t = 1..(Len(s) + 1)
  BY <1>1
<1>3. {t[k] : k \in DOMAIN t} = {s[k] : k \in DOMAIN s} \cup {x}
  <2>1. ASSUME NEW k \in DOMAIN t PROVE t[k] \in {s[n] : n \in DOMAIN s} \cup {x}
    <3>1. k \in DOMAIN s \/ k = Len(s) + 1
      BY <1>1, <1>2
    <3> QED
      BY <1>1, <1>2, <3>1
  <2>2. ASSUME NEW k \in DOMAIN s PROVE \E n \in DOMAIN t : s[k] = t[n]
    <3>1. k \in DOMAIN t
      BY <1>1, <1>2
    <3> QED
      BY <1>1, <1>2, <3>1
  <2>3. \E n \in DOMAIN t : x = t[n]
    <3>1. Len(s) + 1 \in DOMAIN t
      BY <1>1, <1>2
    <3> QED
      BY <1>1, <3>1
  <2> QED
    BY <2>1, <2>2, <2>3
<1>4. ASSUME NEW i \in DOMAIN t, NEW j \in DOMAIN t, i < j PROVE t[i] < t[j]
  <2>1. i \in DOMAIN s /\ (j \in DOMAIN s \/ j = Len(s) + 1)
    BY <1>1, <1>2, <1>4
  <2> QED
    BY <1>1, <1>2, <1>4, <2>1
<1> QED
  BY <1>3, <1>4 DEF t

\* Pointers are numbers, and those to a file's messages are those messages.
LEMMA PointersAre ==
  ASSUME LoopInv, NEW p \in Paths
  PROVE  /\ path2backlog[p] \in Seq(Nat) /\ path2backlog[p] \in Seq(Requests)
         /\ PointersTo(p) = WaitingFor(p)
         /\ \A i, j \in DOMAIN path2backlog[p] : i < j => path2backlog[p][i] < path2backlog[p][j]
<1>1. path2backlog[p] \in Seq(Requests)
  BY Types DEF Answers
<1>2. Requests \subseteq Nat
  BY DEF Requests
<1>3. path2backlog[p] \in Seq(Nat)
  <2>1. \A i \in 1..Len(path2backlog[p]) : path2backlog[p][i] \in Nat
    BY <1>1, <1>2, ElementOfSeq
  <2> QED
    BY <1>1, <2>1
<1> QED
  BY <1>1, <1>3 DEF LoopInv, BacklogIndexed

LEMMA WaitingForMember ==
  ASSUME LoopInv, NEW p, NEW id
  PROVE  id \in WaitingFor(p) <=> \E k \in 1..Len(backlog) :
                                   backlog[k].backlog_path = p /\ backlog[k].id = id
  BY Types DEF WaitingFor, Queues

\* The backlog without its head.
LEMMA DropHead ==
  ASSUME LoopInv, backlog /= <<>>, backlog' = Tail(backlog)
  PROVE  /\ backlog' \in Seq(Messages) /\ Head(backlog) = backlog[1] /\ Head(backlog) \in Messages
         /\ \A k \in 1..Len(backlog') : k + 1 \in 2..Len(backlog) /\ backlog'[k] = backlog[k + 1]
         /\ \A i, j \in DOMAIN backlog' : i < j => backlog'[i].id < backlog'[j].id
         /\ \A id : id \in Waiting' <=> id \in Waiting /\ ~(/\ id = Head(backlog).id
                                                         /\ Head(backlog).backlog_path /= None)
         /\ \A p, id : id \in WaitingFor(p)' <=>
                        id \in WaitingFor(p) /\ ~(/\ id = Head(backlog).id
                                                 /\ Head(backlog).backlog_path = p)
<1> DEFINE b == backlog
           c == backlog'
<1>1. b \in Seq(Messages) /\ received \in Nat
  BY Types DEF Queues, Counters
<1>2. /\ c \in Seq(Messages) /\ Head(b) = b[1] /\ Head(b) \in Messages
      /\ Len(b) \in Nat /\ Len(b) > 0 /\ Len(c) = Len(b) - 1
      /\ \A k \in 1..Len(c) : k + 1 \in 2..Len(b) /\ c[k] = b[k + 1]
      /\ \A k \in 2..Len(b) : k - 1 \in 1..Len(c) /\ c[k - 1] = b[k]
  BY <1>1, TailOf
<1>3. DOMAIN b = 1..Len(b) /\ DOMAIN c = 1..Len(c)
  BY <1>1, <1>2
<1>4. \A k \in 1..Len(b) : b[k].id \in Nat
  BY <1>1, BacklogOrder
<1>5. \A k \in 2..Len(b) : b[1].id < b[k].id /\ b[k].id /= b[1].id
  BY <1>2, <1>3, <1>4 DEF LoopInv, BacklogIndexed
<1>6. ASSUME NEW i \in DOMAIN c, NEW j \in DOMAIN c, i < j PROVE c[i].id < c[j].id
  <2>1. i \in Nat /\ j \in Nat /\ i + 1 \in DOMAIN b /\ j + 1 \in DOMAIN b /\ i + 1 < j + 1
    BY <1>2, <1>3, <1>6
  <2>2. b[i + 1].id < b[j + 1].id
    BY <2>1 DEF LoopInv, BacklogIndexed
  <2> QED
    BY <1>2, <1>3, <2>2
<1>7. \A id : id \in Waiting' <=> \E k \in 1..Len(c) : c[k].backlog_path /= None /\ c[k].id = id
  BY <1>3 DEF Waiting
<1>8. \A p, id : id \in WaitingFor(p)' <=> \E k \in 1..Len(c) : c[k].backlog_path = p /\ c[k].id = id
  BY <1>3 DEF WaitingFor
<1>9. ASSUME NEW id
      PROVE  id \in Waiting' <=> id \in Waiting /\ ~(id = Head(b).id /\ Head(b).backlog_path /= None)
  <2>1. ASSUME NEW k \in 1..Len(c), c[k].backlog_path /= None, c[k].id = id
        PROVE  id \in Waiting /\ id /= Head(b).id
    BY <1>2, <1>5, <2>1, WaitingMember
  <2>2. ASSUME NEW k \in 1..Len(b), b[k].backlog_path /= None, b[k].id = id,
               ~(id = Head(b).id /\ Head(b).backlog_path /= None)
        PROVE  id \in Waiting'
    <3>1. k \in 2..Len(b)
      BY <1>2, <2>2
    <3> QED
      BY <1>2, <1>7, <2>2, <3>1
  <2> QED
    BY <1>7, <2>1, <2>2, WaitingMember
<1>10. ASSUME NEW p, NEW id
       PROVE  id \in WaitingFor(p)' <=>
                id \in WaitingFor(p) /\ ~(id = Head(b).id /\ Head(b).backlog_path = p)
  <2>1. ASSUME NEW k \in 1..Len(c), c[k].backlog_path = p, c[k].id = id
        PROVE  id \in WaitingFor(p) /\ id /= Head(b).id
    BY <1>2, <1>5, <2>1, WaitingForMember
  <2>2. ASSUME NEW k \in 1..Len(b), b[k].backlog_path = p, b[k].id = id,
               ~(id = Head(b).id /\ Head(b).backlog_path = p)
        PROVE  id \in WaitingFor(p)'
    <3>1. k \in 2..Len(b)
      BY <1>2, <2>2
    <3>2. k - 1 \in 1..Len(c) /\ c[k - 1] = b[k]
      BY <1>2, <3>1
    <3>3. c[k - 1].backlog_path = p /\ c[k - 1].id = id
      BY <2>2, <3>2
    <3> QED
      BY <1>8, <3>2, <3>3
  <2> QED
    BY <1>8, <2>1, <2>2, WaitingForMember
<1> QED
  BY <1>2, <1>6, <1>9, <1>10

\* InOrder, when the backlog loses its head and no message moves.
LEMMA DropOrder ==
  ASSUME LoopInv, backlog /= <<>>, backlog' = Tail(backlog),
         UNCHANGED <<on_request, received, turn>>
  PROVE  InOrder'
<1>1. /\ backlog \in Seq(Messages) /\ on_request \in Seq(Messages)
      /\ turn.messages \in Seq(Messages)
  BY Types DEF Queues
<1>2. /\ Numbered(Tail(backlog)) /\ Precedes(Tail(backlog), turn.messages)
      /\ Precedes(Tail(backlog), on_request)
  BY <1>1, OrderOfTail DEF LoopInv, InOrder
<1> QED
  BY <1>2 DEF LoopInv, InOrder, Numbered, Ascends, Precedes, IsRequest

\* The pointer that is dropped with the head of the backlog is that to the head.
LEMMA FirstPointer ==
  ASSUME LoopInv, backlog /= <<>>, Head(backlog).backlog_path /= None
  PROVE  LET p == Head(backlog).backlog_path
         IN p \in Paths /\ path2backlog[p] /= <<>> /\ path2backlog[p][1] = Head(backlog).id
<1> DEFINE p == Head(backlog).backlog_path
           s == path2backlog[p]
           id == Head(backlog).id
<1>1. /\ backlog \in Seq(Messages) /\ Head(backlog) = backlog[1] /\ Head(backlog) \in Messages
      /\ Len(backlog) \in Nat /\ Len(backlog) > 0 /\ DOMAIN backlog = 1..Len(backlog)
  BY Types, TailOf DEF Queues
<1>2. p \in Paths
  BY <1>1 DEF Messages
<1>3. /\ s \in Seq(Nat) /\ PointersTo(p) = WaitingFor(p) /\ DOMAIN s = 1..Len(s) /\ Len(s) \in Nat
      /\ \A i, j \in DOMAIN s : i < j => s[i] < s[j]
  BY <1>2, PointersAre
<1>4. id \in WaitingFor(p)
  BY <1>1, WaitingForMember
<1>5. PICK k \in 1..Len(s) : s[k] = id
  BY <1>3, <1>4 DEF PointersTo
<1>6. 1 \in 1..Len(s) /\ s[1] \in Nat /\ s[k] \in Nat
  BY <1>3, <1>5
<1>7. s[1] \in WaitingFor(p)
  BY <1>3, <1>6 DEF PointersTo
<1>8. PICK j \in 1..Len(backlog) : backlog[j].id = s[1]
  BY <1>7, WaitingForMember
<1>9. CASE j = 1
  BY <1>1, <1>2, <1>3, <1>6, <1>8, <1>9
<1>10. CASE j /= 1
  <2>1. 1 \in DOMAIN backlog /\ j \in DOMAIN backlog /\ 1 < j
    BY <1>1, <1>10
  <2>2. id < s[1]
    BY <1>1, <1>8, <2>1 DEF LoopInv, BacklogIndexed
  <2>3. k = 1 \/ s[1] < s[k]
    BY <1>3, <1>5, <1>6
  <2> QED
    BY <1>5, <1>6, <2>2, <2>3
<1> QED
  BY <1>9, <1>10

LEMMA ExpireStep == ASSUME LoopInv, Expire PROVE LoopInv'
<1> DEFINE m == Head(backlog)
           p == m.backlog_path
<1>1. /\ backlog /= <<>> /\ backlog' = Tail(backlog) /\ phase = "expire"
      /\ \/ p = None /\ UNCHANGED <<path2backlog, replies>>
         \/ /\ p /= None /\ Reply(m.id, Answer(m))
            /\ path2backlog' = [path2backlog EXCEPT ![p] = Tail(@)]
      /\ UNCHANGED <<now, on_request, on_indexed, updates, notes, received, opened, indexed, owned,
                     phase, turn, g_quit>>
  BY DEF Expire, inVars, dbVars, loopVars
<1>2. Counters' /\ Queues' /\ Files' /\ States'
  BY <1>1, Types, DropHead DEF Counters, Queues, Files, States
<1>3. InOrder'
  BY <1>1, DropOrder
<1>4. WaitsForUpdate' /\ \A k \in 1..Len(backlog') : backlog'[k].method = "request"
  <2>1. backlog \in Seq(Messages) /\ DOMAIN backlog = 1..Len(backlog) /\ Len(backlog) \in Nat
    BY Types DEF Queues
  <2>2. backlog' \in Seq(Messages) /\ DOMAIN backlog' = 1..Len(backlog')
    BY <1>1, DropHead
  <2>3. ASSUME NEW k \in 1..Len(backlog')
        PROVE  /\ backlog'[k].backlog_path \notin owned
               /\ backlog'[k].method = "request"
    <3>1. k + 1 \in 1..Len(backlog) /\ backlog'[k] = backlog[k + 1]
      BY <1>1, DropHead, <2>1
    <3> QED
      BY <2>1, <3>1 DEF LoopInv, WaitsForUpdate, Loop
  <2> QED
    BY <1>1, <2>2, <2>3 DEF WaitsForUpdate
<1>5. CASE p = None
  <2>1. path2backlog' = path2backlog /\ replies' = replies
    BY <1>1, <1>5
  <2>2. Answers'
    BY <2>1, Types DEF Answers
  <2>3. Loop'
    BY <1>1, <1>4, <2>1 DEF LoopInv, Loop
  <2>4. AnsweredOnce'
    <3>1. Waiting' = Waiting
      BY <1>1, <1>5, DropHead
    <3>2. Asked(on_request)' = Asked(on_request) /\ Asked(turn.messages)' = Asked(turn.messages)
      BY <1>1 DEF Asked
    <3> QED
      BY <1>1, <2>1, <3>1, <3>2 DEF LoopInv, AnsweredOnce
  <2>5. BacklogIndexed'
    <3>1. ASSUME NEW q \in Paths PROVE PointersTo(q)' = WaitingFor(q)'
      <4>1. WaitingFor(q)' = WaitingFor(q)
        <5>1. p /= q
          BY <1>5
        <5>2. \A id : id \in WaitingFor(q)' <=> id \in WaitingFor(q)
          BY <1>1, <5>1, DropHead
        <5> QED
          BY <5>2
      <4>2. PointersTo(q)' = PointersTo(q)
        BY <2>1 DEF PointersTo
      <4> QED
        BY <4>1, <4>2, PointersAre
    <3>2. \A i, j \in DOMAIN backlog' : i < j => backlog'[i].id < backlog'[j].id
      BY <1>1, DropHead
    <3>3. ASSUME NEW q \in Paths
          PROVE  \A i, j \in DOMAIN path2backlog'[q] : i < j => path2backlog'[q][i] < path2backlog'[q][j]
      BY <2>1, PointersAre
    <3> QED
      BY <3>1, <3>2, <3>3 DEF BacklogIndexed
  <2> QED
    BY <1>2, <1>3, <1>4, <2>2, <2>3, <2>4, <2>5
       DEF LoopInv, TypeOK, Counters, Queues, Files, Answers, States
<1>6. CASE p /= None
  <2>1. /\ p \in Paths /\ path2backlog[p] /= <<>> /\ path2backlog[p][1] = m.id
        /\ Reply(m.id, Answer(m))
        /\ path2backlog' = [path2backlog EXCEPT ![p] = Tail(@)]
    BY <1>1, <1>6, FirstPointer
  <2>2. m.id \in Waiting /\ m.id \in Requests
    <3>1. backlog \in Seq(Messages) /\ m = backlog[1] /\ 1 \in 1..Len(backlog)
      BY <1>1, Types, TailOf DEF Queues
    <3>2. m.id \in Waiting
      BY <1>6, <3>1, WaitingMember
    <3>3. m.id \in 1..received
      BY <3>1, BacklogOrder
    <3> QED
      BY <3>2, <3>3, Types, ReceivedIds DEF Counters
  <2>3. Answer(m) \in {"result", "not opened", "not indexed"}
    BY DEF Answer
  <2>4. replies \in [Requests -> Seq({"result", "not opened", "not indexed"})] /\ received' = received
    BY <1>1, Types DEF Answers
  <2>5. /\ replies' \in [Requests -> Seq({"result", "not opened", "not indexed"})]
        /\ \A r \in Requests : Len(replies'[r]) <= 1
        /\ Unanswered' = Unanswered \ {m.id}
        /\ \A r \in Requests : r > received => replies'[r] = <<>>
    BY <2>1, <2>2, <2>3, <2>4, AnswerOnce
  <2>6. path2backlog' \in [Paths -> Seq(Requests)]
    <3>1. path2backlog \in [Paths -> Seq(Requests)] /\ Tail(path2backlog[p]) \in Seq(Requests)
      BY <2>1, PointersAre, TailOf, Types DEF Answers
    <3> QED
      BY <2>1, <3>1
  <2>7. Loop'
    BY <1>1, <1>4, <2>5 DEF LoopInv, Loop
  <2>8. AnsweredOnce'
    <3>1. Waiting' = Waiting \ {m.id}
      BY <1>1, <1>6, DropHead
    <3>2. /\ Asked(on_request)' = Asked(on_request) /\ Asked(turn.messages)' = Asked(turn.messages)
          /\ turn.messages' = turn.messages
      BY <1>1 DEF Asked
    <3>3. Unanswered = Asked(on_request) \cup Asked(turn.messages) \cup Waiting
      BY DEF LoopInv, AnsweredOnce, Unanswered
    <3>4. m.id \notin Asked(on_request) \cup Asked(turn.messages)
      <4>1. /\ backlog \in Seq(Messages) /\ m = backlog[1] /\ 1 \in 1..Len(backlog)
            /\ on_request \in Seq(Messages) /\ turn.messages \in Seq(Messages)
        BY <1>1, Types, TailOf DEF Queues
      <4>2. IsRequest(backlog, 1) /\ m.id \in Nat
        BY <2>2, <4>1, BacklogOrder DEF Requests
      <4>3. ASSUME NEW s \in Seq(Messages), Precedes(backlog, s) PROVE m.id \notin Asked(s)
        <5>1. SUFFICES ASSUME NEW i \in 1..Len(s), IsRequest(s, i), s[i].id = m.id PROVE FALSE
          BY AskedMember
        <5>2. m.id < s[i].id
          BY <4>1, <4>2, <4>3, <5>1 DEF Precedes
        <5> QED
          BY <4>2, <5>1, <5>2
      <4> QED
        BY <4>1, <4>3 DEF LoopInv, InOrder
    <3>5. Unanswered' = (Asked(on_request) \cup Asked(turn.messages) \cup Waiting)'
      BY <2>5, <3>1, <3>2, <3>3, <3>4
    <3> QED
      BY <2>5, <3>5 DEF AnsweredOnce, Unanswered
  <2>9. BacklogIndexed'
    <3>1. \A i, j \in DOMAIN backlog' : i < j => backlog'[i].id < backlog'[j].id
      BY <1>1, DropHead
    <3>2. ASSUME NEW q \in Paths
          PROVE  /\ PointersTo(q)' = WaitingFor(q)'
                 /\ \A i, j \in DOMAIN path2backlog'[q] :
                      i < j => path2backlog'[q][i] < path2backlog'[q][j]
      <4>1. path2backlog \in [Paths -> Seq(Requests)]
        BY Types DEF Answers
      <4>2. CASE q = p
        <5>1. path2backlog'[q] = Tail(path2backlog[q])
          BY <2>1, <4>1, <4>2
        <5>2. /\ PointersTo(q)' = PointersTo(q) \ {m.id}
              /\ \A i, j \in DOMAIN path2backlog'[q] :
                   i < j => path2backlog'[q][i] < path2backlog'[q][j]
          <6>1. /\ path2backlog[q] \in Seq(Nat) /\ path2backlog[q] /= <<>>
                /\ \A i, j \in DOMAIN path2backlog[q] :
                     i < j => path2backlog[q][i] < path2backlog[q][j]
            BY <2>1, <4>2, PointersAre
          <6> DEFINE s == path2backlog[q]
          <6>2. /\ {Tail(s)[k] : k \in DOMAIN Tail(s)} = {s[k] : k \in DOMAIN s} \ {s[1]}
                /\ \A i, j \in DOMAIN Tail(s) : i < j => Tail(s)[i] < Tail(s)[j]
            BY <6>1, AscendingTail
          <6>3. PointersTo(q)' = PointersTo(q) \ {m.id}
            <7>1. PointersTo(q)' = {Tail(s)[k] : k \in DOMAIN Tail(s)}
              BY <5>1 DEF PointersTo
            <7>2. PointersTo(q) = {s[k] : k \in DOMAIN s} /\ s[1] = m.id
              BY <2>1, <4>2 DEF PointersTo
            <7> QED
              BY <6>2, <7>1, <7>2
          <6> QED
            BY <5>1, <6>2, <6>3
        <5>3. WaitingFor(q)' = WaitingFor(q) \ {m.id}
          BY <1>1, <4>2, DropHead
        <5> QED
          BY <5>2, <5>3, PointersAre
      <4>3. CASE q /= p
        <5>1. path2backlog'[q] = path2backlog[q]
          BY <2>1, <4>1, <4>3
        <5>2. PointersTo(q)' = PointersTo(q)
          BY <5>1 DEF PointersTo
        <5>3. WaitingFor(q)' = WaitingFor(q)
          <6>1. \A id : id \in WaitingFor(q)' <=> id \in WaitingFor(q)
            BY <1>1, <4>3, DropHead
          <6> QED
            BY <6>1
        <5> QED
          BY <5>1, <5>2, <5>3, PointersAre
      <4> QED
        BY <4>2, <4>3
    <3> QED
      BY <3>1, <3>2 DEF BacklogIndexed
  <2>10. Answers'
    BY <2>5, <2>6 DEF Answers
  <2> QED
    BY <1>2, <1>3, <1>4, <2>7, <2>8, <2>9, <2>10
       DEF LoopInv, TypeOK, Counters, Queues, Files, Answers, States
<1> QED
  BY <1>5, <1>6

\* Head of the messages of a turn: what is left is in order.
LEMMA RestOfTurn ==
  ASSUME LoopInv, turn.messages /= <<>>, turn' = [turn EXCEPT !.messages = Tail(@)]
  PROVE  /\ turn' \in [now : Nat, messages : Seq(Messages), left : 0..Batch, did_work : BOOLEAN]
         /\ turn'.messages = Tail(turn.messages) /\ turn'.now = turn.now
         /\ Head(turn.messages) \in Messages /\ turn'.messages \in Seq(Messages)
         /\ Numbered(turn'.messages) /\ Ascends(turn'.messages)
         /\ Precedes(backlog, turn'.messages) /\ Precedes(turn'.messages, on_request)
<1>1. /\ turn \in [now : Nat, messages : Seq(Messages), left : 0..Batch, did_work : BOOLEAN]
      /\ turn.messages \in Seq(Messages) /\ backlog \in Seq(Messages) /\ on_request \in Seq(Messages)
  BY Types DEF Queues
<1>2. Tail(turn.messages) \in Seq(Messages) /\ Head(turn.messages) \in Messages
  BY <1>1, TailOf
<1>3. /\ turn'.messages = Tail(turn.messages) /\ turn'.now = turn.now
      /\ turn' \in [now : Nat, messages : Seq(Messages), left : 0..Batch, did_work : BOOLEAN]
  BY <1>1, <1>2
<1>4. /\ Numbered(Tail(turn.messages)) /\ Ascends(Tail(turn.messages))
      /\ Precedes(backlog, Tail(turn.messages)) /\ Precedes(Tail(turn.messages), on_request)
  BY <1>1, OrderOfTail DEF LoopInv, InOrder
<1> QED
  BY <1>2, <1>3, <1>4

LEMMA HandleStep == ASSUME LoopInv, Handle PROVE LoopInv'
<1> DEFINE m == Head(turn.messages)
<1>1. /\ turn.messages /= <<>> /\ turn' = [turn EXCEPT !.messages = Tail(@)] /\ phase = "messages"
      /\ IF m.method = "request" THEN runRequest(m) ELSE runNotification(m)
      /\ UNCHANGED <<now, on_request, on_indexed, updates, notes, received, phase>>
  BY DEF Handle, inVars
<1>2. /\ turn' \in [now : Nat, messages : Seq(Messages), left : 0..Batch, did_work : BOOLEAN]
      /\ turn'.messages = Tail(turn.messages) /\ turn'.now = turn.now
      /\ m \in Messages /\ turn'.messages \in Seq(Messages)
      /\ Numbered(turn'.messages) /\ Ascends(turn'.messages)
      /\ Precedes(backlog, turn'.messages) /\ Precedes(turn'.messages, on_request)
  BY <1>1, RestOfTurn
<1>3. /\ on_request \in Seq(Messages) /\ turn.messages \in Seq(Messages) /\ backlog \in Seq(Messages)
      /\ received \in Nat /\ received \in 0..MaxRequests
  BY Types DEF Queues, Counters
<1>4. Asked(on_request)' = Asked(on_request)
  BY <1>1 DEF Asked
<1>5. Asked(turn.messages) = Asked(turn.messages)' \cup {id \in {m.id} : m.method = "request"}
  BY <1>1, <1>2, <1>3, AskedTail
<1>6. Counters'
  BY <1>1, Types DEF Counters
<1>7. Unanswered = Asked(on_request) \cup Asked(turn.messages) \cup Waiting
  BY DEF LoopInv, AnsweredOnce, Unanswered
<1>8. ASSUME UNCHANGED backlog PROVE InOrder'
  BY <1>1, <1>2, <1>8 DEF LoopInv, InOrder, Numbered, Ascends, Precedes, IsRequest
<1>9. CASE m.method /= "request"
  <2>1. runNotification(m)
    BY <1>1, <1>9
  <2>2. UNCHANGED <<backlog, path2backlog, replies>>
    BY <2>1 DEF runNotification, backVars
  <2>3. Files' /\ States' /\ owned' \subseteq owned
    <3>1. m.path \in Paths
      BY <1>2 DEF Messages
    <3>2. /\ opened' \in {opened \cup {m.path}, opened \ {m.path}, opened}
          /\ \/ indexed' = {} /\ owned' = {}
             \/ indexed' = indexed /\ owned' = owned
      BY <2>1 DEF runNotification
    <3>3. Files' /\ owned' \subseteq owned
      BY <3>1, <3>2, Types DEF Files
    <3>4. g_quit' = (g_quit \/ m.method = "exit")
      BY <2>1 DEF runNotification
    <3>5. g_quit' \in BOOLEAN
      BY <3>4
    <3>6. phase' \in Phases
      BY <1>1, Types DEF States
    <3> QED
      BY <3>3, <3>5, <3>6 DEF States
  <2>4. Queues' /\ Answers'
    BY <1>1, <1>2, <2>2, Types DEF Queues, Answers
  <2>5. Loop'
    BY <1>1, <1>2, <2>2 DEF LoopInv, Loop
  <2>6. AnsweredOnce'
    <3>1. Waiting' = Waiting /\ Asked(turn.messages)' = Asked(turn.messages)
      BY <1>5, <1>9, <2>2 DEF Waiting
    <3> QED
      BY <1>1, <1>4, <2>2, <3>1 DEF LoopInv, AnsweredOnce
  <2>7. WaitsForUpdate'
    BY <2>2, <2>3 DEF LoopInv, WaitsForUpdate
  <2> QED
    BY <1>6, <1>8, <2>2, <2>3, <2>4, <2>5, <2>6, <2>7, BacklogFrame
       DEF LoopInv, TypeOK, Counters, Queues, Files, Answers, States
<1>10. CASE m.method = "request" /\ ~NotIndexedYet(m)
  <2>1. /\ Reply(m.id, Answer(m))
        /\ UNCHANGED <<backlog, path2backlog, opened, indexed, owned, g_quit>>
    BY <1>1, <1>10 DEF runRequest, backVars, dbVars
  <2>2. /\ m.id \in Requests /\ m.id \in Asked(turn.messages)
        /\ m.id \notin Asked(turn.messages)' \cup Asked(on_request) \cup Waiting
    <3>1. m.id \in 1..received
      BY <1>1, <1>10, HeadIsNew
    <3> QED
      BY <1>1, <1>2, <1>3, <1>5, <1>10, <3>1, HeadIsNew, ReceivedIds
  <2>3. Answer(m) \in {"result", "not opened", "not indexed"}
    BY DEF Answer
  <2>4. replies \in [Requests -> Seq({"result", "not opened", "not indexed"})] /\ received' = received
    BY <1>1, Types DEF Answers
  <2>5. /\ replies' \in [Requests -> Seq({"result", "not opened", "not indexed"})]
        /\ \A r \in Requests : Len(replies'[r]) <= 1
        /\ Unanswered' = Unanswered \ {m.id}
        /\ \A r \in Requests : r > received => replies'[r] = <<>>
    BY <2>1, <2>2, <2>3, <2>4, AnswerOnce
  <2>6. Queues' /\ Files' /\ States'
    BY <1>1, <1>2, <2>1, Types DEF Queues, Files, States
  <2>7. Answers'
    BY <2>1, <2>5, Types DEF Answers
  <2>8. Loop'
    BY <1>1, <1>2, <2>1, <2>5 DEF LoopInv, Loop
  <2>9. AnsweredOnce'
    <3>1. Waiting' = Waiting
      BY <2>1 DEF Waiting
    <3>2. Unanswered' = (Asked(on_request) \cup Asked(turn.messages) \cup Waiting)'
      BY <1>4, <1>5, <1>7, <1>10, <2>2, <2>5, <3>1
    <3> QED
      BY <2>5, <3>2 DEF AnsweredOnce, Unanswered
  <2>10. WaitsForUpdate'
    BY <2>1 DEF LoopInv, WaitsForUpdate
  <2> QED
    BY <1>6, <1>8, <2>1, <2>6, <2>7, <2>8, <2>9, <2>10, BacklogFrame
       DEF LoopInv, TypeOK, Counters, Queues, Files, Answers, States
<1>11. CASE m.method = "request" /\ NotIndexedYet(m)
  <2>1. m.path \in Paths /\ m.path \notin indexed /\ m.path /= None
    BY <1>2, <1>11 DEF NotIndexedYet, Messages
  <2> DEFINE w == [m EXCEPT !.backlog_path = m.path]
  <2>2. w \in Messages /\ w.id = m.id /\ w.method = "request" /\ w.backlog_path = m.path
    BY <1>2, <1>11, <2>1 DEF Messages
  <2>3. /\ backlog' = Append(backlog, w)
        /\ path2backlog' = [path2backlog EXCEPT ![m.path] = Append(@, m.id)]
        /\ UNCHANGED <<replies, opened, indexed, owned, g_quit>>
    BY <1>1, <1>11 DEF runRequest, dbVars
  <2> HIDE DEF w
  <2>4. /\ backlog' \in Seq(Messages) /\ Len(backlog) \in Nat /\ Len(backlog') = Len(backlog) + 1
        /\ backlog'[Len(backlog) + 1] = w /\ \A k \in 1..Len(backlog) : backlog'[k] = backlog[k]
        /\ DOMAIN backlog = 1..Len(backlog) /\ DOMAIN backlog' = 1..(Len(backlog) + 1)
    BY <1>3, <2>2, <2>3, AppendOf
  <2>5. /\ m.id \in 1..received /\ m.id \in Requests /\ m.id \in Nat
        /\ \A k \in 1..Len(backlog) : backlog[k].id < m.id
    <3>1. m.id \in 1..received /\ \A k \in 1..Len(backlog) : backlog[k].id < m.id
      BY <1>1, <1>11, HeadIsNew
    <3> QED
      BY <1>3, <3>1, ReceivedIds
  <2>6. \A k \in 1..Len(backlog') : k \in 1..Len(backlog) \/ k = Len(backlog) + 1
    BY <2>4
  <2>7. InOrder'
    <3>1. Numbered(backlog)'
      BY <1>1, <1>3, <2>2, <2>4, <2>5, <2>6, BacklogOrder DEF Numbered, IsRequest
    <3>2. Precedes(backlog, turn'.messages) /\ Precedes(backlog, on_request)
      BY <1>2 DEF LoopInv, InOrder
    <3>3. \A i \in 1..Len(turn'.messages) : IsRequest(turn'.messages, i) => m.id < turn'.messages[i].id
      <4>1. /\ m = turn.messages[1] /\ Len(turn.messages) \in Nat /\ Len(turn.messages) > 0
            /\ \A i \in 1..Len(turn'.messages) : turn'.messages[i] = turn.messages[i + 1]
                                                /\ i + 1 \in 2..Len(turn.messages)
        BY <1>1, <1>2, <1>3, TailOf
      <4>2. IsRequest(turn.messages, 1)
        BY <1>11, <4>1 DEF IsRequest
      <4>3. ASSUME NEW i \in 1..Len(turn'.messages), IsRequest(turn'.messages, i)
            PROVE  m.id < turn'.messages[i].id
        <5>1. IsRequest(turn.messages, i + 1) /\ 1 < i + 1 /\ 1 \in 1..Len(turn.messages)
              /\ i + 1 \in 1..Len(turn.messages)
          BY <4>1, <4>3 DEF IsRequest
        <5> QED
          BY <4>1, <4>2, <5>1 DEF LoopInv, InOrder, Ascends
      <4> QED
        BY <4>3
    <3>4. \A i \in 1..Len(on_request) : IsRequest(on_request, i) => m.id < on_request[i].id
      <4>1. IsRequest(turn.messages, 1) /\ m = turn.messages[1] /\ 1 \in 1..Len(turn.messages)
        BY <1>1, <1>3, <1>11, TailOf DEF IsRequest
      <4> QED
        BY <4>1 DEF LoopInv, InOrder, Precedes
    <3>5. Precedes(backlog', turn'.messages) /\ Precedes(backlog', on_request)
      BY <1>2, <1>3, <2>2, <2>3, <3>2, <3>3, <3>4, OrderOfAppend
    <3> QED
      BY <1>1, <1>2, <3>1, <3>5 DEF LoopInv, InOrder, Numbered, Ascends, Precedes, IsRequest
  <2>8. Loop'
    <3>1. \A k \in 1..Len(backlog') : backlog'[k].method = "request"
      BY <2>2, <2>4, <2>6 DEF LoopInv, Loop
    <3> QED
      BY <1>1, <1>2, <2>3, <3>1 DEF LoopInv, Loop
  <2>9. WaitsForUpdate'
    <3>1. owned \subseteq indexed
      BY Types DEF Files
    <3>2. ASSUME NEW k \in 1..Len(backlog') PROVE backlog'[k].backlog_path \notin owned
      BY <2>1, <2>2, <2>4, <2>6, <3>1 DEF LoopInv, WaitsForUpdate
    <3> QED
      BY <2>3, <2>4, <3>2 DEF WaitsForUpdate
  <2>10. AnsweredOnce'
    <3>1. \A id : id \in Waiting' <=> id \in Waiting \/ id = m.id
      <4>1. \A id : id \in Waiting' <=>
              \E k \in 1..Len(backlog') : backlog'[k].backlog_path /= None /\ backlog'[k].id = id
        BY <2>4 DEF Waiting
      <4>2. Len(backlog) + 1 \in 1..Len(backlog') /\ \A k \in 1..Len(backlog) : k \in 1..Len(backlog')
        BY <2>4
      <4> QED
        BY <2>1, <2>2, <2>4, <2>6, <4>1, <4>2, WaitingMember
    <3>2. Unanswered' = Unanswered
      BY <1>1, <2>3 DEF Unanswered
    <3>3. Unanswered' = (Asked(on_request) \cup Asked(turn.messages) \cup Waiting)'
      BY <1>4, <1>5, <1>7, <1>11, <3>1, <3>2
    <3> QED
      BY <2>3, <3>3 DEF LoopInv, AnsweredOnce, Unanswered
  <2>11. BacklogIndexed'
    <3>1. ASSUME NEW i \in DOMAIN backlog', NEW j \in DOMAIN backlog', i < j
          PROVE  backlog'[i].id < backlog'[j].id
      <4>1. i \in 1..Len(backlog) /\ (j \in 1..Len(backlog) \/ j = Len(backlog) + 1)
        BY <2>4, <3>1
      <4> QED
        BY <2>2, <2>4, <2>5, <3>1, <4>1 DEF LoopInv, BacklogIndexed
    <3>2. ASSUME NEW q, NEW id
          PROVE  id \in WaitingFor(q)' <=> id \in WaitingFor(q) \/ (id = m.id /\ q = m.path)
      <4>1. id \in WaitingFor(q)' <=>
              \E k \in 1..Len(backlog') : backlog'[k].backlog_path = q /\ backlog'[k].id = id
        BY <2>4 DEF WaitingFor
      <4>2. Len(backlog) + 1 \in 1..Len(backlog') /\ \A k \in 1..Len(backlog) : k \in 1..Len(backlog')
        BY <2>4
      <4> QED
        BY <2>2, <2>4, <2>6, <4>1, <4>2, WaitingForMember
    <3>3. path2backlog \in [Paths -> Seq(Requests)]
      BY Types DEF Answers
    <3>4. ASSUME NEW q \in Paths
          PROVE  /\ PointersTo(q)' = WaitingFor(q)'
                 /\ \A i, j \in DOMAIN path2backlog'[q] :
                      i < j => path2backlog'[q][i] < path2backlog'[q][j]
      <4> DEFINE s == path2backlog[q]
      <4>1. /\ s \in Seq(Nat) /\ PointersTo(q) = WaitingFor(q)
            /\ \A i, j \in DOMAIN s : i < j => s[i] < s[j]
        BY PointersAre
      <4>2. CASE q = m.path
        <5>1. path2backlog'[q] = Append(s, m.id)
          BY <2>3, <3>3, <4>2
        <5>2. \A i \in DOMAIN s : s[i] < m.id
          <6>1. ASSUME NEW i \in DOMAIN s PROVE s[i] < m.id
            <7>1. s[i] \in WaitingFor(q)
              BY <4>1 DEF PointersTo
            <7>2. PICK k \in 1..Len(backlog) : backlog[k].id = s[i]
              BY <7>1, WaitingForMember
            <7> QED
              BY <2>5, <7>2
          <6> QED
            BY <6>1
        <5>3. /\ {Append(s, m.id)[k] : k \in DOMAIN Append(s, m.id)} = {s[k] : k \in DOMAIN s} \cup {m.id}
              /\ \A i, j \in DOMAIN Append(s, m.id) : i < j => Append(s, m.id)[i] < Append(s, m.id)[j]
          BY <2>5, <4>1, <5>2, AscendingAppend
        <5>4. PointersTo(q)' = {Append(s, m.id)[k] : k \in DOMAIN Append(s, m.id)}
          BY <5>1 DEF PointersTo
        <5>5. PointersTo(q) = {s[k] : k \in DOMAIN s}
          BY DEF PointersTo
        <5>6. PointersTo(q)' = WaitingFor(q)'
          <6>1. PointersTo(q)' = WaitingFor(q) \cup {m.id}
            BY <4>1, <5>3, <5>4, <5>5
          <6>2. \A id : id \in WaitingFor(q)' <=> id \in WaitingFor(q) \cup {m.id}
            BY <3>2, <4>2
          <6> QED
            BY <6>1, <6>2
        <5> QED
          BY <5>1, <5>3, <5>6
      <4>3. CASE q /= m.path
        <5>1. path2backlog'[q] = path2backlog[q]
          BY <2>3, <3>3, <4>3
        <5>2. PointersTo(q)' = PointersTo(q)
          BY <5>1 DEF PointersTo
        <5>3. WaitingFor(q)' = WaitingFor(q)
          <6>1. \A id : id \in WaitingFor(q)' <=> id \in WaitingFor(q)
            BY <3>2, <4>3
          <6> QED
            BY <6>1
        <5> QED
          BY <4>1, <5>1, <5>2, <5>3
      <4> QED
        BY <4>2, <4>3
    <3> QED
      BY <3>1, <3>4 DEF BacklogIndexed
  <2>12. Queues' /\ Files' /\ States'
    BY <1>1, <1>2, <2>3, <2>4, Types DEF Queues, Files, States
  <2>13. Answers'
    <3>1. path2backlog \in [Paths -> Seq(Requests)] /\ Append(path2backlog[m.path], m.id) \in Seq(Requests)
      BY <2>1, <2>5, PointersAre, AppendOf, Types DEF Answers
    <3>2. path2backlog' \in [Paths -> Seq(Requests)]
      BY <2>3, <3>1
    <3> QED
      BY <2>3, <3>2, Types DEF Answers
  <2> QED
    BY <1>6, <2>7, <2>8, <2>9, <2>10, <2>11, <2>12, <2>13
       DEF LoopInv, TypeOK, Counters, Queues, Files, Answers, States
<1> QED
  BY <1>9, <1>10, <1>11

\* The backlog with those that wait for p marked as answered.
LEMMA ResolvedBacklog ==
  ASSUME LoopInv, NEW p \in Paths, backlog' = Resolved(p)
  PROVE  /\ backlog' \in Seq(Messages) /\ Len(backlog') = Len(backlog)
         /\ DOMAIN backlog = 1..Len(backlog) /\ DOMAIN backlog' = 1..Len(backlog)
         /\ \A k \in 1..Len(backlog) :
              /\ backlog'[k].id = backlog[k].id /\ backlog'[k].method = backlog[k].method
              /\ backlog'[k].backlog_path =
                   IF backlog[k].backlog_path = p THEN None ELSE backlog[k].backlog_path
         /\ \A q, id : q /= None => (id \in WaitingFor(q)' <=> q /= p /\ id \in WaitingFor(q))
<1>1. backlog \in Seq(Messages) /\ Len(backlog) \in Nat /\ DOMAIN backlog = 1..Len(backlog)
  BY Types DEF Queues
<1> DEFINE f(k) == IF backlog[k].backlog_path = p THEN [backlog[k] EXCEPT !.backlog_path = None]
                   ELSE backlog[k]
<1>2. ASSUME NEW k \in 1..Len(backlog)
      PROVE  /\ f(k) \in Messages /\ f(k).id = backlog[k].id /\ f(k).method = backlog[k].method
             /\ f(k).backlog_path = IF backlog[k].backlog_path = p THEN None ELSE backlog[k].backlog_path
  <2>1. backlog[k] \in Messages
    BY <1>1
  <2> QED
    BY <2>1 DEF Messages
<1>3. backlog' = [k \in 1..Len(backlog) |-> f(k)]
  BY <1>1 DEF Resolved
<1> HIDE DEF f
<1>4. backlog' \in Seq(Messages) /\ Len(backlog') = Len(backlog) /\ DOMAIN backlog' = 1..Len(backlog)
  BY <1>1, <1>2, <1>3
<1>5. \A k \in 1..Len(backlog) : backlog'[k] = f(k)
  BY <1>3
<1>6. \A k \in 1..Len(backlog) :
        /\ backlog'[k].id = backlog[k].id /\ backlog'[k].method = backlog[k].method
        /\ backlog'[k].backlog_path =
             IF backlog[k].backlog_path = p THEN None ELSE backlog[k].backlog_path
  BY <1>2, <1>5
<1>7. ASSUME NEW q, NEW id, q /= None
      PROVE  id \in WaitingFor(q)' <=> q /= p /\ id \in WaitingFor(q)
  <2>1. id \in WaitingFor(q)' <=>
          \E k \in 1..Len(backlog) : backlog'[k].backlog_path = q /\ backlog'[k].id = id
    BY <1>4 DEF WaitingFor
  <2>2. id \in WaitingFor(q) <=>
          \E k \in 1..Len(backlog) : backlog[k].backlog_path = q /\ backlog[k].id = id
    BY WaitingForMember
  <2> QED
    BY <1>6, <1>7, <2>1, <2>2
<1> QED
  BY <1>1, <1>4, <1>6, <1>7

LEMMA UpdateStep == ASSUME LoopInv, Update PROVE LoopInv'
<1> DEFINE u == Head(on_indexed)
           p == u.path
           what == IF p \in opened THEN "result" ELSE "not opened"
<1>1. /\ turn.left > 0 /\ on_indexed /= <<>> /\ on_indexed' = Tail(on_indexed)
      /\ indexed' = indexed \cup u.lid2path \cup {p} /\ owned' = owned \cup {p}
      /\ backlog' = Resolved(p) /\ path2backlog' = [path2backlog EXCEPT ![p] = <<>>]
      /\ turn' = [turn EXCEPT !.left = @ - 1, !.did_work = TRUE]
      /\ UNCHANGED <<now, on_request, updates, notes, received, opened, phase, g_quit>>
  BY DEF Update
<1>2. replies' = [id \in Requests |->
         IF \E k \in DOMAIN path2backlog[p] : path2backlog[p][k] = id
         THEN Append(replies[id], what) ELSE replies[id]]
  BY DEF Update
<1>3. u \in Updates /\ on_indexed' \in Seq(Updates)
  BY <1>1, Types, TailOf DEF Queues
<1>4. p \in Paths /\ p /= None /\ u.lid2path \subseteq Paths
  BY <1>3 DEF Updates
<1>5. /\ turn' \in [now : Nat, messages : Seq(Messages), left : 0..Batch, did_work : BOOLEAN]
      /\ turn'.messages = turn.messages /\ turn'.now = turn.now
  <2>1. turn \in [now : Nat, messages : Seq(Messages), left : 0..Batch, did_work : BOOLEAN]
    BY Types DEF Queues
  <2>2. turn.left - 1 \in 0..Batch
    BY <1>1, <2>1
  <2> QED
    BY <1>1, <2>1, <2>2
<1>6. /\ backlog' \in Seq(Messages) /\ Len(backlog') = Len(backlog)
      /\ DOMAIN backlog = 1..Len(backlog) /\ DOMAIN backlog' = 1..Len(backlog)
      /\ \A k \in 1..Len(backlog) :
           /\ backlog'[k].id = backlog[k].id /\ backlog'[k].method = backlog[k].method
           /\ backlog'[k].backlog_path =
                IF backlog[k].backlog_path = p THEN None ELSE backlog[k].backlog_path
      /\ \A q, id : q /= None => (id \in WaitingFor(q)' <=> q /= p /\ id \in WaitingFor(q))
  BY <1>1, <1>4, ResolvedBacklog
<1>7. Counters' /\ Queues' /\ Files' /\ States'
  <2>1. Counters' /\ States'
    BY <1>1, Types DEF Counters, States
  <2>2. Queues'
    BY <1>1, <1>3, <1>5, <1>6, Types DEF Queues
  <2>3. Files'
    BY <1>1, <1>4, Types DEF Files
  <2> QED
    BY <2>1, <2>2, <2>3
<1>8. InOrder'
  <2>1. received' = received /\ on_request' = on_request /\ turn'.messages = turn.messages
    BY <1>1, <1>5
  <2>2. /\ \A k \in 1..Len(backlog) : IsRequest(backlog', k) => IsRequest(backlog, k)
        /\ \A k \in 1..Len(backlog) : backlog'[k].id = backlog[k].id
    BY <1>6 DEF IsRequest
  <2>3. Numbered(backlog)'
    BY <1>6, <2>1, <2>2 DEF LoopInv, InOrder, Numbered, IsRequest
  <2>4. Precedes(backlog', turn.messages) /\ Precedes(backlog', on_request)
    <3>1. Precedes(backlog, turn.messages) /\ Precedes(backlog, on_request)
      BY DEF LoopInv, InOrder
    <3>2. ASSUME NEW s, Precedes(backlog, s) PROVE Precedes(backlog', s)
      BY <1>6, <2>2, <3>2 DEF Precedes
    <3> QED
      BY <3>1, <3>2
  <2>5. /\ Numbered(on_request)' /\ Numbered(turn.messages)'
        /\ Ascends(on_request') /\ Ascends(turn'.messages)
        /\ Precedes(turn'.messages, on_request')
    BY <2>1 DEF LoopInv, InOrder, Numbered, Ascends, Precedes, IsRequest
  <2> QED
    BY <2>1, <2>3, <2>4, <2>5 DEF InOrder, Ascends, Precedes, IsRequest
<1>9. WaitsForUpdate'
  <2>1. None \notin owned'
    BY <1>1, <1>4, Types DEF Files
  <2>2. ASSUME NEW k \in 1..Len(backlog) PROVE backlog'[k].backlog_path \notin owned'
    <3>1. backlog[k].backlog_path \notin owned
      BY <1>6 DEF LoopInv, WaitsForUpdate
    <3> QED
      BY <1>1, <1>6, <2>1, <3>1
  <2> QED
    BY <1>6, <2>2 DEF WaitsForUpdate
<1>10. BacklogIndexed'
  <2>1. \A i, j \in DOMAIN backlog' : i < j => backlog'[i].id < backlog'[j].id
    BY <1>6 DEF LoopInv, BacklogIndexed
  <2>2. path2backlog \in [Paths -> Seq(Requests)]
    BY Types DEF Answers
  <2>3. ASSUME NEW q \in Paths
        PROVE  /\ PointersTo(q)' = WaitingFor(q)'
               /\ \A i, j \in DOMAIN path2backlog'[q] :
                    i < j => path2backlog'[q][i] < path2backlog'[q][j]
    <3>1. CASE q = p
      <4>1. path2backlog'[q] = <<>>
        BY <1>1, <2>2, <3>1
      <4>2. PointersTo(q)' = {} /\ \A id : id \notin WaitingFor(q)'
        BY <1>4, <1>6, <3>1, <4>1 DEF PointersTo
      <4> QED
        BY <4>1, <4>2
    <3>2. CASE q /= p
      <4>1. path2backlog'[q] = path2backlog[q]
        BY <1>1, <2>2, <3>2
      <4>2. PointersTo(q)' = PointersTo(q)
        BY <4>1 DEF PointersTo
      <4>3. q /= None /\ \A id : id \in WaitingFor(q)' <=> id \in WaitingFor(q)
        BY <1>6, <3>2
      <4>4. WaitingFor(q)' = WaitingFor(q)
        BY <4>3
      <4> QED
        BY <4>1, <4>2, <4>4, PointersAre
    <3> QED
      BY <3>1, <3>2
  <2> QED
    BY <2>1, <2>3 DEF BacklogIndexed
<1>11. \A id : id \in Waiting' <=> id \in Waiting /\ id \notin WaitingFor(p)
  <2>1. \A id : id \in Waiting' <=>
          \E k \in 1..Len(backlog) : backlog'[k].backlog_path /= None /\ backlog'[k].id = id
    BY <1>6 DEF Waiting
  <2>2. \A i, j \in 1..Len(backlog) : backlog[i].id = backlog[j].id => i = j
    <3>1. ASSUME NEW i \in 1..Len(backlog), NEW j \in 1..Len(backlog), i < j
          PROVE  backlog[i].id /= backlog[j].id
      <4>1. backlog[i].id < backlog[j].id /\ backlog[i].id \in 1..received
        BY <1>6, <3>1, BacklogOrder DEF LoopInv, BacklogIndexed
      <4> QED
        BY <4>1, Types DEF Counters
    <3>2. Len(backlog) \in Nat
      BY Types DEF Queues
    <3> QED
      BY <3>1, <3>2
  <2>3. ASSUME NEW id, id \in Waiting' PROVE id \in Waiting /\ id \notin WaitingFor(p)
    <3>1. PICK k \in 1..Len(backlog) : backlog'[k].backlog_path /= None /\ backlog'[k].id = id
      BY <2>1, <2>3
    <3>2. backlog[k].backlog_path /= p /\ backlog[k].backlog_path /= None /\ backlog[k].id = id
      BY <1>6, <3>1
    <3> QED
      BY <2>2, <3>2, WaitingMember, WaitingForMember
  <2>4. ASSUME NEW id, id \in Waiting, id \notin WaitingFor(p) PROVE id \in Waiting'
    <3>1. PICK k \in 1..Len(backlog) : backlog[k].backlog_path /= None /\ backlog[k].id = id
      BY <2>4, WaitingMember
    <3>2. backlog[k].backlog_path /= p
      BY <2>4, <3>1, WaitingForMember
    <3> QED
      BY <1>6, <2>1, <3>1, <3>2
  <2> QED
    BY <2>3, <2>4
<1>12. ASSUME NEW id PROVE id \in WaitingFor(p) <=> \E k \in DOMAIN path2backlog[p] : path2backlog[p][k] = id
  <2>1. PointersTo(p) = WaitingFor(p)
    BY <1>4, PointersAre
  <2> QED
    BY <2>1 DEF PointersTo
<1>13. WaitingFor(p) \subseteq Waiting
  <2>1. ASSUME NEW id \in WaitingFor(p) PROVE id \in Waiting
    <3>1. PICK k \in 1..Len(backlog) : backlog[k].backlog_path = p /\ backlog[k].id = id
      BY WaitingForMember
    <3> QED
      BY <1>4, <3>1, WaitingMember
  <2> QED
    BY <2>1
<1>14. PICK S : S = {"result", "not opened", "not indexed"}
  OBVIOUS
<1>15. what \in S /\ replies \in [Requests -> Seq(S)]
  BY <1>14, Types DEF Answers
<1> HIDE DEF what
<1>16. ASSUME NEW id \in Requests
       PROVE  /\ replies'[id] \in Seq(S) /\ Len(replies'[id]) <= 1
              /\ (replies'[id] = <<>>) <=> (replies[id] = <<>> /\ id \notin WaitingFor(p))
              /\ id > received => replies'[id] = <<>>
  <2>1. replies[id] \in Seq(S) /\ Len(replies[id]) <= 1 /\ (id > received => replies[id] = <<>>)
    BY <1>15 DEF LoopInv, AnsweredOnce, Loop
  <2>2. CASE id \in WaitingFor(p)
    <3>1. replies'[id] = Append(replies[id], what)
      BY <1>2, <1>12, <2>2
    <3>2. replies[id] = <<>> /\ id \in 1..received
      BY <1>13, <2>2 DEF LoopInv, AnsweredOnce
    <3>3. /\ replies'[id] \in Seq(S) /\ Len(replies'[id]) = Len(replies[id]) + 1
          /\ Len(replies[id]) = 0
      BY <1>15, <2>1, <3>1, <3>2, AppendOf
    <3>4. replies'[id] /= <<>>
      BY <3>3
    <3>5. ~(id > received)
      BY <3>2, Types DEF Counters
    <3> QED
      BY <2>2, <3>3, <3>4, <3>5
  <2>3. CASE id \notin WaitingFor(p)
    <3>1. replies'[id] = replies[id]
      BY <1>2, <1>12, <2>3
    <3> QED
      BY <2>1, <2>3, <3>1
  <2> QED
    BY <2>2, <2>3
<1>17. Answers'
  <2>1. path2backlog' \in [Paths -> Seq(Requests)]
    <3>1. path2backlog \in [Paths -> Seq(Requests)]
      BY Types DEF Answers
    <3>2. <<>> \in Seq(Requests)
      OBVIOUS
    <3>3. path2backlog' = [path2backlog EXCEPT ![p] = <<>>]
      BY <1>1
    <3> HIDE DEF p
    <3> QED
      BY <3>1, <3>2, <3>3
  <2>2. replies' \in [Requests -> Seq(S)]
    BY <1>2, <1>16
  <2> QED
    BY <1>14, <2>1, <2>2 DEF Answers
<1>18. Loop'
  <2>1. \A k \in 1..Len(backlog') : backlog'[k].method = "request"
    BY <1>6 DEF LoopInv, Loop
  <2> QED
    BY <1>1, <1>5, <1>16, <2>1 DEF LoopInv, Loop
<1>19. AnsweredOnce'
  <2>1. \A id \in 1..received : id \in Requests
    BY Types, ReceivedIds DEF Counters
  <2>2. Unanswered' = Unanswered \ WaitingFor(p)
    BY <1>1, <1>16, <2>1 DEF Unanswered
  <2>3. Asked(on_request)' = Asked(on_request) /\ Asked(turn.messages)' = Asked(turn.messages)
    BY <1>1, <1>5 DEF Asked
  <2>4. (Asked(on_request) \cup Asked(turn.messages)) \cap WaitingFor(p) = {}
    <3>1. backlog \in Seq(Messages) /\ on_request \in Seq(Messages) /\ turn.messages \in Seq(Messages)
      BY Types DEF Queues
    <3>2. ASSUME NEW s \in Seq(Messages), Precedes(backlog, s), NEW id \in Asked(s)
          PROVE  id \notin WaitingFor(p)
      <4>1. SUFFICES ASSUME NEW k \in 1..Len(backlog), backlog[k].id = id PROVE FALSE
        BY WaitingForMember
      <4>2. PICK i \in 1..Len(s) : IsRequest(s, i) /\ s[i].id = id
        BY <3>2, AskedMember
      <4>3. backlog[k].id < s[i].id /\ backlog[k].id \in 1..received
        BY <3>2, <4>1, <4>2, BacklogOrder DEF Precedes
      <4> QED
        BY <4>1, <4>2, <4>3, Types DEF Counters
    <3> QED
      BY <3>1, <3>2 DEF LoopInv, InOrder
  <2>5. Unanswered = Asked(on_request) \cup Asked(turn.messages) \cup Waiting
    BY DEF LoopInv, AnsweredOnce, Unanswered
  <2>6. Unanswered' = (Asked(on_request) \cup Asked(turn.messages) \cup Waiting)'
    BY <1>11, <2>2, <2>3, <2>4, <2>5
  <2> QED
    BY <1>16, <2>6 DEF AnsweredOnce, Unanswered
<1> QED
  BY <1>7, <1>8, <1>9, <1>10, <1>17, <1>18, <1>19
     DEF LoopInv, TypeOK, Counters, Queues, Files, Answers, States

----------------------------------------------------------------------------
(* Theorems *)

\* What the proofs rest on holds in every state of the loop.
THEOREM LoopInductive == Spec => []LoopInv
<1>1. LoopInv /\ [Next]_vars => LoopInv'
  <2> SUFFICES ASSUME LoopInv, [Next]_vars PROVE LoopInv'
    OBVIOUS
  <2>1. CASE UNCHANGED vars
    <3>1. UNCHANGED <<now, on_request, on_indexed, updates, notes, received, opened, indexed, owned,
                      phase, turn, backlog, path2backlog, replies, g_quit>>
      BY <2>1 DEF vars, inVars, dbVars, loopVars, backVars
    <3>2. TypeOK'
      BY <3>1 DEF LoopInv, TypeOK
    <3>3. Loop'
      BY <3>1 DEF LoopInv, Loop
    <3> QED
      BY <3>1, <3>2, <3>3, Frame
  <2> QED
    BY <2>1, TickStep, ReceiveStep, IndexedStep, WakeStep, ExpireStep, ExpiredStep, HandleStep,
       HandledStep, UpdateStep, EndTurnStep DEF Next, mainLoop
<1> QED
  BY <1>1, InitLoop, PTL DEF Spec

\* The state of the loop has its type: a pointer that is popped is there.
THEOREM TypesHold == Spec => []TypeOK
  BY LoopInductive, PTL DEF LoopInv

\* The backlog and path2backlog agree (pipeline.cc:668 and 733).
THEOREM BacklogHolds == Spec => []BacklogIndexed
  BY LoopInductive, PTL DEF LoopInv

\* Each request is answered once or waits in exactly the places that will answer it.
THEOREM OnceHolds == Spec => []AnsweredOnce
  BY LoopInductive, PTL DEF LoopInv

\* No request waits for an update that has come.
THEOREM WaitingHolds == Spec => []WaitsForUpdate
  BY LoopInductive, PTL DEF LoopInv

\* A reply is a reply more, and the one that was sent.
LEMMA AppendOnce ==
  ASSUME NEW S, NEW s \in Seq(S), NEW x \in S
  PROVE  Append(s, x) /= s /\ \A y \in S : Append(s, x) = Append(s, y) => x = y
<1>1. Append(s, x) /= s
  BY AppendOf
<1>2. ASSUME NEW y \in S, Append(s, x) = Append(s, y) PROVE x = y
  BY <1>2, AppendOf
<1> QED
  BY <1>1, <1>2

\* What is overdue by the clock of the turn is overdue.
LEMMA OverdueHead ==
  ASSUME LoopInv, backlog /= <<>>, turn.now >= Head(backlog).deadline
  PROVE  \E k \in DOMAIN backlog :
           backlog[k].id = Head(backlog).id /\ now >= backlog[k].deadline
<1> DEFINE m == Head(backlog)
<1>1. backlog \in Seq(Messages)
  BY Types DEF Queues
<1>2. m = backlog[1] /\ m \in Messages /\ 1 \in DOMAIN backlog
  <2>1. m = backlog[1] /\ m \in Messages /\ Len(backlog) \in Nat /\ Len(backlog) > 0
    BY <1>1, TailOf
  <2> QED
    BY <1>1, <2>1
<1>3. now \in Nat /\ turn.now \in Nat /\ turn.now <= now
  BY Types DEF Counters, Queues, LoopInv, Loop
<1>4. turn.now >= m.deadline
  OBVIOUS
<1> HIDE DEF m
<1>5. m.deadline \in Nat
  BY <1>2, MessageFields
<1>6. now >= m.deadline
  BY <1>3, <1>4, <1>5
<1> QED
  BY <1>2, <1>6 DEF m

\* Only the head of the backlog is refused, and only when it is overdue.
LEMMA LateStep ==
  ASSUME LoopInv, [Next]_vars, NEW id \in Requests,
         replies'[id] = Append(replies[id], "not indexed")
  PROVE  \E k \in DOMAIN backlog : backlog[k].id = id /\ now >= backlog[k].deadline
<1> DEFINE late == "not indexed"
<1>1. PICK S : S = {"result", "not opened", "not indexed"}
  OBVIOUS
<1>2. /\ replies \in [Requests -> Seq(S)] /\ replies[id] \in Seq(S)
      /\ late \in S /\ "result" \in S /\ "not opened" \in S
  BY <1>1, Types DEF Answers
<1>3. replies'[id] = Append(replies[id], late)
  OBVIOUS
<1>4. /\ Append(replies[id], late) /= replies[id]
      /\ \A y \in S : Append(replies[id], late) = Append(replies[id], y) => late = y
  BY <1>2, AppendOnce
<1>5. late /= "result" /\ late /= "not opened"
  OBVIOUS
<1> HIDE DEF late
<1>6. replies' /= replies
  BY <1>3, <1>4
<1>7. ASSUME NEW n, NEW y \in S, Reply(n, y) PROVE n = id /\ y = late
  <2>1. replies' = [replies EXCEPT ![n] = Append(@, y)]
    BY <1>7 DEF Reply
  <2>2. n = id
    BY <1>2, <1>3, <1>4, <2>1
  <2>3. replies'[id] = Append(replies[id], y)
    BY <1>2, <2>1, <2>2
  <2> QED
    BY <1>3, <1>4, <2>2, <2>3
<1>8. CASE Expire
  <2> DEFINE m == Head(backlog)
  <2>1. m.backlog_path /= None /\ turn.now >= m.deadline /\ Reply(m.id, Answer(m)) /\ backlog /= <<>>
    BY <1>6, <1>8 DEF Expire
  <2>2. Answer(m) \in S
    BY <1>1 DEF Answer
  <2>3. m.id = id
    BY <1>7, <2>1, <2>2
  <2>4. \E k \in DOMAIN backlog : backlog[k].id = m.id /\ now >= backlog[k].deadline
    BY <2>1, OverdueHead
  <2> QED
    BY <2>3, <2>4
<1>9. ~Handle
  <2> SUFFICES ASSUME Handle PROVE FALSE
    OBVIOUS
  <2> DEFINE m == Head(turn.messages)
  <2>1. ~NotIndexedYet(m) /\ Reply(m.id, Answer(m))
    BY <1>6 DEF Handle, runRequest, runNotification
  <2>2. Answer(m) \in {"result", "not opened"}
    BY <2>1 DEF Answer, NotIndexedYet
  <2> QED
    BY <1>2, <1>5, <1>7, <2>1, <2>2
<1>10. ~Update
  <2> SUFFICES ASSUME Update PROVE FALSE
    OBVIOUS
  <2> DEFINE waiting == path2backlog[Head(on_indexed).path]
             what == IF Head(on_indexed).path \in opened THEN "result" ELSE "not opened"
  <2>1. /\ what \in {"result", "not opened"}
        /\ replies' = [r \in Requests |->
             IF \E k \in DOMAIN waiting : waiting[k] = r THEN Append(replies[r], what) ELSE replies[r]]
    BY DEF Update
  <2> HIDE DEF waiting, what
  <2>2. replies'[id] = Append(replies[id], what) \/ replies'[id] = replies[id]
    BY <2>1
  <2>3. what \in S /\ what /= late
    BY <1>2, <1>5, <2>1
  <2> QED
    BY <1>3, <1>4, <2>2, <2>3
<1>11. ~(Tick \/ Receive \/ Indexed \/ Wake \/ Expired \/ Handled \/ EndTurn \/ UNCHANGED vars)
  BY <1>6 DEF Tick, Receive, Indexed, Wake, Expired, Handled, EndTurn, vars
<1> QED
  BY <1>8, <1>9, <1>10, <1>11 DEF Next, mainLoop

\* No request is refused before its deadline.
THEOREM LateHolds == Spec => RefusedLate
<1>1. LoopInv /\ [Next]_vars
        => [\A id \in Requests :
              replies'[id] = Append(replies[id], "not indexed")
                => \E k \in DOMAIN backlog : backlog[k].id = id /\ now >= backlog[k].deadline]_vars
  BY LateStep
<1> QED
  BY <1>1, LoopInductive, PTL DEF Spec, RefusedLate
=============================================================================
