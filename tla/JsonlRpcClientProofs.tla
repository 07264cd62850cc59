-------------------------- MODULE JsonlRpcClientProofs --------------------------
(***************************************************************************)
(* Proofs about JsonlRpcClient for any number of calls, server requests     *)
(* and lines.  Each operation on the client's fields keeps Sound, hence     *)
(* each action does; what an operation adds to the microtasks (Adds) is all *)
(* that the order of delivery depends on.                                   *)
(* The conversation with the server is counted: how often a message was     *)
(* given to the stream or waits to be (Sent) is additive over the parts of  *)
(* a sequence, so that an operation that moves a message says nothing new;  *)
(* Talk is what then holds of a call, Serves of a request of the server.    *)
(***************************************************************************)
EXTENDS JsonlRpcClient, SequenceTheorems, FiniteSetTheorems, TLAPS

Fits(S) == S \in RpcType /\ Agree(S)

Sound(S) == Fits(S) /\ PumpOnItsWay(S)

\* T has the microtasks of S and at most a pump more.
Adds(T, S) == T.micro = S.micro \/ T.micro = Append(S.micro, Pump)

-------------------------------------------------------------------------------
(* The operations on the fields *)

LEMMA PumpIsTask == Pump \in Tasks
BY RpcAssumption DEF Pump, Task, Tasks

LEMMA AppendMember ==
    ASSUME NEW X, NEW q \in Seq(X), NEW x \in X
    PROVE  /\ Append(q, x) \in Seq(X)
           /\ ToSet(Append(q, x)) = ToSet(q) \cup {x}
<1> DEFINE r == Append(q, x)
<1>1. r \in Seq(X) /\ Len(r) = Len(q) + 1 /\ Len(q) \in Nat
      /\ \A i \in 1..Len(r) : r[i] = IF i = Len(q) + 1 THEN x ELSE q[i]
  BY AppendProperties
<1>2. DOMAIN q = 1..Len(q) /\ DOMAIN r = 1..Len(q) + 1
  BY <1>1
<1> QED
  BY <1>1, <1>2 DEF ToSet

LEMMA MessageTypes ==
    /\ \A c \in Calls : RequestOf(c) \in Messages /\ CancelOf(c) \in Messages
    /\ \A s \in ServerIds : AnswerOf(s) \in Messages
BY DEF RequestOf, CancelOf, AnswerOf, Messages

\* terminate leaves nothing behind and no microtask.
LEMMA TerminatedSound ==
    ASSUME NEW S, Fits(S)
    PROVE  Sound(Terminated(S)) /\ Terminated(S).closed /\ Terminated(S).micro = S.micro
<1> DEFINE T == Terminated(S)
<1>1. CASE S.closed
  BY <1>1 DEF Terminated, Sound, Fits, PumpOnItsWay
<1>2. CASE ~ S.closed
  <2> DEFINE o == [c \in Calls |-> IF c \in S.pending THEN "closed" ELSE S.outcome[c]]
  <2>0. o \in [Calls -> Outcomes] /\ \A c \in Calls : o[c] # "waiting"
    BY DEF Fits, RpcType, Agree, Outcomes
  <2>a. T = [S EXCEPT !.closed = TRUE, !.outcome = o, !.pending = {}, !.armed = {},
                      !.queue = <<>>, !.active = Idle, !.serving = {}]
    BY <1>2 DEF Terminated, Fits, RpcType
  <2> HIDE DEF o, T
  <2>b. T.closed /\ T.micro = S.micro /\ T.outcome = o
    BY <2>a DEF Fits, RpcType
  <2>c. <<>> \in Seq(Messages)
    OBVIOUS
  <2>d. T \in RpcType
    BY <2>0, <2>a, <2>c DEF Fits, RpcType
  <2>1. T \in RpcType /\ T.closed /\ T.micro = S.micro /\ T.outcome = o
    BY <2>b, <2>d
  <2>2. /\ T.pending = {} /\ T.armed = {} /\ T.queue = <<>> /\ T.active = Idle
        /\ T.serving = {}
    BY <2>a DEF Fits, RpcType
  <2>3. \A c \in Calls : T.outcome[c] # "waiting"
    BY <2>0, <2>1
  <2>4. Agree(T)
    BY <2>1, <2>2, <2>3 DEF Agree
  <2> QED
    BY <2>1, <2>4 DEF Sound, Fits, PumpOnItsWay, T
<1> QED
  BY <1>1, <1>2

\* A scheduled microtask changes nothing else.
LEMMA ScheduledFits ==
    ASSUME NEW S, Fits(S), NEW t \in Tasks
    PROVE  /\ Fits(Scheduled(S, t))
           /\ Scheduled(S, t).micro = Append(S.micro, t)
           /\ PumpOnItsWay(S) => PumpOnItsWay(Scheduled(S, t))
<1> DEFINE T == Scheduled(S, t)
<1>0. Append(S.micro, t) \in Seq(Tasks) /\ ToSet(Append(S.micro, t)) = ToSet(S.micro) \cup {t}
  BY AppendMember DEF Fits, RpcType
<1>1. /\ T \in RpcType /\ T.micro = Append(S.micro, t)
      /\ T.closed = S.closed /\ T.queue = S.queue /\ T.active = S.active
      /\ T.pending = S.pending /\ T.armed = S.armed /\ T.outcome = S.outcome
      /\ T.serving = S.serving
  BY <1>0 DEF Scheduled, Fits, RpcType
<1>2. Agree(T)
  BY <1>1 DEF Fits, Agree
<1>3. ToSet(S.micro) \subseteq ToSet(T.micro)
  BY <1>0, <1>1
<1> QED
  BY <1>1, <1>2, <1>3 DEF Fits, PumpOnItsWay

\* Whatever pumpWrites finds, it leaves no write behind.
LEMMA PumpedSound ==
    ASSUME NEW S, Fits(S), NEW w
    PROVE  Sound(Pumped(S, w)) /\ Adds(Pumped(S, w), S)
<1> DEFINE T == Pumped(S, w)
<1>1. CASE S.closed \/ S.active # Idle \/ S.queue = <<>>
  BY <1>1 DEF Pumped, Sound, PumpOnItsWay, Adds
<1>2. CASE ~ (S.closed \/ S.active # Idle \/ S.queue = <<>>) /\ w = "throws"
  <2>1. T = Terminated(S)
    BY <1>2 DEF Pumped
  <2> QED
    BY <2>1, TerminatedSound DEF Adds
<1>3. CASE ~ (S.closed \/ S.active # Idle \/ S.queue = <<>>) /\ w # "throws"
  <2> DEFINE W == [S EXCEPT !.queue = Tail(@), !.wire = Append(@, Head(S.queue))]
  <2>1. Head(S.queue) \in Messages /\ Tail(S.queue) \in Seq(Messages)
    BY <1>3 DEF Fits, RpcType
  <2>0. Append(S.wire, Head(S.queue)) \in Seq(Messages)
    BY <2>1, AppendMember DEF Fits, RpcType
  <2>2. /\ W \in RpcType /\ W.closed = FALSE /\ W.micro = S.micro /\ W.active = Idle
        /\ W.pending = S.pending /\ W.armed = S.armed /\ W.outcome = S.outcome
    BY <1>3, <2>0, <2>1 DEF Fits, RpcType
  <2>3. Fits(W)
    BY <2>2 DEF Fits, Agree
  <2>4. CASE w = "full"
    <3>1. T = [W EXCEPT !.active = Head(S.queue)]
      BY <1>3, <2>4 DEF Pumped
    <3>2. /\ T \in RpcType /\ T.closed = FALSE /\ T.micro = S.micro
          /\ T.active = Head(S.queue)
          /\ T.pending = S.pending /\ T.armed = S.armed /\ T.outcome = S.outcome
      BY <2>1, <2>2, <3>1 DEF RpcType
    <3>3. T.active # Idle
      BY <2>1, <3>2, IdleAssumption
    <3> QED
      BY <3>2, <3>3 DEF Fits, Agree, Sound, PumpOnItsWay, Adds
  <2>5. CASE w # "full"
    <3>1. T = Scheduled(W, Pump)
      BY <1>3, <2>5 DEF Pumped
    <3>2. Fits(T) /\ T.micro = Append(W.micro, Pump)
      BY <2>3, <3>1, ScheduledFits, PumpIsTask
    <3>3. Pump \in ToSet(T.micro)
      <4>1. W.micro \in Seq(Tasks)
        BY <2>2 DEF RpcType
      <4> QED
        BY <3>2, <4>1, AppendMember, PumpIsTask
    <3> QED
      BY <2>2, <3>2, <3>3 DEF Sound, PumpOnItsWay, Adds
  <2> QED
    BY <2>4, <2>5
<1> QED
  BY <1>1, <1>2, <1>3

\* enqueueMessage needs nothing of the queue it finds.
LEMMA EnqueuedSound ==
    ASSUME NEW S, Fits(S), NEW m \in Messages, NEW w
    PROVE  Sound(Enqueued(S, m, w)) /\ Adds(Enqueued(S, m, w), S)
<1>1. CASE S.closed
  BY <1>1 DEF Enqueued, Sound, PumpOnItsWay, Adds
<1>2. CASE ~ S.closed
  <2> DEFINE Q == [S EXCEPT !.queue = Append(@, m)]
  <2>0. Append(S.queue, m) \in Seq(Messages)
    BY AppendMember DEF Fits, RpcType
  <2>1. /\ Q \in RpcType /\ Q.closed = S.closed /\ Q.micro = S.micro
        /\ Q.pending = S.pending /\ Q.armed = S.armed /\ Q.outcome = S.outcome
    BY <2>0 DEF Fits, RpcType
  <2>2. Fits(Q)
    BY <1>2, <2>1 DEF Fits, Agree
  <2>3. Enqueued(S, m, w) = Pumped(Q, w)
    BY <1>2 DEF Enqueued
  <2> QED
    BY <2>1, <2>2, <2>3, PumpedSound DEF Adds
<1> QED
  BY <1>1, <1>2

\* A pending call that settles leaves all its tables at once.
LEMMA SettledSound ==
    ASSUME NEW S, Fits(S), NEW c \in S.pending, NEW how \in Outcomes \ {"waiting"}
    PROVE  /\ Fits(Settled(S, c, how))
           /\ Settled(S, c, how).micro = S.micro
           /\ Settled(S, c, how).queue = S.queue
           /\ PumpOnItsWay(S) => PumpOnItsWay(Settled(S, c, how))
<1> DEFINE T == Settled(S, c, how)
<1>1. c \in Calls /\ ~ S.closed
  BY DEF Fits, RpcType, Agree
<1>2. /\ T \in RpcType /\ T.closed = S.closed /\ T.micro = S.micro /\ T.queue = S.queue
      /\ T.active = S.active /\ T.pending = S.pending \ {c} /\ T.armed = S.armed \ {c}
      /\ T.outcome = [S.outcome EXCEPT ![c] = how]
  BY <1>1 DEF Settled, Fits, RpcType
<1>3. T.pending = {d \in Calls : T.outcome[d] = "waiting"}
  BY <1>1, <1>2 DEF Fits, RpcType, Agree
<1>4. Agree(T)
  BY <1>1, <1>2, <1>3 DEF Fits, Agree
<1> QED
  BY <1>2, <1>4 DEF Fits, PumpOnItsWay

\* removeQueuedWrite shortens the queue.
LEMMA UnqueuedSound ==
    ASSUME NEW S, Sound(S), NEW m \in ToSet(S.queue)
    PROVE  Sound(Unqueued(S, m)) /\ Unqueued(S, m).micro = S.micro
<1> DEFINE T == Unqueued(S, m)
           q == S.queue
           i == CHOOSE k \in DOMAIN q : q[k] = m
<1>1. q \in Seq(Messages) /\ i \in 1..Len(q)
  BY DEF Sound, Fits, RpcType, ToSet
<1> HIDE DEF i, q
<1>2. RemoveAt(q, i) \in Seq(Messages)
  <2>1. Len(q) \in Nat /\ i \in Nat /\ 1 <= i /\ i <= Len(q)
    BY <1>1
  <2>2. SubSeq(q, 1, i - 1) \in Seq(Messages)
    <3>1. \A k \in 1..i - 1 : k \in 1..Len(q)
      BY <2>1
    <3> QED
      BY <1>1, <2>1, <3>1, SubSeqProperties
  <2>3. SubSeq(q, i + 1, Len(q)) \in Seq(Messages)
    <3>1. \A k \in i + 1..Len(q) : k \in 1..Len(q)
      BY <2>1
    <3> QED
      BY <1>1, <2>1, <3>1, SubSeqProperties
  <2> QED
    BY <2>2, <2>3, ConcatProperties DEF RemoveAt
<1>3. /\ T \in RpcType /\ T.closed = S.closed /\ T.micro = S.micro /\ T.active = S.active
      /\ T.pending = S.pending /\ T.armed = S.armed /\ T.outcome = S.outcome
      /\ T.serving = S.serving /\ T.queue = RemoveAt(q, i)
  BY <1>2 DEF Unqueued, Sound, Fits, RpcType, q, i
<1>4. q # <<>>
  BY <1>1
<1>5. Agree(T)
  BY <1>3, <1>4 DEF Sound, Fits, Agree, q
<1> QED
  BY <1>3, <1>4, <1>5 DEF q, Sound, Fits, PumpOnItsWay

\* cancelPendingRequest, whether the request is taken back or cancelled at the server.
LEMMA CancelledSound ==
    ASSUME NEW S, Sound(S), NEW c \in Calls, NEW w
    PROVE  Sound(Cancelled(S, c, w)) /\ Adds(Cancelled(S, c, w), S)
<1> DEFINE T == Settled(S, c, "cancelled")
<1>1. CASE c \notin S.pending
  BY <1>1 DEF Cancelled, Adds
<1>2. CASE c \in S.pending
  <2>1. Sound(T) /\ T.micro = S.micro /\ T.queue = S.queue
    BY <1>2, SettledSound DEF Sound, Outcomes
  <2>2. CASE RequestOf(c) \in ToSet(S.queue)
    <3>1. Cancelled(S, c, w) = Unqueued(T, RequestOf(c))
      BY <1>2, <2>2 DEF Cancelled
    <3> QED
      BY <2>1, <2>2, <3>1, UnqueuedSound DEF Adds
  <2>3. CASE RequestOf(c) \notin ToSet(S.queue)
    <3>1. Cancelled(S, c, w) = Enqueued(T, CancelOf(c), w)
      BY <1>2, <2>3 DEF Cancelled
    <3> QED
      BY <2>1, <3>1, EnqueuedSound, MessageTypes DEF Sound, Adds
  <2> QED
    BY <2>2, <2>3
<1> QED
  BY <1>1, <1>2

\* T has the microtasks of S, perhaps a pump, or one that line n brought about.
AddsLine(T, S, n) ==
    \/ Adds(T, S)
    \/ \E t \in Tasks : t.line = n /\ T.micro = Append(S.micro, t)

LEMMA TaskTypes ==
    ASSUME NEW n \in 0..MaxLines
    PROVE  /\ \A c \in Calls : Task("resume", c, n) \in Tasks
           /\ \A s \in ServerIds, do \in {"serve", "answer", "forget"} : Task(do, s, n) \in Tasks
           /\ \A do \in {"notice", "fail"} : Task(do, NoId, n) \in Tasks
           /\ \A do, id : Task(do, id, n).line = n /\ Task(do, id, n).do = do
BY DEF Task, Tasks

LEMMA AnsweredSound ==
    ASSUME NEW S, Sound(S), NEW c \in Calls, NEW n \in 0..MaxLines
    PROVE  Sound(Answered(S, c, n)) /\ AddsLine(Answered(S, c, n), S, n)
<1>1. CASE c \notin S.pending
  BY <1>1 DEF Answered, AddsLine, Adds
<1>2. CASE c \in S.pending
  <2> DEFINE T == Settled(S, c, "answered")
             t == Task("resume", c, n)
  <2>1. Sound(T) /\ T.micro = S.micro
    BY <1>2, SettledSound DEF Sound, Outcomes
  <2>2. t \in Tasks /\ t.line = n
    BY TaskTypes
  <2>3. Answered(S, c, n) = Scheduled(T, t)
    BY <1>2 DEF Answered
  <2> HIDE DEF T, t
  <2> QED
    BY <2>1, <2>2, <2>3, ScheduledFits DEF Sound, AddsLine
<1> QED
  BY <1>1, <1>2

LEMMA AskedSound ==
    ASSUME NEW S, Sound(S), ~ S.closed, NEW s \in ServerIds, NEW known \in BOOLEAN,
           NEW n \in 0..MaxLines, NEW w
    PROVE  Sound(Asked(S, s, known, n, w)) /\ AddsLine(Asked(S, s, known, n, w), S, n)
<1>1. CASE s \in S.serving
  <2>1. Asked(S, s, known, n, w) = Terminated(S)
    BY <1>1 DEF Asked
  <2> QED
    BY <2>1, TerminatedSound DEF Sound, AddsLine, Adds
<1>2. CASE s \notin S.serving /\ known
  <2> DEFINE T == [S EXCEPT !.serving = @ \cup {s}]
             t == Task("serve", s, n)
  <2>1. /\ T \in RpcType /\ T.closed = S.closed /\ T.micro = S.micro /\ T.queue = S.queue
        /\ T.active = S.active /\ T.pending = S.pending /\ T.armed = S.armed
        /\ T.outcome = S.outcome
    BY DEF Sound, Fits, RpcType
  <2>2. Sound(T)
    BY <1>2, <2>1 DEF Sound, Fits, Agree, PumpOnItsWay
  <2>3. t \in Tasks /\ t.line = n
    BY TaskTypes
  <2>4. Asked(S, s, known, n, w) = Scheduled(T, t)
    BY <1>2 DEF Asked
  <2>5. T.micro = S.micro
    BY <2>1
  <2> HIDE DEF T, t
  <2> QED
    BY <2>2, <2>3, <2>4, <2>5, ScheduledFits DEF Sound, AddsLine
<1>3. CASE s \notin S.serving /\ ~ known
  <2>1. Asked(S, s, known, n, w) = Enqueued(S, AnswerOf(s), w)
    BY <1>3 DEF Asked
  <2> QED
    BY <2>1, EnqueuedSound, MessageTypes DEF Sound, AddsLine
<1> QED
  BY <1>1, <1>2, <1>3

\* handleLine, whatever the line is.
LEMMA HandledSound ==
    ASSUME NEW S, Sound(S), ~ S.closed, NEW l \in Lines, NEW n \in 0..MaxLines, NEW w
    PROVE  Sound(Handled(S, l, n, w)) /\ AddsLine(Handled(S, l, n, w), S, n)
<1>1. CASE l.is = "response"
  <2>1. l.id \in Calls /\ Handled(S, l, n, w) = Answered(S, l.id, n)
    BY <1>1 DEF Lines, Handled
  <2> QED
    BY <2>1, AnsweredSound
<1>2. CASE l.is \in {"ask", "unknown"}
  <2> DEFINE known == l.is = "ask"
  <2>1. l.id \in ServerIds /\ Handled(S, l, n, w) = Asked(S, l.id, known, n, w)
    BY <1>2 DEF Lines, Handled
  <2>2. known \in BOOLEAN
    OBVIOUS
  <2> HIDE DEF known
  <2> QED
    BY <2>1, <2>2, AskedSound
<1>3. CASE l.is = "notice"
  <2> DEFINE t == Task("notice", NoId, n)
  <2>1. Handled(S, l, n, w) = Scheduled(S, t)
    BY <1>3 DEF Handled, Noticed
  <2>2. t \in Tasks /\ t.line = n
    BY TaskTypes
  <2> HIDE DEF t
  <2> QED
    BY <2>1, <2>2, ScheduledFits DEF Sound, AddsLine
<1>4. CASE l.is = "bad"
  <2>1. Handled(S, l, n, w) = Terminated(S)
    BY <1>4 DEF Handled
  <2> QED
    BY <2>1, TerminatedSound DEF Sound, AddsLine, Adds
<1>5. l.is \in {"response", "ask", "unknown", "notice", "bad"}
  BY DEF Lines
<1> QED
  BY <1>1, <1>2, <1>3, <1>4, <1>5

-------------------------------------------------------------------------------
(* The order of delivery *)

Delivers(t) == t.do \in {"resume", "notice", "serve"}

\* h has been delivered, m waits to be: in the order of the n lines handled so far.
InOrder(m, h, n) ==
    /\ \A i \in DOMAIN h : h[i] <= n /\ \A j \in 1..i - 1 : h[j] < h[i]
    /\ \A i \in DOMAIN m : Delivers(m[i]) =>
         /\ m[i].line <= n
         /\ \A j \in DOMAIN h : h[j] < m[i].line
         /\ \A j \in 1..i - 1 : Delivers(m[j]) => m[j].line < m[i].line

LEMMA ElementsOf ==
    ASSUME NEW X, NEW q \in Seq(X)
    PROVE  \A i \in DOMAIN q : q[i] \in X
OBVIOUS

LEMMA LinesOf ==
    ASSUME NEW m \in Seq(Tasks), NEW h \in Seq(0..MaxLines)
    PROVE  /\ \A i \in DOMAIN m : m[i].line \in Nat
           /\ \A i \in DOMAIN h : h[i] \in Nat
<1>1. MaxLines \in Nat
  BY RpcAssumption
<1>2. \A i \in DOMAIN m : m[i] \in Tasks
  BY ElementsOf
<1>3. \A i \in DOMAIN h : h[i] \in 0..MaxLines
  <2> DEFINE L == 0..MaxLines
  <2>1. h \in Seq(L)
    OBVIOUS
  <2> HIDE DEF L
  <2>2. \A i \in DOMAIN h : h[i] \in L
    BY <2>1, ElementsOf
  <2> QED
    BY <2>2 DEF L
<1> QED
  BY <1>1, <1>2, <1>3 DEF Tasks

LEMMA OrderLater ==
    ASSUME NEW m \in Seq(Tasks), NEW h \in Seq(0..MaxLines), NEW n \in Nat, InOrder(m, h, n)
    PROVE  InOrder(m, h, n + 1)
BY LinesOf DEF InOrder

\* A pump, an answer, a failure or the removal of an id may wait anywhere.
LEMMA OrderOther ==
    ASSUME NEW m \in Seq(Tasks), NEW h \in Seq(0..MaxLines), NEW n \in Nat, InOrder(m, h, n),
           NEW t \in Tasks, ~ Delivers(t)
    PROVE  InOrder(Append(m, t), h, n)
<1> DEFINE r == Append(m, t)
<1>1. /\ Len(m) \in Nat /\ DOMAIN m = 1..Len(m) /\ DOMAIN r = 1..Len(m) + 1
      /\ r[Len(m) + 1] = t /\ \A i \in 1..Len(m) : r[i] = m[i]
  BY AppendProperties
<1> HIDE DEF r
<1> QED
  BY <1>1 DEF InOrder, r

\* What the next line brings about comes last.
LEMMA OrderLine ==
    ASSUME NEW m \in Seq(Tasks), NEW h \in Seq(0..MaxLines), NEW n \in Nat, InOrder(m, h, n),
           NEW t \in Tasks, t.line = n + 1
    PROVE  InOrder(Append(m, t), h, n + 1)
<1> DEFINE r == Append(m, t)
<1>1. /\ Len(m) \in Nat /\ DOMAIN m = 1..Len(m) /\ DOMAIN r = 1..Len(m) + 1
      /\ r[Len(m) + 1] = t /\ \A i \in 1..Len(m) : r[i] = m[i]
  BY AppendProperties
<1>2. InOrder(m, h, n + 1)
  BY OrderLater
<1>4. /\ \A i \in DOMAIN h : h[i] < n + 1
      /\ \A i \in DOMAIN m : Delivers(m[i]) => m[i].line < n + 1
  BY LinesOf DEF InOrder
<1> HIDE DEF r
<1>5. ASSUME NEW i \in DOMAIN r, Delivers(r[i])
      PROVE  /\ r[i].line <= n + 1
             /\ \A j \in DOMAIN h : h[j] < r[i].line
             /\ \A j \in 1..i - 1 : Delivers(r[j]) => r[j].line < r[i].line
  <2>1. CASE i = Len(m) + 1
    BY <1>1, <1>4, <2>1
  <2>2. CASE i \in 1..Len(m)
    <3>1. i \in DOMAIN m /\ r[i] = m[i] /\ \A j \in 1..i - 1 : r[j] = m[j]
      BY <1>1, <2>2
    <3> QED
      BY <1>2, <1>5, <3>1 DEF InOrder
  <2> QED
    BY <1>1, <2>1, <2>2
<1> QED
  BY <1>2, <1>5 DEF InOrder, r

\* A microtask that delivers nothing is done.
LEMMA OrderDrop ==
    ASSUME NEW m \in Seq(Tasks), NEW h \in Seq(0..MaxLines), NEW n \in Nat, InOrder(m, h, n),
           m # <<>>
    PROVE  InOrder(Tail(m), h, n)
<1> DEFINE r == Tail(m)
<1>1. /\ Len(m) \in Nat /\ Len(m) # 0 /\ DOMAIN m = 1..Len(m) /\ DOMAIN r = 1..Len(m) - 1
      /\ \A i \in 1..Len(m) - 1 : r[i] = m[i + 1]
  BY HeadTailProperties
<1> HIDE DEF r
<1>2. ASSUME NEW i \in DOMAIN r, Delivers(r[i])
      PROVE  /\ r[i].line <= n
             /\ \A j \in DOMAIN h : h[j] < r[i].line
             /\ \A j \in 1..i - 1 : Delivers(r[j]) => r[j].line < r[i].line
  <2>1. i + 1 \in DOMAIN m /\ r[i] = m[i + 1]
    BY <1>1
  <2>2. \A j \in 1..i - 1 : r[j] = m[j + 1] /\ j + 1 \in 1..(i + 1) - 1
    BY <1>1
  <2> QED
    BY <1>2, <2>1, <2>2 DEF InOrder
<1> QED
  BY <1>2 DEF InOrder, r

\* A microtask that delivers is done.
LEMMA OrderHear ==
    ASSUME NEW m \in Seq(Tasks), NEW h \in Seq(0..MaxLines), NEW n \in Nat, InOrder(m, h, n),
           m # <<>>, Delivers(Head(m))
    PROVE  InOrder(Tail(m), Append(h, Head(m).line), n)
<1> DEFINE r == Tail(m)
           t == Head(m)
           g == Append(h, t.line)
<1>1. /\ Len(m) \in Nat /\ Len(m) # 0 /\ DOMAIN m = 1..Len(m) /\ DOMAIN r = 1..Len(m) - 1
      /\ \A i \in 1..Len(m) - 1 : r[i] = m[i + 1]
      /\ t = m[1] /\ t \in Tasks
  BY HeadTailProperties
<1>2. t.line \in 0..MaxLines
  BY <1>1 DEF Tasks
<1>3. /\ Len(h) \in Nat /\ DOMAIN h = 1..Len(h) /\ DOMAIN g = 1..Len(h) + 1
      /\ g[Len(h) + 1] = t.line /\ \A i \in 1..Len(h) : g[i] = h[i]
  BY <1>2, AppendProperties
<1>4. InOrder(r, h, n)
  BY OrderDrop
<1> HIDE DEF r, t, g
<1>5. t.line <= n /\ \A j \in DOMAIN h : h[j] < t.line
  BY <1>1 DEF InOrder, t
<1>6. \A i \in DOMAIN g : g[i] <= n /\ \A j \in 1..i - 1 : g[j] < g[i]
  <2>1. SUFFICES ASSUME NEW i \in DOMAIN g
                 PROVE  g[i] <= n /\ \A j \in 1..i - 1 : g[j] < g[i]
    OBVIOUS
  <2>2. CASE i = Len(h) + 1
    BY <1>3, <1>5, <2>2
  <2>3. CASE i \in 1..Len(h)
    BY <1>3, <2>3 DEF InOrder
  <2> QED
    BY <1>3, <2>2, <2>3
<1>7. ASSUME NEW i \in DOMAIN r, Delivers(r[i])
      PROVE  \A j \in DOMAIN g : g[j] < r[i].line
  <2>1. i + 1 \in DOMAIN m /\ r[i] = m[i + 1] /\ 1 \in 1..(i + 1) - 1
    BY <1>1
  <2>2. t.line < r[i].line
    BY <1>1, <1>7, <2>1 DEF InOrder, t
  <2> QED
    BY <1>3, <1>4, <1>7, <2>2 DEF InOrder
<1> QED
  BY <1>4, <1>6, <1>7 DEF InOrder, r, g, t

-------------------------------------------------------------------------------
(* The actions *)

Rest ==
    /\ reading \in BOOLEAN /\ line \in 0..MaxLines /\ running \subseteq ServerIds
    /\ heard \in Seq(0..MaxLines)
    /\ asked \in [ServerIds -> 0..MaxLines] /\ \A s \in ServerIds : asked[s] <= line

IInv == Sound(rpc) /\ Rest /\ InOrder(rpc.micro, heard, line)

\* What a step that handles no line and delivers nothing has to show.
LEMMA SilentStep ==
    ASSUME IInv, Sound(rpc'), running' \subseteq ServerIds,
           UNCHANGED <<reading, line, heard, asked>>,
           \/ rpc'.micro = rpc.micro
           \/ \E t \in Tasks : ~ Delivers(t) /\ rpc'.micro = Append(rpc.micro, t)
    PROVE  IInv'
<1>1. rpc.micro \in Seq(Tasks) /\ line \in Nat /\ heard \in Seq(0..MaxLines)
  BY RpcAssumption DEF IInv, Sound, Fits, RpcType, Rest
<1>2. InOrder(rpc'.micro, heard, line)
  BY <1>1, OrderOther DEF IInv
<1> QED
  BY <1>2 DEF IInv, Rest

LEMMA PumpSilent == ~ Delivers(Pump)
BY DEF Delivers, Pump, Task

LEMMA RequestKeeps ==
    ASSUME IInv, NEW c \in Calls, Request(c)
    PROVE  IInv'
<1> DEFINE Q == [rpc EXCEPT !.pending = @ \cup {c}, !.armed = @ \cup {c}, !.outcome[c] = "waiting"]
<1>1. PICK w \in Writes : rpc' = Enqueued(Q, RequestOf(c), w)
  BY DEF Request
<1>2. /\ Q \in RpcType /\ Q.closed = rpc.closed /\ ~ rpc.closed /\ Q.micro = rpc.micro
      /\ Q.queue = rpc.queue /\ Q.active = rpc.active
      /\ Q.pending = rpc.pending \cup {c} /\ Q.armed = rpc.armed \cup {c}
      /\ Q.outcome = [rpc.outcome EXCEPT ![c] = "waiting"]
  BY DEF Request, IInv, Sound, Fits, RpcType, Outcomes
<1>3. Q.pending = {d \in Calls : Q.outcome[d] = "waiting"}
  BY <1>2 DEF IInv, Sound, Fits, RpcType, Agree
<1>4. Fits(Q)
  BY <1>2, <1>3 DEF IInv, Sound, Fits, Agree
<1>5. Q.micro = rpc.micro
  BY <1>2
<1> HIDE DEF Q
<1>6. Sound(rpc') /\ Adds(rpc', Q)
  BY <1>1, <1>4, EnqueuedSound, MessageTypes
<1>7. UNCHANGED <<reading, line, running, heard, asked>>
  BY DEF Request
<1> QED
  BY <1>5, <1>6, <1>7, SilentStep, PumpIsTask, PumpSilent DEF Adds, IInv, Rest

\* Abort and Timeout
LEMMA CancelKeeps ==
    ASSUME IInv, NEW c \in Calls, Abort(c) \/ Timeout(c)
    PROVE  IInv'
<1>1. PICK w \in Writes : rpc' = Cancelled(rpc, c, w)
  BY DEF Abort, Timeout
<1>2. Sound(rpc') /\ Adds(rpc', rpc)
  BY <1>1, CancelledSound DEF IInv
<1>3. UNCHANGED <<reading, line, running, heard, asked>>
  BY DEF Abort, Timeout
<1> QED
  BY <1>2, <1>3, SilentStep, PumpIsTask, PumpSilent DEF Adds, IInv, Rest

\* ReadLine and LastLine, which also closes.
LEMMA LineKeeps ==
    ASSUME IInv, NEW l \in Lines, ReadLine(l) \/ LastLine(l)
    PROVE  IInv'
<1>1. /\ line \in 0..MaxLines /\ line + 1 \in 0..MaxLines /\ line' = line + 1 /\ line \in Nat
      /\ ~ rpc.closed /\ reading' \in BOOLEAN /\ UNCHANGED <<running, heard>>
  BY RpcAssumption DEF IInv, Rest, ReadLine, LastLine
<1>2. Sound(rpc') /\ AddsLine(rpc', rpc, line + 1)
  <2>1. PICK w \in Writes : \/ rpc' = Handled(rpc, l, line + 1, w)
                           \/ rpc' = Terminated(Handled(rpc, l, line + 1, w))
    BY DEF ReadLine, LastLine
  <2> DEFINE H == Handled(rpc, l, line + 1, w)
  <2>2. Sound(H) /\ AddsLine(H, rpc, line + 1)
    BY <1>1, HandledSound DEF IInv
  <2> HIDE DEF H
  <2>3. Sound(Terminated(H)) /\ Terminated(H).micro = H.micro
    BY <2>2, TerminatedSound DEF Sound
  <2> QED
    BY <2>1, <2>2, <2>3 DEF AddsLine, Adds, H
<1>3. rpc.micro \in Seq(Tasks) /\ heard \in Seq(0..MaxLines) /\ InOrder(rpc.micro, heard, line)
  BY DEF IInv, Sound, Fits, RpcType, Rest
<1>4. InOrder(rpc'.micro, heard, line + 1)
  <2>1. CASE rpc'.micro = rpc.micro
    BY <1>1, <1>3, <2>1, OrderLater
  <2>2. CASE rpc'.micro = Append(rpc.micro, Pump)
    <3>1. InOrder(rpc'.micro, heard, line) /\ rpc'.micro \in Seq(Tasks)
      BY <1>1, <1>3, <2>2, OrderOther, PumpIsTask, PumpSilent, AppendMember
    <3> QED
      BY <1>1, <1>3, <3>1, OrderLater
  <2>3. ASSUME NEW t \in Tasks, t.line = line + 1, rpc'.micro = Append(rpc.micro, t)
        PROVE  InOrder(rpc'.micro, heard, line + 1)
    BY <1>1, <1>3, <2>3, OrderLine
  <2> QED
    BY <1>2, <2>1, <2>2, <2>3 DEF AddsLine, Adds
<1>5. asked' \in [ServerIds -> 0..MaxLines] /\ \A s \in ServerIds : asked'[s] <= line + 1
  <2>1. asked \in [ServerIds -> 0..MaxLines] /\ \A s \in ServerIds : asked[s] <= line /\ asked[s] \in Nat
    BY RpcAssumption DEF IInv, Rest
  <2>2. asked' = asked \/ \E s \in ServerIds : asked' = [asked EXCEPT ![s] = @ + 1]
    BY DEF ReadLine, LastLine, Counted, Lines
  <2>3. CASE asked' = asked
    BY <1>1, <2>1, <2>3
  <2>4. ASSUME NEW s \in ServerIds, asked' = [asked EXCEPT ![s] = @ + 1]
        PROVE  asked' \in [ServerIds -> 0..MaxLines] /\ \A r \in ServerIds : asked'[r] <= line + 1
    <3>1. asked[s] + 1 \in 0..MaxLines /\ asked[s] + 1 <= line + 1
      BY <1>1, <2>1, RpcAssumption
    <3> QED
      BY <1>1, <2>1, <2>4, <3>1
  <2> QED
    BY <2>2, <2>3, <2>4
<1> QED
  BY <1>1, <1>2, <1>4, <1>5 DEF IInv, Rest

LEMMA CloseKeeps ==
    ASSUME IInv, Close
    PROVE  IInv'
BY TerminatedSound, SilentStep DEF Close, IInv, Sound, Rest

LEMMA DrainKeeps ==
    ASSUME IInv, Drain
    PROVE  IInv'
<1> DEFINE D == [rpc EXCEPT !.active = Idle]
<1>1. PICK w \in Writes : rpc' = Pumped(D, w)
  BY DEF Drain
<1>2. /\ D \in RpcType /\ D.closed = rpc.closed /\ D.micro = rpc.micro /\ D.queue = rpc.queue
      /\ D.active = Idle /\ D.pending = rpc.pending /\ D.armed = rpc.armed
      /\ D.outcome = rpc.outcome /\ D.serving = rpc.serving
  BY DEF IInv, Sound, Fits, RpcType
<1>3. Fits(D)
  BY <1>2 DEF IInv, Sound, Fits, Agree
<1>4. D.micro = rpc.micro
  BY <1>2
<1> HIDE DEF D
<1>5. Sound(rpc') /\ Adds(rpc', D)
  BY <1>1, <1>3, PumpedSound
<1>6. UNCHANGED <<reading, line, running, heard, asked>>
  BY DEF Drain
<1> QED
  BY <1>4, <1>5, <1>6, SilentStep, PumpIsTask, PumpSilent DEF Adds, IInv, Rest

LEMMA HandlerEndsKeeps ==
    ASSUME IInv, NEW s \in ServerIds, HandlerEnds(s)
    PROVE  IInv'
<1> DEFINE t == Task("answer", s, 0)
<1>1. t \in Tasks /\ ~ Delivers(t)
  BY RpcAssumption DEF Task, Tasks, Delivers
<1>2. rpc' = Scheduled(rpc, t) /\ UNCHANGED <<reading, line, heard, asked>>
      /\ running' \subseteq ServerIds
  BY DEF HandlerEnds, IInv, Rest
<1> HIDE DEF t
<1>3. Sound(rpc') /\ rpc'.micro = Append(rpc.micro, t)
  BY <1>1, <1>2, ScheduledFits DEF IInv, Sound
<1> QED
  BY <1>1, <1>2, <1>3, SilentStep

\* The first microtask is taken off.
LEMMA PoppedSound ==
    ASSUME IInv, rpc.micro # <<>>
    PROVE  /\ Fits(Popped) /\ Popped.micro = Tail(rpc.micro) /\ Popped.closed = rpc.closed
           /\ Next1 # Pump => Sound(Popped)
           /\ Next1 \in Tasks
<1>1. Tail(rpc.micro) \in Seq(Tasks) /\ Head(rpc.micro) \in Tasks
  BY DEF IInv, Sound, Fits, RpcType
<1>2. /\ Popped \in RpcType /\ Popped.micro = Tail(rpc.micro) /\ Popped.closed = rpc.closed
      /\ Popped.queue = rpc.queue /\ Popped.active = rpc.active
      /\ Popped.pending = rpc.pending /\ Popped.armed = rpc.armed
      /\ Popped.outcome = rpc.outcome /\ Popped.serving = rpc.serving
  BY <1>1 DEF Popped, IInv, Sound, Fits, RpcType
<1>3. Fits(Popped)
  BY <1>2 DEF IInv, Sound, Fits, Agree
<1>4. ToSet(rpc.micro) = ToSet(Tail(rpc.micro)) \cup {Head(rpc.micro)}
  <2> DEFINE m == rpc.micro
             r == Tail(m)
  <2>1. m \in Seq(Tasks) /\ m # <<>>
    BY DEF IInv, Sound, Fits, RpcType
  <2> HIDE DEF m
  <2>2. /\ Len(m) \in Nat /\ Len(m) # 0 /\ DOMAIN m = 1..Len(m) /\ DOMAIN r = 1..Len(m) - 1
        /\ \A i \in 1..Len(m) - 1 : r[i] = m[i + 1] /\ Head(m) = m[1]
    BY <2>1, HeadTailProperties
  <2> HIDE DEF r
  <2>3. \A i \in DOMAIN m : i = 1 \/ (i - 1 \in DOMAIN r /\ r[i - 1] = m[i])
    BY <2>2
  <2>4. \A i \in DOMAIN r : i + 1 \in DOMAIN m /\ m[i + 1] = r[i]
    BY <2>2
  <2>5. Head(m) = m[1] /\ 1 \in DOMAIN m
    BY <2>1, <2>2
  <2>6. ToSet(r) \cup {Head(m)} \subseteq ToSet(m)
    BY <2>4, <2>5 DEF ToSet
  <2>7. ToSet(m) \subseteq ToSet(r) \cup {Head(m)}
    <3>1. SUFFICES ASSUME NEW i \in DOMAIN m PROVE m[i] \in ToSet(r) \cup {Head(m)}
      BY DEF ToSet
    <3>2. i = 1 \/ (i - 1 \in DOMAIN r /\ r[i - 1] = m[i])
      BY <2>3
    <3> QED
      BY <2>5, <3>2 DEF ToSet
  <2> QED
    BY <2>6, <2>7 DEF m, r
<1>5. Next1 # Pump => PumpOnItsWay(Popped)
  BY <1>2, <1>4 DEF IInv, Sound, PumpOnItsWay, Next1
<1> QED
  BY <1>1, <1>2, <1>3, <1>5 DEF Sound, Next1

\* What a microtask has to show: what it leaves waiting, and what it delivers.
LEMMA MicroStep ==
    ASSUME IInv, rpc.micro # <<>>, Sound(rpc'), running' \subseteq ServerIds,
           UNCHANGED <<reading, line, asked>>,
           \/ UNCHANGED heard
           \/ Delivers(Next1) /\ Hear,
           \/ rpc'.micro = Tail(rpc.micro)
           \/ \E t \in Tasks : ~ Delivers(t) /\ rpc'.micro = Append(Tail(rpc.micro), t)
           \/ \E t, u \in Tasks : /\ ~ Delivers(t) /\ ~ Delivers(u)
                                  /\ rpc'.micro = Append(Append(Tail(rpc.micro), t), u)
    PROVE  IInv'
<1> DEFINE m == rpc.micro
           r == Tail(m)
<1>1. /\ m \in Seq(Tasks) /\ r \in Seq(Tasks) /\ line \in Nat /\ heard \in Seq(0..MaxLines)
      /\ m # <<>> /\ Head(m) \in Tasks /\ InOrder(m, heard, line)
  BY RpcAssumption DEF IInv, Sound, Fits, RpcType, Rest
<1>2. heard' \in Seq(0..MaxLines)
  <2>1. Head(m).line \in 0..MaxLines
    BY <1>1 DEF Tasks
  <2>2. Append(heard, Head(m).line) \in Seq(0..MaxLines)
    BY <1>1, <2>1, AppendProperties
  <2> QED
    BY <1>1, <2>2 DEF Hear, Next1
<1>3. InOrder(r, heard', line)
  BY <1>1, OrderDrop, OrderHear DEF Hear, Next1
<1> HIDE DEF m, r
<1>4. \A t \in Tasks : ~ Delivers(t) => /\ InOrder(Append(r, t), heard', line)
                                       /\ Append(r, t) \in Seq(Tasks)
  BY <1>1, <1>2, <1>3, OrderOther, AppendMember
<1>5. \A t, u \in Tasks : ~ Delivers(t) /\ ~ Delivers(u) =>
         InOrder(Append(Append(r, t), u), heard', line)
  BY <1>1, <1>2, <1>4, OrderOther
<1>6. InOrder(rpc'.micro, heard', line)
  BY <1>3, <1>4, <1>5 DEF r, m
<1> QED
  BY <1>2, <1>6 DEF IInv, Rest

LEMMA MicrotaskKeeps ==
    ASSUME IInv, Microtask
    PROVE  IInv'
<1>0. rpc.micro # <<>>
  BY DEF Microtask, PumpAgain, ResumeCaller, CallNoticeHandler, NoticeFailed,
         CallRequestHandler, SendAnswer, ForgetRequest, Due
<1> DEFINE P == Popped
<1>1. /\ Fits(P) /\ P.micro = Tail(rpc.micro) /\ P.closed = rpc.closed
      /\ Next1 # Pump => Sound(P)
      /\ Next1 \in Tasks /\ running \subseteq ServerIds
  BY <1>0, PoppedSound DEF IInv, Rest
<1>2. \A do : Due(do) => Next1.do = do
  BY DEF Due, Next1
<1>3. Next1.do # "pump" => Next1 # Pump
  BY DEF Pump, Task
<1> HIDE DEF P
<1>4. CASE PumpAgain
  <2>1. PICK w \in Writes : rpc' = Pumped(P, w)
    BY <1>4 DEF PumpAgain, P
  <2>2. Sound(rpc') /\ Adds(rpc', P)
    BY <1>1, <2>1, PumpedSound
  <2>3. UNCHANGED <<reading, line, running, heard, asked>>
    BY <1>4 DEF PumpAgain
  <2> QED
    BY <1>0, <1>1, <2>2, <2>3, MicroStep, PumpIsTask, PumpSilent DEF Adds
<1>5. CASE ResumeCaller \/ CallRequestHandler
  <2>1. Next1.do \in {"resume", "serve"} /\ rpc' = P /\ Hear /\ UNCHANGED <<reading, line, asked>>
    BY <1>2, <1>5 DEF ResumeCaller, CallRequestHandler, P
  <2>2. running' \subseteq ServerIds
    <3>1. CASE ResumeCaller
      BY <1>1, <3>1 DEF ResumeCaller
    <3>2. CASE CallRequestHandler
      <4>1. Next1.id \in ServerIds
        BY <1>1, <1>2, <3>2 DEF CallRequestHandler, Tasks
      <4> QED
        BY <1>1, <3>2, <4>1 DEF CallRequestHandler
    <3> QED
      BY <1>5, <3>1, <3>2
  <2>3. Delivers(Next1)
    BY <2>1 DEF Delivers
  <2> QED
    BY <1>0, <1>1, <1>3, <2>1, <2>2, <2>3, MicroStep
<1>6. CASE CallNoticeHandler
  <2> DEFINE t == Task("fail", NoId, 0)
  <2>1. t \in Tasks /\ ~ Delivers(t)
    BY RpcAssumption DEF Task, Tasks, Delivers
  <2>2. /\ Next1.do = "notice" /\ Hear /\ UNCHANGED <<reading, line, running, asked>>
        /\ rpc' = P \/ rpc' = Scheduled(P, t)
    BY <1>2, <1>6 DEF CallNoticeHandler, P
  <2>3. Delivers(Next1)
    BY <2>2 DEF Delivers
  <2> HIDE DEF t
  <2>4. Sound(rpc') /\ (rpc'.micro = P.micro \/ rpc'.micro = Append(P.micro, t))
    BY <1>1, <1>3, <2>1, <2>2, ScheduledFits DEF Sound
  <2> QED
    BY <1>0, <1>1, <2>1, <2>2, <2>3, <2>4, MicroStep
<1>7. CASE NoticeFailed
  <2>1. rpc' = Terminated(P) /\ UNCHANGED <<reading, line, running, heard, asked>>
    BY <1>7 DEF NoticeFailed, P
  <2>2. Sound(rpc') /\ rpc'.micro = P.micro
    BY <1>1, <2>1, TerminatedSound
  <2> QED
    BY <1>0, <1>1, <2>1, <2>2, MicroStep
<1>8. CASE SendAnswer
  <2> DEFINE s == Next1.id
             t == Task("forget", s, 0)
             E(w) == Enqueued(P, AnswerOf(s), w)
  <2>1. /\ Next1.do = "answer" /\ UNCHANGED <<reading, line, running, heard, asked>>
        /\ \E w \in Writes : rpc' = Scheduled(E(w), t)
    BY <1>2, <1>8 DEF SendAnswer, P
  <2>2. PICK w \in Writes : rpc' = Scheduled(E(w), t)
    BY <2>1
  <2>3. s \in ServerIds
    BY <1>1, <2>1 DEF Tasks
  <2>4. t \in Tasks /\ ~ Delivers(t)
    BY <2>3, RpcAssumption DEF Task, Tasks, Delivers
  <2>5. Sound(E(w)) /\ Adds(E(w), P)
    BY <1>1, <2>3, EnqueuedSound, MessageTypes
  <2> HIDE DEF E, t, s
  <2>6. Sound(rpc') /\ rpc'.micro = Append(E(w).micro, t)
    BY <2>2, <2>4, <2>5, ScheduledFits DEF Sound
  <2> QED
    BY <1>0, <1>1, <2>1, <2>4, <2>5, <2>6, MicroStep, PumpIsTask, PumpSilent DEF Adds
<1>9. CASE ForgetRequest
  <2>1. Next1.do = "forget" /\ UNCHANGED <<reading, line, running, heard, asked>>
        /\ rpc' = [P EXCEPT !.serving = @ \ {Next1.id}]
    BY <1>2, <1>9 DEF ForgetRequest, P
  <2>2. Sound(P)
    BY <1>1, <1>3, <2>1
  <2>3. /\ rpc' \in RpcType /\ rpc'.closed = P.closed /\ rpc'.micro = P.micro
        /\ rpc'.queue = P.queue /\ rpc'.active = P.active /\ rpc'.pending = P.pending
        /\ rpc'.armed = P.armed /\ rpc'.outcome = P.outcome
        /\ rpc'.serving = P.serving \ {Next1.id}
    BY <2>1, <2>2 DEF Sound, Fits, RpcType
  <2>4. Sound(rpc')
    BY <2>2, <2>3 DEF Sound, Fits, Agree, PumpOnItsWay
  <2> QED
    BY <1>0, <1>1, <2>1, <2>3, <2>4, MicroStep
<1> QED
  BY <1>4, <1>5, <1>6, <1>7, <1>8, <1>9 DEF Microtask

-------------------------------------------------------------------------------
(* How often a message occurs *)

Places(q, m) == {i \in DOMAIN q : q[i] = m}
Times(q, m) == Cardinality(Places(q, m))

LEMMA TimesType ==
    ASSUME NEW X, NEW q \in Seq(X), NEW m
    PROVE  /\ IsFiniteSet(Places(q, m)) /\ Times(q, m) \in Nat
           /\ Times(q, m) > 0 <=> m \in ToSet(q)
<1>1. Len(q) \in Nat /\ DOMAIN q = 1..Len(q)
  BY LenProperties
<1>2. IsFiniteSet(1..Len(q))
  BY <1>1, FS_Interval
<1>3. IsFiniteSet(Places(q, m))
  <2>1. Places(q, m) \in SUBSET (1..Len(q))
    BY <1>1 DEF Places
  <2> QED
    BY <1>2, <2>1, FS_Subset
<1>4. Times(q, m) \in Nat /\ (Times(q, m) = 0 <=> Places(q, m) = {})
  BY <1>3, FS_CardinalityType, FS_EmptySet DEF Times
<1>5. Places(q, m) = {} <=> m \notin ToSet(q)
  BY DEF Places, ToSet
<1> QED
  BY <1>3, <1>4, <1>5

LEMMA TimesConcat ==
    ASSUME NEW X, NEW p \in Seq(X), NEW q \in Seq(X), NEW m
    PROVE  Times(p \o q, m) = Times(p, m) + Times(q, m)
<1> DEFINE n == Len(p)
           A == Places(p, m)
           Q == Places(q, m)
           f == [i \in Q |-> n + i]
           B == {f[i] : i \in Q}
<1>1. /\ n \in Nat /\ Len(q) \in Nat /\ DOMAIN p = 1..n /\ DOMAIN q = 1..Len(q)
      /\ p \o q \in Seq(X) /\ Len(p \o q) = n + Len(q) /\ DOMAIN (p \o q) = 1..n + Len(q)
      /\ \A i \in 1..n + Len(q) : (p \o q)[i] = IF i <= n THEN p[i] ELSE q[i - n]
  BY ConcatProperties, LenProperties
<1>2. IsFiniteSet(A) /\ IsFiniteSet(Q) /\ Times(p, m) \in Nat /\ Times(q, m) \in Nat
  BY TimesType
<1>3. Places(p \o q, m) = A \cup B
  <2>1. ASSUME NEW i \in Places(p \o q, m) PROVE i \in A \cup B
    <3>1. i \in 1..n + Len(q) /\ (p \o q)[i] = m
      BY <1>1 DEF Places
    <3>2. CASE i <= n
      BY <1>1, <3>1, <3>2 DEF Places
    <3>3. CASE ~ (i <= n)
      <4>1. i - n \in Q /\ f[i - n] = i
        BY <1>1, <3>1, <3>3 DEF Places
      <4> QED
        BY <4>1
    <3> QED
      BY <3>2, <3>3
  <2>2. ASSUME NEW i \in A PROVE i \in Places(p \o q, m)
    BY <1>1 DEF Places
  <2>3. ASSUME NEW i \in Q PROVE f[i] \in Places(p \o q, m)
    <3>1. i \in 1..Len(q) /\ q[i] = m /\ f[i] = n + i
      BY <1>1 DEF Places
    <3>2. n + i \in 1..n + Len(q) /\ ~ (n + i <= n) /\ (n + i) - n = i
      BY <1>1, <3>1
    <3> QED
      BY <1>1, <3>1, <3>2 DEF Places
  <2> QED
    BY <2>1, <2>2, <2>3
<1>4. A \cap B = {}
  <2>1. \A i \in Q : f[i] = n + i /\ i \in 1..Len(q)
    BY <1>1 DEF Places
  <2>2. \A i \in Q : f[i] \notin 1..n
    BY <1>1, <2>1
  <2>3. A \subseteq 1..n
    BY <1>1 DEF Places
  <2> HIDE DEF f, Q, A
  <2> QED
    BY <2>2, <2>3
<1>5. f \in Bijection(Q, B)
  <2>1. f \in [Q -> B] /\ \A b \in B : \E i \in Q : f[i] = b
    OBVIOUS
  <2>2. \A i, j \in Q : f[i] = f[j] => i = j
    BY <1>1 DEF Places
  <2> HIDE DEF f, B, Q
  <2> QED
    BY <2>1, <2>2 DEF Bijection, Injection, Surjection, IsInjective
<1>6. IsFiniteSet(B) /\ Cardinality(B) = Cardinality(Q)
  <2>1. ExistsBijection(Q, B)
    BY <1>5 DEF ExistsBijection
  <2> HIDE DEF f, B, Q
  <2> QED
    BY <1>2, <2>1, FS_Bijection
<1> HIDE DEF f, B, Q, A
<1>7. Cardinality(A \cup B) = Cardinality(A) + Cardinality(B) - Cardinality(A \cap B)
  BY <1>2, <1>6, FS_Union
<1>8. Cardinality({}) = 0
  BY FS_EmptySet
<1>9. Cardinality(A \cup B) = Cardinality(A) + Cardinality(Q)
  <2>1. Cardinality(A) \in Nat /\ Cardinality(Q) \in Nat
    BY <1>2 DEF Times, A, Q
  <2>2. Cardinality(A \cap B) = 0
    BY <1>4, <1>8, Zenon
  <2> QED
    BY <1>6, <1>7, <2>1, <2>2
<1> QED
  BY <1>3, <1>9 DEF Times, A, Q

One(b) == IF b THEN 1 ELSE 0

LEMMA TimesSingle ==
    ASSUME NEW x, NEW m PROVE Times(<<x>>, m) = One(x = m)
<1>1. Places(<<x>>, m) = IF x = m THEN {1} ELSE {}
  BY DEF Places
<1> QED
  BY <1>1, FS_EmptySet, FS_Singleton DEF Times, One

LEMMA TimesAppend ==
    ASSUME NEW X, NEW q \in Seq(X), NEW x \in X, NEW m
    PROVE  Times(Append(q, x), m) = Times(q, m) + One(x = m)
<1> DEFINE y == <<x>>
<1>1. Append(q, x) = q \o y /\ y \in Seq(X)
  BY AppendIsConcat
<1>2. Times(y, m) = One(x = m)
  BY TimesSingle
<1> HIDE DEF y
<1>3. Times(q \o y, m) = Times(q, m) + Times(y, m)
  BY <1>1, TimesConcat
<1> QED
  BY <1>1, <1>2, <1>3, Zenon

LEMMA TimesTail ==
    ASSUME NEW X, NEW q \in Seq(X), q # <<>>, NEW m
    PROVE  Times(q, m) = One(Head(q) = m) + Times(Tail(q), m)
<1> DEFINE y == <<Head(q)>>
           t == Tail(q)
<1>1. y \in Seq(X) /\ t \in Seq(X)
  BY HeadTailProperties
<1>2. q = y \o t
  <2>1. Len(q) \in Nat \ {0} /\ Head(q) = q[1]
    BY EmptySeq
  <2>2. SubSeq(q, 1, Len(q)) = <<q[1]>> \o SubSeq(q, 2, Len(q))
    BY <2>1, SubSeqRecursiveFirst
  <2> QED
    BY <2>1, <2>2, SubSeqFull, TailIsSubSeq
<1>3. Times(y, m) = One(Head(q) = m)
  BY TimesSingle
<1> HIDE DEF y, t
<1>4. Times(y \o t, m) = Times(y, m) + Times(t, m)
  BY <1>1, TimesConcat
<1> QED
  BY <1>2, <1>3, <1>4, Zenon DEF t

LEMMA TimesRemoveAt ==
    ASSUME NEW X, NEW q \in Seq(X), NEW i \in 1..Len(q), NEW m
    PROVE  Times(q, m) = Times(RemoveAt(q, i), m) + One(q[i] = m)
<1> DEFINE a == SubSeq(q, 1, i - 1)
           b == SubSeq(q, i + 1, Len(q))
           x == <<q[i]>>
<1>1. Len(q) \in Nat /\ q[i] \in X
  BY LenProperties, ElementOfSeq
<1>2. a \in Seq(X) /\ b \in Seq(X) /\ x \in Seq(X)
  <2>1. \A k \in 1..i - 1 : q[k] \in X
    BY <1>1, ElementOfSeq
  <2>2. \A k \in i + 1..Len(q) : q[k] \in X
    BY <1>1, ElementOfSeq
  <2>3. i - 1 \in Int /\ i + 1 \in Int /\ 1 \in Int /\ Len(q) \in Int
    BY <1>1
  <2> QED
    BY <1>1, <2>1, <2>2, <2>3, SubSeqProperties
<1>3. q = a \o (x \o b)
  <2>1. SubSeq(q, 1, i - 1) \o SubSeq(q, (i - 1) + 1, Len(q)) = SubSeq(q, 1, Len(q))
    <3>1. 1 \in 1..Len(q) + 1 /\ i - 1 \in 1 - 1..Len(q) /\ Len(q) \in i - 1..Len(q)
      BY <1>1
    <3> QED
      BY <3>1, ConcatAdjacentSubSeq
  <2>2. (i - 1) + 1 = i
    BY <1>1
  <2>3. SubSeq(q, i, Len(q)) = x \o b
    BY <1>1, SubSeqRecursiveFirst
  <2> QED
    BY <2>1, <2>2, <2>3, SubSeqFull
<1>4. RemoveAt(q, i) = a \o b
  BY DEF RemoveAt
<1>a. Times(x, m) = One(q[i] = m)
  BY TimesSingle
<1> HIDE DEF a, b, x
<1>5. x \o b \in Seq(X)
  BY <1>2, ConcatProperties
<1>6. /\ Times(a \o (x \o b), m) = Times(a, m) + Times(x \o b, m)
      /\ Times(x \o b, m) = Times(x, m) + Times(b, m)
      /\ Times(a \o b, m) = Times(a, m) + Times(b, m)
  BY <1>2, <1>5, TimesConcat
<1>7. Times(a, m) \in Nat /\ Times(b, m) \in Nat /\ Times(x, m) \in Nat
  BY <1>2, TimesType
<1>8. Times(q, m) = Times(a, m) + (Times(x, m) + Times(b, m))
  BY <1>3, <1>6, Zenon
<1>9. Times(RemoveAt(q, i), m) = Times(a, m) + Times(b, m)
  BY <1>4, <1>6, Zenon
<1>10. Times(q, m) = (Times(a, m) + Times(b, m)) + Times(x, m)
  BY <1>7, <1>8
<1> QED
  BY <1>a, <1>9, <1>10, Zenon

-------------------------------------------------------------------------------
(* The conversation with the server *)

Given(S, m) == Times(S.wire, m)
Queued(S, m) == Times(S.queue, m)
Sent(S, m) == Given(S, m) + Queued(S, m)

\* What S says to the server of call c: its request goes out at most once, and a
\* cancellation after it, of a call that was cancelled.
Talk(S, c) ==
    LET r == RequestOf(c)
        k == CancelOf(c)
    IN  /\ Sent(S, r) <= 1 /\ Sent(S, k) <= 1
        /\ S.outcome[c] = "new" => Sent(S, r) = 0
        /\ Queued(S, r) > 0 => S.outcome[c] = "waiting"
        /\ S.outcome[c] = "waiting" => Sent(S, r) = 1
        /\ Sent(S, k) > 0 => S.outcome[c] = "cancelled"
        /\ ~ S.closed /\ S.outcome[c] = "cancelled" => Sent(S, k) = Sent(S, r)
        /\ Queued(S, k) > 0 => Given(S, r) > 0
        /\ \A i \in DOMAIN S.wire : S.wire[i] = k => \E j \in 1..i - 1 : S.wire[j] = r

Talks(S) == \A c \in Calls : Talk(S, c)

\* No microtask of m is for the server's request s; at most one is; one is that comes
\* before its answer.
Nothing(m, s) == \A i \in DOMAIN m : m[i].id # s
Alone(m, s) == \A i, j \in DOMAIN m : m[i].id = s /\ m[j].id = s => i = j
Owed(m, s) == \E i \in DOMAIN m : m[i].id = s /\ m[i].do # "forget"

\* Of the n requests with id s every one has been answered, but for one whose handler
\* is still to run, runs (run) or has returned; none is served without being in serving.
Serves(S, s, n, run) ==
    /\ Sent(S, AnswerOf(s)) <= n
    /\ ~ S.closed =>
         /\ Alone(S.micro, s)
         /\ run => Nothing(S.micro, s)
         /\ s \notin S.serving => Nothing(S.micro, s) /\ ~ run
         /\ Sent(S, AnswerOf(s)) + One(run \/ Owed(S.micro, s)) = n

LEMMA SentType ==
    ASSUME NEW S, Fits(S), NEW m
    PROVE  Given(S, m) \in Nat /\ Queued(S, m) \in Nat
BY TimesType DEF Given, Queued, Fits, RpcType

LEMMA MessagesDiffer ==
    ASSUME NEW c \in Calls
    PROVE  /\ \A d : RequestOf(d) # CancelOf(c) /\ AnswerOf(d) # CancelOf(c)
                     /\ AnswerOf(d) # RequestOf(c)
           /\ \A d : RequestOf(d) = RequestOf(c) => d = c
           /\ \A d : CancelOf(d) = CancelOf(c) => d = c
BY DEF RequestOf, CancelOf, AnswerOf

\* The fields after terminate.
LEMMA TerminatedFields ==
    ASSUME NEW S, Fits(S)
    PROVE  /\ Terminated(S).wire = S.wire /\ Terminated(S).queue = <<>>
           /\ Terminated(S).closed
           /\ \A c \in Calls : Terminated(S).outcome[c] =
                 IF S.outcome[c] = "waiting" THEN "closed" ELSE S.outcome[c]
<1>1. CASE S.closed
  BY <1>1 DEF Terminated, Fits, Agree
<1>2. CASE ~ S.closed
  <2> DEFINE o == [c \in Calls |-> IF c \in S.pending THEN "closed" ELSE S.outcome[c]]
  <2>1. \A c \in Calls : o[c] = IF S.outcome[c] = "waiting" THEN "closed" ELSE S.outcome[c]
    BY DEF Fits, Agree
  <2>2. Terminated(S) = [S EXCEPT !.closed = TRUE, !.outcome = o, !.pending = {}, !.armed = {},
                             !.queue = <<>>, !.active = Idle, !.serving = {}]
    BY <1>2 DEF Terminated, Fits, RpcType
  <2> HIDE DEF o
  <2>3. /\ Terminated(S).wire = S.wire /\ Terminated(S).queue = <<>>
        /\ Terminated(S).closed /\ Terminated(S).outcome = o
    BY <2>2 DEF Fits, RpcType
  <2> QED
    BY <2>1, <2>3
<1> QED
  BY <1>1, <1>2

LEMMA TimesEmpty == \A m : Times(<<>>, m) = 0
<1>1. \A m : Places(<<>>, m) = {}
  BY DEF Places
<1> QED
  BY <1>1, FS_EmptySet DEF Times

\* terminate takes back what waits and leaves what was given.
LEMMA TerminatedTalks ==
    ASSUME NEW S, Fits(S)
    PROVE  /\ Talks(S) => Talks(Terminated(S))
           /\ \A m : Sent(Terminated(S), m) <= Sent(S, m)
           /\ \A s, n, a, b : Serves(S, s, n, a) /\ n \in Nat => Serves(Terminated(S), s, n, b)
<1> DEFINE T == Terminated(S)
<1>1. /\ T.wire = S.wire /\ T.queue = <<>> /\ T.closed
      /\ \A c \in Calls : T.outcome[c] = IF S.outcome[c] = "waiting" THEN "closed" ELSE S.outcome[c]
  BY TerminatedFields
<1> HIDE DEF T
<1>2. \A m : /\ Given(T, m) = Given(S, m) /\ Queued(T, m) = 0
             /\ Given(S, m) \in Nat /\ Queued(S, m) \in Nat
  BY <1>1, SentType, TimesEmpty DEF Given, Queued
<1>3. \A m : Sent(T, m) <= Sent(S, m)
  BY <1>2 DEF Sent
<1>4. ASSUME Talks(S), NEW c \in Calls PROVE Talk(T, c)
  BY <1>1, <1>2, <1>4 DEF Talks, Talk, Sent
<1>5. \A s, n, a, b : Serves(S, s, n, a) /\ n \in Nat => Serves(T, s, n, b)
  <2> TAKE s, n, a, b
  <2> HAVE Serves(S, s, n, a) /\ n \in Nat
  <2>1. Sent(S, AnswerOf(s)) <= n /\ Sent(T, AnswerOf(s)) <= Sent(S, AnswerOf(s))
    BY <1>3 DEF Serves
  <2>2. Sent(S, AnswerOf(s)) \in Nat /\ Sent(T, AnswerOf(s)) \in Nat
    BY <1>2 DEF Sent
  <2>3. Sent(T, AnswerOf(s)) <= n
    BY <2>1, <2>2
  <2> QED
    BY <1>1, <2>3 DEF Serves
<1> QED
  BY <1>3, <1>4, <1>5 DEF T, Talks

-------------------------------------------------------------------------------
(* The microtasks of a server request *)

LEMMA TaskAppended ==
    ASSUME NEW m \in Seq(Tasks), NEW t \in Tasks, NEW s
    PROVE  /\ t.id # s =>
                /\ Nothing(Append(m, t), s) <=> Nothing(m, s)
                /\ Alone(m, s) => Alone(Append(m, t), s)
                /\ Owed(Append(m, t), s) <=> Owed(m, s)
           /\ t.id = s /\ Nothing(m, s) =>
                /\ Alone(Append(m, t), s)
                /\ Owed(Append(m, t), s) <=> t.do # "forget"
           /\ Nothing(m, s) => Alone(m, s) /\ ~ Owed(m, s)
<1> DEFINE r == Append(m, t)
<1>1. /\ Len(m) \in Nat /\ DOMAIN m = 1..Len(m) /\ DOMAIN r = 1..Len(m) + 1
      /\ r[Len(m) + 1] = t /\ \A i \in 1..Len(m) : r[i] = m[i]
  BY AppendProperties
<1> HIDE DEF r
<1>2. Nothing(m, s) => Alone(m, s) /\ ~ Owed(m, s)
  BY DEF Nothing, Alone, Owed
<1>3. DOMAIN r = DOMAIN m \cup {Len(m) + 1} /\ Len(m) + 1 \notin DOMAIN m
  BY <1>1
<1>4. \A i \in DOMAIN m : r[i] = m[i]
  BY <1>1
<1>5. ASSUME t.id # s
      PROVE  /\ Nothing(r, s) <=> Nothing(m, s)
             /\ Alone(m, s) => Alone(r, s)
             /\ Owed(r, s) <=> Owed(m, s)
  BY <1>1, <1>3, <1>4, <1>5 DEF Nothing, Alone, Owed
<1>6. ASSUME t.id = s, Nothing(m, s)
      PROVE  Alone(r, s) /\ (Owed(r, s) <=> t.do # "forget")
  BY <1>1, <1>3, <1>4, <1>6 DEF Nothing, Alone, Owed
<1> QED
  BY <1>2, <1>5, <1>6 DEF r

LEMMA TaskPopped ==
    ASSUME NEW m \in Seq(Tasks), m # <<>>, NEW s, Alone(m, s)
    PROVE  /\ Alone(Tail(m), s)
           /\ Nothing(m, s) => Nothing(Tail(m), s)
           /\ Head(m).id = s => Nothing(Tail(m), s) /\ ~ Nothing(m, s)
                                /\ (Owed(m, s) <=> Head(m).do # "forget")
           /\ Head(m).id # s => (Owed(Tail(m), s) <=> Owed(m, s))
<1> DEFINE r == Tail(m)
<1>1. /\ Len(m) \in Nat /\ Len(m) # 0 /\ DOMAIN m = 1..Len(m) /\ DOMAIN r = 1..Len(m) - 1
      /\ \A i \in 1..Len(m) - 1 : r[i] = m[i + 1] /\ Head(m) = m[1]
      /\ Head(m) = m[1]
  BY HeadTailProperties, EmptySeq
<1> HIDE DEF r
<1>2. \A i \in DOMAIN r : i + 1 \in DOMAIN m /\ r[i] = m[i + 1] /\ i + 1 # 1 /\ i \in Nat
  BY <1>1
<1>3. \A i \in DOMAIN m : i = 1 \/ \E j \in DOMAIN r : i = j + 1
  <2> TAKE i \in DOMAIN m
  <2>1. i # 1 => i - 1 \in DOMAIN r /\ i = (i - 1) + 1
    BY <1>1
  <2> QED
    BY <2>1
<1>4. 1 \in DOMAIN m
  BY <1>1
<1>5. Alone(r, s)
  BY <1>2 DEF Alone
<1>6. Nothing(m, s) => Nothing(r, s)
  BY <1>2 DEF Nothing
<1>7. ASSUME Head(m).id = s
      PROVE  Nothing(r, s) /\ ~ Nothing(m, s) /\ (Owed(m, s) <=> Head(m).do # "forget")
  BY <1>1, <1>2, <1>4, <1>7 DEF Nothing, Alone, Owed
<1>8. ASSUME Head(m).id # s PROVE Owed(r, s) <=> Owed(m, s)
  BY <1>1, <1>2, <1>3, <1>8 DEF Owed
<1> QED
  BY <1>5, <1>6, <1>7, <1>8 DEF r

-------------------------------------------------------------------------------
(* Writes *)

\* T is S after its first message was given to the server.
Moved(S, T) ==
    /\ S.queue # <<>>
    /\ T.wire = Append(S.wire, Head(S.queue)) /\ T.queue = Tail(S.queue)
    /\ T.outcome = S.outcome /\ T.closed = S.closed /\ T.serving = S.serving

LEMMA MovedSent ==
    ASSUME NEW S, Fits(S), NEW T, Moved(S, T), NEW m
    PROVE  /\ Given(T, m) = Given(S, m) + One(Head(S.queue) = m)
           /\ Queued(S, m) = One(Head(S.queue) = m) + Queued(T, m)
           /\ Given(T, m) \in Nat /\ Queued(T, m) \in Nat
           /\ Sent(T, m) = Sent(S, m)
<1>1. /\ S.wire \in Seq(Messages) /\ S.queue \in Seq(Messages) /\ S.queue # <<>>
      /\ Head(S.queue) \in Messages /\ Tail(S.queue) \in Seq(Messages)
  BY DEF Fits, RpcType, Moved
<1>2. Given(T, m) = Given(S, m) + One(Head(S.queue) = m)
  BY <1>1, TimesAppend DEF Given, Moved
<1>3. Queued(S, m) = One(Head(S.queue) = m) + Queued(T, m)
  BY <1>1, TimesTail DEF Queued, Moved
<1>4. Given(S, m) \in Nat /\ Queued(T, m) \in Nat
  BY <1>1, SentType, TimesType DEF Queued, Moved
<1>5. One(Head(S.queue) = m) \in Nat
  BY DEF One
<1> QED
  BY <1>2, <1>3, <1>4, <1>5 DEF Sent

LEMMA MovedTalks ==
    ASSUME NEW S, Fits(S), Talks(S), NEW T, Moved(S, T)
    PROVE  Talks(T)
<1> SUFFICES ASSUME NEW c \in Calls PROVE Talk(T, c)
  BY DEF Talks
<1> DEFINE r == RequestOf(c)
           k == CancelOf(c)
           h == Head(S.queue)
           n == Len(S.wire)
<1>1. /\ Given(T, r) = Given(S, r) + One(h = r) /\ Queued(S, r) = One(h = r) + Queued(T, r)
      /\ Given(T, k) = Given(S, k) + One(h = k) /\ Queued(S, k) = One(h = k) + Queued(T, k)
      /\ Sent(T, r) = Sent(S, r) /\ Sent(T, k) = Sent(S, k)
      /\ Queued(T, r) \in Nat /\ Queued(T, k) \in Nat
      /\ Given(S, r) \in Nat /\ Given(S, k) \in Nat
  BY MovedSent, SentType
<1>2. T.outcome = S.outcome /\ T.closed = S.closed
  BY DEF Moved
<1>3. /\ n \in Nat /\ DOMAIN S.wire = 1..n /\ DOMAIN T.wire = 1..n + 1
      /\ T.wire[n + 1] = h /\ \A i \in 1..n : T.wire[i] = S.wire[i]
  <2>1. S.wire \in Seq(Messages) /\ h \in Messages
    BY DEF Fits, RpcType, Moved
  <2> QED
    BY <2>1, AppendProperties DEF Moved
<1>4. Talk(S, c)
  BY DEF Talks
<1> HIDE DEF r, k, h, n
<1>5. /\ One(h = k) \in {0, 1} /\ (h = k => One(h = k) = 1)
      /\ One(h = r) \in {0, 1}
  BY DEF One
<1>6. Queued(S, k) > 0 => \E j \in 1..n : S.wire[j] = r
  <2> SUFFICES ASSUME Queued(S, k) > 0 PROVE \E j \in 1..n : S.wire[j] = r
    OBVIOUS
  <2>1. Given(S, r) > 0
    BY <1>4 DEF Talk, r, k
  <2>2. r \in ToSet(S.wire)
    BY <2>1, TimesType DEF Given, Fits, RpcType
  <2> QED
    BY <1>3, <2>2 DEF ToSet
<1>7. ASSUME NEW i \in DOMAIN T.wire, T.wire[i] = k PROVE \E j \in 1..i - 1 : T.wire[j] = r
  <2>1. CASE i \in 1..n
    <3>1. \E j \in 1..i - 1 : S.wire[j] = r
      BY <1>3, <1>4, <1>7, <2>1 DEF Talk, r, k
    <3> QED
      BY <1>3, <2>1, <3>1
  <2>2. CASE i = n + 1
    <3>1. Queued(S, k) > 0
      BY <1>1, <1>3, <1>5, <1>7, <2>2
    <3> QED
      BY <1>3, <1>6, <2>2, <3>1
  <2> QED
    BY <1>3, <2>1, <2>2
<1>8. /\ Queued(T, r) > 0 => Queued(S, r) > 0
      /\ Queued(T, k) > 0 => Queued(S, k) > 0
      /\ Given(S, r) > 0 => Given(T, r) > 0
  BY <1>1, <1>5
<1> QED
  BY <1>1, <1>2, <1>4, <1>7, <1>8 DEF Talk, r, k

LEMMA PumpedFields ==
    ASSUME NEW S, Fits(S), NEW w
    PROVE  \/ Pumped(S, w) = S
           \/ Pumped(S, w) = Terminated(S)
           \/ Moved(S, Pumped(S, w))
<1> DEFINE W == [S EXCEPT !.queue = Tail(@), !.wire = Append(@, Head(S.queue))]
<1>1. S.queue # <<>> => Moved(S, W)
  BY DEF Moved, Fits, RpcType
<1>2. S.queue # <<>> => Moved(S, [W EXCEPT !.active = Head(S.queue)]) /\ Moved(S, Scheduled(W, Pump))
  BY DEF Moved, Fits, RpcType, Scheduled
<1>3. CASE S.closed \/ S.active # Idle \/ S.queue = <<>>
  BY <1>3 DEF Pumped
<1>4. CASE ~ (S.closed \/ S.active # Idle \/ S.queue = <<>>) /\ w = "throws"
  BY <1>4 DEF Pumped
<1>5. CASE ~ (S.closed \/ S.active # Idle \/ S.queue = <<>>) /\ w # "throws"
  <2>1. \/ Pumped(S, w) = [W EXCEPT !.active = Head(S.queue)]
        \/ Pumped(S, w) = Scheduled(W, Pump)
    BY <1>5 DEF Pumped
  <2> QED
    BY <1>2, <1>5, <2>1
<1> QED
  BY <1>3, <1>4, <1>5

LEMMA PumpedTalks ==
    ASSUME NEW S, Fits(S), NEW w
    PROVE  /\ Talks(S) => Talks(Pumped(S, w))
           /\ \A s \in ServerIds, n \in Nat : \A a : Serves(S, s, n, a) => Serves(Pumped(S, w), s, n, a)
<1> DEFINE T == Pumped(S, w)
<1>1. CASE T = S
  BY <1>1
<1>2. CASE T = Terminated(S)
  BY <1>2, TerminatedTalks
<1>3. CASE Moved(S, T)
  <2>1. Talks(S) => Talks(T)
    BY <1>3, MovedTalks
  <2>2. Adds(T, S)
    BY PumpedSound
  <2> HIDE DEF T
  <2>3. ASSUME NEW s \in ServerIds, NEW n \in Nat, NEW a, Serves(S, s, n, a) PROVE Serves(T, s, n, a)
    <3>1. Sent(T, AnswerOf(s)) = Sent(S, AnswerOf(s))
      BY <1>3, MovedSent
    <3>2. /\ Nothing(S.micro, s) <=> Nothing(T.micro, s)
          /\ Alone(S.micro, s) => Alone(T.micro, s)
          /\ Owed(S.micro, s) <=> Owed(T.micro, s)
      <4>1. Pump.id # s
        BY RpcAssumption DEF Pump, Task
      <4>2. S.micro \in Seq(Tasks)
        BY DEF Fits, RpcType
      <4> DEFINE m == Append(S.micro, Pump)
      <4>3. /\ Nothing(m, s) <=> Nothing(S.micro, s)
            /\ Alone(S.micro, s) => Alone(m, s)
            /\ Owed(m, s) <=> Owed(S.micro, s)
        BY <4>1, <4>2, TaskAppended, PumpIsTask
      <4>4. CASE T.micro = S.micro
        BY <4>4
      <4>5. CASE T.micro = m
        <5> HIDE DEF m
        <5> QED
          BY <4>3, <4>5
      <4> QED
        BY <2>2, <4>4, <4>5 DEF Adds
    <3>3. T.closed = S.closed /\ T.serving = S.serving
      BY <1>3 DEF Moved
    <3> QED
      BY <2>3, <3>1, <3>2, <3>3 DEF Serves
  <2> QED
    BY <2>1, <2>3 DEF T
<1> QED
  BY <1>1, <1>2, <1>3, PumpedFields

\* The message m joins the queue.
Put(S, m) == [S EXCEPT !.queue = Append(@, m)]

LEMMA PutFields ==
    ASSUME NEW S, Fits(S), NEW m \in Messages
    PROVE  /\ Put(S, m).wire = S.wire /\ Put(S, m).outcome = S.outcome
           /\ Put(S, m).closed = S.closed /\ Put(S, m).serving = S.serving
           /\ Put(S, m).micro = S.micro
           /\ \A x : Given(Put(S, m), x) = Given(S, x)
           /\ \A x : Queued(Put(S, m), x) = Queued(S, x) + One(m = x)
           /\ ~ S.closed => Fits(Put(S, m))
<1> DEFINE T == Put(S, m)
<1>1. S.queue \in Seq(Messages) /\ Append(S.queue, m) \in Seq(Messages)
  BY AppendMember DEF Fits, RpcType
<1>2. /\ T.wire = S.wire /\ T.outcome = S.outcome /\ T.closed = S.closed
      /\ T.serving = S.serving /\ T.micro = S.micro /\ T.pending = S.pending
      /\ T.armed = S.armed /\ T.active = S.active /\ T.queue = Append(S.queue, m)
      /\ T \in RpcType
  BY <1>1 DEF Put, Fits, RpcType
<1>3. ~ S.closed => Fits(T)
  BY <1>2 DEF Fits, Agree
<1> HIDE DEF T
<1>4. \A x : Times(T.queue, x) = Times(S.queue, x) + One(m = x)
  BY <1>1, <1>2, TimesAppend
<1> QED
  BY <1>2, <1>3, <1>4 DEF Given, Queued, T

LEMMA EnqueuedTalks ==
    ASSUME NEW S, Fits(S), ~ S.closed, NEW m \in Messages, NEW w
    PROVE  /\ Talks(Put(S, m)) => Talks(Enqueued(S, m, w))
           /\ \A s \in ServerIds, n \in Nat : \A a :
                Serves(Put(S, m), s, n, a) => Serves(Enqueued(S, m, w), s, n, a)
<1>1. Enqueued(S, m, w) = Pumped(Put(S, m), w)
  BY DEF Enqueued, Put
<1>2. Fits(Put(S, m))
  BY PutFields
<1> QED
  BY <1>1, <1>2, PumpedTalks

\* A message that is neither its request nor its cancellation says nothing of a call,
\* and one that is no answer nothing of a server request.
LEMMA PutOther ==
    ASSUME NEW S, Fits(S), NEW m \in Messages
    PROVE  /\ \A c \in Calls : Talk(S, c) /\ m # RequestOf(c) /\ m # CancelOf(c)
                               => Talk(Put(S, m), c)
           /\ \A s, n, a : Serves(S, s, n, a) /\ m # AnswerOf(s) => Serves(Put(S, m), s, n, a)
<1> DEFINE T == Put(S, m)
<1>1. /\ T.wire = S.wire /\ T.outcome = S.outcome
      /\ T.closed = S.closed /\ T.serving = S.serving /\ T.micro = S.micro
      /\ \A x : m # x => Given(T, x) = Given(S, x) /\ Queued(T, x) = Queued(S, x)
  <2>1. \A x : Queued(S, x) \in Nat
    BY SentType
  <2> QED
    BY <2>1, PutFields DEF One
<1> HIDE DEF T
<1> QED
  BY <1>1 DEF Talk, Serves, Sent, T

-------------------------------------------------------------------------------
(* The operations and the conversation *)

LEMMA TalkOfSame ==
    ASSUME NEW S, NEW T, T.wire = S.wire, T.queue = S.queue, T.closed = S.closed
    PROVE  /\ \A m : Given(T, m) = Given(S, m) /\ Queued(T, m) = Queued(S, m)
                     /\ Sent(T, m) = Sent(S, m)
           /\ \A c : Talk(S, c) /\ T.outcome[c] = S.outcome[c] => Talk(T, c)
           /\ \A s, n, a : Serves(S, s, n, a) /\ T.micro = S.micro /\ T.serving = S.serving
                           => Serves(T, s, n, a)
<1>1. \A m : Given(T, m) = Given(S, m) /\ Queued(T, m) = Queued(S, m) /\ Sent(T, m) = Sent(S, m)
  BY DEF Given, Queued, Sent
<1>2. \A c : Talk(S, c) /\ T.outcome[c] = S.outcome[c] => Talk(T, c)
  BY <1>1 DEF Talk
<1>3. \A s, n, a : Serves(S, s, n, a) /\ T.micro = S.micro /\ T.serving = S.serving
                   => Serves(T, s, n, a)
  BY <1>1 DEF Serves
<1> QED
  BY <1>1, <1>2, <1>3

LEMMA ScheduledTalks ==
    ASSUME NEW S, Fits(S), NEW t \in Tasks
    PROVE  /\ Talks(S) => Talks(Scheduled(S, t))
           /\ \A s, n, a : Serves(S, s, n, a) /\ t.id # s => Serves(Scheduled(S, t), s, n, a)
           /\ \A m : Sent(Scheduled(S, t), m) = Sent(S, m)
<1> DEFINE T == Scheduled(S, t)
<1>1. /\ T.wire = S.wire /\ T.queue = S.queue /\ T.closed = S.closed /\ T.outcome = S.outcome
      /\ T.serving = S.serving /\ T.micro = Append(S.micro, t) /\ S.micro \in Seq(Tasks)
  BY DEF Scheduled, Fits, RpcType
<1> HIDE DEF T
<1>2. Talks(S) => Talks(T)
  BY <1>1, TalkOfSame DEF Talks
<1>3. \A m : Sent(T, m) = Sent(S, m)
  BY <1>1, TalkOfSame
<1>4. ASSUME NEW s, NEW n, NEW a, Serves(S, s, n, a), t.id # s PROVE Serves(T, s, n, a)
  <2>1. /\ Nothing(Append(S.micro, t), s) <=> Nothing(S.micro, s)
        /\ Alone(S.micro, s) => Alone(Append(S.micro, t), s)
        /\ Owed(Append(S.micro, t), s) <=> Owed(S.micro, s)
    BY <1>1, <1>4, TaskAppended
  <2> DEFINE m == Append(S.micro, t)
  <2>2. T.micro = m
    BY <1>1
  <2> HIDE DEF m
  <2>3. /\ Nothing(T.micro, s) <=> Nothing(S.micro, s)
        /\ Alone(S.micro, s) => Alone(T.micro, s)
        /\ Owed(T.micro, s) <=> Owed(S.micro, s)
    BY <2>1, <2>2 DEF m
  <2> QED
    BY <1>1, <1>3, <1>4, <2>3 DEF Serves
<1> QED
  BY <1>2, <1>3, <1>4 DEF T

\* The fields after a pending call has settled.
LEMMA SettledFields ==
    ASSUME NEW S, Fits(S), NEW c \in Calls, NEW how \in Outcomes
    PROVE  LET T == Settled(S, c, how)
           IN  /\ T.wire = S.wire /\ T.queue = S.queue /\ T.closed = S.closed
               /\ T.micro = S.micro /\ T.serving = S.serving
               /\ T.outcome[c] = how /\ \A d \in Calls : d # c => T.outcome[d] = S.outcome[d]
BY DEF Settled, Fits, RpcType

\* request
LEMMA RequestTalks ==
    ASSUME NEW S, Fits(S), ~ S.closed, Talks(S), NEW c \in Calls, NEW T, Fits(T),
           S.outcome[c] = "new", T.outcome = [S.outcome EXCEPT ![c] = "waiting"],
           T.wire = S.wire, T.queue = S.queue, T.closed = S.closed
    PROVE  Talks(Put(T, RequestOf(c)))
<1> DEFINE r == RequestOf(c)
           k == CancelOf(c)
           P == Put(T, r)
<1>1. S.outcome \in [Calls -> Outcomes] /\ r \in Messages
  BY MessageTypes DEF Fits, RpcType
<1>2. /\ P.wire = S.wire /\ P.outcome = T.outcome /\ P.closed = S.closed
      /\ Given(P, r) = Given(S, r) /\ Queued(P, r) = Queued(S, r) + 1
      /\ Given(P, k) = Given(S, k) /\ Queued(P, k) = Queued(S, k)
      /\ Given(S, r) \in Nat /\ Queued(S, r) \in Nat /\ Given(S, k) \in Nat /\ Queued(S, k) \in Nat
  <2>1. One(r = r) = 1 /\ One(r = k) = 0
    BY MessagesDiffer DEF One
  <2>2. /\ P.wire = T.wire /\ P.outcome = T.outcome /\ P.closed = T.closed
        /\ \A x : Given(P, x) = Given(T, x)
        /\ \A x : Queued(P, x) = Queued(T, x) + One(r = x)
    BY <1>1, PutFields
  <2>3. \A x : Given(T, x) = Given(S, x) /\ Queued(T, x) = Queued(S, x)
    BY TalkOfSame
  <2>4. \A x : Given(S, x) \in Nat /\ Queued(S, x) \in Nat
    BY SentType
  <2> HIDE DEF P, r, k
  <2>5. Queued(P, k) = Queued(S, k) + 0
    BY <2>1, <2>2, <2>3, Zenon
  <2>6. Queued(P, r) = Queued(S, r) + 1
    BY <2>1, <2>2, <2>3, Zenon
  <2> QED
    BY <2>2, <2>3, <2>4, <2>5, <2>6
<1>3. Talk(S, c)
  BY DEF Talks
<1>4. T.outcome[c] = "waiting" /\ \A d \in Calls : d # c => T.outcome[d] = S.outcome[d]
  BY <1>1
<1>5. Talk(P, c)
  <2> HIDE DEF P
  <2>a. Sent(S, r) = 0 /\ ~ (Sent(S, k) > 0)
    BY <1>3 DEF Talk
  <2>b. Sent(S, k) \in Nat
    BY <1>2 DEF Sent
  <2>1. Sent(S, r) = 0 /\ Sent(S, k) = 0
    BY <2>a, <2>b
  <2>2. Sent(P, r) = 1 /\ Sent(P, k) = 0 /\ Queued(P, k) = 0
    BY <1>2, <2>1 DEF Sent
  <2> QED
    BY <1>2, <1>3, <1>4, <2>2 DEF Talk
<1>6. ASSUME NEW d \in Calls, d # c PROVE Talk(P, d)
  <2>1. Talk(T, d)
    BY <1>4, <1>6, TalkOfSame DEF Talks
  <2>2. r # RequestOf(d) /\ r # CancelOf(d)
    BY <1>6, MessagesDiffer
  <2> QED
    BY <1>1, <2>1, <2>2, PutOther
<1> QED
  BY <1>5, <1>6 DEF Talks

\* A request taken back from the queue was not given to the server and never is.
LEMMA UnqueuedTalks ==
    ASSUME NEW S, Fits(S), Talks(S), NEW c \in S.pending, RequestOf(c) \in ToSet(S.queue)
    PROVE  LET U == Unqueued(Settled(S, c, "cancelled"), RequestOf(c))
           IN  /\ Talks(U)
               /\ \A s, n, a : Serves(S, s, n, a) => Serves(U, s, n, a)
<1> DEFINE T == Settled(S, c, "cancelled")
           r == RequestOf(c)
           k == CancelOf(c)
           U == Unqueued(T, r)
           q == S.queue
           i == CHOOSE j \in DOMAIN q : q[j] = r
<1>1. c \in Calls /\ S.outcome[c] = "waiting" /\ q \in Seq(Messages)
  BY DEF Fits, RpcType, Agree
<1>2. /\ T.wire = S.wire /\ T.queue = S.queue /\ T.closed = S.closed
      /\ T.micro = S.micro /\ T.serving = S.serving
      /\ T.outcome[c] = "cancelled" /\ \A d \in Calls : d # c => T.outcome[d] = S.outcome[d]
      /\ Fits(T)
  BY <1>1, SettledFields, SettledSound DEF Outcomes
<1>3. i \in 1..Len(q) /\ q[i] = r
  BY <1>1 DEF ToSet
<1> HIDE DEF T, i
<1>4. /\ U.wire = S.wire /\ U.queue = RemoveAt(q, i) /\ U.closed = S.closed
      /\ U.micro = S.micro /\ U.serving = S.serving /\ U.outcome = T.outcome
  BY <1>2 DEF Unqueued, Fits, RpcType, i
<1> HIDE DEF U
<1>5. \A x : /\ Given(U, x) = Given(S, x) /\ Queued(S, x) = Queued(U, x) + One(r = x)
             /\ Given(S, x) \in Nat /\ Queued(S, x) \in Nat
  <2>1. \A x : Times(q, x) = Times(RemoveAt(q, i), x) + One(q[i] = x)
    BY <1>1, <1>3, TimesRemoveAt
  <2>2. \A x : Times(q, x) = Times(RemoveAt(q, i), x) + One(r = x)
    BY <1>3, <2>1, Zenon
  <2> QED
    BY <1>4, <2>2, SentType DEF Given, Queued
<1>6. \A x : Queued(U, x) \in Nat
  <2>1. T.queue = q /\ r \in ToSet(T.queue)
    BY <1>2
  <2>2. RemoveAt(q, i) \in Seq(Messages)
    <3>1. Len(q) \in Nat /\ i \in Nat /\ 1 <= i /\ i <= Len(q)
      BY <1>1, <1>3
    <3>2. SubSeq(q, 1, i - 1) \in Seq(Messages) /\ SubSeq(q, i + 1, Len(q)) \in Seq(Messages)
      <4>1. \A j \in 1..i - 1 : q[j] \in Messages
        BY <1>1, <3>1, ElementOfSeq
      <4>2. \A j \in i + 1..Len(q) : q[j] \in Messages
        BY <1>1, <3>1, ElementOfSeq
      <4> QED
        BY <3>1, <4>1, <4>2, SubSeqProperties
    <3> QED
      BY <3>2, ConcatProperties DEF RemoveAt
  <2> QED
    BY <1>4, <2>2, TimesType DEF Queued
<1>7. \A x : r # x => Queued(U, x) = Queued(S, x)
  BY <1>5, <1>6 DEF One
<1>8. Queued(S, r) = Queued(U, r) + 1
  <2>1. One(r = r) = 1
    BY DEF One
  <2> QED
    BY <1>5, <2>1
<1>9. Talk(S, c)
  BY <1>1 DEF Talks
<1>10. Talk(U, c)
  <2>1. r # k
    BY <1>1, MessagesDiffer
  <2>2. Sent(S, r) = 1 /\ Sent(S, k) = 0
    BY <1>1, <1>5, <1>9 DEF Talk, Sent
  <2>3. Queued(U, r) = 0 /\ Given(U, r) = 0 /\ Sent(U, k) = 0 /\ Queued(U, k) = 0
    BY <1>5, <1>6, <1>7, <1>8, <2>1, <2>2 DEF Sent
  <2>4. Sent(U, r) = 0
    BY <2>3 DEF Sent
  <2>5. U.outcome[c] = "cancelled"
    BY <1>2, <1>4
  <2> QED
    BY <1>4, <1>9, <2>3, <2>4, <2>5 DEF Talk
<1>11. ASSUME NEW d \in Calls, d # c PROVE Talk(U, d)
  <2>1. Talk(S, d) /\ U.outcome[d] = S.outcome[d]
    BY <1>2, <1>4, <1>11 DEF Talks
  <2>2. r # RequestOf(d) /\ r # CancelOf(d)
    BY <1>11, MessagesDiffer
  <2> QED
    BY <1>4, <1>5, <1>7, <2>1, <2>2 DEF Talk, Sent
<1>12. \A s, n, a : Serves(S, s, n, a) => Serves(U, s, n, a)
  <2>1. \A s : r # AnswerOf(s)
    BY <1>1, MessagesDiffer
  <2>2. \A s : Sent(U, AnswerOf(s)) = Sent(S, AnswerOf(s))
    BY <1>5, <1>7, <2>1 DEF Sent
  <2> QED
    BY <1>4, <2>2 DEF Serves
<1> QED
  BY <1>10, <1>11, <1>12 DEF Talks, U, T

\* A request that is pending and not in the queue was given to the server, which is
\* then told.
LEMMA CancelTalks ==
    ASSUME NEW S, Fits(S), Talks(S), NEW c \in S.pending, RequestOf(c) \notin ToSet(S.queue)
    PROVE  LET P == Put(Settled(S, c, "cancelled"), CancelOf(c))
           IN  /\ Talks(P)
               /\ \A s, n, a : Serves(S, s, n, a) => Serves(P, s, n, a)
<1> DEFINE T == Settled(S, c, "cancelled")
           r == RequestOf(c)
           k == CancelOf(c)
           P == Put(T, k)
<1>1. c \in Calls /\ S.outcome[c] = "waiting" /\ S.queue \in Seq(Messages) /\ k \in Messages
  BY MessageTypes DEF Fits, RpcType, Agree
<1>2. /\ T.wire = S.wire /\ T.queue = S.queue /\ T.closed = S.closed
      /\ T.micro = S.micro /\ T.serving = S.serving
      /\ T.outcome[c] = "cancelled" /\ \A d \in Calls : d # c => T.outcome[d] = S.outcome[d]
      /\ Fits(T)
  BY <1>1, SettledFields, SettledSound DEF Outcomes
<1>3. /\ P.wire = S.wire /\ P.outcome = T.outcome /\ P.closed = S.closed
      /\ \A x : Given(P, x) = Given(S, x) /\ Queued(P, x) = Queued(S, x) + One(k = x)
      /\ \A x : Given(S, x) \in Nat /\ Queued(S, x) \in Nat
  <2> HIDE DEF T
  <2>1. \A x : Given(T, x) = Given(S, x) /\ Queued(T, x) = Queued(S, x)
    BY <1>2, TalkOfSame
  <2> QED
    BY <1>1, <1>2, <2>1, PutFields, SentType
<1> HIDE DEF T, P
<1>4. Talk(S, c)
  BY <1>1 DEF Talks
<1>5. Talk(P, c)
  <2>1. Queued(S, r) = 0
    BY <1>1, <1>3, TimesType DEF Queued
  <2>2. Given(S, r) = 1 /\ Sent(S, k) = 0
    BY <1>1, <1>3, <1>4, <2>1 DEF Talk, Sent
  <2>3. One(k = k) = 1 /\ One(k = r) = 0
    BY <1>1, MessagesDiffer DEF One
  <2>4. Queued(P, k) = Queued(S, k) + 1 /\ Queued(P, r) = Queued(S, r) + 0
    BY <1>3, <2>3, Zenon
  <2>5. Given(P, r) = 1 /\ Queued(P, r) = 0 /\ Sent(P, r) = 1 /\ Sent(P, k) = 1
    BY <1>3, <2>1, <2>2, <2>4 DEF Sent
  <2>6. P.outcome[c] = "cancelled"
    BY <1>2, <1>3
  <2> QED
    BY <1>3, <1>4, <2>5, <2>6 DEF Talk
<1>6. ASSUME NEW d \in Calls, d # c PROVE Talk(P, d)
  <2>1. Talk(T, d)
    BY <1>2, <1>6, TalkOfSame DEF Talks
  <2>2. k # RequestOf(d) /\ k # CancelOf(d)
    BY <1>1, <1>6, MessagesDiffer
  <2> QED
    BY <1>1, <1>2, <2>1, <2>2, PutOther DEF P
<1>7. \A s, n, a : Serves(S, s, n, a) => Serves(P, s, n, a)
  <2>1. \A s, n, a : Serves(S, s, n, a) => Serves(T, s, n, a)
    BY <1>2, TalkOfSame
  <2>2. \A s : k # AnswerOf(s)
    BY <1>1, MessagesDiffer
  <2> QED
    BY <1>1, <1>2, <2>1, <2>2, PutOther DEF P
<1> QED
  BY <1>5, <1>6, <1>7 DEF Talks, P, T

\* cancelPendingRequest
LEMMA CancelledTalks ==
    ASSUME NEW S, Sound(S), Talks(S), NEW c \in Calls, NEW w
    PROVE  /\ Talks(Cancelled(S, c, w))
           /\ \A s \in ServerIds, n \in Nat : \A a :
                Serves(S, s, n, a) => Serves(Cancelled(S, c, w), s, n, a)
<1>1. CASE c \notin S.pending
  BY <1>1 DEF Cancelled
<1>2. CASE c \in S.pending /\ RequestOf(c) \in ToSet(S.queue)
  <2>1. Cancelled(S, c, w) = Unqueued(Settled(S, c, "cancelled"), RequestOf(c))
    BY <1>2 DEF Cancelled
  <2> QED
    BY <1>2, <2>1, UnqueuedTalks DEF Sound
<1>3. CASE c \in S.pending /\ RequestOf(c) \notin ToSet(S.queue)
  <2> DEFINE T == Settled(S, c, "cancelled")
             k == CancelOf(c)
  <2>1. Cancelled(S, c, w) = Enqueued(T, k, w)
    BY <1>3 DEF Cancelled
  <2>2. Talks(Put(T, k)) /\ \A s, n, a : Serves(S, s, n, a) => Serves(Put(T, k), s, n, a)
    BY <1>3, CancelTalks DEF Sound
  <2>3. Fits(T) /\ T.closed = S.closed /\ k \in Messages
    BY <1>3, SettledSound, SettledFields, MessageTypes DEF Sound, Outcomes
  <2>4. ~ S.closed
    BY <1>3 DEF Sound, Fits, Agree
  <2> HIDE DEF T, k
  <2> QED
    BY <2>1, <2>2, <2>3, <2>4, EnqueuedTalks
<1> QED
  BY <1>1, <1>2, <1>3

\* handleResponse to a request that was given to the server: it is in the queue no more.
LEMMA AnsweredTalks ==
    ASSUME NEW S, Sound(S), Talks(S), NEW c \in Calls, NEW n \in 0..MaxLines,
           RequestOf(c) \in ToSet(S.wire)
    PROVE  /\ Talks(Answered(S, c, n))
           /\ \A s \in ServerIds : \A i, a : Serves(S, s, i, a) => Serves(Answered(S, c, n), s, i, a)
<1>1. CASE c \notin S.pending
  BY <1>1 DEF Answered
<1>2. CASE c \in S.pending
  <2> DEFINE T == Settled(S, c, "answered")
             t == Task("resume", c, n)
             r == RequestOf(c)
             k == CancelOf(c)
  <2>1. /\ T.wire = S.wire /\ T.queue = S.queue /\ T.closed = S.closed
        /\ T.micro = S.micro /\ T.serving = S.serving
        /\ T.outcome[c] = "answered" /\ \A d \in Calls : d # c => T.outcome[d] = S.outcome[d]
        /\ Fits(T)
    BY <1>2, SettledFields, SettledSound DEF Sound, Outcomes
  <2>2. t \in Tasks /\ t.id = c
    BY TaskTypes DEF Task
  <2>3. Answered(S, c, n) = Scheduled(T, t)
    BY <1>2 DEF Answered
  <2> HIDE DEF T, t
  <2>4. S.outcome[c] = "waiting" /\ Talk(S, c)
    BY <1>2 DEF Sound, Fits, Agree, Talks
  <2>5. /\ Given(S, r) \in Nat /\ Queued(S, r) \in Nat
        /\ Given(S, k) \in Nat /\ Queued(S, k) \in Nat
    BY SentType DEF Sound
  <2>6. Given(S, r) > 0
    BY TimesType DEF Given, Sound, Fits, RpcType
  <2>7. Queued(S, r) = 0 /\ ~ (Sent(S, k) > 0)
    <3>1. Sent(S, r) <= 1 /\ ~ (Sent(S, k) > 0)
      BY <2>4 DEF Talk
    <3> QED
      BY <2>5, <2>6, <3>1 DEF Sent
  <2>8. /\ Given(T, r) = Given(S, r) /\ Queued(T, r) = Queued(S, r) /\ Sent(T, r) = Sent(S, r)
        /\ Given(T, k) = Given(S, k) /\ Queued(T, k) = Queued(S, k) /\ Sent(T, k) = Sent(S, k)
    BY <2>1, TalkOfSame
  <2>9. Talk(T, c)
    BY <2>1, <2>4, <2>7, <2>8 DEF Talk
  <2>10. \A d \in Calls : Talk(T, d)
    BY <2>1, <2>9, TalkOfSame DEF Talks
  <2>11. \A s, i, a : Serves(S, s, i, a) => Serves(T, s, i, a)
    BY <2>1, TalkOfSame
  <2>12. \A s \in ServerIds : t.id # s
    BY <2>2, RpcAssumption
  <2> QED
    BY <2>1, <2>2, <2>3, <2>10, <2>11, <2>12, ScheduledTalks DEF Talks
<1> QED
  BY <1>1, <1>2

\* A client that has closed owes nothing more.
LEMMA ClosedOwesLess ==
    ASSUME NEW S, Fits(S), NEW s, NEW n \in Nat, NEW a, NEW b, Serves(S, s, n, a)
    PROVE  Serves(Terminated(S), s, n + 1, b)
<1> DEFINE T == Terminated(S)
<1>1. Serves(T, s, n, a) /\ T.closed /\ Fits(T)
  BY TerminatedTalks, TerminatedSound DEF Sound
<1> HIDE DEF T
<1>2. Sent(T, AnswerOf(s)) \in Nat
  BY <1>1, SentType DEF Sent
<1>3. Sent(T, AnswerOf(s)) <= n
  BY <1>1 DEF Serves
<1>4. Sent(T, AnswerOf(s)) <= n + 1
  BY <1>2, <1>3
<1> QED
  BY <1>1, <1>4 DEF Serves, T

\* An answer is put in the queue for a request that was asked or is owed one.
LEMMA AnswerPut ==
    ASSUME NEW S, Fits(S), NEW s \in ServerIds
    PROVE  /\ Talks(S) => Talks(Put(S, AnswerOf(s)))
           /\ Sent(Put(S, AnswerOf(s)), AnswerOf(s)) = Sent(S, AnswerOf(s)) + 1
           /\ \A d, n, a : d # s /\ Serves(S, d, n, a) => Serves(Put(S, AnswerOf(s)), d, n, a)
<1> DEFINE m == AnswerOf(s)
<1>1. m \in Messages /\ \A c \in Calls : m # RequestOf(c) /\ m # CancelOf(c)
  BY MessageTypes, MessagesDiffer
<1>2. \A d : d # s => m # AnswerOf(d)
  BY DEF AnswerOf
<1>3. One(m = m) = 1
  BY DEF One
<1> HIDE DEF m
<1>4. Given(Put(S, m), m) = Given(S, m) /\ Queued(Put(S, m), m) = Queued(S, m) + 1
  <2>1. Queued(Put(S, m), m) = Queued(S, m) + One(m = m)
    BY <1>1, PutFields
  <2> QED
    BY <1>1, <1>3, <2>1, PutFields
<1>5. Given(S, m) \in Nat /\ Queued(S, m) \in Nat
  BY SentType
<1>6. Sent(Put(S, m), m) = Sent(S, m) + 1
  BY <1>4, <1>5 DEF Sent
<1> QED
  BY <1>1, <1>2, <1>6, PutOther DEF Talks, m

\* handleServerRequest
LEMMA AskedTalks ==
    ASSUME NEW S, Sound(S), ~ S.closed, Talks(S), NEW s \in ServerIds, NEW known \in BOOLEAN,
           NEW n \in 0..MaxLines, NEW w
    PROVE  /\ Talks(Asked(S, s, known, n, w))
           /\ \A d \in ServerIds, i \in Nat : \A a : Serves(S, d, i, a) =>
                Serves(Asked(S, s, known, n, w), d, IF d = s THEN i + 1 ELSE i, a)
<1> DEFINE m == AnswerOf(s)
           A == Asked(S, s, known, n, w)
<1>0. Fits(S)
  BY DEF Sound
<1>1. CASE s \in S.serving
  <2>1. A = Terminated(S)
    BY <1>1 DEF Asked
  <2> HIDE DEF A
  <2> QED
    BY <1>0, <2>1, TerminatedTalks, ClosedOwesLess DEF A
<1>2. CASE s \notin S.serving /\ known
  <2> DEFINE T == [S EXCEPT !.serving = @ \cup {s}]
             t == Task("serve", s, n)
  <2>1. /\ T.wire = S.wire /\ T.queue = S.queue /\ T.closed = S.closed /\ T.micro = S.micro
        /\ T.outcome = S.outcome /\ T.serving = S.serving \cup {s} /\ T \in RpcType
        /\ T.pending = S.pending /\ T.armed = S.armed /\ T.active = S.active
    BY <1>0 DEF Fits, RpcType
  <2>2. t \in Tasks /\ t.id = s /\ t.do # "forget"
    BY TaskTypes DEF Task
  <2>3. A = Scheduled(T, t)
    BY <1>2 DEF Asked
  <2> HIDE DEF T, t, A
  <2>4. Fits(T)
    BY <1>0, <2>1 DEF Fits, Agree
  <2>5. Talks(A)
    BY <2>1, <2>2, <2>3, <2>4, TalkOfSame, ScheduledTalks DEF Talks
  <2>6. ASSUME NEW d \in ServerIds, d # s, NEW i \in Nat, NEW a, Serves(S, d, i, a)
        PROVE  Serves(A, d, i, a)
    <3>1. Serves(T, d, i, a)
      <4>1. Sent(T, AnswerOf(d)) = Sent(S, AnswerOf(d))
        BY <2>1, TalkOfSame
      <4> QED
        BY <2>1, <2>6, <4>1 DEF Serves
    <3> QED
      BY <2>2, <2>3, <2>4, <2>6, <3>1, ScheduledTalks
  <2>7. ASSUME NEW i \in Nat, NEW a, Serves(S, s, i, a) PROVE Serves(A, s, i + 1, a)
    <3>1. Sent(A, m) = Sent(S, m)
      <4>1. Sent(T, m) = Sent(S, m)
        BY <2>1, TalkOfSame
      <4> QED
        BY <2>2, <2>3, <2>4, <4>1, ScheduledTalks
    <3>2. Nothing(S.micro, s) /\ ~ a /\ Sent(S, m) + One(a \/ Owed(S.micro, s)) = i
      BY <1>2, <2>7 DEF Serves
    <3>3. /\ A.micro = Append(S.micro, t) /\ S.micro \in Seq(Tasks)
          /\ A.closed = S.closed /\ A.serving = T.serving
      BY <1>0, <2>1, <2>3, <2>4 DEF Scheduled, Fits, RpcType
    <3> DEFINE q == Append(S.micro, t)
    <3>4. Alone(q, s) /\ Owed(q, s) /\ ~ Owed(S.micro, s)
      BY <2>2, <3>2, <3>3, TaskAppended
    <3>5. One(a \/ Owed(S.micro, s)) = 0 /\ One(a \/ Owed(q, s)) = 1
      BY <3>2, <3>4 DEF One
    <3>6. Sent(S, m) = i /\ Sent(S, m) \in Nat
      <4>1. Sent(S, m) \in Nat
        BY <1>0, SentType DEF Sent
      <4> QED
        BY <3>2, <3>5, <4>1
    <3>7. A.micro = q
      BY <3>3
    <3> HIDE DEF q
    <3> QED
      BY <2>1, <3>1, <3>2, <3>3, <3>4, <3>5, <3>6, <3>7 DEF Serves
  <2> QED
    BY <2>5, <2>6, <2>7 DEF A
<1>3. CASE s \notin S.serving /\ ~ known
  <2>1. A = Enqueued(S, m, w) /\ m \in Messages
    BY <1>3, MessageTypes DEF Asked
  <2>2. Talks(Put(S, m)) /\ Sent(Put(S, m), m) = Sent(S, m) + 1
    BY <1>0, AnswerPut
  <2>3. /\ Put(S, m).closed = S.closed /\ Put(S, m).serving = S.serving
        /\ Put(S, m).micro = S.micro
    BY <1>0, <2>1, PutFields
  <2>4. ASSUME NEW d \in ServerIds, d # s, NEW i \in Nat, NEW a, Serves(S, d, i, a)
        PROVE  Serves(A, d, i, a)
    BY <1>0, <2>1, <2>4, AnswerPut, EnqueuedTalks
  <2>5. ASSUME NEW i \in Nat, NEW a, Serves(S, s, i, a) PROVE Serves(A, s, i + 1, a)
    <3>1. Sent(S, m) \in Nat
      BY <1>0, SentType DEF Sent
    <3>2. One(a \/ Owed(S.micro, s)) \in Nat
      BY DEF One
    <3>3. Serves(Put(S, m), s, i + 1, a)
      BY <2>2, <2>3, <2>5, <3>1, <3>2 DEF Serves
    <3> QED
      BY <1>0, <2>1, <3>3, EnqueuedTalks
  <2> QED
    BY <1>0, <2>1, <2>2, <2>4, <2>5, EnqueuedTalks DEF A
<1> QED
  BY <1>1, <1>2, <1>3

\* handleLine
LEMMA HandledTalks ==
    ASSUME NEW S, Sound(S), ~ S.closed, Talks(S), NEW l \in Lines, NEW n \in 0..MaxLines, NEW w,
           l.is = "response" => RequestOf(l.id) \in ToSet(S.wire)
    PROVE  /\ Talks(Handled(S, l, n, w))
           /\ \A d \in ServerIds, i \in Nat : \A a : Serves(S, d, i, a) =>
                Serves(Handled(S, l, n, w), d,
                       IF l.is \in {"ask", "unknown"} /\ d = l.id THEN i + 1 ELSE i, a)
<1>0. Fits(S)
  BY DEF Sound
<1>1. CASE l.is = "response"
  <2>1. l.id \in Calls /\ Handled(S, l, n, w) = Answered(S, l.id, n)
    BY <1>1 DEF Lines, Handled
  <2> QED
    BY <1>1, <2>1, AnsweredTalks
<1>2. CASE l.is \in {"ask", "unknown"}
  <2> DEFINE known == l.is = "ask"
  <2>1. l.id \in ServerIds /\ Handled(S, l, n, w) = Asked(S, l.id, known, n, w)
    BY <1>2 DEF Lines, Handled
  <2>2. known \in BOOLEAN
    OBVIOUS
  <2> HIDE DEF known
  <2> QED
    BY <1>2, <2>1, <2>2, AskedTalks
<1>3. CASE l.is = "notice"
  <2> DEFINE t == Task("notice", NoId, n)
  <2>1. Handled(S, l, n, w) = Scheduled(S, t)
    BY <1>3 DEF Handled, Noticed
  <2>2. t \in Tasks /\ \A s \in ServerIds : t.id # s
    BY TaskTypes, RpcAssumption DEF Task
  <2> HIDE DEF t
  <2> QED
    BY <1>0, <1>3, <2>1, <2>2, ScheduledTalks
<1>4. CASE l.is = "bad"
  <2>1. Handled(S, l, n, w) = Terminated(S)
    BY <1>4 DEF Handled
  <2> QED
    BY <1>0, <1>4, <2>1, TerminatedTalks
<1>5. l.is \in {"response", "ask", "unknown", "notice", "bad"}
  BY DEF Lines
<1> QED
  BY <1>1, <1>2, <1>3, <1>4, <1>5

-------------------------------------------------------------------------------
(* The actions and the conversation *)

Conversation ==
    /\ Talks(rpc)
    /\ \A s \in ServerIds : Serves(rpc, s, asked[s], s \in running)

LEMMA AskedType == ASSUME IInv PROVE \A s \in ServerIds : asked[s] \in Nat
BY RpcAssumption DEF IInv, Rest

\* A step that leaves the requests of the server has to show that each is served as
\* before.
LEMMA CallStep ==
    ASSUME IInv, Conversation, Talks(rpc'), UNCHANGED <<running, asked>>,
           \A s \in ServerIds, n \in Nat : \A a : Serves(rpc, s, n, a) => Serves(rpc', s, n, a)
    PROVE  Conversation'
<1>1. ASSUME NEW s \in ServerIds PROVE Serves(rpc', s, asked[s], s \in running)
  BY AskedType DEF Conversation
<1> QED
  BY <1>1 DEF Conversation

LEMMA RequestSpeaks ==
    ASSUME IInv, Conversation, NEW c \in Calls, Request(c)
    PROVE  Conversation'
<1> DEFINE Q == [rpc EXCEPT !.pending = @ \cup {c}, !.armed = @ \cup {c}, !.outcome[c] = "waiting"]
           m == RequestOf(c)
<1>1. PICK w \in Writes : rpc' = Enqueued(Q, m, w)
  BY DEF Request
<1>2. /\ Q \in RpcType /\ Q.closed = rpc.closed /\ ~ rpc.closed /\ Q.micro = rpc.micro
      /\ Q.queue = rpc.queue /\ Q.active = rpc.active /\ Q.wire = rpc.wire
      /\ Q.serving = rpc.serving
      /\ Q.pending = rpc.pending \cup {c} /\ Q.armed = rpc.armed \cup {c}
      /\ Q.outcome = [rpc.outcome EXCEPT ![c] = "waiting"]
  BY DEF Request, IInv, Sound, Fits, RpcType, Outcomes
<1>3. Q.pending = {d \in Calls : Q.outcome[d] = "waiting"}
  BY <1>2 DEF IInv, Sound, Fits, RpcType, Agree
<1>4. Fits(Q) /\ Fits(rpc)
  BY <1>2, <1>3 DEF IInv, Sound, Fits, Agree
<1>5. /\ m \in Messages /\ \A s : m # AnswerOf(s)
  BY MessageTypes, MessagesDiffer
<1>6. UNCHANGED <<running, asked>> /\ rpc.outcome[c] = "new"
  BY DEF Request
<1> HIDE DEF Q
<1>7. Talks(Put(Q, m))
  BY <1>2, <1>4, <1>6, RequestTalks DEF Conversation
<1>8. \A s, n, a : Serves(rpc, s, n, a) => Serves(Put(Q, m), s, n, a)
  <2>1. \A s, n, a : Serves(rpc, s, n, a) => Serves(Q, s, n, a)
    BY <1>2, TalkOfSame
  <2> QED
    BY <1>4, <1>5, <2>1, PutOther
<1> HIDE DEF m
<1> QED
  BY <1>1, <1>2, <1>4, <1>5, <1>6, <1>7, <1>8, EnqueuedTalks, CallStep

LEMMA CancelSpeaks ==
    ASSUME IInv, Conversation, NEW c \in Calls, Abort(c) \/ Timeout(c)
    PROVE  Conversation'
<1>1. PICK w \in Writes : rpc' = Cancelled(rpc, c, w)
  BY DEF Abort, Timeout
<1>2. UNCHANGED <<running, asked>>
  BY DEF Abort, Timeout
<1> QED
  BY <1>1, <1>2, CancelledTalks, CallStep DEF IInv, Conversation

LEMMA LineSpeaks ==
    ASSUME IInv, Conversation, NEW l \in Lines, ReadLine(l) \/ LastLine(l)
    PROVE  Conversation'
<1> DEFINE H(w) == Handled(rpc, l, line + 1, w)
           asks == l.is \in {"ask", "unknown"}
<1>1. /\ line + 1 \in 0..MaxLines /\ ~ rpc.closed /\ UNCHANGED running /\ Counted(l)
      /\ l.is = "response" => RequestOf(l.id) \in ToSet(rpc.wire)
  BY RpcAssumption DEF IInv, Rest, ReadLine, LastLine, Writable
<1>2. PICK w \in Writes : rpc' = H(w) \/ rpc' = Terminated(H(w))
  BY DEF ReadLine, LastLine
<1>3. /\ Talks(H(w))
      /\ \A d \in ServerIds, i \in Nat : \A a : Serves(rpc, d, i, a) =>
           Serves(H(w), d, IF asks /\ d = l.id THEN i + 1 ELSE i, a)
  BY <1>1, HandledTalks DEF IInv, Conversation
<1>4. Fits(H(w))
  BY <1>1, HandledSound DEF IInv, Sound
<1>5. \A s \in ServerIds : /\ asked[s] \in Nat
                          /\ asked'[s] = IF asks /\ s = l.id THEN asked[s] + 1 ELSE asked[s]
  BY <1>1, AskedType DEF Counted, IInv, Rest
<1> HIDE DEF H, asks
<1>6. \A s \in ServerIds : Serves(H(w), s, asked'[s], s \in running) /\ asked'[s] \in Nat
  <2> TAKE s \in ServerIds
  <2>1. Serves(rpc, s, asked[s], s \in running)
    BY DEF Conversation
  <2> QED
    BY <1>3, <1>5, <2>1
<1>7. Talks(rpc') /\ \A s \in ServerIds : Serves(rpc', s, asked'[s], s \in running)
  BY <1>2, <1>3, <1>4, <1>6, TerminatedTalks
<1> QED
  BY <1>1, <1>7 DEF Conversation

LEMMA CloseSpeaks ==
    ASSUME IInv, Conversation, Close
    PROVE  Conversation'
<1>1. rpc' = Terminated(rpc) /\ UNCHANGED <<running, asked>> /\ Fits(rpc)
  BY DEF Close, IInv, Sound
<1> QED
  BY <1>1, TerminatedTalks, CallStep DEF Conversation

LEMMA DrainSpeaks ==
    ASSUME IInv, Conversation, Drain
    PROVE  Conversation'
<1> DEFINE D == [rpc EXCEPT !.active = Idle]
<1>1. PICK w \in Writes : rpc' = Pumped(D, w)
  BY DEF Drain
<1>2. /\ D \in RpcType /\ D.closed = rpc.closed /\ D.micro = rpc.micro /\ D.queue = rpc.queue
      /\ D.active = Idle /\ D.pending = rpc.pending /\ D.armed = rpc.armed
      /\ D.outcome = rpc.outcome /\ D.serving = rpc.serving /\ D.wire = rpc.wire
  BY DEF IInv, Sound, Fits, RpcType
<1>3. Fits(D)
  BY <1>2 DEF IInv, Sound, Fits, Agree
<1> HIDE DEF D
<1>4. Talks(D) /\ \A s, n, a : Serves(rpc, s, n, a) => Serves(D, s, n, a)
  BY <1>2, TalkOfSame DEF Conversation, Talks
<1>5. UNCHANGED <<running, asked>>
  BY DEF Drain
<1> QED
  BY <1>1, <1>3, <1>4, <1>5, PumpedTalks, CallStep

\* A handler that returns or fails leaves its request owed.
LEMMA HandlerEndsSpeaks ==
    ASSUME IInv, Conversation, NEW s \in ServerIds, HandlerEnds(s)
    PROVE  Conversation'
<1> DEFINE t == Task("answer", s, 0)
           q == Append(rpc.micro, t)
<1>1. /\ t \in Tasks /\ t.id = s /\ t.do # "forget"
  BY RpcAssumption DEF Task, Tasks
<1>2. rpc' = Scheduled(rpc, t) /\ UNCHANGED asked /\ s \in running /\ running' = running \ {s}
  BY DEF HandlerEnds
<1>3. Fits(rpc) /\ rpc.micro \in Seq(Tasks)
  BY DEF IInv, Sound, Fits, RpcType
<1>4. /\ rpc'.micro = q /\ rpc'.closed = rpc.closed /\ rpc'.serving = rpc.serving
  BY <1>2, <1>3 DEF Scheduled, Fits, RpcType
<1> HIDE DEF t
<1>5. /\ Talks(rpc') /\ Sent(rpc', AnswerOf(s)) = Sent(rpc, AnswerOf(s))
      /\ \A d, n, a : Serves(rpc, d, n, a) /\ d # s => Serves(rpc', d, n, a)
  BY <1>1, <1>2, <1>3, ScheduledTalks DEF Conversation
<1>6. Serves(rpc, s, asked[s], s \in running)
  BY DEF Conversation
<1>7. ASSUME ~ rpc.closed
      PROVE  /\ Alone(q, s) /\ Owed(q, s) /\ s \in rpc.serving
             /\ Sent(rpc, AnswerOf(s)) + 1 = asked[s]
  <2>1. Nothing(rpc.micro, s) /\ s \in rpc.serving
    BY <1>2, <1>6, <1>7 DEF Serves
  <2>2. Alone(q, s) /\ Owed(q, s)
    BY <1>1, <1>3, <2>1, TaskAppended
  <2>3. One(s \in running \/ Owed(rpc.micro, s)) = 1
    BY <1>2 DEF One
  <2>4. Sent(rpc, AnswerOf(s)) + One(s \in running \/ Owed(rpc.micro, s)) = asked[s]
    BY <1>6, <1>7 DEF Serves
  <2> QED
    BY <2>1, <2>2, <2>3, <2>4
<1> HIDE DEF q
<1>8. Serves(rpc', s, asked[s], s \in running')
  <2>1. s \notin running'
    BY <1>2
  <2>2. Owed(q, s) => One(s \in running' \/ Owed(q, s)) = 1
    BY DEF One
  <2> QED
    BY <1>4, <1>5, <1>6, <1>7, <2>1, <2>2 DEF Serves
<1>9. ASSUME NEW d \in ServerIds, d # s PROVE Serves(rpc', d, asked[d], d \in running')
  <2>1. Serves(rpc, d, asked[d], d \in running) /\ (d \in running' <=> d \in running)
    BY <1>2, <1>9 DEF Conversation
  <2>2. Serves(rpc', d, asked[d], d \in running)
    BY <1>5, <1>9, <2>1
  <2> QED
    BY <2>1, <2>2 DEF Serves, One
<1> QED
  BY <1>2, <1>5, <1>8, <1>9 DEF Conversation

\* The first microtask is taken off: of its own request it was the only one.
LEMMA PoppedSpeaks ==
    ASSUME IInv, Conversation, rpc.micro # <<>>
    PROVE  /\ Fits(Popped) /\ Talks(Popped)
           /\ Popped.closed = rpc.closed /\ Popped.serving = rpc.serving
           /\ \A s \in ServerIds :
                Next1.id # s => Serves(Popped, s, asked[s], s \in running)
           /\ \A s \in ServerIds :
                Next1.id = s =>
                    /\ Sent(Popped, AnswerOf(s)) <= asked[s]
                    /\ ~ rpc.closed =>
                         /\ Nothing(Popped.micro, s) /\ s \notin running /\ s \in rpc.serving
                         /\ Sent(Popped, AnswerOf(s)) + One(Next1.do # "forget") = asked[s]
<1> DEFINE P == Popped
           m == rpc.micro
<1>1. /\ P.wire = rpc.wire /\ P.queue = rpc.queue /\ P.closed = rpc.closed
      /\ P.outcome = rpc.outcome /\ P.serving = rpc.serving /\ P.micro = Tail(m)
      /\ m \in Seq(Tasks)
  BY DEF Popped, IInv, Sound, Fits, RpcType
<1>2. Fits(P)
  BY PoppedSound
<1> HIDE DEF P
<1>3. Talks(P) /\ \A s : Sent(P, AnswerOf(s)) = Sent(rpc, AnswerOf(s))
  BY <1>1, TalkOfSame DEF Conversation, Talks
<1>4. ASSUME NEW s \in ServerIds
      PROVE  /\ Next1.id # s => Serves(P, s, asked[s], s \in running)
             /\ Next1.id = s =>
                  /\ Sent(P, AnswerOf(s)) <= asked[s]
                  /\ ~ rpc.closed =>
                       /\ Nothing(P.micro, s) /\ s \notin running /\ s \in rpc.serving
                       /\ Sent(P, AnswerOf(s)) + One(Next1.do # "forget") = asked[s]
  <2>1. Serves(rpc, s, asked[s], s \in running)
    BY DEF Conversation
  <2>2. CASE rpc.closed
    BY <1>1, <1>3, <2>1, <2>2 DEF Serves
  <2>3. CASE ~ rpc.closed
    <3>1. Alone(m, s)
      BY <2>1, <2>3 DEF Serves
    <3> DEFINE r == Tail(m)
               h == Next1
    <3>2. h = Head(m)
      BY DEF Next1
    <3>3. /\ Alone(r, s)
          /\ Nothing(m, s) => Nothing(r, s)
          /\ h.id = s => Nothing(r, s) /\ ~ Nothing(m, s) /\ (Owed(m, s) <=> h.do # "forget")
          /\ h.id # s => (Owed(r, s) <=> Owed(m, s))
      BY <1>1, <3>1, <3>2, TaskPopped
    <3>4. P.micro = r
      BY <1>1
    <3> HIDE DEF r, h, m
    <3>5. CASE h.id # s
      <4>1. One(s \in running \/ Owed(r, s)) = One(s \in running \/ Owed(m, s))
        BY <3>3, <3>5 DEF One
      <4> QED
        BY <1>1, <1>3, <2>1, <2>3, <3>3, <3>4, <3>5, <4>1 DEF Serves, m, h
    <3>6. CASE h.id = s
      <4>1. s \notin running /\ s \in rpc.serving
        BY <2>1, <2>3, <3>3, <3>6 DEF Serves, m
      <4>2. One(s \in running \/ Owed(m, s)) = One(h.do # "forget")
        BY <3>3, <3>6, <4>1 DEF One
      <4> QED
        BY <1>1, <1>3, <2>1, <2>3, <3>3, <3>4, <3>6, <4>1, <4>2 DEF Serves, m, h
    <3> QED
      BY <3>5, <3>6
  <2> QED
    BY <2>2, <2>3
<1> QED
  BY <1>1, <1>2, <1>3, <1>4 DEF P

\* Steps on a microtask of no server request.
LEMMA OtherTaskSpeaks ==
    ASSUME IInv, Conversation, PumpAgain \/ ResumeCaller \/ CallNoticeHandler \/ NoticeFailed
    PROVE  Conversation'
<1> DEFINE P == Popped
           t == Task("fail", NoId, 0)
<1>1. rpc.micro # <<>> /\ Next1.do \in {"pump", "resume", "notice", "fail"}
  BY DEF PumpAgain, ResumeCaller, CallNoticeHandler, NoticeFailed, Due, Next1
<1>2. \A s \in ServerIds : Next1.id # s
  <2>1. Next1 \in Tasks
    BY <1>1, PoppedSound
  <2> QED
    BY <1>1, <2>1, RpcAssumption DEF Tasks
<1>3. Fits(P) /\ Talks(P) /\ \A s \in ServerIds : Serves(P, s, asked[s], s \in running)
  BY <1>1, <1>2, PoppedSpeaks
<1>4. t \in Tasks /\ \A s \in ServerIds : t.id # s
  BY RpcAssumption DEF Task, Tasks
<1>5. UNCHANGED <<running, asked>>
  BY DEF PumpAgain, ResumeCaller, CallNoticeHandler, NoticeFailed
<1>6. \/ \E w \in Writes : rpc' = Pumped(P, w)
      \/ rpc' = P \/ rpc' = Scheduled(P, t) \/ rpc' = Terminated(P)
  BY DEF PumpAgain, ResumeCaller, CallNoticeHandler, NoticeFailed
<1> HIDE DEF P, t
<1>7. \A s \in ServerIds : asked[s] \in Nat
  BY AskedType
<1>8. Talks(rpc') /\ \A s \in ServerIds : Serves(rpc', s, asked[s], s \in running)
  BY <1>3, <1>4, <1>6, <1>7, PumpedTalks, ScheduledTalks, TerminatedTalks
<1> QED
  BY <1>5, <1>8 DEF Conversation

LEMMA HandlerCalledSpeaks ==
    ASSUME IInv, Conversation, CallRequestHandler
    PROVE  Conversation'
<1> DEFINE s == Next1.id
<1>1. /\ rpc.micro # <<>> /\ Next1.do = "serve" /\ rpc' = Popped /\ UNCHANGED asked
      /\ running' = running \cup {s}
  BY DEF CallRequestHandler, Due, Next1
<1>2. s \in ServerIds
  <2>1. Next1 \in Tasks
    BY <1>1, PoppedSound
  <2> QED
    BY <1>1, <2>1 DEF Tasks
<1>3. /\ Fits(rpc') /\ Talks(rpc') /\ rpc'.closed = rpc.closed /\ rpc'.serving = rpc.serving
      /\ \A d \in ServerIds : d # s => Serves(rpc', d, asked[d], d \in running)
      /\ Sent(rpc', AnswerOf(s)) <= asked[s]
      /\ ~ rpc.closed =>
           /\ Nothing(rpc'.micro, s) /\ s \notin running /\ s \in rpc.serving
           /\ Sent(rpc', AnswerOf(s)) + One(Next1.do # "forget") = asked[s]
  BY <1>1, <1>2, PoppedSpeaks
<1>4. One(Next1.do # "forget") = 1 /\ \A a : One(s \in running' \/ a) = 1
  BY <1>1 DEF One
<1>5. s \in running' /\ \A d : d # s => (d \in running' <=> d \in running)
  BY <1>1
<1> HIDE DEF s
<1>6. Serves(rpc', s, asked[s], s \in running')
  BY <1>3, <1>4, <1>5 DEF Serves, Alone, Nothing
<1>7. ASSUME NEW d \in ServerIds, d # s PROVE Serves(rpc', d, asked[d], d \in running')
  <2>1. Serves(rpc', d, asked[d], d \in running) /\ (d \in running' <=> d \in running)
    BY <1>3, <1>5, <1>7
  <2> QED
    BY <2>1 DEF Serves, One
<1> QED
  BY <1>1, <1>2, <1>3, <1>6, <1>7 DEF Conversation

LEMMA ForgetSpeaks ==
    ASSUME IInv, Conversation, ForgetRequest
    PROVE  Conversation'
<1> DEFINE s == Next1.id
           P == Popped
<1>1. /\ rpc.micro # <<>> /\ Next1.do = "forget" /\ UNCHANGED <<asked, running>>
      /\ rpc' = [P EXCEPT !.serving = @ \ {s}]
  BY DEF ForgetRequest, Due, Next1
<1>2. s \in ServerIds
  <2>1. Next1 \in Tasks
    BY <1>1, PoppedSound
  <2> QED
    BY <1>1, <2>1 DEF Tasks
<1>3. /\ Fits(P) /\ Talks(P) /\ P.closed = rpc.closed /\ P.serving = rpc.serving
      /\ \A d \in ServerIds : d # s => Serves(P, d, asked[d], d \in running)
      /\ Sent(P, AnswerOf(s)) <= asked[s]
      /\ ~ rpc.closed =>
           /\ Nothing(P.micro, s) /\ s \notin running /\ s \in rpc.serving
           /\ Sent(P, AnswerOf(s)) + One(Next1.do # "forget") = asked[s]
  BY <1>1, <1>2, PoppedSpeaks
<1> HIDE DEF s, P
<1>4. /\ rpc'.wire = P.wire /\ rpc'.queue = P.queue /\ rpc'.closed = P.closed
      /\ rpc'.outcome = P.outcome /\ rpc'.micro = P.micro /\ rpc'.serving = P.serving \ {s}
  BY <1>1, <1>3 DEF Fits, RpcType
<1>5. Talks(rpc') /\ \A d : Sent(rpc', AnswerOf(d)) = Sent(P, AnswerOf(d))
  BY <1>3, <1>4, TalkOfSame DEF Talks
<1>6. ~ rpc.closed => /\ Alone(P.micro, s) /\ ~ Owed(P.micro, s)
                      /\ One(Next1.do # "forget") = 0
                      /\ One(s \in running \/ Owed(P.micro, s)) = 0
  BY <1>1, <1>3 DEF Nothing, Alone, Owed, One
<1>7. Serves(rpc', s, asked[s], s \in running)
  BY <1>3, <1>4, <1>5, <1>6 DEF Serves
<1>8. ASSUME NEW d \in ServerIds, d # s PROVE Serves(rpc', d, asked[d], d \in running)
  BY <1>3, <1>4, <1>5, <1>8 DEF Serves
<1> QED
  BY <1>1, <1>5, <1>7, <1>8 DEF Conversation

\* The answer of a handler joins the queue; what is left for its request is its removal.
LEMMA AnswerSpeaks ==
    ASSUME IInv, Conversation, SendAnswer
    PROVE  Conversation'
<1> DEFINE s == Next1.id
           P == Popped
           m == AnswerOf(s)
           t == Task("forget", s, 0)
           E(w) == Enqueued(P, m, w)
<1>1. /\ rpc.micro # <<>> /\ Next1.do = "answer" /\ UNCHANGED <<asked, running>>
      /\ \E w \in Writes : rpc' = Scheduled(E(w), t)
  BY DEF SendAnswer, Due, Next1
<1>2. s \in ServerIds
  <2>1. Next1 \in Tasks
    BY <1>1, PoppedSound
  <2> QED
    BY <1>1, <2>1 DEF Tasks
<1>3. /\ Fits(P) /\ Talks(P) /\ P.closed = rpc.closed /\ P.serving = rpc.serving
      /\ \A d \in ServerIds : d # s => Serves(P, d, asked[d], d \in running)
      /\ Sent(P, m) <= asked[s]
      /\ ~ rpc.closed =>
           /\ Nothing(P.micro, s) /\ s \notin running /\ s \in rpc.serving
           /\ Sent(P, m) + One(Next1.do # "forget") = asked[s]
  BY <1>1, <1>2, PoppedSpeaks
<1>4. PICK w \in Writes : rpc' = Scheduled(E(w), t)
  BY <1>1
<1>5. t \in Tasks /\ t.id = s /\ t.do = "forget"
  BY <1>2, RpcAssumption DEF Task, Tasks
<1>6. \A d \in ServerIds : asked[d] \in Nat
  BY AskedType
<1>7. m \in Messages /\ Sent(P, m) \in Nat
  BY <1>2, <1>3, MessageTypes, SentType DEF Sent
<1>8. Fits(E(w))
  BY <1>3, <1>7, EnqueuedSound DEF Sound
<1>9. One(Next1.do # "forget") = 1
  BY <1>1 DEF One
<1> HIDE DEF s, P, t
<1>10. /\ Talks(E(w))
       /\ \A d \in ServerIds : d # s => Serves(E(w), d, asked[d], d \in running)
       /\ Sent(E(w), m) <= asked[s]
       /\ ~ E(w).closed => /\ Nothing(E(w).micro, s) /\ s \notin running
                           /\ s \in E(w).serving /\ Sent(E(w), m) = asked[s]
  <2>1. CASE rpc.closed
    <3>1. E(w) = P
      BY <1>3, <2>1 DEF Enqueued
    <3> QED
      BY <1>3, <2>1, <3>1
  <2>2. CASE ~ rpc.closed
    <3> DEFINE Q == Put(P, m)
    <3>1. /\ Talks(Q) /\ Sent(Q, m) = Sent(P, m) + 1
          /\ \A d \in ServerIds : d # s => Serves(Q, d, asked[d], d \in running)
      BY <1>2, <1>3, AnswerPut
    <3>2. Q.closed = P.closed /\ Q.serving = P.serving /\ Q.micro = P.micro
      BY <1>3, <1>7, PutFields
    <3> HIDE DEF Q
    <3>3. Sent(Q, m) = asked[s]
      BY <1>3, <1>7, <1>9, <2>2, <3>1
    <3>4. Alone(P.micro, s) /\ ~ Owed(P.micro, s)
      BY <1>3, <2>2 DEF Nothing, Alone, Owed
    <3>5. Serves(Q, s, asked[s], FALSE)
      <4>1. One(FALSE \/ Owed(P.micro, s)) = 0
        BY <3>4 DEF One
      <4> QED
        BY <1>2, <1>3, <1>6, <2>2, <3>2, <3>3, <3>4, <4>1 DEF Serves, m
    <3>6. Serves(Q, s, asked[s] + 1, TRUE)
      <4>1. One(TRUE \/ Owed(P.micro, s)) = 1
        BY DEF One
      <4> QED
        BY <1>2, <1>3, <1>6, <2>2, <3>2, <3>3, <3>4, <4>1 DEF Serves, m
    <3>7. /\ Talks(E(w)) /\ Serves(E(w), s, asked[s], FALSE)
          /\ Serves(E(w), s, asked[s] + 1, TRUE)
          /\ \A d \in ServerIds : d # s => Serves(E(w), d, asked[d], d \in running)
      <4>1. /\ asked[s] \in Nat /\ asked[s] + 1 \in Nat /\ ~ P.closed
            /\ \A d \in ServerIds : asked[d] \in Nat
        BY <1>2, <1>3, <1>6, <2>2
      <4>2. /\ Talks(Q) => Talks(E(w))
            /\ \A d \in ServerIds, n \in Nat : \A a :
                 Serves(Q, d, n, a) => Serves(E(w), d, n, a)
        BY <1>3, <1>7, <4>1, EnqueuedTalks DEF Q
      <4> HIDE DEF E
      <4>3. Serves(E(w), s, asked[s], FALSE) /\ Serves(E(w), s, asked[s] + 1, TRUE)
        BY <1>2, <3>5, <3>6, <4>1, <4>2, Zenon
      <4>4. ASSUME NEW d \in ServerIds, d # s PROVE Serves(E(w), d, asked[d], d \in running)
        BY <3>1, <4>1, <4>2, <4>4, Zenon
      <4> QED
        BY <3>1, <4>2, <4>3, <4>4, Zenon
    <3>8. Sent(E(w), m) \in Nat
      BY <1>8, SentType DEF Sent
    <3>9. One(TRUE \/ Owed(E(w).micro, s)) = 1
      BY DEF One
    <3> HIDE DEF E
    <3> QED
      BY <1>2, <1>3, <1>6, <2>2, <3>7, <3>8, <3>9 DEF Serves, m
  <2> QED
    BY <2>1, <2>2
<1> HIDE DEF E, m
<1>11. /\ Talks(rpc') /\ Sent(rpc', m) = Sent(E(w), m)
       /\ \A d \in ServerIds : d # s => Serves(rpc', d, asked[d], d \in running)
  BY <1>4, <1>5, <1>8, <1>10, ScheduledTalks
<1>12. Serves(rpc', s, asked[s], s \in running)
  <2>1. /\ rpc'.micro = Append(E(w).micro, t) /\ E(w).micro \in Seq(Tasks)
        /\ rpc'.closed = E(w).closed /\ rpc'.serving = E(w).serving
    BY <1>4, <1>8 DEF Scheduled, Fits, RpcType
  <2> DEFINE q == Append(E(w).micro, t)
  <2>2. ~ E(w).closed => Alone(q, s) /\ ~ Owed(q, s)
    BY <1>5, <1>10, <2>1, TaskAppended
  <2>3. rpc'.micro = q
    BY <2>1
  <2> HIDE DEF q
  <2>4. ~ E(w).closed => One(s \in running \/ Owed(q, s)) = 0
    BY <1>10, <2>2 DEF One
  <2> QED
    BY <1>2, <1>6, <1>10, <1>11, <2>1, <2>2, <2>3, <2>4 DEF Serves, m
<1> QED
  BY <1>1, <1>11, <1>12 DEF Conversation

\* Every step keeps the conversation: the fields speak for each call and each request of
\* the server as before (jsonl-rpc-client.ts).
THEOREM ConversationStep == IInv /\ Conversation /\ [Next]_vars => Conversation'
<1> SUFFICES ASSUME IInv, Conversation, [Next]_vars PROVE Conversation'
  OBVIOUS
<1>1. ASSUME NEW c \in Calls, Request(c) \/ Abort(c) \/ Timeout(c) PROVE Conversation'
  BY <1>1, RequestSpeaks, CancelSpeaks
<1>2. ASSUME NEW l \in Lines, ReadLine(l) \/ LastLine(l) PROVE Conversation'
  BY <1>2, LineSpeaks
<1>3. ASSUME NEW s \in ServerIds, HandlerEnds(s) PROVE Conversation'
  BY <1>3, HandlerEndsSpeaks
<1>4. CASE Close \/ Drain \/ Microtask
  BY <1>4, CloseSpeaks, DrainSpeaks, OtherTaskSpeaks, HandlerCalledSpeaks, ForgetSpeaks,
     AnswerSpeaks DEF Microtask
<1>5. CASE UNCHANGED vars
  <2>1. rpc' = rpc /\ UNCHANGED <<running, asked>>
    BY <1>5 DEF vars
  <2> QED
    BY <2>1, CallStep DEF Conversation
<1> QED
  BY <1>1, <1>2, <1>3, <1>4, <1>5 DEF Next

LEMMA InitConversation == Init => Conversation
<1> SUFFICES ASSUME Init PROVE Conversation
  OBVIOUS
<1>1. /\ rpc.wire = <<>> /\ rpc.queue = <<>> /\ rpc.micro = <<>> /\ running = {}
      /\ \A c \in Calls : rpc.outcome[c] = "new"
      /\ \A s \in ServerIds : asked[s] = 0
  BY DEF Init
<1>2. \A m : Given(rpc, m) = 0 /\ Queued(rpc, m) = 0 /\ Sent(rpc, m) = 0
  BY <1>1, TimesEmpty DEF Given, Queued, Sent
<1>3. ASSUME NEW c \in Calls PROVE Talk(rpc, c)
  BY <1>1, <1>2 DEF Talk
<1>4. ASSUME NEW s \in ServerIds PROVE Serves(rpc, s, asked[s], s \in running)
  <2>1. Nothing(rpc.micro, s) /\ Alone(rpc.micro, s) /\ ~ Owed(rpc.micro, s)
    BY <1>1 DEF Nothing, Alone, Owed
  <2>2. One(s \in running \/ Owed(rpc.micro, s)) = 0
    BY <1>1, <2>1 DEF One
  <2> QED
    BY <1>1, <1>2, <2>1, <2>2 DEF Serves
<1> QED
  BY <1>3, <1>4 DEF Conversation, Talks

\* What is counted in Out was given to the stream or waits for it.
LEMMA OutCounts ==
    ASSUME IInv
    PROVE  /\ \A m : Count(m) = Sent(rpc, m) /\ Given(rpc, m) \in Nat /\ Queued(rpc, m) \in Nat
           /\ \A i \in DOMAIN Out :
                \/ i \in DOMAIN rpc.wire /\ Out[i] = rpc.wire[i]
                \/ Queued(rpc, Out[i]) > 0 /\ i > Len(rpc.wire)
           /\ \A i \in DOMAIN rpc.wire : Out[i] = rpc.wire[i]
           /\ DOMAIN rpc.wire = 1..Len(rpc.wire) /\ Len(rpc.wire) \in Nat
           /\ DOMAIN Out \subseteq Nat
<1>1. Fits(rpc) /\ rpc.wire \in Seq(Messages) /\ rpc.queue \in Seq(Messages)
  BY DEF IInv, Sound, Fits, RpcType
<1> DEFINE w == rpc.wire
           q == rpc.queue
<1> HIDE DEF w, q
<1>a. w \in Seq(Messages) /\ q \in Seq(Messages)
  BY <1>1 DEF w, q
<1>2. /\ Len(w) \in Nat /\ Len(q) \in Nat /\ DOMAIN w = 1..Len(w) /\ DOMAIN q = 1..Len(q)
      /\ DOMAIN (w \o q) = 1..Len(w) + Len(q)
      /\ \A i \in 1..Len(w) + Len(q) :
           (w \o q)[i] = IF i <= Len(w) THEN w[i] ELSE q[i - Len(w)]
  <2>1. /\ w \o q \in Seq(Messages) /\ Len(w \o q) = Len(w) + Len(q)
        /\ \A i \in 1..Len(w) + Len(q) :
             (w \o q)[i] = IF i <= Len(w) THEN w[i] ELSE q[i - Len(w)]
    BY <1>a, ConcatProperties
  <2> QED
    BY <1>a, <2>1, LenProperties
<1>3. Out = w \o q
  BY DEF Out, w, q
<1>4. \A m : /\ Times(w \o q, m) = Times(w, m) + Times(q, m)
             /\ Times(q, m) > 0 <=> m \in ToSet(q)
             /\ Times(w, m) \in Nat /\ Times(q, m) \in Nat
  BY <1>a, TimesConcat, TimesType
<1>5. \A m : Count(m) = Times(w \o q, m)
  BY <1>3 DEF Count, Times, Places
<1>6. ASSUME NEW i \in DOMAIN (w \o q)
      PROVE  \/ i \in DOMAIN w /\ (w \o q)[i] = w[i]
             \/ Times(q, (w \o q)[i]) > 0 /\ i > Len(w)
  <2>1. CASE i <= Len(w)
    BY <1>2, <2>1
  <2>2. CASE ~ (i <= Len(w))
    <3>1. i - Len(w) \in DOMAIN q /\ (w \o q)[i] = q[i - Len(w)] /\ i > Len(w)
      BY <1>2, <2>2
    <3>2. q[i - Len(w)] \in ToSet(q)
      BY <3>1 DEF ToSet
    <3> QED
      BY <1>4, <3>1, <3>2
  <2> QED
    BY <2>1, <2>2
<1>7. /\ \A i \in DOMAIN w : (w \o q)[i] = w[i]
      /\ DOMAIN (w \o q) \subseteq Nat
  BY <1>2
<1> QED
  BY <1>2, <1>3, <1>4, <1>5, <1>6, <1>7 DEF Given, Queued, Sent, w, q

LEMMA ConversationSays == IInv /\ Conversation => ConversationIsSound
<1> SUFFICES ASSUME IInv, Conversation PROVE ConversationIsSound
  OBVIOUS
<1>1. \A m : Count(m) = Sent(rpc, m) /\ Given(rpc, m) \in Nat /\ Queued(rpc, m) \in Nat
  BY OutCounts
<1>2. ASSUME NEW c \in Calls
      PROVE  /\ Count(RequestOf(c)) <= 1 /\ Count(CancelOf(c)) <= 1
             /\ ~ rpc.closed /\ rpc.outcome[c] = "cancelled" =>
                  Count(CancelOf(c)) = Count(RequestOf(c))
  BY <1>1 DEF Conversation, Talks, Talk
<1>3. ASSUME NEW c \in Calls, NEW i \in DOMAIN Out, Out[i] = CancelOf(c)
      PROVE  /\ rpc.outcome[c] = "cancelled"
             /\ \E j \in 1..i - 1 : Out[j] = RequestOf(c) /\ j <= Len(rpc.wire)
  <2> DEFINE r == RequestOf(c)
             k == CancelOf(c)
  <2>1. Talk(rpc, c)
    BY DEF Conversation, Talks
  <2>2. /\ DOMAIN rpc.wire = 1..Len(rpc.wire) /\ Len(rpc.wire) \in Nat /\ i \in Nat
        /\ \A j \in DOMAIN rpc.wire : Out[j] = rpc.wire[j]
    BY OutCounts
  <2>3. \/ i \in DOMAIN rpc.wire /\ rpc.wire[i] = k
        \/ Queued(rpc, k) > 0 /\ i > Len(rpc.wire)
    BY <1>3, OutCounts
  <2>4. rpc.wire \in Seq(Messages)
    BY DEF IInv, Sound, Fits, RpcType
  <2>5. \A m : Given(rpc, m) > 0 <=> m \in ToSet(rpc.wire)
    BY <2>4, TimesType DEF Given
  <2>6. Sent(rpc, k) > 0
    <3>1. CASE i \in DOMAIN rpc.wire /\ rpc.wire[i] = k
      <4>1. Given(rpc, k) > 0
        BY <2>5, <3>1 DEF ToSet
      <4> QED
        BY <1>1, <4>1 DEF Sent
    <3>2. CASE Queued(rpc, k) > 0
      BY <1>1, <3>2 DEF Sent
    <3> QED
      BY <2>3, <3>1, <3>2
  <2>7. \E j \in 1..i - 1 : j \in DOMAIN rpc.wire /\ rpc.wire[j] = r
    <3>1. CASE i \in DOMAIN rpc.wire /\ rpc.wire[i] = k
      <4>1. PICK j \in 1..i - 1 : rpc.wire[j] = r
        BY <2>1, <3>1 DEF Talk
      <4> QED
        BY <2>2, <3>1, <4>1
    <3>2. CASE Queued(rpc, k) > 0 /\ i > Len(rpc.wire)
      <4>1. Given(rpc, r) > 0
        BY <2>1, <3>2 DEF Talk
      <4>2. PICK j \in DOMAIN rpc.wire : rpc.wire[j] = r
        BY <2>5, <4>1 DEF ToSet
      <4> QED
        BY <2>2, <3>2, <4>2
    <3> QED
      BY <2>3, <3>1, <3>2
  <2> QED
    BY <2>1, <2>2, <2>6, <2>7 DEF Talk
<1>4. ASSUME NEW s \in ServerIds
      PROVE  /\ Count(AnswerOf(s)) <= asked[s]
             /\ ~ rpc.closed /\ s \notin rpc.serving => Count(AnswerOf(s)) = asked[s]
  <2>1. Serves(rpc, s, asked[s], s \in running) /\ asked[s] \in Nat
    BY AskedType DEF Conversation
  <2>2. ASSUME ~ rpc.closed, s \notin rpc.serving PROVE Sent(rpc, AnswerOf(s)) = asked[s]
    <3>1. ~ Owed(rpc.micro, s) /\ s \notin running
      BY <2>1, <2>2 DEF Serves, Nothing, Owed
    <3>2. One(s \in running \/ Owed(rpc.micro, s)) = 0
      BY <3>1 DEF One
    <3> QED
      BY <1>1, <2>1, <2>2, <3>2 DEF Serves, Sent
  <2> QED
    BY <1>1, <2>1, <2>2 DEF Serves
<1> QED
  BY <1>2, <1>3, <1>4 DEF ConversationIsSound, CancelFollowsRequest, OneAnswerEach

-------------------------------------------------------------------------------
(* The theorems *)

LEMMA InitIInv == Init => IInv
<1> SUFFICES ASSUME Init PROVE IInv
  OBVIOUS
<1>1. rpc \in RpcType
  BY DEF Init, RpcType, Outcomes
<1>2. Sound(rpc)
  BY <1>1 DEF Init, Sound, Fits, Agree, PumpOnItsWay
<1>3. Rest
  <2>1. 0 \in 0..MaxLines /\ 0 <= 0
    BY RpcAssumption
  <2>2. heard \in Seq(0..MaxLines)
    BY DEF Init
  <2>3. asked \in [ServerIds -> 0..MaxLines] /\ line = 0 /\ \A s \in ServerIds : asked[s] = 0
    BY <2>1 DEF Init
  <2>4. reading \in BOOLEAN /\ running \subseteq ServerIds
    BY DEF Init
  <2> QED
    BY <2>1, <2>2, <2>3, <2>4 DEF Rest
<1>4. InOrder(rpc.micro, heard, line)
  BY DEF Init, InOrder
<1> QED
  BY <1>2, <1>3, <1>4 DEF IInv

\* Every callback and microtask of the client keeps the invariant.
THEOREM Step == IInv /\ [Next]_vars => IInv'
<1> SUFFICES ASSUME IInv, [Next]_vars PROVE IInv'
  OBVIOUS
<1>1. ASSUME NEW c \in Calls, Request(c) \/ Abort(c) \/ Timeout(c) PROVE IInv'
  BY <1>1, RequestKeeps, CancelKeeps
<1>2. ASSUME NEW l \in Lines, ReadLine(l) \/ LastLine(l) PROVE IInv'
  BY <1>2, LineKeeps
<1>3. ASSUME NEW s \in ServerIds, HandlerEnds(s) PROVE IInv'
  BY <1>3, HandlerEndsKeeps
<1>4. CASE Close \/ Drain \/ Microtask
  BY <1>4, CloseKeeps, DrainKeeps, MicrotaskKeeps
<1>5. CASE UNCHANGED vars
  BY <1>5 DEF vars, IInv, Rest
<1> QED
  BY <1>1, <1>2, <1>3, <1>4, <1>5 DEF Next

\* The invariant holds for any number of calls, server requests and lines.
THEOREM Invariant == Spec => []IInv
BY InitIInv, Step, PTL DEF Spec

\* The types, and the tables of the client agree: a call is pending exactly while its
\* promise is open and its timer and listener are set (jsonl-rpc-client.ts).
THEOREM TypeCorrect == Spec => []TypeOK
<1>1. IInv => TypeOK
  BY DEF IInv, Sound, Fits, Rest, TypeOK
<1> QED
  BY <1>1, Invariant, PTL

\* A message in the write queue has a write or a pump before it that will take it out
\* (enqueueMessage, pumpWrites, handleDrain, removeQueuedWrite).
THEOREM NothingStranded == Spec => []NoStrandedWrite
<1>1. IInv => NoStrandedWrite
  BY DEF IInv, Sound, NoStrandedWrite
<1> QED
  BY <1>1, Invariant, PTL

\* Continuations and handlers run in the order of the server's lines (handleResponse,
\* handleServerRequest, handleServerNotification).
THEOREM AlwaysInOrder == Spec => []DeliveredInOrder
<1>1. IInv => DeliveredInOrder
  BY DEF IInv, InOrder, DeliveredInOrder
<1> QED
  BY <1>1, Invariant, PTL

\* What the server reads is a conversation it can follow: of each call the request at
\* most once and a cancellation only after it, one answer to each request of its own
\* (request, cancelPendingRequest, handleServerRequest, removeQueuedWrite).
THEOREM ConversationSound == Spec => []ConversationIsSound
<1>1. Init => IInv /\ Conversation
  BY InitIInv, InitConversation
<1>2. IInv /\ Conversation /\ [Next]_vars => (IInv /\ Conversation)'
  BY Step, ConversationStep
<1> QED
  BY <1>1, <1>2, ConversationSays, PTL DEF Spec

===============================================================================
