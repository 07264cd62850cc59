----------------------------- MODULE JsonlRpcClient -----------------------------
(***************************************************************************)
(* JsonlRpcClient (jsonl-rpc-client.ts): JSON-RPC in both directions over   *)
(* the stdin and stdout of codex app-server.  The table of requests that    *)
(* wait for an answer, the queue of writes with its back-pressure, the      *)
(* requests of the server that wait for a handler, and one termination for  *)
(* every way a stream can fail.                                             *)
(*                                                                         *)
(* JavaScript runs a callback to its end, then the microtasks in order.     *)
(* Lines of one chunk are handled in one callback (reading), and what they  *)
(* resolve or schedule waits in micro.  Callers and handlers run anywhere   *)
(* between callbacks and microtasks.                                        *)
(* Abstracted: a message is its kind and its id; methods, params and the    *)
(* text of lines are left out, a line that is not valid JSON-RPC or is too  *)
(* long is one of the server's lines.                                       *)
(***************************************************************************)
EXTENDS Naturals, Sequences, FiniteSets, SequencesExt

CONSTANTS
    Calls,      \* requests of the extension; a call stands for its JSON-RPC id
    ServerIds,  \* ids the server gives its requests
    MaxLines,   \* bound: lines the server writes
    NoId,       \* the id of a task or line that has none
    Idle        \* activeWrite is undefined

ASSUME RpcAssumption ==
    /\ Calls \cap ServerIds = {} /\ NoId \notin Calls \cup ServerIds
    /\ MaxLines \in Nat

Messages ==
    [kind : {"request", "cancel"}, id : Calls]
    \cup [kind : {"answer"}, id : ServerIds]

ASSUME IdleAssumption == Idle \notin Messages

\* A result and an error both answer; an abort and a timeout both cancel.
Outcomes == {"new", "waiting", "answered", "cancelled", "closed"}

\* What write() does: it takes the data, takes it and asks for a pause, or throws.
Writes == {"accepted", "full", "throws"}

(***************************************************************************)
(* What waits in the microtask queue: a pump of the write queue, the caller *)
(* of an answered request, a handler to be called, the answer of a handler, *)
(* the end of a failed handler, the removal of a served id.  line is the    *)
(* server line that brought it about, 0 when none did.                      *)
(***************************************************************************)
Tasks ==
    [do : {"resume"}, id : Calls, line : 0..MaxLines]
    \cup [do : {"serve", "answer", "forget"}, id : ServerIds, line : 0..MaxLines]
    \cup [do : {"pump", "notice", "fail"}, id : {NoId}, line : 0..MaxLines]

Task(do, id, line) == [do |-> do, id |-> id, line |-> line]
Pump == Task("pump", NoId, 0)

VARIABLES
    rpc,        \* the fields of the client, the callers' promises, the microtasks
    reading,    \* a chunk with more lines is being handled
    line,       \* lines handled so far
    running,    \* server requests whose handler runs
    heard,      \* history: the lines whose continuation or handler ran, in order
    asked       \* history: how often the server used each id

vars == <<rpc, reading, line, running, heard, asked>>

(***************************************************************************)
(* pending  pendingRequests        armed    calls with a timer and listener *)
(* queue    writeQueue             active   activeWrite                     *)
(* wire     what write() was given serving  serverRequests                  *)
(* outcome  how the promise of each call was settled                        *)
(***************************************************************************)
Init ==
    /\ rpc = [ pending |-> {}, armed |-> {}, outcome |-> [c \in Calls |-> "new"],
               queue |-> <<>>, active |-> Idle, wire |-> <<>>,
               serving |-> {}, micro |-> <<>>, closed |-> FALSE ]
    /\ reading = FALSE /\ line = 0 /\ running = {}
    /\ heard = <<>> /\ asked = [s \in ServerIds |-> 0]

RequestOf(c) == [kind |-> "request", id |-> c]
CancelOf(c) == [kind |-> "cancel", id |-> c]
AnswerOf(s) == [kind |-> "answer", id |-> s]

-------------------------------------------------------------------------------
(* Operations on the client's fields *)

\* MUTANT of Terminated: the timers are cleared and nobody is told.
TerminatedSilently(S) ==
    [S EXCEPT !.closed = TRUE, !.armed = {}, !.queue = <<>>, !.active = Idle, !.serving = {}]

\* terminate: everything that waits is rejected and forgotten.
Terminated(S) ==
    IF S.closed THEN S
    ELSE [S EXCEPT !.closed = TRUE,
                   !.outcome = [c \in Calls |-> IF c \in S.pending THEN "closed" ELSE @[c]],
                   !.pending = {}, !.armed = {}, !.queue = <<>>, !.active = Idle,
                   !.serving = {}]

Scheduled(S, task) == [S EXCEPT !.micro = Append(@, task)]

\* MUTANT of Pumped: nobody comes back for the rest of the queue.
PumpedOnce(S, w) ==
    IF S.closed \/ S.active # Idle \/ S.queue = <<>> THEN S
    ELSE IF w = "throws" THEN Terminated(S)
    ELSE [S EXCEPT !.queue = Tail(@), !.wire = Append(@, Head(S.queue)),
                   !.active = IF w = "full" THEN Head(S.queue) ELSE Idle]

\* pumpWrites: one write at a time; the next one a microtask later, or when the
\* stream has drained.
Pumped(S, w) ==
    IF S.closed \/ S.active # Idle \/ S.queue = <<>> THEN S
    ELSE IF w = "throws" THEN Terminated(S)
    ELSE LET written == [S EXCEPT !.queue = Tail(@), !.wire = Append(@, Head(S.queue))]
         IN  IF w = "full" THEN [written EXCEPT !.active = Head(S.queue)]
             ELSE Scheduled(written, Pump)

\* enqueueMessage; on a closed client it throws, which every caller catches.
Enqueued(S, m, w) ==
    IF S.closed THEN S ELSE Pumped([S EXCEPT !.queue = Append(@, m)], w)

\* MUTANT of Settled: the timer and the listener stay.
SettledOnly(S, c, how) == [S EXCEPT !.pending = @ \ {c}, !.outcome[c] = how]

\* A pending call is deleted, its timer and abort listener go, its promise settles.
Settled(S, c, how) ==
    [S EXCEPT !.pending = @ \ {c}, !.armed = @ \ {c}, !.outcome[c] = how]

\* removeQueuedWrite
Unqueued(S, m) ==
    [S EXCEPT !.queue = RemoveAt(@, CHOOSE i \in DOMAIN @ : @[i] = m)]

\* MUTANT of Cancelled: the server is told even of a request it never got.
CancelledAloud(S, c, w) ==
    IF c \notin S.pending THEN S
    ELSE Enqueued(Settled(S, c, "cancelled"), CancelOf(c), w)

\* cancelPendingRequest: a request still queued is taken back, one whose write has
\* started is cancelled at the server.
Cancelled(S, c, w) ==
    IF c \notin S.pending THEN S
    ELSE IF RequestOf(c) \in ToSet(S.queue)
    THEN Unqueued(Settled(S, c, "cancelled"), RequestOf(c))
    ELSE Enqueued(Settled(S, c, "cancelled"), CancelOf(c), w)

-------------------------------------------------------------------------------
(* The lines of the server: handleLine *)

\* MUTANT of Answered: the caller goes on before the handlers of earlier lines.
AnsweredFirst(S, c, n) ==
    IF c \notin S.pending THEN S
    ELSE [Settled(S, c, "answered") EXCEPT !.micro = <<Task("resume", c, n)>> \o @]

\* handleResponse: an answer to a request that no longer waits is dropped.
Answered(S, c, n) ==
    IF c \notin S.pending THEN S
    ELSE Scheduled(Settled(S, c, "answered"), Task("resume", c, n))

\* handleServerNotification of a method with a handler; without one nothing happens.
Noticed(S, n) == Scheduled(S, Task("notice", NoId, n))

\* handleServerRequest: an id in use is a protocol error, a method without a handler
\* is answered at once.
Asked(S, s, known, n, w) ==
    IF s \in S.serving THEN Terminated(S)
    ELSE IF known
    THEN Scheduled([S EXCEPT !.serving = @ \cup {s}], Task("serve", s, n))
    ELSE Enqueued(S, AnswerOf(s), w)

Lines ==
    [is : {"response"}, id : Calls] \cup [is : {"ask", "unknown"}, id : ServerIds]
    \cup [is : {"notice", "bad"}, id : {NoId}]

Handled(S, l, n, w) ==
    CASE l.is = "response"           -> Answered(S, l.id, n)
      [] l.is \in {"ask", "unknown"} -> Asked(S, l.id, l.is = "ask", n, w)
      [] l.is = "notice"             -> Noticed(S, n)
      [] l.is = "bad"                -> Terminated(S)

\* The server answers requests it was given, as often as it likes.
Writable(l) == l.is = "response" => RequestOf(l.id) \in ToSet(rpc.wire)

Counted(l) ==
    asked' = IF l.is \in {"ask", "unknown"} THEN [asked EXCEPT ![l.id] = @ + 1] ELSE asked

-------------------------------------------------------------------------------
(* Steps *)

\* Between two callbacks there are no microtasks left.
Callback == ~ reading /\ rpc.micro = <<>>

\* request.  A call whose signal is aborted, whose client is closed or whose
\* parameters have no JSON form is refused and leaves no trace.
Request(c) ==
    /\ ~ reading /\ rpc.outcome[c] = "new" /\ ~ rpc.closed
    /\ \E w \in Writes :
         rpc' = Enqueued([rpc EXCEPT !.pending = @ \cup {c}, !.armed = @ \cup {c},
                                     !.outcome[c] = "waiting"], RequestOf(c), w)
    /\ UNCHANGED <<reading, line, running, heard, asked>>

Abort(c) ==
    /\ ~ reading /\ c \in rpc.armed
    /\ \E w \in Writes : rpc' = Cancelled(rpc, c, w)
    /\ UNCHANGED <<reading, line, running, heard, asked>>

Timeout(c) ==
    /\ Callback /\ c \in rpc.armed
    /\ \E w \in Writes : rpc' = Cancelled(rpc, c, w)
    /\ UNCHANGED <<reading, line, running, heard, asked>>

\* handleData: one line; the next line of the chunk follows in the same callback.
ReadLine(l) ==
    /\ reading \/ Callback
    /\ ~ rpc.closed /\ line < MaxLines /\ Writable(l)
    /\ \E w \in Writes : rpc' = Handled(rpc, l, line + 1, w)
    /\ line' = line + 1
    /\ reading' \in {more \in BOOLEAN : more => ~ rpc'.closed /\ line + 1 < MaxLines}
    /\ Counted(l)
    /\ UNCHANGED <<running, heard>>

\* handleEnd with an unterminated last line: the line is handled, then the client
\* terminates, before any continuation runs.
LastLine(l) ==
    /\ Callback /\ ~ rpc.closed /\ line < MaxLines /\ Writable(l)
    /\ \E w \in Writes : rpc' = Terminated(Handled(rpc, l, line + 1, w))
    /\ line' = line + 1
    /\ Counted(l)
    /\ UNCHANGED <<reading, running, heard>>

\* dispose, close, handleEnd, handleStreamError, handleInputEnd
Close ==
    /\ ~ reading /\ ~ rpc.closed
    /\ rpc' = Terminated(rpc)
    /\ UNCHANGED <<reading, line, running, heard, asked>>

\* handleDrain
Drain ==
    /\ Callback /\ rpc.active # Idle
    /\ \E w \in Writes : rpc' = Pumped([rpc EXCEPT !.active = Idle], w)
    /\ UNCHANGED <<reading, line, running, heard, asked>>

\* The handler of a server request returns or fails: either is answered.
HandlerEnds(s) ==
    /\ ~ reading /\ s \in running
    /\ running' = running \ {s}
    /\ rpc' = Scheduled(rpc, Task("answer", s, 0))
    /\ UNCHANGED <<reading, line, heard, asked>>

-------------------------------------------------------------------------------
(* Microtasks, in order *)

Due(do) == ~ reading /\ rpc.micro # <<>> /\ Head(rpc.micro).do = do
Next1 == Head(rpc.micro)
Popped == [rpc EXCEPT !.micro = Tail(@)]
Hear == heard' = Append(heard, Next1.line)

PumpAgain ==
    /\ Due("pump")
    /\ \E w \in Writes : rpc' = Pumped(Popped, w)
    /\ UNCHANGED <<reading, line, running, heard, asked>>

ResumeCaller ==
    /\ Due("resume")
    /\ rpc' = Popped /\ Hear
    /\ UNCHANGED <<reading, line, running, asked>>

CallNoticeHandler ==
    /\ Due("notice")
    /\ rpc' \in {Popped, Scheduled(Popped, Task("fail", NoId, 0))}
    /\ Hear
    /\ UNCHANGED <<reading, line, running, asked>>

NoticeFailed ==
    /\ Due("fail")
    /\ rpc' = Terminated(Popped)
    /\ UNCHANGED <<reading, line, running, heard, asked>>

CallRequestHandler ==
    /\ Due("serve")
    /\ rpc' = Popped /\ Hear
    /\ running' = running \cup {Next1.id}
    /\ UNCHANGED <<reading, line, asked>>

\* sendServerResponse.  The results of the session's handlers can be serialized.
SendAnswer ==
    /\ Due("answer")
    /\ \E w \in Writes :
         rpc' = Scheduled(Enqueued(Popped, AnswerOf(Next1.id), w), Task("forget", Next1.id, 0))
    /\ UNCHANGED <<reading, line, running, heard, asked>>

ForgetRequest ==
    /\ Due("forget")
    /\ rpc' = [Popped EXCEPT !.serving = @ \ {Next1.id}]
    /\ UNCHANGED <<reading, line, running, heard, asked>>

Microtask ==
    \/ PumpAgain \/ ResumeCaller \/ CallNoticeHandler \/ NoticeFailed
    \/ CallRequestHandler \/ SendAnswer \/ ForgetRequest

RestOfChunk == reading /\ \E l \in Lines : ReadLine(l)

Next ==
    \/ \E c \in Calls : Request(c) \/ Abort(c) \/ Timeout(c)
    \/ \E l \in Lines : ReadLine(l) \/ LastLine(l)
    \/ \E s \in ServerIds : HandlerEnds(s)
    \/ Close \/ Drain \/ Microtask

\* The JavaScript engine ends its callbacks and microtasks, and timers fire.  Nothing
\* is assumed of the server, not even that it reads its stdin.
Fairness ==
    /\ WF_vars(Microtask) /\ WF_vars(RestOfChunk)
    /\ \A c \in Calls : WF_vars(Timeout(c))

Spec == Init /\ [][Next]_vars /\ Fairness

-------------------------------------------------------------------------------
(* Properties *)

RpcType ==
    [ pending : SUBSET Calls, armed : SUBSET Calls, outcome : [Calls -> Outcomes],
      queue : Seq(Messages), active : Messages \cup {Idle}, wire : Seq(Messages),
      serving : SUBSET ServerIds, micro : Seq(Tasks), closed : BOOLEAN ]

\* The tables that must agree.
Agree(S) ==
    /\ S.pending = {c \in Calls : S.outcome[c] = "waiting"}
    /\ S.armed = S.pending
    /\ S.closed => S.pending = {} /\ S.queue = <<>> /\ S.active = Idle /\ S.serving = {}

\* The types; and a call is pending exactly while its promise is open and its timer
\* and abort listener are set, and a closed client has let go of everything.
TypeOK ==
    /\ rpc \in RpcType /\ Agree(rpc)
    /\ reading \in BOOLEAN /\ line \in 0..MaxLines /\ running \subseteq ServerIds
    /\ heard \in Seq(0..MaxLines) /\ asked \in [ServerIds -> 0..MaxLines]

PumpOnItsWay(S) ==
    ~ S.closed /\ S.active = Idle /\ S.queue # <<>> => Pump \in ToSet(S.micro)

\* No write is left behind: a queue with no write under way has a pump on its way, so
\* a message never waits for the next message to push it out.
NoStrandedWrite == PumpOnItsWay(rpc)

Out == rpc.wire \o rpc.queue
Count(m) == Cardinality({i \in DOMAIN Out : Out[i] = m})

\* The server is told that a call was aborted or timed out if and only if it was
\* given the request, once, and after the request; a request taken back in time never
\* goes out.
CancelFollowsRequest ==
    \A c \in Calls :
        /\ Count(RequestOf(c)) <= 1 /\ Count(CancelOf(c)) <= 1
        /\ \A i \in DOMAIN Out : Out[i] = CancelOf(c) =>
             /\ rpc.outcome[c] = "cancelled"
             /\ \E j \in 1..i - 1 : Out[j] = RequestOf(c) /\ j <= Len(rpc.wire)
        /\ ~ rpc.closed /\ rpc.outcome[c] = "cancelled" =>
             Count(CancelOf(c)) = Count(RequestOf(c))

\* Every request of the server is answered once, or the client closes.
OneAnswerEach ==
    \A s \in ServerIds :
        /\ Count(AnswerOf(s)) <= asked[s]
        /\ ~ rpc.closed /\ s \notin rpc.serving => Count(AnswerOf(s)) = asked[s]

\* What the server reads is a conversation it can follow.
ConversationIsSound == CancelFollowsRequest /\ OneAnswerEach

\* Handlers, and the code that awaits a request, go on in the order the server wrote
\* the lines, whichever kind they are: AppServerSession relies on it.
DeliveredInOrder ==
    \A i \in DOMAIN heard : \A j \in 1..i - 1 : heard[j] < heard[i]

\* Every call of request comes to an end, even with a server that neither answers nor
\* reads.
RequestsSettle == \A c \in Calls : c \in rpc.pending ~> c \notin rpc.pending

===============================================================================
