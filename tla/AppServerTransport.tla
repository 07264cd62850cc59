--------------------------- MODULE AppServerTransport ---------------------------
(***************************************************************************)
(* AppServerTransport (app-server-transport.ts): the calls of generate that *)
(* Copilot makes, the App Server turns they start, pause and resume, and    *)
(* the ToolContinuationRegistry the paused ones wait in.                    *)
(*                                                                         *)
(* A generate call is known by its AbortSignal.  A turn is known by the     *)
(* generate call that started it; its lease, thread and turn ids are that   *)
(* name.  A step is what JavaScript runs between two awaits.  Continuations *)
(* are microtasks and run before the next timer, token cancellation or call *)
(* of generate (Quiet); lines of the App Server may come in one chunk, so   *)
(* their handlers may run between any two microtasks.                       *)
(*                                                                         *)
(* Abstracted: "text" stands for every event that neither starts nor ends   *)
(* anything (text deltas and usage); the model list is a nondeterministic   *)
(* refusal; a malformed tool call, or one of a tool the request did not     *)
(* list, is rejected at once and changes nothing, so ToolCalls has none;    *)
(* call ids are not reused within a turn, so receivedCallIds is the         *)
(* registry's flag.                                                         *)
(***************************************************************************)
EXTENDS Naturals, FiniteSets, Sequences, SequencesExt

CONSTANTS
    Gens,       \* calls of generate, in the order Copilot may make them
    ToolCalls,  \* tool requests the server may send: [lease, turn, callId, rpcId]
    CallIds, RpcIds,
    NoGen, NoCall,
    Starters,   \* bound: the calls of generate that may start a turn
    MaxNotes,   \* bound: notifications of one turn
    HasProcessExit \* bound: whether the App Server may die

R == INSTANCE ToolRegistry WITH
        Requests <- ToolCalls, Leases <- Gens, Turns <- Gens, Signals <- Gens,
        NoRequest <- NoCall, NoSignal <- NoGen

ASSUME TransportAssumption ==
    /\ ToolCalls \subseteq [lease : Gens, turn : Gens, callId : CallIds, rpcId : RpcIds]
    /\ \A c \in ToolCalls : c.lease = c.turn
    /\ NoGen \notin Gens /\ NoCall \notin ToolCalls
    /\ Starters \subseteq Gens
    /\ MaxNotes \in Nat /\ HasProcessExit \in BOOLEAN

VARIABLES
    gen,      \* per generate call: how far it is and how it ended
    turn,     \* per turn: its TurnState
    reg,      \* the tool continuation registry
    arrived,  \* tool requests the server has sent
    shown,    \* call ids that were yielded to Copilot
    failed,   \* failedCallTimers: call ids of turns that failed
    aborted,  \* signals that fired
    disposed  \* AppServerTransport.disposed

vars == <<gen, turn, reg, arrived, shown, failed, aborted, disposed>>

Chain(t) == [lease |-> t, turn |-> t]
TurnOf(c) == c.lease

\* Notifications that matter to the turn: an event; a completion with status
\* completed, with status interrupted, or one that is refused (another status, no
\* tool call where one is required, a final text that contradicts the deltas);
\* and turn/failed or turn/error.
Notes == {"text", "completed", "interrupted", "badCompletion", "failed"}
Errors == {"cancelled", "timeout", "process", "protocol"}
Outcomes == {"none", "completed", "paused", "partial", "failed", "cancelled", "refused", "ended"}

(***************************************************************************)
(* phase    how far startTurn is: nothing, waiting for the lease, for the    *)
(*          thread, for the turn/start response, returned to generate, live *)
(* reader   the generate call in consumeState, and stage what it is at:     *)
(*          waiting in queue.next, got a value, surfacing the calls of todo, *)
(*          rejected by the queue                                            *)
(* cleanup  the step of terminateState that is awaited                       *)
(* doomed   a termination the registry's rejection queued as a microtask     *)
(***************************************************************************)
NewTurn ==
    [ phase |-> "none", lease |-> "none", reader |-> NoGen, stage |-> "none",
      item |-> "none", todo |-> {}, queue |-> <<>>, notes |-> 0, callIds |-> {},
      preNotes |-> <<>>, preCalls |-> <<>>, signal |-> NoGen,
      terminal |-> FALSE, failure |-> "none", cleaned |-> FALSE,
      keepAlive |-> FALSE, cleanup |-> "none", doomed |-> "none" ]

Init ==
    /\ gen = [g \in Gens |-> [status |-> "idle", on |-> NoGen, outcome |-> "none"]]
    /\ turn = [t \in Gens |-> NewTurn]
    /\ reg = R!EmptyRegistry
    /\ arrived = {} /\ shown = {} /\ failed = {} /\ aborted = {}
    /\ disposed = FALSE

-------------------------------------------------------------------------------
(* Predicates on a turn *)

Known(t) == turn[t].phase \in {"returned", "live"}  \* its turn id is known
HasHandlers(t) == turn[t].phase \in {"starting", "returned", "live"} /\ ~ turn[t].cleaned
InStates(t) == Known(t) /\ ~ turn[t].cleaned        \* an entry of this.states

\* No continuation is queued: the event loop may take the next macrotask.
Quiet == \A t \in Gens :
    /\ turn[t].stage \notin {"got", "surfacing", "rejected"}
    /\ turn[t].phase # "returned"
    /\ turn[t].doomed = "none"

-------------------------------------------------------------------------------
(* Operations on a turn record *)

\* MUTANT of Push: the waiting reader is not woken.
PushWithoutWaking(T, x) == [T EXCEPT !.queue = Append(@, x)]

\* AsyncQueue.push: the waiting reader gets the value, or it is queued.
Push(T, x) ==
    IF T.stage = "waiting" THEN [T EXCEPT !.stage = "got", !.item = x]
    ELSE [T EXCEPT !.queue = Append(@, x)]

\* MUTANT of Terminate: the queue is emptied but the waiting reader stays.
TerminateUnheard(T, error, interrupt) ==
    IF T.cleaned THEN T
    ELSE [T EXCEPT
            !.cleaned = TRUE, !.terminal = TRUE, !.failure = error, !.queue = <<>>,
            !.signal = NoGen, !.preNotes = <<>>, !.preCalls = <<>>, !.doomed = "none",
            !.cleanup = "unsubscribe"]

\* The part of terminateState that concerns the turn: everything up to the first
\* await, with the queue failed by the error, or closed when there is none.
Terminate(T, error, interrupt) ==
    IF T.cleaned THEN T
    ELSE [T EXCEPT
            !.cleaned = TRUE, !.terminal = TRUE, !.failure = error,
            !.queue = IF error = "none" THEN @ ELSE <<>>,
            !.stage = IF @ = "waiting" THEN "rejected" ELSE @,
            !.signal = NoGen, !.preNotes = <<>>, !.preCalls = <<>>, !.doomed = "none",
            !.cleanup = IF interrupt /\ T.phase \in {"returned", "live"}
                        THEN "interrupt" ELSE "unsubscribe"]

\* handleNotification for a turn whose id is known.
Noted(T, n) ==
    IF T.cleaned THEN T ELSE
    CASE n = "text" -> Push(T, "text")
      [] n = "completed" -> Push([T EXCEPT !.terminal = TRUE], "completed")
      [] n = "interrupted" -> Terminate(T, "cancelled", FALSE)
      [] n = "badCompletion" -> Terminate(T, "protocol", FALSE)
      [] n = "failed" -> Terminate(T, "protocol", TRUE)

-------------------------------------------------------------------------------
(* terminateState *)

\* MUTANT of RegistryAfter: the buffered tool calls are dropped.
RegistryAfterDropping(g, t, error) ==
    IF turn[t].cleaned THEN g ELSE R!Terminated(g, Chain(t))

\* MUTANT of RegistryAfter: the results that are in still go out.
RegistryAfterAnswering(g, t, error) ==
    IF turn[t].cleaned THEN g
    ELSE R!Terminated(R!Settle(g, g.callMap[Chain(t)] \cap g.received, "responded"), Chain(t))

\* The effect of terminating turn t on the registry: cancel rejects the waiting
\* calls, cleanup only forgets them; buffered tool calls are rejected.
RegistryAfter(g, t, error) ==
    LET open == R!Settle(g, ToSet(turn[t].preCalls), "rejected")
    IN  IF turn[t].cleaned THEN g
        ELSE IF error = "none" THEN R!Removed(open, Chain(t))
        ELSE R!Terminated(open, Chain(t))

\* MUTANT of FailedAfter: ids of other live turns are remembered as well.
FailedAfterOfAll(t, error) ==
    IF turn[t].cleaned \/ error \in {"none", "cancelled"} THEN failed
    ELSE failed \cup {c.callId : c \in turn[t].callIds}

\* rememberFailedCall: the captured calls of a turn that did not end by
\* cancellation, unless another live turn has the same id.
FailedAfter(t, error) ==
    LET ids(u) == {c.callId : c \in turn[u].callIds}
        live == UNION {ids(u) : u \in {v \in Gens \ {t} : InStates(v)}}
    IN  IF turn[t].cleaned \/ error \in {"none", "cancelled"} THEN failed
        ELSE failed \cup (ids(t) \ live)

\* terminateState of one turn, which continues as record T.
TerminateTurn(t, T, error, interrupt) ==
    /\ turn' = [turn EXCEPT ![t] = Terminate(T, error, interrupt)]
    /\ reg' = RegistryAfter(reg, t, error)
    /\ failed' = FailedAfter(t, error)

\* MUTANT of CleanupStep: a failing interrupt ends the cleanup.
CleanupStepGivesUp(t) ==
    /\ turn[t].cleanup \in {"interrupt", "unsubscribe"}
    /\ turn' = [turn EXCEPT
         ![t].cleanup = "done",
         ![t].lease = IF turn[t].cleanup = "unsubscribe" THEN "released" ELSE @]
    /\ UNCHANGED <<gen, reg, arrived, shown, failed, aborted, disposed>>

\* The awaits of terminateState: interrupt, unsubscribe, then the lease goes.
\* Each is bounded by CLEANUP_TIMEOUT_MS, whatever the server answers.
CleanupStep(t) ==
    /\ turn[t].cleanup \in {"interrupt", "unsubscribe"}
    /\ turn' = [turn EXCEPT
         ![t].cleanup = IF @ = "interrupt" THEN "unsubscribe" ELSE "done",
         ![t].lease = IF turn[t].cleanup = "unsubscribe" THEN "released" ELSE @]
    /\ UNCHANGED <<gen, reg, arrived, shown, failed, aborted, disposed>>

\* The microtask a rejection of the registry queued.
DoomedTerminates(t) ==
    /\ turn[t].doomed # "none"
    /\ TerminateTurn(t, turn[t], turn[t].doomed, ~ turn[t].terminal)
    /\ UNCHANGED <<gen, arrived, shown, aborted, disposed>>

-------------------------------------------------------------------------------
(* consumeState *)

\* generate call g ends; "closing" until the cleanup it awaits is done.
Ends(g, outcome, status) ==
    gen' = [gen EXCEPT ![g].status = status, ![g].outcome = outcome]

Detached(T) == [T EXCEPT !.reader = NoGen, !.stage = "none", !.item = "none", !.todo = {}]

\* The loop of consumeState from its top to the next yield or await, for reader g
\* of turn t, which is not cleaned and continues as record T with registry rg.
Loop(t, g, T, rg) ==
    LET next == [T EXCEPT !.reader = g, !.item = "none", !.todo = {}]
        waiting == R!Unsurfaced(rg, Chain(t))
    IN  IF waiting # {}
        THEN \E c \in waiting :
               /\ reg' = R!MarkedSurfaced(rg, c)
               /\ shown' = shown \cup {c.callId}
               /\ turn' = [turn EXCEPT ![t] =
                    [next EXCEPT !.stage = "surfacing", !.todo = waiting \ {c}]]
        ELSE /\ reg' = rg
             /\ turn' = [turn EXCEPT ![t] =
                  IF T.queue = <<>> THEN [next EXCEPT !.stage = "waiting"]
                  ELSE [next EXCEPT !.stage = "got", !.item = Head(T.queue),
                                    !.queue = Tail(@)]]
             /\ UNCHANGED shown

\* A value that is no completion: the loop goes round, and ends without a word
\* when the turn was cleaned meanwhile.
Take(t) ==
    LET g == turn[t].reader IN
    /\ turn[t].stage = "got" /\ turn[t].item \in {"text", "tool"}
    /\ IF turn[t].cleaned
       THEN /\ turn' = [turn EXCEPT ![t] = Detached(@)]
            /\ Ends(g, "ended", "done")
            /\ UNCHANGED <<reg, shown>>
       ELSE Loop(t, g, turn[t], reg) /\ UNCHANGED gen
    /\ UNCHANGED <<arrived, failed, aborted, disposed>>

\* "completed" is yielded and finishState cleans up without an error.
TakeCompleted(t) ==
    /\ turn[t].stage = "got" /\ turn[t].item = "completed"
    /\ TerminateTurn(t, Detached(turn[t]), "none", FALSE)
    /\ Ends(turn[t].reader, "completed", "closing")
    /\ UNCHANGED <<arrived, shown, aborted, disposed>>

\* The next call of the surfacing loop; one that has left the registry makes
\* markSurfaced throw.
Surface(t) ==
    /\ turn[t].stage = "surfacing" /\ turn[t].todo # {}
    /\ \E c \in turn[t].todo :
         IF c \in R!Registered(reg)
         THEN /\ reg' = R!MarkedSurfaced(reg, c)
              /\ shown' = shown \cup {c.callId}
              /\ turn' = [turn EXCEPT ![t].todo = @ \ {c}]
              /\ UNCHANGED <<gen, failed>>
         ELSE /\ TerminateTurn(t, Detached(turn[t]), "protocol", TRUE)
              /\ Ends(turn[t].reader, "failed", "closing")
              /\ UNCHANGED shown
    /\ UNCHANGED <<arrived, aborted, disposed>>

\* All calls are surfaced: go on if all results are there, otherwise the turn is
\* kept for the generate call that brings them.
SurfacedAll(t) ==
    LET T == turn[t] IN
    /\ T.stage = "surfacing" /\ T.todo = {}
    /\ IF R!IsReady(reg, Chain(t))
       THEN Loop(t, T.reader, T, R!RespondIfReady(reg, Chain(t))) /\ UNCHANGED gen
       ELSE /\ turn' = [turn EXCEPT ![t] = [Detached(T) EXCEPT !.keepAlive = TRUE]]
            /\ Ends(T.reader, "paused", "done")
            /\ UNCHANGED <<reg, shown>>
    /\ UNCHANGED <<arrived, failed, aborted, disposed>>

\* queue.next rejected: the error of the turn, or the abort of the reader's own
\* signal, which terminates the turn.
ReaderThrows(t) ==
    LET T == turn[t]
        error == IF T.cleaned THEN T.failure ELSE "cancelled"
    IN  /\ T.stage = "rejected"
        /\ TerminateTurn(t, Detached(T), "cancelled", TRUE)
        /\ Ends(T.reader, IF error = "cancelled" THEN "cancelled" ELSE "failed", "closing")
        /\ UNCHANGED <<arrived, shown, aborted, disposed>>

\* The generator returns to the provider after the cleanup it awaited.
Closed(g) ==
    /\ gen[g].status = "closing"
    /\ turn[gen[g].on].cleanup = "done"
    /\ gen' = [gen EXCEPT ![g].status = "done"]
    /\ UNCHANGED <<turn, reg, arrived, shown, failed, aborted, disposed>>

-------------------------------------------------------------------------------
(* startTurn *)

\* acquireTransportLease; a signal that fired meanwhile gives the lease back.
LeaseAcquired(t) ==
    /\ turn[t].phase = "lease"
    /\ IF t \in aborted
       THEN /\ turn' = [turn EXCEPT ![t].phase = "none", ![t].lease = "released"]
            /\ Ends(t, "cancelled", "done")
       ELSE /\ turn' = [turn EXCEPT ![t].phase = "thread", ![t].lease = "held"]
            /\ UNCHANGED gen
    /\ UNCHANGED <<reg, arrived, shown, failed, aborted, disposed>>

LeaseFailed(t) ==
    /\ turn[t].phase = "lease"
    /\ turn' = [turn EXCEPT ![t].phase = "none"]
    /\ Ends(t, "failed", "done")
    /\ UNCHANGED <<reg, arrived, shown, failed, aborted, disposed>>

\* thread/start answered: the turn's record exists and its handlers are attached.
ThreadStarted(t) ==
    /\ turn[t].phase = "thread" /\ t \notin aborted
    /\ turn' = [turn EXCEPT ![t].phase = "starting"]
    /\ UNCHANGED <<gen, reg, arrived, shown, failed, aborted, disposed>>

\* No such model, no dynamic tools, a bad tool name, or thread/start failed.
ThreadFailed(t) ==
    /\ turn[t].phase = "thread"
    /\ turn' = [turn EXCEPT ![t].phase = "none", ![t].lease = "released"]
    /\ Ends(t, IF t \in aborted THEN "cancelled" ELSE "failed", "done")
    /\ UNCHANGED <<reg, arrived, shown, failed, aborted, disposed>>

\* turn/start failed, or its request was cancelled by the signal: no turn id is
\* known, so nothing is interrupted.
TurnStartFailed(t) ==
    LET error == IF t \in aborted THEN "cancelled" ELSE "protocol" IN
    /\ turn[t].phase = "starting"
    /\ turn' = [turn EXCEPT ![t] = [Terminate(@, error, TRUE) EXCEPT !.phase = "live"]]
    /\ reg' = RegistryAfter(reg, t, error)
    /\ Ends(t, IF t \in aborted THEN "cancelled" ELSE "failed", "closing")
    /\ UNCHANGED <<arrived, shown, failed, aborted, disposed>>

\* flushPreResponse, the notifications: all of them before any tool call, whatever
\* order the server sent them in.  Nobody reads the queue yet; the first one that
\* ends the turn empties it, and those after it find the turn cleaned.
Flushed(t) ==
    LET notes == turn[t].preNotes
        T == [turn[t] EXCEPT !.phase = "returned", !.preNotes = <<>>]
        ends == {i \in DOMAIN notes : notes[i] \notin {"text", "completed"}}
        U == IF ends # {} THEN Noted(T, notes[Min(ends)])
             ELSE [T EXCEPT !.queue = @ \o notes, !.terminal = "completed" \in ToSet(notes)]
    IN  [U EXCEPT !.preCalls = <<>>]

\* flushPreResponse, the tool calls of a turn that continues as T: those that are
\* captured.  A call is rejected when the turn is terminal, or when its id is
\* pending, also by an earlier call of the buffer.
CapturedOnFlush(T, calls) ==
    {calls[i] : i \in {j \in DOMAIN calls :
        /\ ~ T.terminal
        /\ R!CanCapture(reg, calls[j])
        /\ \A k \in 1..(j - 1) : R!CallKey(calls[k]) # R!CallKey(calls[j])}}

\* turn/start answered after the turn was terminated or the transport disposed.
TurnStartedTooLate(t) ==
    /\ turn[t].phase = "starting"
    /\ turn[t].cleaned \/ disposed
    /\ turn' = [turn EXCEPT ![t] = Terminate([@ EXCEPT !.phase = "live"], "cancelled", TRUE)]
    /\ reg' = RegistryAfter(reg, t, "cancelled")
    /\ Ends(t, IF turn[t].failure \in {"none", "cancelled"} THEN "cancelled" ELSE "failed",
            "closing")
    /\ UNCHANGED <<arrived, shown, failed, aborted, disposed>>

\* turn/start answered: the turn id is known, what came before is flushed, and the
\* signal is bound (also to a turn the flush has terminated).
TurnStarted(t) ==
    LET T == Flushed(t)
        calls == turn[t].preCalls
        captured == CapturedOnFlush(T, calls)
        pushed == [i \in 1..Cardinality(captured) |-> "tool"]
        tried == IF T.terminal THEN {} ELSE {c.callId : c \in ToSet(calls)}
    IN  /\ turn[t].phase = "starting" /\ ~ turn[t].cleaned /\ ~ disposed
        /\ t \notin aborted
        /\ reg' = R!CapturedAll(R!Settle(reg, ToSet(calls) \ captured, "rejected"), captured)
        /\ turn' = [turn EXCEPT ![t] =
             [T EXCEPT !.queue = @ \o pushed, !.callIds = captured, !.signal = t]]
        /\ failed' = failed \ tried
        /\ UNCHANGED <<gen, arrived, shown, aborted, disposed>>

\* generate goes on with consumeState after the await of startTurn.
EntersConsume(t) ==
    LET T == [turn[t] EXCEPT !.phase = "live"] IN
    /\ turn[t].phase = "returned"
    /\ IF T.cleaned
       THEN /\ turn' = [turn EXCEPT ![t] = T]
            /\ Ends(t, IF T.failure = "cancelled" THEN "cancelled" ELSE "failed", "done")
            /\ UNCHANGED <<reg, shown>>
       ELSE Loop(t, t, T, reg) /\ UNCHANGED gen
    /\ UNCHANGED <<arrived, failed, aborted, disposed>>

-------------------------------------------------------------------------------
(* generate *)

\* findContinuationState: the live turns that wait for one of these results.
Candidates(ids) ==
    {t \in Gens : InStates(t) /\ \E c \in turn[t].callIds :
                      c.callId \in ids /\ c \in R!Registered(reg)}

Refused(g, ids) == disposed \/ ids \cap failed # {} \/ Cardinality(Candidates(ids)) > 1

GenerateRefused(g, ids) ==
    /\ Refused(g, ids)
    /\ Ends(g, IF disposed THEN "cancelled" ELSE "refused", "done")
    /\ UNCHANGED <<turn, reg, arrived, shown, failed, aborted, disposed>>

GenerateNew(g, ids) ==
    /\ g \in Starters
    /\ ~ Refused(g, ids) /\ Candidates(ids) = {}
    /\ gen' = [gen EXCEPT ![g].status = "active", ![g].on = g]
    /\ turn' = [turn EXCEPT ![g].phase = "lease"]
    /\ UNCHANGED <<reg, arrived, shown, failed, aborted, disposed>>

\* The results that are for waiting calls of turn t and not recorded yet.
NewResults(t, ids) ==
    {c \in turn[t].callIds :
        c.callId \in ids /\ c \in R!Registered(reg) /\ c \notin reg.received}

\* The registry after resume, if there is a new result.
Resumed(g, t, new) ==
    IF new = {} THEN reg
    ELSE R!RespondIfReady(R!Recorded(R!Bound(reg, Chain(t), g, aborted), new), Chain(t))

\* A follow-up of turn t: the results are recorded; when they complete the turn's
\* calls, or there are calls to show, g reads the turn's events, otherwise the
\* turn stays kept.
GenerateFollowUp(g, t, ids) ==
    LET new == NewResults(t, ids)
        rg == Resumed(g, t, new)
        T == [turn[t] EXCEPT !.signal = g, !.keepAlive = FALSE]
    IN
    /\ ~ Refused(g, ids) /\ Candidates(ids) = {t}
    /\ IF (new # {} /\ Chain(t) \notin rg.states) \/ R!Unsurfaced(rg, Chain(t)) # {}
       THEN IF T.reader # NoGen
            THEN /\ TerminateTurn(t, T, "protocol", TRUE)
                 /\ gen' = [gen EXCEPT ![g] =
                      [status |-> "closing", on |-> t, outcome |-> "failed"]]
                 /\ UNCHANGED shown
            ELSE /\ Loop(t, g, T, rg)
                 /\ gen' = [gen EXCEPT ![g].status = "active", ![g].on = t]
                 /\ UNCHANGED failed
       ELSE /\ turn' = [turn EXCEPT ![t] = [T EXCEPT !.keepAlive = TRUE]]
            /\ reg' = rg
            /\ gen' = [gen EXCEPT ![g] =
                 [status |-> "done", on |-> t, outcome |-> "partial"]]
            /\ UNCHANGED <<shown, failed>>
    /\ UNCHANGED <<arrived, aborted, disposed>>

\* Copilot calls generate with the history of a conversation: any of the results
\* of calls it was shown.
Generate(g) ==
    /\ Quiet
    /\ gen[g].status = "idle"
    /\ \E ids \in SUBSET shown :
         \/ GenerateRefused(g, ids)
         \/ GenerateNew(g, ids)
         \/ \E t \in Gens : GenerateFollowUp(g, t, ids)

-------------------------------------------------------------------------------
(* What the App Server sends *)

\* Lines of a chunk are not handled between a timer or a cancellation and the
\* terminations those have queued.
Listening == \A t \in Gens : turn[t].doomed = "none"

\* A notification of turn t: buffered until the turn id is known.
Notify(t, n) ==
    LET T == [turn[t] EXCEPT !.notes = @ + 1]
        U == Noted(T, n)
    IN  /\ Listening /\ HasHandlers(t) /\ T.notes <= MaxNotes
        /\ IF T.phase = "starting"
           THEN /\ turn' = [turn EXCEPT ![t] = [T EXCEPT !.preNotes = Append(@, n)]]
                /\ UNCHANGED <<reg, failed>>
           ELSE /\ turn' = [turn EXCEPT ![t] = U]
                /\ reg' = IF U.cleaned THEN RegistryAfter(reg, t, U.failure) ELSE reg
                /\ failed' = IF U.cleaned THEN FailedAfter(t, U.failure) ELSE failed
        /\ UNCHANGED <<gen, arrived, shown, aborted, disposed>>

\* handleToolRequest: a terminal turn takes no more calls.
TakesToolCalls(t) == HasHandlers(t) /\ ~ turn[t].terminal

\* A tool call that is buffered until the turn id is known.
BufferToolCall(c) ==
    LET t == TurnOf(c) IN
    /\ TakesToolCalls(t) /\ turn[t].phase = "starting"
    /\ turn' = [turn EXCEPT ![t].preCalls = Append(@, c)]
    /\ UNCHANGED <<reg, failed>>

\* handleToolCall of a running turn: the id is no failed one any more, and the
\* call is captured and wakes the reader, or its id is pending and it is rejected.
HandleToolCall(c) ==
    LET t == TurnOf(c) IN
    /\ TakesToolCalls(t) /\ turn[t].phase # "starting"
    /\ failed' = failed \ {c.callId}
    /\ IF R!CanCapture(reg, c)
       THEN /\ reg' = R!Captured(reg, c)
            /\ turn' = [turn EXCEPT ![t] = Push([turn[t] EXCEPT !.callIds = @ \cup {c}], "tool")]
       ELSE /\ reg' = R!Settle(reg, {c}, "rejected")
            /\ UNCHANGED turn

\* A call of a turn that takes none is rejected.
RejectToolCall(c) ==
    /\ turn[TurnOf(c)].phase \in {"starting", "returned", "live"}
    /\ ~ TakesToolCalls(TurnOf(c))
    /\ reg' = R!Settle(reg, {c}, "rejected")
    /\ UNCHANGED <<turn, failed>>

ToolRequest(c) ==
    /\ Listening
    /\ c \notin arrived
    /\ arrived' = arrived \cup {c}
    /\ BufferToolCall(c) \/ HandleToolCall(c) \/ RejectToolCall(c)
    /\ UNCHANGED <<gen, shown, aborted, disposed>>

\* The session saw a native item of the turn, which it may have interrupted itself.
SecurityFailure(t) ==
    /\ Listening
    /\ InStates(t)
    /\ \E interruptIssued \in BOOLEAN :
         TerminateTurn(t, turn[t], "protocol", ~ interruptIssued)
    /\ UNCHANGED <<gen, arrived, shown, aborted, disposed>>

\* terminateState of the turns in S, one after the other in one step.
TerminateTurns(S, error, interrupt) ==
    LET hit == {t \in S : ~ turn[t].cleaned}
        buffered == UNION {ToSet(turn[t].preCalls) : t \in hit}
        ids == UNION {{c.callId : c \in turn[t].callIds} : t \in hit}
    IN  /\ turn' = [t \in Gens |->
              IF t \in hit THEN Terminate(turn[t], error, interrupt) ELSE turn[t]]
        /\ reg' = R!TerminatedAll(R!Settle(reg, buffered, "rejected"), {Chain(t) : t \in hit})
        /\ failed' = IF error = "cancelled" THEN failed ELSE failed \cup ids

\* The process ended, or broke the protocol: every turn with handlers is told.
ProcessExit ==
    /\ Listening
    /\ HasProcessExit
    /\ \E t \in Gens : HasHandlers(t)
    /\ TerminateTurns({t \in Gens : HasHandlers(t)}, "process", FALSE)
    /\ UNCHANGED <<gen, arrived, shown, aborted, disposed>>

-------------------------------------------------------------------------------
(* Timers, the user, deactivation *)

\* The expiry timer of a waiting call: the registry rejects the calls of the turn,
\* and the rejection queues the termination of the turn.
ToolTimeout(c) ==
    LET t == TurnOf(c) IN
    /\ Quiet
    /\ c \in reg.timers[Chain(t)]
    /\ reg' = R!Terminated(reg, Chain(t))
    /\ turn' = [turn EXCEPT ![t].doomed = "timeout"]
    /\ UNCHANGED <<gen, arrived, shown, failed, aborted, disposed>>

\* failedCallTtlMs has passed.
FailedCallExpires(id) ==
    /\ Quiet
    /\ id \in failed
    /\ failed' = failed \ {id}
    /\ UNCHANGED <<gen, turn, reg, arrived, shown, aborted, disposed>>

\* The user stops generate call g: the turn bound to its signal is terminated, a
\* read that waits with it is rejected, calls that wait with it are rejected.
Abort(g) ==
    LET bound == {t \in Gens : turn[t].signal = g /\ ~ turn[t].cleaned}
        listening == {t \in Gens : reg.signal[Chain(t)] = g}
        reading == {t \in Gens : turn[t].reader = g /\ turn[t].stage = "waiting"}
    IN  /\ Quiet
        /\ gen[g].status = "active" /\ g \notin aborted
        /\ aborted' = aborted \cup {g}
        /\ reg' = R!TerminatedAll(reg, {Chain(t) : t \in bound \cup listening})
        /\ turn' = [t \in Gens |->
             CASE t \in bound -> Terminate(turn[t], "cancelled", TRUE)
               [] t \in (listening \cup reading) \ bound ->
                    [turn[t] EXCEPT
                       !.doomed = IF t \in listening THEN "cancelled" ELSE @,
                       !.stage = IF t \in reading THEN "rejected" ELSE @]
               [] OTHER -> turn[t]]
        /\ UNCHANGED <<gen, arrived, shown, failed, disposed>>

\* dispose: every turn in states is terminated.
Dispose ==
    /\ Quiet /\ ~ disposed
    /\ disposed' = TRUE
    /\ TerminateTurns({t \in Gens : InStates(t)}, "cancelled", TRUE)
    /\ UNCHANGED <<gen, arrived, shown, aborted>>

\* After those cleanups dispose ends what is left in the registry and forgets the
\* failed calls.
DisposeEnds ==
    /\ disposed
    /\ \A t \in Gens : turn[t].cleanup \in {"none", "done"}
    /\ reg' = R!TerminatedAll(reg, reg.states)
    /\ turn' = [t \in Gens |->
         IF Chain(t) \in reg.states /\ ~ turn[t].cleaned
         THEN [turn[t] EXCEPT !.doomed = "cancelled"] ELSE turn[t]]
    /\ failed' = {}
    /\ UNCHANGED <<gen, arrived, shown, aborted, disposed>>

-------------------------------------------------------------------------------

Continuations(t) ==
    \/ EntersConsume(t)
    \/ Take(t)
    \/ TakeCompleted(t)
    \/ Surface(t)
    \/ SurfacedAll(t)
    \/ ReaderThrows(t)
    \/ DoomedTerminates(t)

Starting(t) ==
    \/ LeaseAcquired(t) \/ LeaseFailed(t)
    \/ ThreadStarted(t) \/ ThreadFailed(t)
    \/ TurnStarted(t) \/ TurnStartedTooLate(t) \/ TurnStartFailed(t)

Next ==
    \/ \E g \in Gens : Generate(g) \/ Closed(g) \/ Abort(g)
    \/ \E t \in Gens :
         \/ Starting(t)
         \/ Continuations(t)
         \/ CleanupStep(t)
         \/ SecurityFailure(t)
         \/ \E n \in Notes : Notify(t, n)
    \/ \E c \in ToolCalls : ToolRequest(c) \/ ToolTimeout(c)
    \/ \E id \in CallIds : FailedCallExpires(id)
    \/ ProcessExit
    \/ Dispose
    \/ DisposeEnds

(***************************************************************************)
(* Microtasks and bounded waits run; every request to the App Server is     *)
(* answered, fails or times out (JsonlRpcClient's request timeout); tool    *)
(* timers fire.  Nothing obliges the user, Copilot or the model: a running  *)
(* turn may never say anything.                                             *)
(***************************************************************************)
Fairness ==
    /\ \A t \in Gens : /\ WF_vars(Continuations(t))
                       /\ WF_vars(Starting(t))
                       /\ WF_vars(CleanupStep(t))
    /\ \A g \in Gens : WF_vars(Closed(g))
    /\ \A c \in ToolCalls : WF_vars(ToolTimeout(c))

Spec == Init /\ [][Next]_vars /\ Fairness

-------------------------------------------------------------------------------
(* Properties *)

TypeOK ==
    /\ gen \in [Gens -> [status : {"idle", "active", "closing", "done"},
                         on : Gens \cup {NoGen}, outcome : Outcomes]]
    /\ DOMAIN turn = Gens
    /\ \A t \in Gens :
         /\ turn[t].phase \in {"none", "lease", "thread", "starting", "returned", "live"}
         /\ turn[t].lease \in {"none", "held", "released"}
         /\ turn[t].reader \in Gens \cup {NoGen} /\ turn[t].signal \in Gens \cup {NoGen}
         /\ turn[t].stage \in {"none", "waiting", "got", "surfacing", "rejected"}
         /\ turn[t].item \in {"none", "text", "tool", "completed"}
         /\ ToSet(turn[t].queue) \subseteq {"text", "tool", "completed"}
         /\ turn[t].todo \cup turn[t].callIds \cup ToSet(turn[t].preCalls) \subseteq ToolCalls
         /\ ToSet(turn[t].preNotes) \subseteq Notes /\ turn[t].notes \in 0..MaxNotes
         /\ turn[t].failure \in Errors \cup {"none"} /\ turn[t].doomed \in Errors \cup {"none"}
         /\ {turn[t].terminal, turn[t].cleaned, turn[t].keepAlive} \subseteq BOOLEAN
         /\ turn[t].cleanup \in {"none", "interrupt", "unsubscribe", "done"}
    /\ reg \in R!RegistryType
    /\ arrived \subseteq ToolCalls /\ shown \cup failed \subseteq CallIds
    /\ aborted \subseteq Gens /\ disposed \in BOOLEAN

\* No lost wake-up: a reader that sleeps in queue.next has no call of its turn
\* left to show or to wait for, so the model is never blocked on a call nobody saw.
SleepingReaderHasNoCalls ==
    \A t \in Gens : turn[t].stage = "waiting" => Chain(t) \notin reg.states

\* No dropped call: a tool request without an answer is waiting in the registry
\* or in the buffer of a turn that starts.  In particular finishState's cleanup,
\* which forgets calls without answering them, never finds any.
NoCallDropped ==
    \A c \in arrived :
        reg.answer[c] = "none"
        => c \in R!Registered(reg) \cup ToSet(turn[TurnOf(c)].preCalls)

\* The memory of failed calls, which is kept by call id alone, never shuts out the
\* result of a call that still waits, whichever turn used the id before
\* (generateEvents refuses a request with a result for a remembered id).
WaitingCallsAnswerable ==
    \A t \in Gens : \A c \in reg.callMap[Chain(t)] : c.callId \notin failed

\* A late result cannot resume a turn that ended: whoever answers the App Server
\* does it for a turn that is live before and after the step, on behalf of a
\* generate call the user has not stopped.
OnlyLiveTurnsAnswered ==
    [][ \A c \in ToolCalls :
          reg.answer[c] # "responded" /\ reg'.answer[c] = "responded"
          => /\ InStates(TurnOf(c)) /\ ~ turn'[TurnOf(c)].cleaned
             /\ turn'[TurnOf(c)].reader \in Gens \ aborted ]_vars

\* The generate call that reads a failed turn throws: it has not delivered
\* "completed" nor handed over to a later call, so Copilot must not take what it
\* got for the whole reply (test/integration/app-server-transport.test.ts:704).
FailedTurnReported ==
    \A g \in Gens :
        (/\ gen[g].status = "done" /\ gen[g].on # NoGen
         /\ turn[gen[g].on].failure \in Errors \ {"cancelled"}
         /\ gen[g].outcome \notin {"completed", "paused", "partial"})
        => gen[g].outcome = "failed"

\* The turns keep the contract of TurnContract: calls are answered together or
\* rejected together, never after the turn ended, and a pause owes answers.
ContractPhase(t) ==
    IF turn[t].cleaned \/ turn[t].doomed # "none" THEN "ended" ELSE
    CASE ~ Known(t) -> "none"
      [] turn[t].phase = "live" /\ turn[t].reader = NoGen -> "waiting"
      [] OTHER -> "running"

Contract == INSTANCE TurnContract WITH
    Turns <- Gens,
    Calls <- ToolCalls,
    phase <- [t \in Gens |-> ContractPhase(t)],
    owed <- [t \in Gens |-> reg.callMap[Chain(t)]],
    answer <- reg.answer

KeepsContract == Contract!Spec

\* A paused turn does not stay paused: Copilot's results resume it or it is ended.
PausedTurnEnds ==
    \A t \in Gens :
        (InStates(t) /\ turn[t].phase = "live" /\ turn[t].reader = NoGen)
        ~> (turn[t].cleaned \/ turn[t].reader # NoGen)

\* Terminating a turn always gives its lease back, whatever the server answers.
LeaseGivenBack ==
    \A t \in Gens : turn[t].cleaned ~> turn[t].lease = "released"

\* A generate call the user stops comes to an end.
StopEnds ==
    \A g \in Gens : (g \in aborted) ~> (gen[g].status = "done")

===============================================================================
