---------------------------- MODULE AppServerSession ----------------------------
(***************************************************************************)
(* AppServerSession (app-server-session.ts): one initialized App Server    *)
(* client at a time, calls of initialize, restart and dispose that join    *)
(* each other's promises, and the leases through which AppServerTransport  *)
(* uses the client, with the events buffered until turn/start answers.     *)
(*                                                                         *)
(* A client is known by its number, 0 stands for none; the supervisor      *)
(* starts a child at most once per initialization, so the number is also   *)
(* the generation.  A lease has one thread with the turn it starts ("own") *)
(* and whatever other turn the server names ("other").  Events and tool    *)
(* calls of the server are numbered.  A step is what the code runs between *)
(* two awaits; JsonlRpcClient shows that callers and handlers go on in the *)
(* order of the server's lines.                                            *)
(* The supervisor is reduced to what ProcessSupervisor is checked for: a   *)
(* stop ends the child and fails the start it meets, starts wait for it.   *)
(* A child that survives SIGKILL is no child here: its client is closed.   *)
(***************************************************************************)
EXTENDS Naturals, Sequences, FiniteSets, SequencesExt

CONSTANTS
    Leases,     \* leases the transport acquires, one for each turn
    MaxClients, \* bound: children started
    MaxEvents   \* bound: notifications and tool calls of the server

ASSUME SessionAssumption == MaxClients \in Nat \ {0} /\ MaxEvents \in Nat

VARIABLES
    session,    \* the session's fields
    op,         \* initializationPromise and restartPromise: where they are
    sup,        \* the supervisor: its child, the next child, stopPromise
    closed,     \* clients that have terminated
    lease,      \* the lease records and the calls of their user
    event,      \* number of the server's last event
    given,      \* history: notifications of its turn that came, and that were heard
    answered    \* history: tool calls answered, by a handler or an error

vars == <<session, op, sup, closed, lease, event, given, answered>>

Clients == 1..MaxClients
Ops == {"init", "restart"}
TurnNames == {"own", "other"}
Nothing == [t \in TurnNames |-> <<>>]

(***************************************************************************)
(* told      processExitNotified, and whether a handler heard it           *)
(* attached  the user's handlers are registered                            *)
(* thread    thread/start and threadIds        turn     turn/start         *)
(* pending   pendingTurnThreads                active   turnIds            *)
(* notes, calls: preResponseNotifications and preResponseToolCalls         *)
(***************************************************************************)
NewLease ==
    [ stage |-> "new", joins |-> "init", client |-> 0, told |-> "no", attached |-> FALSE,
      thread |-> "none", turn |-> "none", pending |-> FALSE, active |-> FALSE,
      leaving |-> FALSE, notes |-> Nothing, calls |-> Nothing ]

Init ==
    /\ session = [client |-> 0, handlers |-> 0, incompatible |-> FALSE, disposal |-> "no",
                  lateStart |-> FALSE]
    /\ op = [k \in Ops |-> [stage |-> "none", client |-> 0]]
    /\ sup = [child |-> 0, next |-> 1, stopping |-> FALSE]
    /\ closed = {}
    /\ lease = [l \in Leases |-> NewLease]
    /\ event = 0
    /\ given = [l \in Leases |-> [came |-> <<>>, heard |-> <<>>]]
    /\ answered = {}

Disposed == session.disposal # "no"
Held(l) == lease[l].stage = "held"
Buffered(L) == UNION {ToSet(L.calls[t]) : t \in TurnNames}

-------------------------------------------------------------------------------
(* The client and its leases *)

\* MUTANT of NotifyExit: only leases with a turn are told.
NotifyExitOfTurns(Ls, c) ==
    [l \in Leases |->
        IF Ls[l].stage = "held" /\ Ls[l].client = c /\ Ls[l].told = "no" /\ Ls[l].active
        THEN [Ls[l] EXCEPT !.told = IF Ls[l].attached THEN "heard" ELSE "unheard"]
        ELSE Ls[l]]

\* notifyTransportProcessExit: each lease of the client is told once.
NotifyExit(Ls, c) ==
    [l \in Leases |->
        IF Ls[l].stage = "held" /\ Ls[l].client = c /\ Ls[l].told = "no"
        THEN [Ls[l] EXCEPT !.told = IF Ls[l].attached THEN "heard" ELSE "unheard"]
        ELSE Ls[l]]

\* clearInitializedState: the leases of the client are told, its handlers removed.
ClearedLeases(Ls) == IF session.client = 0 THEN Ls ELSE NotifyExit(Ls, session.client)
ClearedSession(s) == [s EXCEPT !.client = 0, !.handlers = 0]

\* The client c terminates: onDidTerminate reaches the session if its handlers are
\* registered with that client.
Closes(c, Ls) ==
    /\ closed' = closed \cup ({c} \ {0})
    /\ lease' = IF c # 0 /\ c \notin closed /\ session'.handlers = c
                THEN NotifyExit(Ls, c) ELSE Ls

\* supervisor.stop(), joined when one is running: the child's client closes at once,
\* a start under way will be rejected.  Ops is what op becomes otherwise.
Stops(ops, Ls) ==
    IF sup.stopping
    THEN /\ op' = ops /\ lease' = Ls /\ UNCHANGED <<sup, closed>>
    ELSE /\ sup' = [sup EXCEPT !.stopping = TRUE, !.child = 0]
         /\ Closes(sup.child, Ls)
         /\ op' = [k \in Ops |-> IF ops[k].stage = "start"
                                 THEN [ops[k] EXCEPT !.stage = "aborted"] ELSE ops[k]]

\* MUTANT of Settle: only success is passed on to the callers that joined.
SettleSuccess(k, Ls, ok) ==
    lease' = [l \in Leases |->
        IF Ls[l].stage # "joining" \/ Ls[l].joins # k \/ ~ ok THEN Ls[l]
        ELSE [Ls[l] EXCEPT !.stage = "held", !.joins = "init", !.client = op[k].client]]

\* The callers of operation k go on: with the client if it succeeded and is open.
Settle(k, Ls, ok) ==
    lease' = [l \in Leases |->
        IF Ls[l].stage # "joining" \/ Ls[l].joins # k THEN Ls[l]
        ELSE IF ok /\ op[k].client \notin closed
        THEN [Ls[l] EXCEPT !.stage = "held", !.joins = "init", !.client = op[k].client]
        ELSE [Ls[l] EXCEPT !.stage = "refused", !.joins = "init"]]

Ended(k) == [op EXCEPT ![k] = [stage |-> "none", client |-> 0]]
At(k, stage) == [op EXCEPT ![k].stage = stage]
Fails(k, Ls) == op' = Ended(k) /\ Settle(k, Ls, FALSE)

\* supervisor.start() waits for a stop under way.
StartStage == IF sup.stopping THEN "queued" ELSE "start"

-------------------------------------------------------------------------------
(* initialize, for the callers of acquireTransportLease, readAccount and listModels *)

Refuses == Disposed \/ (op["restart"].stage = "none" /\ session.incompatible)
Ready ==
    /\ ~ Disposed /\ op["restart"].stage = "none" /\ ~ session.incompatible
    /\ session.client # 0 /\ session.client \notin closed
Running == IF op["restart"].stage # "none" THEN "restart" ELSE "init"

\* initialize joins the restart or initialization under way, or begins one; a client
\* that has terminated is cleared first.
Begins(Ls) ==
    /\ ~ Refuses /\ ~ Ready
    /\ IF op[Running].stage # "none"
       THEN lease' = Ls /\ UNCHANGED <<session, op>>
       ELSE /\ session' = ClearedSession(session)
            /\ lease' = ClearedLeases(Ls)
            /\ op' = At("init", StartStage)

Acquire(l) ==
    /\ lease[l].stage = "new"
    /\ \/ /\ Refuses
          /\ lease' = [lease EXCEPT ![l].stage = "refused"]
          /\ UNCHANGED <<session, op>>
       \/ /\ Ready
          /\ lease' = [lease EXCEPT ![l] = [@ EXCEPT !.stage = "held", !.client = session.client]]
          /\ UNCHANGED <<session, op>>
       \/ Begins([lease EXCEPT ![l] = [@ EXCEPT !.stage = "joining", !.joins = Running]])
    /\ UNCHANGED <<sup, closed, event, given, answered>>

\* readAccount, listModels and the start command call initialize as well.
\* requireInitializedClient
Initialize ==
    /\ Begins(lease)
    /\ UNCHANGED <<sup, closed, event, given, answered>>

\* assertCurrentClient, before and after the request of readAccount or listModels: a
\* current client found closed is cleared.
FoundClosed ==
    /\ ~ Disposed /\ session.client \in closed
    /\ session' = ClearedSession(session)
    /\ lease' = ClearedLeases(lease)
    /\ UNCHANGED <<op, sup, closed, event, given, answered>>

-------------------------------------------------------------------------------
(* initializeFromStart, restartInternal and initializeClient *)

\* supervisor.start() resolves: with the child that runs, or with a new one.
StartEnds(k) ==
    /\ op[k].stage = "start"
    /\ sup' = IF sup.child # 0 THEN sup
              ELSE [sup EXCEPT !.child = sup.next, !.next = @ + 1]
    /\ sup'.child <= MaxClients
    /\ IF Disposed
       THEN Fails(k, lease) /\ UNCHANGED session
       ELSE /\ session' = [session EXCEPT !.handlers = sup'.child]
            /\ op' = [op EXCEPT ![k] = [stage |-> "initialize", client |-> sup'.child]]
            /\ UNCHANGED lease
    /\ UNCHANGED <<closed, event, given, answered>>

\* supervisor.start() rejects: no executable, a failed spawn, the breaker, a stop.
StartFails(k) ==
    /\ op[k].stage \in {"start", "aborted"}
    /\ Fails(k, lease)
    /\ UNCHANGED <<session, sup, closed, event, given, answered>>

\* "initialize" is answered; then "initialized" is sent and a thread is probed for.
Initialized(k) ==
    /\ op[k].stage = "initialize" /\ ~ Disposed
    /\ op' = At(k, "probe")
    /\ UNCHANGED <<session, sup, closed, lease, event, given, answered>>

\* MUTANT of Probed: the session is not asked whether it was disposed meanwhile.
ProbedAlways(k) ==
    /\ op[k].stage = "probe"
    /\ session' = [session EXCEPT !.client = op[k].client]
    /\ op' = Ended(k) /\ Settle(k, lease, TRUE)
    /\ UNCHANGED <<sup, closed, event, given, answered>>

\* The probe is answered: the client is the session's, its callers go on.
Probed(k) ==
    /\ op[k].stage = "probe" /\ ~ Disposed
    /\ session' = [session EXCEPT !.client = op[k].client]
    /\ op' = Ended(k) /\ Settle(k, lease, TRUE)
    /\ UNCHANGED <<sup, closed, event, given, answered>>

\* Any failure of the two requests, a disposal seen after one, or a lack of
\* capabilities; reportInitializationFailure ends the child.
HandshakeFails(k, incompatible) ==
    LET c == op[k].client IN
    /\ op[k].stage \in {"initialize", "probe"}
    /\ incompatible => ~ Disposed
    /\ session' = IF incompatible THEN [ClearedSession(session) EXCEPT !.incompatible = TRUE]
                  ELSE [session EXCEPT !.handlers = 0]
    /\ op' = At(k, "report")
    /\ IF sup.child = c
       THEN sup' = [sup EXCEPT !.child = 0] /\ Closes(c, lease)
       ELSE UNCHANGED <<sup, closed, lease>>
    /\ UNCHANGED <<event, given, answered>>

Reported(k) ==
    /\ op[k].stage = "report"
    /\ Fails(k, lease)
    /\ UNCHANGED <<session, sup, closed, event, given, answered>>

\* restart: joined when one is under way, else behind the initialization under way.
Restart ==
    /\ ~ Disposed /\ op["restart"].stage = "none"
    /\ op' = At("restart", "waiting")
    /\ UNCHANGED <<session, sup, closed, lease, event, given, answered>>

\* MUTANT of RestartGoesOn: the initialization under way is not awaited.
RestartAtOnce ==
    /\ op["restart"].stage = "waiting"
    /\ session' = [ClearedSession(session) EXCEPT !.incompatible = FALSE]
    /\ Stops(At("restart", "stopping"), ClearedLeases(lease))
    /\ UNCHANGED <<event, given, answered>>

\* restartInternal once no initialization is under way: the old client is forgotten,
\* then stopped.
RestartGoesOn ==
    /\ op["restart"].stage = "waiting" /\ op["init"].stage = "none"
    /\ IF Disposed
       THEN Fails("restart", lease) /\ UNCHANGED <<session, sup, closed>>
       ELSE /\ session' = [ClearedSession(session) EXCEPT !.incompatible = FALSE]
            /\ Stops(At("restart", "stopping"), ClearedLeases(lease))
    /\ UNCHANGED <<event, given, answered>>

-------------------------------------------------------------------------------
(* The supervisor and dispose *)

\* The stop command, which goes to the supervisor past the session.
StopCommand ==
    /\ ~ Disposed /\ ~ sup.stopping
    /\ UNCHANGED session
    /\ Stops(op, lease)
    /\ UNCHANGED <<event, given, answered>>

\* The stop is through, after the starts it aborted: what waited for it goes on.  It
\* fails if the child survives SIGKILL.  Then the starts and restarts that waited fail
\* (StartFails) and the promise of dispose rejects in the end, after the same waits.
StopEnds ==
    /\ sup.stopping /\ \A k \in Ops : op[k].stage # "aborted"
    /\ sup' = [sup EXCEPT !.stopping = FALSE]
    /\ op' = [k \in Ops |-> IF op[k].stage \in {"stopping", "queued"}
                            THEN [op[k] EXCEPT !.stage = "start"] ELSE op[k]]
    /\ session' = [session EXCEPT !.disposal = IF @ = "stopping" THEN "waiting" ELSE @]
    /\ UNCHANGED <<closed, lease, event, given, answered>>

\* The child exits or its client meets a protocol error.
ClientCloses ==
    /\ sup.child # 0
    /\ sup' = [sup EXCEPT !.child = 0]
    /\ UNCHANGED session
    /\ Closes(sup.child, lease)
    /\ UNCHANGED <<op, event, given, answered>>

\* dispose.  A start that is already queued behind the stop it joins comes after it.
Dispose ==
    /\ ~ Disposed
    /\ session' = [ClearedSession(session) EXCEPT
                     !.disposal = "stopping",
                     !.lateStart = \E k \in Ops : op[k].stage \in {"stopping", "queued"}]
    /\ Stops(op, ClearedLeases(lease))
    /\ UNCHANGED <<event, given, answered>>

\* Its promise also waits for the restart and the initialization under way.
DisposeEnds ==
    /\ session.disposal = "waiting" /\ \A k \in Ops : op[k].stage = "none"
    /\ session' = [session EXCEPT !.disposal = "done"]
    /\ UNCHANGED <<op, sup, closed, lease, event, given, answered>>

-------------------------------------------------------------------------------
(* The user of a lease: one thread, one turn, in any order the lease allows *)

\* assertLeaseForStart
Usable(l) ==
    /\ Held(l) /\ ~ Disposed
    /\ session.client = lease[l].client /\ lease[l].client \notin closed

\* rejectPreResponseToolCalls and the notifications that go with them.
Dropped(L) == [L EXCEPT !.notes = Nothing, !.calls = Nothing]

Becomes(l, L) ==
    /\ lease' = [lease EXCEPT ![l] = L]
    /\ UNCHANGED <<session, op, sup, closed, event>>

\* Buffered tool calls that L no longer holds have been answered.
AnswersRest(l, L) == answered' = answered \cup (Buffered(lease[l]) \ Buffered(L))

StartThread(l) ==
    /\ Usable(l) /\ lease[l].thread = "none"
    /\ Becomes(l, [lease[l] EXCEPT !.thread = "asked"])
    /\ UNCHANGED <<given, answered>>

\* thread/start settles: the thread is the lease's if the lease is still good; the
\* user then attaches its handlers at once (attachHandlers).
ThreadEnds(l) ==
    /\ lease[l].thread = "asked"
    /\ \/ /\ Usable(l)
          /\ Becomes(l, [lease[l] EXCEPT !.thread = "known", !.attached = TRUE])
       \/ Becomes(l, [lease[l] EXCEPT !.thread = "failed"])
    /\ UNCHANGED <<given, answered>>

StartTurn(l) ==
    /\ Usable(l) /\ lease[l].thread = "known" /\ lease[l].turn = "none"
    /\ Becomes(l, [lease[l] EXCEPT !.turn = "asked", !.pending = TRUE])
    /\ UNCHANGED <<given, answered>>

\* flushPreResponseEvents: the notifications of the turn, then its tool calls, go to
\* the handlers; what was buffered for other turns is dropped or rejected.
Flushed(L) == Dropped(L)

\* turn/start is answered.
TurnStarts(l) ==
    LET L == [Flushed(lease[l]) EXCEPT !.turn = "done", !.pending = FALSE, !.active = TRUE] IN
    /\ lease[l].turn = "asked" /\ Usable(l)
    /\ Becomes(l, L)
    /\ given' = [given EXCEPT ![l].heard =
                    IF lease[l].attached THEN @ \o lease[l].notes["own"] ELSE @]
    /\ AnswersRest(l, L)

\* MUTANT of TurnFails: the tool calls stay buffered.
TurnFailsOnly(l) ==
    LET L == [lease[l] EXCEPT !.turn = "failed", !.pending = FALSE] IN
    /\ lease[l].turn = "asked"
    /\ Becomes(l, L) /\ AnswersRest(l, L) /\ UNCHANGED given

\* turn/start is rejected, cancelled, or its answer finds the lease unusable.
TurnFails(l) ==
    LET L == [Dropped(lease[l]) EXCEPT !.turn = "failed", !.pending = FALSE] IN
    /\ lease[l].turn = "asked"
    /\ Becomes(l, L) /\ AnswersRest(l, L) /\ UNCHANGED given

\* The user disposes its handler registrations.
Detach(l) ==
    /\ Held(l) /\ lease[l].attached
    /\ Becomes(l, [lease[l] EXCEPT !.attached = FALSE])
    /\ UNCHANGED <<given, answered>>

Unsubscribe(l) ==
    LET L == [Dropped(lease[l]) EXCEPT !.pending = FALSE, !.leaving = TRUE] IN
    /\ Held(l) /\ lease[l].thread = "known" /\ ~ lease[l].leaving
    /\ Becomes(l, L) /\ AnswersRest(l, L) /\ UNCHANGED given

\* thread/unsubscribe is answered; an error changes nothing.
Unsubscribed(l) ==
    /\ Held(l) /\ lease[l].leaving /\ lease[l].thread = "known"
    /\ Becomes(l, [lease[l] EXCEPT !.thread = "gone", !.active = FALSE])
    /\ UNCHANGED <<given, answered>>

\* releaseTransportLease
Release(l) ==
    LET L == [Dropped(lease[l]) EXCEPT !.stage = "released", !.pending = FALSE,
                                       !.active = FALSE, !.attached = FALSE] IN
    /\ Held(l)
    /\ Becomes(l, L) /\ AnswersRest(l, L) /\ UNCHANGED given

-------------------------------------------------------------------------------
(* Notifications and tool calls of the server *)

\* The server speaks of a thread it was asked for, through a client that is open.
Speaks(l) ==
    /\ event < MaxEvents /\ event' = event + 1
    /\ lease[l].thread \in {"asked", "known", "failed"} /\ lease[l].client = sup.child
    /\ UNCHANGED <<session, op, sup, closed>>

\* The session's handlers are registered and the lease knows the thread.
Candidate(l) ==
    /\ session.handlers = lease[l].client /\ Held(l) /\ lease[l].thread = "known"
ToHandlers(l, t) == Candidate(l) /\ lease[l].active /\ t = "own"
ToBuffer(l, t) == Candidate(l) /\ ~ ToHandlers(l, t) /\ lease[l].pending

\* dispatchTransportNotification
Notification(l, t) ==
    /\ Speaks(l)
    /\ lease' = IF ToBuffer(l, t) THEN [lease EXCEPT ![l].notes[t] = Append(@, event')]
                ELSE lease
    /\ given' = [given EXCEPT ![l] =
            [came  |-> IF (ToHandlers(l, t) \/ ToBuffer(l, t)) /\ t = "own"
                       THEN Append(@.came, event') ELSE @.came,
             heard |-> IF ToHandlers(l, t) /\ lease[l].attached
                       THEN Append(@.heard, event') ELSE @.heard]]
    /\ UNCHANGED answered

\* dispatchTransportToolCall: a call that is not buffered is given to the handler or
\* rejected.
ToolCall(l, t) ==
    /\ Speaks(l)
    /\ IF ToBuffer(l, t) /\ lease[l].attached
       THEN lease' = [lease EXCEPT ![l].calls[t] = Append(@, event')] /\ UNCHANGED answered
       ELSE answered' = answered \cup {event'} /\ UNCHANGED lease
    /\ UNCHANGED given

-------------------------------------------------------------------------------

\* What goes on by itself: requests are answered or time out, a start and a stop of
\* the supervisor come to an end.
Progress ==
    \/ \E k \in Ops : \/ StartEnds(k) \/ StartFails(k) \/ Initialized(k) \/ Probed(k)
                      \/ HandshakeFails(k, FALSE) \/ Reported(k)
    \/ RestartGoesOn \/ StopEnds \/ DisposeEnds

Next ==
    \/ Progress \/ FoundClosed
    \/ \E k \in Ops : HandshakeFails(k, TRUE)
    \/ Initialize \/ Restart \/ StopCommand \/ ClientCloses \/ Dispose
    \/ \E l \in Leases :
         \/ Acquire(l) \/ StartThread(l) \/ ThreadEnds(l) \/ StartTurn(l) \/ TurnStarts(l)
         \/ TurnFails(l) \/ Detach(l) \/ Unsubscribe(l) \/ Unsubscribed(l) \/ Release(l)
         \/ \E t \in TurnNames : Notification(l, t) \/ ToolCall(l, t)

\* The client's timers bound its requests (JsonlRpcClient) and the supervisor's calls
\* return (ProcessSupervisor); nothing is assumed of the users.
Fairness ==
    /\ \A k \in Ops : /\ WF_vars(StartEnds(k) \/ StartFails(k)) /\ WF_vars(Reported(k))
                      /\ WF_vars(Initialized(k) \/ Probed(k) \/ HandshakeFails(k, FALSE))
    /\ WF_vars(RestartGoesOn) /\ WF_vars(StopEnds) /\ WF_vars(DisposeEnds)
    /\ \A l \in Leases : WF_vars(TurnStarts(l) \/ TurnFails(l))

Spec == Init /\ [][Next]_vars /\ Fairness

-------------------------------------------------------------------------------
(* Properties *)

Handshaking(k) == op[k].stage \in {"initialize", "probe"}

\* The types; and one handshake at a time: an initialization and a restart never talk
\* to clients at once, and the handlers are then those of the client talked to.
TypeOK ==
    /\ session \in [client : 0..MaxClients, handlers : 0..MaxClients, incompatible : BOOLEAN,
                    disposal : {"no", "stopping", "waiting", "done"}, lateStart : BOOLEAN]
    /\ sup.child \in 0..MaxClients /\ sup.next \in 1..MaxClients + 1 /\ sup.stopping \in BOOLEAN
    /\ closed \subseteq Clients /\ event \in 0..MaxEvents /\ answered \subseteq 1..event
    /\ \A l \in Leases :
         /\ lease[l].stage \in {"new", "joining", "held", "released", "refused"}
         /\ lease[l].told \in {"no", "heard", "unheard"}
    /\ ~ (Handshaking("init") /\ Handshaking("restart"))
    /\ \A k \in Ops : Handshaking(k) /\ ~ Disposed =>
         session.handlers = op[k].client /\ session.client = 0

\* No event is lost between turn/start and its answer.  A tool call is answered, or
\* buffered under a turn/start that is in flight and will settle it; the notifications
\* a turn's user has heard and those buffered for it are all that came, in order.
NoEventLost ==
    \A l \in Leases :
        /\ Buffered(lease[l]) # {} => Held(l) /\ lease[l].pending /\ lease[l].turn = "asked"
        /\ lease[l].attached /\ lease[l].turn # "failed" /\ ~ lease[l].leaving
           => given[l].came = given[l].heard \o lease[l].notes["own"]

\* A lease whose client has terminated, or is no longer the session's, has been told,
\* if its user listens: no turn waits for a process that is gone.  And no turn is ended
\* for the exit of another generation's process.
EveryLeaseHearsExit ==
    \A l \in Leases :
        LET gone == lease[l].client \in closed \/ session.client # lease[l].client IN
        /\ Held(l) /\ lease[l].attached /\ gone => lease[l].told = "heard"
        /\ lease[l].told # "no" => gone

\* A disposed session stays dead: no client comes back to it, whatever was under way,
\* and when dispose returns no child is left to the supervisor but one that survived
\* SIGKILL, unless a start was queued behind a stop that was already running (then the
\* child outlives the session).
DisposedForGood ==
    Disposed =>
        /\ session.client = 0 /\ session.handlers = 0
        /\ session.disposal = "done" /\ ~ session.lateStart => sup.child = 0

\* Every call returns: the joined promises wait for each other in no circle, and no
\* tool call stays buffered.
CallsReturn ==
    /\ \A k \in Ops : op[k].stage # "none" ~> op[k].stage = "none"
    /\ Disposed ~> session.disposal = "done"
    /\ \A l \in Leases : /\ lease[l].stage = "joining" ~> lease[l].stage # "joining"
                         /\ Buffered(lease[l]) # {} ~> Buffered(lease[l]) = {}

===============================================================================
