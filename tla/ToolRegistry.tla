----------------------------- MODULE ToolRegistry -----------------------------
(***************************************************************************)
(* The data structure of ToolContinuationRegistry (tool-continuations.ts)  *)
(* and its operations, as functions from one registry value to the next.   *)
(* ToolContinuations drives it with an arbitrary caller, AppServerTransport *)
(* composes it with the turns that own the calls.                          *)
(*                                                                         *)
(* A request is an item/tool/call JSON-RPC request of the App Server; the  *)
(* thread and turn of a request are abstracted to one "turn" name, and the *)
(* identity (generation, leaseId) to one "lease" name.                     *)
(***************************************************************************)
EXTENDS FiniteSets

CONSTANTS
    Requests,   \* the tool requests the server may send, as records
    Leases,     \* ToolContinuationIdentity: generation and leaseId
    Turns,      \* (threadId, turnId) pairs
    CallIds,    \* callId chosen by the model
    RpcIds,     \* JSON-RPC id of the request
    Signals,    \* AbortSignals of the Copilot requests
    NoRequest,  \* "no entry in callsById"
    NoSignal    \* "no signal bound"

Chains == [lease : Leases, turn : Turns]
CallKeys == [lease : Leases, callId : CallIds]

ASSUME RequestsAssumption ==
    /\ Requests \subseteq [lease : Leases, turn : Turns, callId : CallIds, rpcId : RpcIds]
    /\ NoRequest \notin Requests
    /\ NoSignal \notin Signals

ChainKey(r) == [lease |-> r.lease, turn |-> r.turn]
CallKey(r) == [lease |-> r.lease, callId |-> r.callId]

\* How the promise behind respond/reject of a request ended.  A promise settles
\* once, so only a "none" answer can change (app-server-transport.ts 850-858).
Answers == {"none", "responded", "rejected"}

(***************************************************************************)
(* states    keys of the map of ContinuationStates                         *)
(* callMap   the calls of each state                                       *)
(* callsById the index of every pending call                               *)
(* timers    the running expiry timers of each state                       *)
(* signal    the signal that carries the abort listener of each state      *)
(* surfaced, received: flags of the call objects, gone with them           *)
(* answer    the promises behind respond and reject                        *)
(***************************************************************************)
EmptyRegistry ==
    [ states    |-> {},
      callMap   |-> [c \in Chains |-> {}],
      callsById |-> [k \in CallKeys |-> NoRequest],
      timers    |-> [c \in Chains |-> {}],
      signal    |-> [c \in Chains |-> NoSignal],
      surfaced  |-> {},
      received  |-> {},
      answer    |-> [r \in Requests |-> "none"] ]

RegistryType ==
    [ states    : SUBSET Chains,
      callMap   : [Chains -> SUBSET Requests],
      callsById : [CallKeys -> Requests \cup {NoRequest}],
      timers    : [Chains -> SUBSET Requests],
      signal    : [Chains -> Signals \cup {NoSignal}],
      surfaced  : SUBSET Requests,
      received  : SUBSET Requests,
      answer    : [Requests -> Answers] ]

-------------------------------------------------------------------------------
(* Queries *)

\* The calls callsById knows, in any state.
Registered(g) == {r \in Requests : g.callsById[CallKey(r)] = r}

HasCall(g, k) == g.callsById[k] # NoRequest

Unsurfaced(g, c) == g.callMap[c] \ g.surfaced

IsReady(g, c) == c \in g.states /\ g.callMap[c] \subseteq g.surfaced \cap g.received

-------------------------------------------------------------------------------
(* Operations *)

\* Settle the promises of the requests in R that are still open.
Settle(g, R, outcome) ==
    [g EXCEPT !.answer = [r \in Requests |->
        IF r \in R /\ g.answer[r] = "none" THEN outcome ELSE g.answer[r]]]

\* MUTANT of Captured: the expiry timer of the call is never armed.
CapturedWithoutTimer(g, r) ==
    LET c == ChainKey(r) IN
    [g EXCEPT !.states = @ \cup {c},
              !.callMap[c] = @ \cup {r},
              !.callsById[CallKey(r)] = r]

\* capture, once the call id is known to be free: the first call of a turn
\* opens its state, every call gets an expiry timer.
Captured(g, r) ==
    LET c == ChainKey(r) IN
    [g EXCEPT !.states = @ \cup {c},
              !.callMap[c] = @ \cup {r},
              !.callsById[CallKey(r)] = r,
              !.timers[c] = @ \cup {r}]

\* A call whose id is already pending under the same identity makes capture throw.
CanCapture(g, r) == ~ HasCall(g, CallKey(r))

\* capture of several requests whose keys are free and differ, so that the order in
\* which they are captured does not show in the result.
CapturedAll(g, R) ==
    LET in(c) == {r \in R : ChainKey(r) = c} IN
    [g EXCEPT !.states = @ \cup {ChainKey(r) : r \in R},
              !.callMap = [c \in Chains |-> @[c] \cup in(c)],
              !.callsById = [k \in CallKeys |->
                  IF \E r \in R : CallKey(r) = k THEN CHOOSE r \in R : CallKey(r) = k ELSE @[k]],
              !.timers = [c \in Chains |-> @[c] \cup in(c)]]

\* MUTANT of MarkedSurfaced: the flag is kept by call id, not on the call.
MarkedSurfacedById(g, r) == [g EXCEPT !.surfaced = @ \cup {r.callId}]

MarkedSurfaced(g, r) == [g EXCEPT !.surfaced = @ \cup {r}]

Recorded(g, R) == [g EXCEPT !.received = @ \cup R]

\* MUTANT of Removed: the calls of the state stay in callsById.
RemovedStale(g, c) ==
    IF c \notin g.states THEN g
    ELSE [g EXCEPT !.states = @ \ {c},
                   !.callMap[c] = {},
                   !.timers[c] = {},
                   !.signal[c] = NoSignal,
                   !.surfaced = @ \ g.callMap[c],
                   !.received = @ \ g.callMap[c]]

\* removeState: the state, its calls' index entries, its timers and its abort
\* listener all go together.
Removed(g, c) ==
    IF c \notin g.states THEN g
    ELSE [g EXCEPT
            !.states = @ \ {c},
            !.callMap[c] = {},
            !.callsById = [k \in CallKeys |->
                IF \E r \in g.callMap[c] : CallKey(r) = k THEN NoRequest ELSE g.callsById[k]],
            !.timers[c] = {},
            !.signal[c] = NoSignal,
            !.surfaced = @ \ g.callMap[c],
            !.received = @ \ g.callMap[c]]

\* terminate: reject every call of the state, then remove it.
Terminated(g, c) == Removed(Settle(g, g.callMap[c], "rejected"), c)

\* terminate each of the states in C.  The states are disjoint, so the order in
\* which the code's loops visit them does not show in the result.
TerminatedAll(g, C) ==
    LET live == C \cap g.states
        calls == UNION {g.callMap[c] : c \in live}
    IN  [ states    |-> g.states \ live,
          callMap   |-> [c \in Chains |-> IF c \in live THEN {} ELSE g.callMap[c]],
          callsById |-> [k \in CallKeys |->
              IF \E r \in calls : CallKey(r) = k THEN NoRequest ELSE g.callsById[k]],
          timers    |-> [c \in Chains |-> IF c \in live THEN {} ELSE g.timers[c]],
          signal    |-> [c \in Chains |-> IF c \in live THEN NoSignal ELSE g.signal[c]],
          surfaced  |-> g.surfaced \ calls,
          received  |-> g.received \ calls,
          answer    |-> Settle(g, calls, "rejected").answer ]

\* bindSignal: the abort listener moves to the signal of the latest request; an
\* aborted signal gets no listener.
Bound(g, c, s, aborted) ==
    [g EXCEPT !.signal[c] = IF s \in aborted THEN NoSignal ELSE s]

\* MUTANT of RespondIfReady: only the received results are answered, the state goes.
RespondPartially(g, c) ==
    IF g.callMap[c] \cap g.surfaced \cap g.received # {}
    THEN Removed(Settle(g, g.callMap[c] \cap g.received, "responded"), c)
    ELSE g

\* MUTANT of RespondIfReady: the state stays after the answers.
RespondAndKeep(g, c) ==
    IF IsReady(g, c) THEN Settle(g, g.callMap[c], "responded") ELSE g

\* The end of resume: once every call of the state is surfaced and has its
\* result, all of them are answered and the state is removed; otherwise the
\* results only wait in the state.
RespondIfReady(g, c) ==
    IF IsReady(g, c) THEN Removed(Settle(g, g.callMap[c], "responded"), c) ELSE g

-------------------------------------------------------------------------------
(* Consistency of a registry value *)

\* The two maps describe the same calls: a state exists exactly while it has
\* calls, every call of a state is the one callsById finds under its id, and
\* callsById finds no other.
MapsAgreeIn(g) ==
    /\ \A c \in Chains : c \in g.states <=> g.callMap[c] # {}
    /\ \A c \in Chains : \A r \in g.callMap[c] :
         ChainKey(r) = c /\ g.callsById[CallKey(r)] = r
    /\ \A k \in CallKeys : g.callsById[k] # NoRequest =>
         /\ CallKey(g.callsById[k]) = k
         /\ g.callsById[k] \in g.callMap[ChainKey(g.callsById[k])]

\* Every waiting call has its timer, and nothing that is gone has a timer or
\* listens to a signal.
OwnedIn(g) ==
    \A c \in Chains :
        /\ g.timers[c] = g.callMap[c]
        /\ c \notin g.states => g.signal[c] = NoSignal

\* No waiting call of the chains in C has been answered.
UnansweredIn(g, C) ==
    \A c \in C : \A r \in g.callMap[c] : g.answer[r] = "none"

===============================================================================
