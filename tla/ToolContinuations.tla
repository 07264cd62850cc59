--------------------------- MODULE ToolContinuations ---------------------------
(***************************************************************************)
(* ToolContinuationRegistry on its own: the public methods in any order a  *)
(* caller may choose, the expiry timers and the abort listeners.           *)
(*                                                                         *)
(* respond and reject are the resolve and reject of a Promise              *)
(* (app-server-transport.ts 850-858) and cannot throw, so the catch of     *)
(* resume (lines 328-331) and the one of terminate have no state here.     *)
(* expiresAt is always now + timeoutMs (no caller passes another), so the  *)
(* error for a non-finite one has none either.                             *)
(***************************************************************************)
EXTENDS ToolRegistry, Naturals, SequencesExt

CONSTANTS
    MaxResults, \* bound: tool results in one resume
    AnyLease,   \* resume was called without an identity
    NoChain     \* resume was called without threadId and turnId

ASSUME ResultsAssumption ==
    /\ MaxResults \in Nat
    /\ AnyLease \notin Leases
    /\ NoChain \notin Chains

VARIABLES
    reg,        \* the registry
    aborted,    \* the signals that have fired
    arrived     \* the requests the server has sent

vars == <<reg, aborted, arrived>>

Init ==
    /\ reg = EmptyRegistry
    /\ aborted = {}
    /\ arrived = {}

-------------------------------------------------------------------------------
(* capture, markSurfaced *)

Capture(r) ==
    /\ r \notin arrived
    /\ arrived' = arrived \cup {r}
    /\ CanCapture(reg, r)
    /\ reg' = Captured(reg, r)
    /\ UNCHANGED aborted

\* capture throws, and the handler of the request rejects it.
RefuseDuplicate(r) ==
    /\ r \notin arrived
    /\ arrived' = arrived \cup {r}
    /\ ~ CanCapture(reg, r)
    /\ reg' = Settle(reg, {r}, "rejected")
    /\ UNCHANGED aborted

MarkSurfaced(r) ==
    /\ r \in Registered(reg) \ reg.surfaced
    /\ reg' = MarkedSurfaced(reg, r)
    /\ UNCHANGED <<aborted, arrived>>

-------------------------------------------------------------------------------
(* resume *)

\* findState: the states a resume may be for.  With results, those of the calls
\* named by the first one; without, the one named or the only one.
FindState(results, lease, chain) ==
    IF results # <<>>
    THEN {ChainKey(r) : r \in {q \in Registered(reg) :
             q.callId = results[1] /\ lease \in {AnyLease, q.lease}}}
    ELSE IF chain # NoChain
         THEN {chain} \cap reg.states
         ELSE LET C == {c \in reg.states : lease \in {AnyLease, c.lease}}
              IN  IF Cardinality(C) = 1 THEN C ELSE {}

\* The calls of state c the results name.
Named(c, results) ==
    {r \in Registered(reg) : r.lease = c.lease /\ r.callId \in ToSet(results)}

\* MUTANT of Acceptable: a result that repeats a recorded one is taken again, and
\* one for another turn of the lease is taken here.
AcceptableForeign(c, results) ==
    \A id \in ToSet(results) : HasCall(reg, [lease |-> c.lease, callId |-> id])

\* Every result is for a different pending call of this state that has none yet.
Acceptable(c, results) ==
    /\ IsInjective(results)
    /\ \A id \in ToSet(results) :
         LET k == [lease |-> c.lease, callId |-> id]
         IN  /\ HasCall(reg, k)
             /\ ChainKey(reg.callsById[k]) = c
             /\ reg.callsById[k] \notin reg.received

\* An aborted signal and no matching state: the only state there is goes.
ResumeUnmatched(s, lease, chain) ==
    /\ FindState(<<>>, lease, chain) = {}
    /\ s \in aborted
    /\ Cardinality(reg.states) = 1
    /\ reg' = TerminatedAll(reg, reg.states)
    /\ UNCHANGED <<aborted, arrived>>

ResumeAborted(results, s, lease, chain, c) ==
    /\ FindState(results, lease, chain) = {c}
    /\ s \in aborted
    /\ reg' = Terminated(reg, c)
    /\ UNCHANGED <<aborted, arrived>>

\* A bad result makes resume throw: only the signal has moved.
ResumeRefused(results, s, lease, chain, c) ==
    /\ FindState(results, lease, chain) = {c}
    /\ s \notin aborted
    /\ ~ Acceptable(c, results)
    /\ reg' = Bound(reg, c, s, aborted)
    /\ UNCHANGED <<aborted, arrived>>

ResumeRecorded(results, s, lease, chain, c) ==
    /\ FindState(results, lease, chain) = {c}
    /\ s \notin aborted
    /\ Acceptable(c, results)
    /\ reg' = RespondIfReady(Recorded(Bound(reg, c, s, aborted), Named(c, results)), c)
    /\ UNCHANGED <<aborted, arrived>>

ResumeFor(results, s, lease, chain) ==
    \/ results = <<>> /\ ResumeUnmatched(s, lease, chain)
    \/ \E c \in FindState(results, lease, chain) :
         \/ ResumeAborted(results, s, lease, chain, c)
         \/ ResumeRefused(results, s, lease, chain, c)
         \/ ResumeRecorded(results, s, lease, chain, c)

\* The turn of a resume matters, and is passed, only without results.
Resume ==
    \E s \in Signals :
        \/ \E c \in Chains : ResumeFor(<<>>, s, c.lease, c)
        \/ \E results \in BoundedSeq(CallIds, MaxResults), lease \in Leases \cup {AnyLease} :
             ResumeFor(results, s, lease, NoChain)

-------------------------------------------------------------------------------
(* Timers, listeners and the caller's endings *)

\* The expiry timer of a call: the whole state goes with "timeout".
ToolTimeout(r) ==
    /\ r \in reg.timers[ChainKey(r)]
    /\ reg' = IF r \in Registered(reg) THEN Terminated(reg, ChainKey(r)) ELSE reg
    /\ UNCHANGED <<aborted, arrived>>

\* A signal fires: every state that listens to it is terminated.
Abort(s) ==
    /\ s \notin aborted
    /\ aborted' = aborted \cup {s}
    /\ reg' = TerminatedAll(reg, {c \in reg.states : reg.signal[c] = s})
    /\ UNCHANGED arrived

\* cancel, and processExit for one turn
Cancel(c) ==
    /\ c \in reg.states
    /\ reg' = Terminated(reg, c)
    /\ UNCHANGED <<aborted, arrived>>

\* cleanup: the state goes without an answer.
Cleanup(c) ==
    /\ c \in reg.states
    /\ reg' = Removed(reg, c)
    /\ UNCHANGED <<aborted, arrived>>

\* processExit for one identity
ProcessExit(lease) ==
    /\ reg' = TerminatedAll(reg, {c \in reg.states : c.lease = lease})
    /\ UNCHANGED <<aborted, arrived>>

\* dispose, and processExit without arguments
Dispose ==
    /\ reg' = TerminatedAll(reg, reg.states)
    /\ UNCHANGED <<aborted, arrived>>

-------------------------------------------------------------------------------

Next ==
    \/ \E r \in Requests :
         \/ Capture(r)
         \/ RefuseDuplicate(r)
         \/ MarkSurfaced(r)
         \/ ToolTimeout(r)
    \/ Resume
    \/ \E s \in Signals : Abort(s)
    \/ \E c \in Chains : Cancel(c) \/ Cleanup(c)
    \/ \E l \in Leases : ProcessExit(l)
    \/ Dispose

\* Node's event loop fires every armed timer; nothing else is owed to a call.
Spec == Init /\ [][Next]_vars /\ \A r \in Requests : WF_vars(ToolTimeout(r))

-------------------------------------------------------------------------------
(* Properties *)

TypeOK ==
    /\ reg \in RegistryType
    /\ aborted \in SUBSET Signals
    /\ arrived \in SUBSET Requests

\* The two maps of the registry describe the same calls: no state without calls,
\* no call of a state that its id does not find, no index entry of a state that
\* is gone (capture 192-258, removeState 493-512).
MapsAgree == MapsAgreeIn(reg)

\* A call is waiting exactly while its timer runs: no call is left without the
\* timer that bounds its wait, no timer outlives its call, no state that is gone
\* listens to a signal, and none listens to a signal that has fired.
TimersAndListenersOwned ==
    /\ OwnedIn(reg)
    /\ \A c \in Chains : reg.signal[c] \notin aborted

\* A call that still waits has not been answered: neither a resume nor a
\* termination answers part of a turn and leaves the rest behind.
WaitingUnanswered == UnansweredIn(reg, Chains)

\* The results that one resume leaves waiting are all for calls of one turn that
\* waits: a result never counts for the call of another turn or lease that happens
\* to have the same id (findState, and the checks of resume).
RecordedOnlyForOwner ==
    [][ \A r \in reg'.received \ reg.received :
          /\ r \in reg.callMap[ChainKey(r)]
          /\ \A q \in reg'.received \ reg.received : ChainKey(q) = ChainKey(r) ]_vars

\* Every captured call is answered, or dropped by a cleanup of its turn, whatever
\* Copilot does: the timer of the call sees to it.
EveryCallSettles ==
    \A r \in Requests : r \in Registered(reg) ~> r \notin Registered(reg)

===============================================================================
