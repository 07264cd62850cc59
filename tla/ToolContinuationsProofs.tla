----------------------- MODULE ToolContinuationsProofs -----------------------
(***************************************************************************)
(* What holds of the registry for every set of requests, turns, leases and *)
(* signals.  ToolRegistryProofs says what each operation does to a          *)
(* consistent registry; the theorems follow action by action.               *)
(***************************************************************************)
EXTENDS ToolContinuations, ToolRegistryProofs, TLAPS

-------------------------------------------------------------------------------
(* The inductive invariant *)

(***************************************************************************)
(* Consistency alone is not inductive: a request that has not arrived must  *)
(* be unanswered and in no state (else capture would break WaitingUnanswered *)
(* and a refusal would answer a waiting call), and no state may listen to a  *)
(* signal that fired.                                                       *)
(***************************************************************************)
Fresh ==
    /\ \A r \in Requests \ arrived : reg.answer[r] = "none"
    /\ \A c \in Chains : reg.callMap[c] \subseteq arrived

IInv ==
    /\ Consistent(reg)
    /\ aborted \in SUBSET Signals
    /\ arrived \in SUBSET Requests
    /\ Fresh
    /\ \A c \in Chains : reg.signal[c] \notin aborted

\* A state a resume finds is a live state.
LEMMA FoundStates ==
    ASSUME IInv, NEW results, NEW lease, NEW chain
    PROVE  FindState(results, lease, chain) \subseteq reg.states
  <1>1. \A r \in Registered(reg) : ChainKey(r) \in reg.states
    BY KeysTyped, RequestsAssumption
    DEF IInv, Consistent, MapsAgreeIn, Registered
  <1> QED BY <1>1 DEF FindState

\* What every operation on a live state leaves of the rest of the invariant: the
\* calls that wait and the listeners can only become fewer.
LEMMA Shrinking ==
    ASSUME IInv, NEW h, Consistent(h),
           \A c \in Chains : h.callMap[c] \subseteq reg.callMap[c],
           \A c \in Chains : h.signal[c] = NoSignal \/ h.signal[c] = reg.signal[c],
           \A r \in Requests \ arrived : h.answer[r] = "none"
    PROVE  /\ Consistent(h)
           /\ \A r \in Requests \ arrived : h.answer[r] = "none"
           /\ \A c \in Chains : h.callMap[c] \subseteq arrived
           /\ \A c \in Chains : h.signal[c] \notin aborted
  BY RequestsAssumption DEF IInv, Fresh

\* Terminating one live state.
LEMMA TerminatedStep ==
    ASSUME IInv, NEW c \in reg.states
    PROVE  LET h == Terminated(reg, c) IN
           /\ Consistent(h)
           /\ \A r \in Requests \ arrived : h.answer[r] = "none"
           /\ \A d \in Chains : h.callMap[d] \subseteq arrived
           /\ \A d \in Chains : h.signal[d] \notin aborted
  <1> DEFINE s == Settle(reg, reg.callMap[c], "rejected")
             h == Terminated(reg, c)
  <1>1. reg \in RegistryType /\ c \in Chains /\ "rejected" \in Answers
    BY DEF IInv, Consistent, RegistryType, Answers
  <1>2. /\ s \in RegistryType /\ s.states = reg.states /\ s.callMap = reg.callMap
        /\ s.signal = reg.signal
        /\ \A q \in Requests : q \notin reg.callMap[c] => s.answer[q] = reg.answer[q]
    BY <1>1, SettleFields
  <1> HIDE DEF s
  <1>3. /\ h.callMap = [s.callMap EXCEPT ![c] = {}]
        /\ h.signal = [s.signal EXCEPT ![c] = NoSignal]
        /\ h.answer = s.answer
    BY <1>1, <1>2, RemovedFields DEF Terminated, s
  <1>4. Consistent(h)
    BY <1>1, TerminatedConsistent DEF IInv
  <1> HIDE DEF h
  <1>5. \A r \in Requests \ arrived : h.answer[r] = "none"
    BY <1>1, <1>2, <1>3 DEF IInv, Fresh
  <1>6. /\ \A d \in Chains : h.callMap[d] \subseteq reg.callMap[d]
        /\ \A d \in Chains : h.signal[d] = NoSignal \/ h.signal[d] = reg.signal[d]
    BY <1>1, <1>2, <1>3 DEF RegistryType
  <1> QED BY <1>4, <1>5, <1>6, Shrinking DEF h

\* Terminating any set of states, which may be all that listen to a signal.
LEMMA TerminatedAllStep ==
    ASSUME IInv, NEW C \in SUBSET Chains
    PROVE  LET h == TerminatedAll(reg, C) IN
           /\ Consistent(h)
           /\ \A r \in Requests \ arrived : h.answer[r] = "none"
           /\ \A d \in Chains : h.callMap[d] \subseteq arrived
           /\ \A d \in Chains : h.signal[d] \notin aborted
           /\ \A d \in C \cap reg.states : h.signal[d] = NoSignal
           /\ \A d \in Chains \ C : h.signal[d] = reg.signal[d]
  <1> DEFINE live == C \cap reg.states
             calls == UNION {reg.callMap[c] : c \in live}
             s == Settle(reg, calls, "rejected")
             h == TerminatedAll(reg, C)
  <1>1. reg \in RegistryType /\ "rejected" \in Answers
    BY DEF IInv, Consistent, Answers
  <1>2. \A q \in Requests : q \notin calls => s.answer[q] = reg.answer[q]
    BY <1>1, SettleFields
  <1>3. calls \subseteq arrived
    BY DEF IInv, Fresh
  <1>4. h.answer = s.answer
    BY DEF TerminatedAll
  <1>5. \A r \in Requests \ arrived : h.answer[r] = "none"
    <2> HIDE DEF s, calls, h
    <2> QED BY <1>2, <1>3, <1>4 DEF IInv, Fresh
  <1>6. /\ h.callMap = [c \in Chains |-> IF c \in live THEN {} ELSE reg.callMap[c]]
        /\ h.signal = [c \in Chains |-> IF c \in live THEN NoSignal ELSE reg.signal[c]]
    BY DEF TerminatedAll
  <1>7. Consistent(h)
    BY TerminatedAllConsistent DEF IInv
  <1> HIDE DEF h
  <1>8. /\ \A d \in Chains : h.callMap[d] \subseteq reg.callMap[d]
        /\ \A d \in Chains : h.signal[d] = NoSignal \/ h.signal[d] = reg.signal[d]
    BY <1>6
  <1>9. /\ \A d \in C \cap reg.states : h.signal[d] = NoSignal
        /\ \A d \in Chains \ C : h.signal[d] = reg.signal[d]
    BY <1>1, <1>6 DEF RegistryType
  <1> QED BY <1>5, <1>7, <1>8, <1>9, Shrinking DEF h

LEMMA InitIInv == Init => IInv
  <1> SUFFICES ASSUME Init PROVE IInv
    OBVIOUS
  <1>1. Consistent(reg)
    BY EmptyConsistent DEF Init
  <1> QED BY <1>1 DEF Init, IInv, Fresh, EmptyRegistry

LEMMA CaptureIInv ==
    ASSUME IInv, NEW r \in Requests, Capture(r)
    PROVE  IInv'
  <1>1. reg.answer[r] = "none"
    BY DEF IInv, Fresh, Capture
  <1>2. Consistent(Captured(reg, r))
    BY <1>1, CapturedConsistent DEF IInv, Capture
  <1>3. reg \in RegistryType /\ ChainKey(r) \in Chains
    BY KeysTyped DEF IInv, Consistent
  <1>4. /\ reg'.answer = reg.answer /\ reg'.signal = reg.signal
        /\ reg'.callMap = [reg.callMap EXCEPT ![ChainKey(r)] = @ \cup {r}]
    BY <1>3 DEF Capture, Captured, RegistryType
  <1> QED BY <1>2, <1>3, <1>4 DEF IInv, Fresh, Capture, RegistryType

LEMMA RefuseDuplicateIInv ==
    ASSUME IInv, NEW r \in Requests, RefuseDuplicate(r)
    PROVE  IInv'
  <1>1. reg \in RegistryType /\ "rejected" \in Answers
    BY DEF IInv, Consistent, Answers
  <1>2. /\ reg' \in RegistryType
        /\ reg'.states = reg.states /\ reg'.callMap = reg.callMap
        /\ reg'.callsById = reg.callsById /\ reg'.timers = reg.timers
        /\ reg'.signal = reg.signal
        /\ \A q \in Requests : q # r => reg'.answer[q] = reg.answer[q]
    BY <1>1, SettleFields DEF RefuseDuplicate
  <1>3. Consistent(reg')
    <2>1. MapsAgreeIn(reg') /\ OwnedIn(reg')
      BY <1>2 DEF IInv, Consistent, MapsAgreeIn, OwnedIn
    <2>2. UnansweredIn(reg', Chains)
      <3> SUFFICES ASSUME NEW d \in Chains, NEW q \in reg.callMap[d]
                   PROVE  reg'.answer[q] = "none"
        BY <1>2 DEF UnansweredIn
      <3>1. q \in Requests /\ q # r
        BY <1>1 DEF IInv, Fresh, RefuseDuplicate, RegistryType
      <3> QED BY <1>2, <3>1 DEF IInv, Consistent, UnansweredIn
    <2> QED BY <1>2, <2>1, <2>2 DEF Consistent
  <1> QED BY <1>2, <1>3 DEF IInv, Fresh, RefuseDuplicate

\* MarkSurfaced and the bookkeeping of resume keep the states and the answers.
LEMMA MarkSurfacedIInv ==
    ASSUME IInv, NEW r \in Requests, MarkSurfaced(r)
    PROVE  IInv'
  <1>1. Consistent(reg')
    BY FlagsConsistent DEF IInv, MarkSurfaced
  <1>2. reg'.callMap = reg.callMap /\ reg'.answer = reg.answer /\ reg'.signal = reg.signal
    BY DEF MarkSurfaced, MarkedSurfaced, IInv, Consistent, RegistryType
  <1> QED BY <1>1, <1>2 DEF IInv, Fresh, MarkSurfaced

LEMMA TerminatedIInv ==
    ASSUME IInv, NEW c \in reg.states,
           reg' = Terminated(reg, c), UNCHANGED <<aborted, arrived>>
    PROVE  IInv'
  BY TerminatedStep DEF IInv, Fresh

LEMMA TerminatedAllIInv ==
    ASSUME IInv, NEW C \in SUBSET Chains,
           reg' = TerminatedAll(reg, C), UNCHANGED <<aborted, arrived>>
    PROVE  IInv'
  BY TerminatedAllStep DEF IInv, Fresh

\* The state after bindSignal and the recording of results is still consistent,
\* and so is what remains when its calls are answered.
LEMMA ResumeIInv ==
    ASSUME IInv, Resume
    PROVE  IInv'
  <1> SUFFICES ASSUME NEW results, NEW s \in Signals, NEW lease, NEW chain,
                      ResumeFor(results, s, lease, chain)
               PROVE  IInv'
    BY DEF Resume
  <1>0. reg.states \subseteq Chains /\ reg \in RegistryType
    BY DEF IInv, Consistent, RegistryType
  <1>1. CASE ResumeUnmatched(s, lease, chain)
    BY <1>0, <1>1, TerminatedAllIInv DEF ResumeUnmatched
  <1>2. ASSUME NEW c \in FindState(results, lease, chain),
               \/ ResumeAborted(results, s, lease, chain, c)
               \/ ResumeRefused(results, s, lease, chain, c)
               \/ ResumeRecorded(results, s, lease, chain, c)
        PROVE  IInv'
    <2>0. c \in reg.states /\ c \in Chains
      BY <1>0, FoundStates
    <2>1. CASE ResumeAborted(results, s, lease, chain, c)
      BY <2>0, <2>1, TerminatedIInv DEF ResumeAborted
    <2> DEFINE b == Bound(reg, c, s, aborted)
    <2>2. Consistent(b)
      BY <2>0, FlagsConsistent DEF IInv
    <2>3. /\ b.callMap = reg.callMap /\ b.answer = reg.answer /\ b.states = reg.states
          /\ \A d \in Chains : b.signal[d] \notin aborted
      BY <1>0, <2>0, RequestsAssumption DEF Bound, RegistryType, IInv
    <2>4. CASE ResumeRefused(results, s, lease, chain, c)
      BY <2>2, <2>3, <2>4 DEF ResumeRefused, IInv, Fresh
    <2>5. CASE ResumeRecorded(results, s, lease, chain, c)
      <3> DEFINE R == Named(c, results)
                 n == Recorded(b, R)
      <3>1. R \in SUBSET Requests
        BY DEF Named, Registered
      <3> HIDE DEF R, b
      <3>2. Consistent(n)
        BY <2>2, <3>1, FlagsConsistent
      <3>3. n.callMap = b.callMap /\ n.answer = b.answer /\ n.states = b.states /\ n.signal = b.signal
        BY <2>2 DEF Recorded, Consistent, RegistryType
      <3> HIDE DEF n
      <3>4. reg' = RespondIfReady(n, c)
        BY <2>5 DEF ResumeRecorded, n, R, b
      <3>5. CASE ~ IsReady(n, c)
        BY <2>3, <2>5, <3>2, <3>3, <3>4, <3>5 DEF RespondIfReady, ResumeRecorded, IInv, Fresh
      <3>6. CASE IsReady(n, c)
        <4> DEFINE t == Settle(n, n.callMap[c], "responded")
        <4>1. "responded" \in Answers /\ n \in RegistryType
          BY <3>2 DEF Answers, Consistent
        <4>2. /\ t \in RegistryType /\ t.states = n.states /\ t.callMap = n.callMap
              /\ t.signal = n.signal
              /\ \A q \in Requests : q \notin n.callMap[c] => t.answer[q] = n.answer[q]
          BY <4>1, SettleFields
        <4>3. reg' = Removed(t, c)
          BY <3>4, <3>6 DEF RespondIfReady
        <4> HIDE DEF t
        <4>4. /\ reg'.callMap = [t.callMap EXCEPT ![c] = {}]
              /\ reg'.signal = [t.signal EXCEPT ![c] = NoSignal]
              /\ reg'.answer = t.answer
          <5>1. t \in RegistryType /\ c \in t.states
            BY <2>0, <2>3, <3>3, <4>2
          <5> QED BY <2>0, <4>3, <5>1, RemovedFields
        <4>5. Consistent(reg')
          BY <2>0, <3>2, <3>4, RespondIfReadyConsistent
        <4>6. /\ \A d \in Chains : reg'.callMap[d] \subseteq arrived
              /\ \A d \in Chains : reg'.signal[d] \notin aborted
          BY <2>0, <2>3, <3>3, <4>2, <4>4, RequestsAssumption DEF IInv, Fresh, RegistryType
        <4>7. \A q \in Requests \ arrived : reg'.answer[q] = "none"
          BY <2>0, <2>3, <3>3, <4>2, <4>4 DEF IInv, Fresh
        <4> QED BY <2>5, <4>5, <4>6, <4>7 DEF IInv, Fresh, ResumeRecorded
      <3> QED BY <3>5, <3>6
    <2> QED BY <1>2, <2>1, <2>4, <2>5
  <1> QED BY <1>1, <1>2 DEF ResumeFor

\* A timer fires only for a call that waits.
LEMMA ToolTimeoutIInv ==
    ASSUME IInv, NEW r \in Requests, ToolTimeout(r)
    PROVE  IInv'
  <1>1. ChainKey(r) \in Chains /\ CallKey(r) \in CallKeys
    BY KeysTyped
  <1>2. r \in reg.callMap[ChainKey(r)]
    BY <1>1 DEF ToolTimeout, IInv, Consistent, OwnedIn
  <1>3. r \in Registered(reg) /\ ChainKey(r) \in reg.states
    BY <1>1, <1>2 DEF IInv, Consistent, MapsAgreeIn, Registered
  <1> QED BY <1>1, <1>3, TerminatedIInv DEF ToolTimeout

\* After a signal fires, nothing listens to it any more.
LEMMA AbortIInv ==
    ASSUME IInv, NEW s \in Signals, Abort(s)
    PROVE  IInv'
  <1> DEFINE C == {c \in reg.states : reg.signal[c] = s}
  <1>1. C \in SUBSET Chains
    BY DEF IInv, Consistent, RegistryType
  <1>2. \A d \in Chains \ C : reg.signal[d] # s
    BY RequestsAssumption DEF IInv, Consistent, OwnedIn
  <1>3. /\ Consistent(reg')
        /\ \A r \in Requests \ arrived : reg'.answer[r] = "none"
        /\ \A d \in Chains : reg'.callMap[d] \subseteq arrived
        /\ \A d \in Chains : reg'.signal[d] \notin aborted
        /\ \A d \in C : reg'.signal[d] = NoSignal
        /\ \A d \in Chains \ C : reg'.signal[d] = reg.signal[d]
    BY <1>1, TerminatedAllStep DEF Abort
  <1>4. \A d \in Chains : reg'.signal[d] # s
    BY <1>1, <1>2, <1>3, RequestsAssumption
  <1> QED BY <1>3, <1>4 DEF Abort, IInv, Fresh

LEMMA CleanupIInv ==
    ASSUME IInv, NEW c \in Chains, Cleanup(c)
    PROVE  IInv'
  <1>1. reg \in RegistryType /\ c \in reg.states
    BY DEF IInv, Consistent, Cleanup
  <1>2. Consistent(Removed(reg, c))
    BY <1>1, RemovedConsistent DEF IInv, Consistent, UnansweredIn
  <1>3. /\ reg'.callMap = [reg.callMap EXCEPT ![c] = {}]
        /\ reg'.signal = [reg.signal EXCEPT ![c] = NoSignal]
        /\ reg'.answer = reg.answer
    BY <1>1, RemovedFields DEF Cleanup
  <1>4. /\ \A d \in Chains : reg'.callMap[d] \subseteq arrived
        /\ \A d \in Chains : reg'.signal[d] \notin aborted
    BY <1>1, <1>3, RequestsAssumption DEF IInv, Fresh, RegistryType
  <1> QED BY <1>2, <1>3, <1>4 DEF IInv, Fresh, Cleanup

LEMMA NextIInv == IInv /\ [Next]_vars => IInv'
  <1> SUFFICES ASSUME IInv, [Next]_vars PROVE IInv'
    OBVIOUS
  <1>0. reg.states \subseteq Chains
    BY DEF IInv, Consistent, RegistryType
  <1>1. CASE \E r \in Requests : Capture(r)
    BY <1>1, CaptureIInv
  <1>2. CASE \E r \in Requests : RefuseDuplicate(r)
    BY <1>2, RefuseDuplicateIInv
  <1>3. CASE \E r \in Requests : MarkSurfaced(r)
    BY <1>3, MarkSurfacedIInv
  <1>4. CASE \E r \in Requests : ToolTimeout(r)
    BY <1>4, ToolTimeoutIInv
  <1>5. CASE Resume
    BY <1>5, ResumeIInv
  <1>6. CASE \E s \in Signals : Abort(s)
    BY <1>6, AbortIInv
  <1>7. CASE \E c \in Chains : Cancel(c)
    BY <1>7, TerminatedIInv DEF Cancel
  <1>8. CASE \E c \in Chains : Cleanup(c)
    BY <1>8, CleanupIInv
  <1>9. CASE \E l \in Leases : ProcessExit(l)
    BY <1>0, <1>9, TerminatedAllIInv DEF ProcessExit
  <1>10. CASE Dispose
    BY <1>0, <1>10, TerminatedAllIInv DEF Dispose
  <1>11. CASE UNCHANGED vars
    BY <1>11 DEF vars, IInv, Fresh
  <1> QED BY <1>1, <1>2, <1>3, <1>4, <1>5, <1>6, <1>7, <1>8, <1>9, <1>10, <1>11 DEF Next

LEMMA SpecIInv == Spec => []IInv
  BY InitIInv, NextIInv, PTL DEF Spec

-------------------------------------------------------------------------------
(* Theorems *)

\* The registry has its type in every reachable state.
THEOREM TypeCorrect == Spec => []TypeOK
  <1>1. IInv => TypeOK
    BY DEF IInv, Consistent, TypeOK
  <1> QED BY <1>1, SpecIInv, PTL

\* The map of states and the index of calls never disagree, whatever the order of
\* captures, resumes, timers, aborts and process exits.
THEOREM MapsAlwaysAgree == Spec => []MapsAgree
  <1>1. IInv => MapsAgree
    BY DEF IInv, Consistent, MapsAgree
  <1> QED BY <1>1, SpecIInv, PTL

\* A waiting call always has the timer that bounds its wait, and no listener or
\* timer survives its state.
THEOREM AlwaysOwned == Spec => []TimersAndListenersOwned
  <1>1. IInv => TimersAndListenersOwned
    BY DEF IInv, Consistent, TimersAndListenersOwned
  <1> QED BY <1>1, SpecIInv, PTL

\* No operation answers a call and leaves it waiting.
THEOREM NeverHalfAnswered == Spec => []WaitingUnanswered
  <1>1. IInv => WaitingUnanswered
    BY DEF IInv, Consistent, WaitingUnanswered
  <1> QED BY <1>1, SpecIInv, PTL

\* A result is recorded only for a call that waits, and one resume records results
\* for the calls of one turn only, whatever ids other turns and leases use (findState
\* 422-456, resume 287-350).
THEOREM RecordsForOwner == Spec => RecordedOnlyForOwner
<1> DEFINE New == reg'.received \ reg.received
           Owned == \A r \in New :
              /\ r \in reg.callMap[ChainKey(r)]
              /\ \A q \in New : ChainKey(q) = ChainKey(r)
<1>1. ASSUME IInv, [Next]_vars PROVE Owned
  <2>0. reg \in RegistryType /\ MapsAgreeIn(reg)
    BY <1>1 DEF IInv, Consistent
  <2>1. \A g \in RegistryType : \A c \in Chains : Removed(g, c).received \subseteq g.received
    BY DEF Removed, RegistryType
  <2>2. \A g \in RegistryType : \A R, outcome : Settle(g, R, outcome).received = g.received
    BY DEF Settle, RegistryType
  <2>3. \A c \in Chains : Terminated(reg, c).received \subseteq reg.received
    <3> TAKE c \in Chains
    <3>1. Settle(reg, reg.callMap[c], "rejected") \in RegistryType
      BY <2>0, SettleFields DEF Answers
    <3> QED
      BY <2>0, <2>1, <2>2, <3>1 DEF Terminated
  <2>4. \A C : TerminatedAll(reg, C).received \subseteq reg.received
    BY DEF TerminatedAll
  <2>5. \A r \in Requests : ChainKey(r) \in Chains
    BY KeysTyped
  <2>6. reg'.received \subseteq reg.received => Owned
    OBVIOUS
  <2>7. CASE \E r \in Requests : Capture(r) \/ RefuseDuplicate(r) \/ MarkSurfaced(r)
    <3>0. \A r : /\ Captured(reg, r).received = reg.received
                 /\ MarkedSurfaced(reg, r).received = reg.received
      BY <2>0 DEF Captured, MarkedSurfaced, RegistryType
    <3>1. reg'.received = reg.received
      BY <2>0, <2>2, <2>7, <3>0 DEF Capture, RefuseDuplicate, MarkSurfaced
    <3> QED
      BY <2>6, <3>1
  <2>8. CASE \E r \in Requests : ToolTimeout(r)
    BY <2>3, <2>5, <2>6, <2>8 DEF ToolTimeout
  <2>9. CASE \/ \E s \in Signals : Abort(s)
             \/ \E l \in Leases : ProcessExit(l)
             \/ Dispose
    BY <2>4, <2>6, <2>9 DEF Abort, ProcessExit, Dispose
  <2>10. CASE \E c \in Chains : Cancel(c) \/ Cleanup(c)
    BY <2>0, <2>1, <2>3, <2>6, <2>10 DEF Cancel, Cleanup
  <2>11. CASE Resume
    <3> SUFFICES ASSUME NEW results, NEW s \in Signals, NEW lease, NEW chain,
                        ResumeFor(results, s, lease, chain)
                 PROVE  Owned
      BY <2>11 DEF Resume
    <3>1. FindState(results, lease, chain) \subseteq Chains
      BY <1>1, <2>0, FoundStates DEF RegistryType
    <3>2. CASE ResumeUnmatched(s, lease, chain)
      BY <2>4, <2>6, <3>2 DEF ResumeUnmatched
    <3>3. ASSUME NEW c \in Chains, ResumeAborted(results, s, lease, chain, c) PROVE Owned
      BY <2>3, <2>6, <3>3 DEF ResumeAborted
    <3>4. ASSUME NEW c \in Chains, ResumeRefused(results, s, lease, chain, c) PROVE Owned
      <4>1. reg'.received = reg.received
        BY <2>0, <3>4 DEF ResumeRefused, Bound, RegistryType
      <4> QED
        BY <2>6, <4>1
    <3>5. ASSUME NEW c \in Chains, ResumeRecorded(results, s, lease, chain, c) PROVE Owned
      <4> DEFINE R == Named(c, results)
                 b == Recorded(Bound(reg, c, s, aborted), R)
                 t == Settle(b, b.callMap[c], "responded")
      <4>1. R \subseteq Requests /\ b \in RegistryType /\ b.received = reg.received \cup R
        BY <2>0 DEF Named, Registered, Recorded, Bound, RegistryType
      <4> HIDE DEF b
      <4>2. t \in RegistryType
        BY <4>1, SettleFields DEF Answers
      <4>3. reg' = RespondIfReady(b, c)
        BY <3>5 DEF ResumeRecorded, b
      <4>4. reg'.received \subseteq b.received
        BY <2>1, <2>2, <4>1, <4>2, <4>3 DEF RespondIfReady
      <4>5. New \subseteq R
        BY <4>1, <4>4
      <4>6. \A r \in R : r \in reg.callMap[c] /\ ChainKey(r) = c
        <5> SUFFICES ASSUME NEW r \in R PROVE r \in reg.callMap[c] /\ ChainKey(r) = c
          OBVIOUS
        <5>1. /\ r \in Requests /\ reg.callsById[CallKey(r)] = r
              /\ CallKey(r) = [lease |-> c.lease, callId |-> r.callId]
              /\ r.callId \in ToSet(results)
          BY DEF Named, Registered, CallKey
        <5>2. ChainKey(r) = c
          BY <3>5, <5>1 DEF ResumeRecorded, Acceptable
        <5>3. r \in reg.callMap[ChainKey(r)]
          BY <2>0, <5>1, KeysTyped, RequestsAssumption DEF MapsAgreeIn
        <5> QED
          BY <5>2, <5>3
      <4> HIDE DEF R
      <4> QED
        BY <4>5, <4>6
    <3> QED
      BY <3>1, <3>2, <3>3, <3>4, <3>5 DEF ResumeFor
  <2>12. CASE UNCHANGED vars
    BY <2>6, <2>12 DEF vars
  <2> HIDE DEF Owned
  <2> QED
    BY <1>1, <2>7, <2>8, <2>9, <2>10, <2>11, <2>12 DEF Next
<1>2. IInv /\ [Next]_vars => [Owned]_vars
  BY <1>1
<1> QED
  BY <1>2, SpecIInv, PTL DEF Spec, RecordedOnlyForOwner

===============================================================================
