--------------------------- MODULE ToolRegistryProofs ---------------------------
(***************************************************************************)
(* What each operation of the registry does to a consistent registry value, *)
(* for every set of requests, leases, turns and signals.  The proofs about  *)
(* the registry's callers rest on these lemmas: ToolContinuationsProofs      *)
(* extends this module, AppServerTransportProofs instantiates it.           *)
(***************************************************************************)
EXTENDS ToolRegistry, TLAPS

Consistent(g) ==
    /\ g \in RegistryType
    /\ MapsAgreeIn(g)
    /\ OwnedIn(g)
    /\ UnansweredIn(g, Chains)

-------------------------------------------------------------------------------
(* Keys *)

\* A request names a chain and a call key of the sets the maps range over.
LEMMA KeysTyped ==
    ASSUME NEW r \in Requests
    PROVE  ChainKey(r) \in Chains /\ CallKey(r) \in CallKeys
  BY RequestsAssumption DEF ChainKey, CallKey, Chains, CallKeys

\* The calls of different states have different keys and different chains.
LEMMA CallsDisjoint ==
    ASSUME NEW g, Consistent(g), NEW c \in Chains, NEW d \in Chains, c # d
    PROVE  g.callMap[c] \cap g.callMap[d] = {}
  BY DEF Consistent, MapsAgreeIn

-------------------------------------------------------------------------------
(* The operations *)

LEMMA EmptyConsistent == Consistent(EmptyRegistry)
  <1>1. EmptyRegistry \in RegistryType
    BY DEF EmptyRegistry, RegistryType, Answers
  <1> QED
    BY <1>1 DEF Consistent, EmptyRegistry, MapsAgreeIn, OwnedIn, UnansweredIn

\* A free request joins its turn (capture).
LEMMA CapturedConsistent ==
    ASSUME NEW g, Consistent(g), NEW r \in Requests,
           CanCapture(g, r), g.answer[r] = "none"
    PROVE  Consistent(Captured(g, r))
  <1> DEFINE c == ChainKey(r)
             k == CallKey(r)
             h == Captured(g, r)
  <1>1. c \in Chains /\ k \in CallKeys
    BY KeysTyped
  <1>2. g \in RegistryType
    BY DEF Consistent
  <1>3. /\ h.states = g.states \cup {c}
        /\ h.callMap = [g.callMap EXCEPT ![c] = @ \cup {r}]
        /\ h.callsById = [g.callsById EXCEPT ![k] = r]
        /\ h.timers = [g.timers EXCEPT ![c] = @ \cup {r}]
        /\ h.signal = g.signal /\ h.answer = g.answer
    BY <1>2 DEF Captured, RegistryType
  <1>4. h \in RegistryType
    BY <1>1, <1>2 DEF Captured, RegistryType
  <1>5. g.callsById[k] = NoRequest
    BY DEF CanCapture, HasCall
  <1>6. MapsAgreeIn(h)
    <2>1. \A d \in Chains : d \in h.states <=> h.callMap[d] # {}
      BY <1>1, <1>2, <1>3 DEF Consistent, MapsAgreeIn, RegistryType
    <2>2. \A d \in Chains : \A q \in h.callMap[d] :
             ChainKey(q) = d /\ h.callsById[CallKey(q)] = q
      BY <1>1, <1>2, <1>3, <1>5, KeysTyped, RequestsAssumption
      DEF Consistent, MapsAgreeIn, RegistryType
    <2>3. \A j \in CallKeys : h.callsById[j] # NoRequest =>
             /\ CallKey(h.callsById[j]) = j
             /\ h.callsById[j] \in h.callMap[ChainKey(h.callsById[j])]
      BY <1>1, <1>2, <1>3, KeysTyped DEF Consistent, MapsAgreeIn, RegistryType
    <2> QED BY <2>1, <2>2, <2>3 DEF MapsAgreeIn
  <1>7. OwnedIn(h)
    BY <1>1, <1>2, <1>3 DEF Consistent, OwnedIn, RegistryType
  <1>8. UnansweredIn(h, Chains)
    BY <1>1, <1>2, <1>3 DEF Consistent, UnansweredIn, RegistryType
  <1> QED BY <1>4, <1>6, <1>7, <1>8 DEF Consistent

\* The fields of a state's removal (removeState); the state must be there.
LEMMA RemovedFields ==
    ASSUME NEW g, g \in RegistryType, NEW c \in Chains, c \in g.states
    PROVE  LET h == Removed(g, c)
           IN  /\ h \in RegistryType
               /\ h.states = g.states \ {c}
               /\ h.callMap = [g.callMap EXCEPT ![c] = {}]
               /\ h.callsById = [k \in CallKeys |->
                     IF \E r \in g.callMap[c] : CallKey(r) = k
                     THEN NoRequest ELSE g.callsById[k]]
               /\ h.timers = [g.timers EXCEPT ![c] = {}]
               /\ h.signal = [g.signal EXCEPT ![c] = NoSignal]
               /\ h.answer = g.answer
  BY DEF Removed, RegistryType

\* Removing a state leaves a consistent registry even when the calls of that state
\* have just been answered.
LEMMA RemovedConsistent ==
    ASSUME NEW g, g \in RegistryType, MapsAgreeIn(g), OwnedIn(g),
           NEW c \in Chains, c \in g.states, UnansweredIn(g, Chains \ {c})
    PROVE  Consistent(Removed(g, c))
  <1> DEFINE h == Removed(g, c)
  <1>1. /\ h \in RegistryType
        /\ h.states = g.states \ {c}
        /\ h.callMap = [g.callMap EXCEPT ![c] = {}]
        /\ h.callsById = [k \in CallKeys |->
              IF \E r \in g.callMap[c] : CallKey(r) = k
              THEN NoRequest ELSE g.callsById[k]]
        /\ h.timers = [g.timers EXCEPT ![c] = {}]
        /\ h.signal = [g.signal EXCEPT ![c] = NoSignal]
        /\ h.answer = g.answer
    BY RemovedFields
  <1> HIDE DEF h
  <1>2. MapsAgreeIn(h)
    <2>1. \A d \in Chains : d \in h.states <=> h.callMap[d] # {}
      BY <1>1 DEF MapsAgreeIn, RegistryType
    <2>2. \A d \in Chains : \A q \in h.callMap[d] :
             ChainKey(q) = d /\ h.callsById[CallKey(q)] = q
      <3> SUFFICES ASSUME NEW d \in Chains, NEW q \in h.callMap[d]
                   PROVE  ChainKey(q) = d /\ h.callsById[CallKey(q)] = q
        OBVIOUS
      <3>1. d # c /\ q \in g.callMap[d] /\ q \in Requests
        BY <1>1 DEF RegistryType
      <3>2. ChainKey(q) = d /\ g.callsById[CallKey(q)] = q
        BY <3>1 DEF MapsAgreeIn
      <3>3. \A r \in g.callMap[c] : CallKey(r) # CallKey(q)
        BY <3>1, <3>2 DEF MapsAgreeIn
      <3> QED BY <1>1, <3>1, <3>2, <3>3, KeysTyped
    <2>3. \A j \in CallKeys : h.callsById[j] # NoRequest =>
             /\ CallKey(h.callsById[j]) = j
             /\ h.callsById[j] \in h.callMap[ChainKey(h.callsById[j])]
      <3> SUFFICES ASSUME NEW j \in CallKeys, h.callsById[j] # NoRequest
                   PROVE  /\ CallKey(h.callsById[j]) = j
                          /\ h.callsById[j] \in h.callMap[ChainKey(h.callsById[j])]
        OBVIOUS
      <3> DEFINE q == g.callsById[j]
      <3>1. h.callsById[j] = q /\ ~ \E r \in g.callMap[c] : CallKey(r) = j
        BY <1>1
      <3>2. q \in Requests /\ CallKey(q) = j /\ q \in g.callMap[ChainKey(q)]
        BY <1>1, <3>1 DEF MapsAgreeIn, RegistryType
      <3>3. ChainKey(q) # c
        BY <3>1, <3>2
      <3> QED BY <1>1, <3>1, <3>2, <3>3, KeysTyped DEF RegistryType
    <2> QED BY <2>1, <2>2, <2>3 DEF MapsAgreeIn
  <1>3. OwnedIn(h)
    BY <1>1 DEF OwnedIn, RegistryType
  <1>4. UnansweredIn(h, Chains)
    BY <1>1 DEF UnansweredIn, RegistryType
  <1> QED BY <1>1, <1>2, <1>3, <1>4 DEF Consistent, h

\* Settling promises changes nothing but the answers.
LEMMA SettleFields ==
    ASSUME NEW g, g \in RegistryType, NEW R, NEW outcome \in Answers
    PROVE  LET h == Settle(g, R, outcome)
           IN  /\ h \in RegistryType
               /\ h.states = g.states /\ h.callMap = g.callMap
               /\ h.callsById = g.callsById /\ h.timers = g.timers
               /\ h.signal = g.signal
               /\ h.surfaced = g.surfaced /\ h.received = g.received
               /\ \A q \in Requests : q \notin R => h.answer[q] = g.answer[q]
               /\ \A q \in Requests : g.answer[q] # "none" => h.answer[q] = g.answer[q]
               /\ \A q \in Requests : q \in R /\ g.answer[q] = "none" => h.answer[q] = outcome
  BY DEF Settle, RegistryType

\* Answering the calls of one state and removing it (resume, terminate).
LEMMA EndedConsistent ==
    ASSUME NEW g, Consistent(g), NEW c \in Chains, c \in g.states,
           NEW outcome \in Answers
    PROVE  Consistent(Removed(Settle(g, g.callMap[c], outcome), c))
  <1> DEFINE s == Settle(g, g.callMap[c], outcome)
  <1>1. /\ s \in RegistryType
        /\ s.states = g.states /\ s.callMap = g.callMap
        /\ s.callsById = g.callsById /\ s.timers = g.timers
        /\ s.signal = g.signal
        /\ \A q \in Requests : q \notin g.callMap[c] => s.answer[q] = g.answer[q]
    BY SettleFields DEF Consistent
  <1> HIDE DEF s
  <1>2. MapsAgreeIn(s) /\ OwnedIn(s)
    BY <1>1 DEF Consistent, MapsAgreeIn, OwnedIn
  <1>3. UnansweredIn(s, Chains \ {c})
    BY <1>1, CallsDisjoint DEF Consistent, UnansweredIn, RegistryType
  <1>4. Consistent(Removed(s, c))
    BY <1>1, <1>2, <1>3, RemovedConsistent
  <1> QED BY <1>4 DEF s

LEMMA TerminatedConsistent ==
    ASSUME NEW g, Consistent(g), NEW c \in Chains, c \in g.states
    PROVE  Consistent(Terminated(g, c))
  BY EndedConsistent DEF Terminated, Answers

LEMMA RespondIfReadyConsistent ==
    ASSUME NEW g, Consistent(g), NEW c \in Chains
    PROVE  Consistent(RespondIfReady(g, c))
  BY EndedConsistent DEF RespondIfReady, IsReady, Answers

\* Terminating any set of states (processExit, dispose, a shared signal).
LEMMA TerminatedAllConsistent ==
    ASSUME NEW g, Consistent(g), NEW C \in SUBSET Chains
    PROVE  Consistent(TerminatedAll(g, C))
  <1> DEFINE live == C \cap g.states
             calls == UNION {g.callMap[c] : c \in live}
             h == TerminatedAll(g, C)
  <1>0. g \in RegistryType /\ live \subseteq Chains /\ calls \subseteq Requests
    BY DEF Consistent, RegistryType
  <1>1. /\ h.states = g.states \ live
        /\ h.callMap = [c \in Chains |-> IF c \in live THEN {} ELSE g.callMap[c]]
        /\ h.callsById = [k \in CallKeys |->
              IF \E r \in calls : CallKey(r) = k THEN NoRequest ELSE g.callsById[k]]
        /\ h.timers = [c \in Chains |-> IF c \in live THEN {} ELSE g.timers[c]]
        /\ h.signal = [c \in Chains |-> IF c \in live THEN NoSignal ELSE g.signal[c]]
        /\ h.surfaced = g.surfaced \ calls
        /\ h.received = g.received \ calls
        /\ h.answer = Settle(g, calls, "rejected").answer
    BY DEF TerminatedAll
  <1>2. /\ Settle(g, calls, "rejected").answer \in [Requests -> Answers]
        /\ \A q \in Requests : q \notin calls => h.answer[q] = g.answer[q]
    <2> DEFINE s == Settle(g, calls, "rejected")
    <2>1. "rejected" \in Answers
      BY DEF Answers
    <2>2. /\ s \in RegistryType
          /\ \A q \in Requests : q \notin calls => s.answer[q] = g.answer[q]
      BY <1>0, <2>1, SettleFields
    <2> HIDE DEF s
    <2>3. s.answer \in [Requests -> Answers]
      BY <2>2 DEF RegistryType
    <2>4. h.answer = s.answer
      BY <1>1 DEF s
    <2> QED BY <2>2, <2>3, <2>4 DEF s
  <1>3. h \in RegistryType
    BY <1>0, <1>2 DEF TerminatedAll, RegistryType
  <1>4. \A r \in Requests : r \in calls <=>
           ChainKey(r) \in live /\ r \in g.callMap[ChainKey(r)]
    BY <1>0, KeysTyped DEF Consistent, MapsAgreeIn
  <1> HIDE DEF h, calls, live
  <1>5. MapsAgreeIn(h)
    <2>1. \A d \in Chains : d \in h.states <=> h.callMap[d] # {}
      BY <1>0, <1>1 DEF Consistent, MapsAgreeIn
    <2>2. \A d \in Chains : \A q \in h.callMap[d] :
             ChainKey(q) = d /\ h.callsById[CallKey(q)] = q
      <3> SUFFICES ASSUME NEW d \in Chains, NEW q \in h.callMap[d]
                   PROVE  ChainKey(q) = d /\ h.callsById[CallKey(q)] = q
        OBVIOUS
      <3>1. d \notin live /\ q \in g.callMap[d] /\ q \in Requests
        BY <1>0, <1>1 DEF RegistryType
      <3>2. ChainKey(q) = d /\ g.callsById[CallKey(q)] = q
        BY <3>1 DEF Consistent, MapsAgreeIn
      <3>3. \A r \in calls : CallKey(r) # CallKey(q)
        BY <1>0, <1>4, <3>1, <3>2 DEF Consistent, MapsAgreeIn
      <3> QED BY <1>1, <3>1, <3>2, <3>3, KeysTyped
    <2>3. \A j \in CallKeys : h.callsById[j] # NoRequest =>
             /\ CallKey(h.callsById[j]) = j
             /\ h.callsById[j] \in h.callMap[ChainKey(h.callsById[j])]
      <3> SUFFICES ASSUME NEW j \in CallKeys, h.callsById[j] # NoRequest
                   PROVE  /\ CallKey(h.callsById[j]) = j
                          /\ h.callsById[j] \in h.callMap[ChainKey(h.callsById[j])]
        OBVIOUS
      <3> DEFINE q == g.callsById[j]
      <3>1. h.callsById[j] = q /\ ~ \E r \in calls : CallKey(r) = j
        BY <1>1
      <3>2. q \in Requests /\ CallKey(q) = j /\ q \in g.callMap[ChainKey(q)]
        BY <1>0, <3>1 DEF Consistent, MapsAgreeIn, RegistryType
      <3>3. ChainKey(q) \notin live
        BY <1>4, <3>1, <3>2
      <3> QED BY <1>1, <3>1, <3>2, <3>3, KeysTyped
    <2> QED BY <2>1, <2>2, <2>3 DEF MapsAgreeIn
  <1>6. OwnedIn(h)
    BY <1>1 DEF Consistent, OwnedIn
  <1>7. UnansweredIn(h, Chains)
    <2> SUFFICES ASSUME NEW d \in Chains, NEW q \in h.callMap[d]
                 PROVE  h.answer[q] = "none"
      BY DEF UnansweredIn
    <2>1. d \notin live /\ q \in g.callMap[d] /\ q \in Requests
      BY <1>0, <1>1 DEF RegistryType
    <2>2. ChainKey(q) = d /\ q \notin calls
      BY <1>4, <2>1 DEF Consistent, MapsAgreeIn
    <2> QED BY <1>2, <2>1, <2>2 DEF Consistent, UnansweredIn
  <1> QED BY <1>3, <1>5, <1>6, <1>7 DEF Consistent, h

\* Flags and listeners do not touch the maps.
LEMMA FlagsConsistent ==
    ASSUME NEW g, Consistent(g)
    PROVE  /\ \A r \in Requests : Consistent(MarkedSurfaced(g, r))
           /\ \A R \in SUBSET Requests : Consistent(Recorded(g, R))
           /\ \A c \in g.states, s \in Signals, A \in SUBSET Signals : Consistent(Bound(g, c, s, A))
  <1>1. \A r \in Requests : Consistent(MarkedSurfaced(g, r))
    BY DEF Consistent, MarkedSurfaced, RegistryType, MapsAgreeIn, OwnedIn, UnansweredIn
  <1>2. \A R \in SUBSET Requests : Consistent(Recorded(g, R))
    BY DEF Consistent, Recorded, RegistryType, MapsAgreeIn, OwnedIn, UnansweredIn
  <1>3. \A c \in g.states, s \in Signals, A \in SUBSET Signals : Consistent(Bound(g, c, s, A))
    BY DEF Consistent, Bound, RegistryType, MapsAgreeIn, OwnedIn, UnansweredIn
  <1> QED BY <1>1, <1>2, <1>3

-------------------------------------------------------------------------------
(* What a caller of the registry sees of an operation *)

\* A consistent registry finds a call exactly while a state has it.
LEMMA RegisteredOwned ==
    ASSUME NEW g, Consistent(g), NEW r \in Requests
    PROVE  r \in Registered(g) <=> r \in g.callMap[ChainKey(r)]
  BY KeysTyped, RequestsAssumption DEF Consistent, MapsAgreeIn, Registered

\* h is g after the states of the chains in C have ended and their calls, with the
\* requests of P that no state has, have been answered.
EndedFrom(g, h, C, P, outcome) ==
    /\ Consistent(h)
    /\ \A c \in Chains : h.callMap[c] = IF c \in C THEN {} ELSE g.callMap[c]
    /\ h.surfaced \subseteq g.surfaced
    /\ \A r \in Requests :
         h.answer[r] = IF g.answer[r] = "none" /\ (r \in P \/ \E c \in C : r \in g.callMap[c])
                       THEN outcome ELSE g.answer[r]

LEMMA TerminatedAllEnds ==
    ASSUME NEW g, Consistent(g), NEW C \in SUBSET Chains
    PROVE  EndedFrom(g, TerminatedAll(g, C), C, {}, "rejected")
<1> DEFINE live == C \cap g.states
           calls == UNION {g.callMap[c] : c \in live}
           h == TerminatedAll(g, C)
<1>1. /\ h.callMap = [c \in Chains |-> IF c \in live THEN {} ELSE g.callMap[c]]
      /\ h.surfaced = g.surfaced \ calls
      /\ h.answer = Settle(g, calls, "rejected").answer
  BY DEF TerminatedAll
<1>2. \A c \in Chains \ g.states : g.callMap[c] = {}
  BY DEF Consistent, MapsAgreeIn
<1>3. \A r : r \in calls <=> \E c \in C : r \in g.callMap[c]
  BY <1>2
<1>4. Settle(g, calls, "rejected").answer =
        [r \in Requests |-> IF r \in calls /\ g.answer[r] = "none" THEN "rejected" ELSE g.answer[r]]
  BY DEF Settle, Consistent, RegistryType
<1>5. Consistent(h)
  BY TerminatedAllConsistent
<1> HIDE DEF calls, h
<1>6. \A c \in Chains : h.callMap[c] = IF c \in C THEN {} ELSE g.callMap[c]
  BY <1>1, <1>2
<1>7. \A r \in Requests :
         h.answer[r] = IF g.answer[r] = "none" /\ (r \in {} \/ \E c \in C : r \in g.callMap[c])
                       THEN "rejected" ELSE g.answer[r]
  BY <1>1, <1>3, <1>4
<1> QED
  BY <1>1, <1>5, <1>6, <1>7 DEF EndedFrom, h

\* A state that does not exist is not removed.
LEMMA RemovedEmpty ==
    ASSUME NEW g, Consistent(g), NEW c \in Chains, g.callMap[c] = {}
    PROVE  Removed(g, c) = g
  BY DEF Consistent, MapsAgreeIn, Removed

\* Settling requests that no state has.
LEMMA SettledEnds ==
    ASSUME NEW g, Consistent(g), NEW P \in SUBSET Requests,
           \A c \in Chains : P \cap g.callMap[c] = {}
    PROVE  EndedFrom(g, Settle(g, P, "rejected"), {}, P, "rejected")
<1> DEFINE h == Settle(g, P, "rejected")
<1>0. g \in RegistryType /\ "rejected" \in Answers
  BY DEF Consistent, Answers
<1>1. /\ h \in RegistryType
      /\ h.states = g.states /\ h.callMap = g.callMap
      /\ h.callsById = g.callsById /\ h.timers = g.timers
      /\ h.signal = g.signal
      /\ h.surfaced = g.surfaced
      /\ \A q \in Requests : q \notin P => h.answer[q] = g.answer[q]
      /\ \A q \in Requests : g.answer[q] # "none" => h.answer[q] = g.answer[q]
      /\ \A q \in Requests : q \in P /\ g.answer[q] = "none" => h.answer[q] = "rejected"
  BY <1>0, SettleFields
<1> HIDE DEF h
<1>2. MapsAgreeIn(h) /\ OwnedIn(h)
  BY <1>1 DEF Consistent, MapsAgreeIn, OwnedIn
<1>3. UnansweredIn(h, Chains)
  BY <1>0, <1>1 DEF Consistent, UnansweredIn, RegistryType
<1>4. Consistent(h)
  BY <1>1, <1>2, <1>3 DEF Consistent
<1>5. \A r \in Requests :
         h.answer[r] = IF g.answer[r] = "none" /\ (r \in P \/ \E c \in {} : r \in g.callMap[c])
                       THEN "rejected" ELSE g.answer[r]
  BY <1>1
<1> QED
  BY <1>1, <1>4, <1>5 DEF EndedFrom, h

\* Ending one state, which may not exist, with one outcome.
LEMMA EndsOne ==
    ASSUME NEW g, Consistent(g), NEW c \in Chains, NEW outcome \in Answers
    PROVE  EndedFrom(g, Removed(Settle(g, g.callMap[c], outcome), c), {c}, {}, outcome)
<1> DEFINE s == Settle(g, g.callMap[c], outcome)
           h == Removed(s, c)
<1>0. g \in RegistryType
  BY DEF Consistent
<1>1. /\ s \in RegistryType
      /\ s.states = g.states /\ s.callMap = g.callMap
      /\ s.callsById = g.callsById /\ s.timers = g.timers
      /\ s.signal = g.signal
      /\ s.surfaced = g.surfaced /\ s.received = g.received
      /\ \A q \in Requests : q \notin g.callMap[c] => s.answer[q] = g.answer[q]
      /\ \A q \in Requests : g.answer[q] # "none" => s.answer[q] = g.answer[q]
      /\ \A q \in Requests : q \in g.callMap[c] /\ g.answer[q] = "none" => s.answer[q] = outcome
  BY <1>0, SettleFields
<1>2. \A r \in Requests :
         s.answer[r] = IF g.answer[r] = "none" /\ (r \in {} \/ \E d \in {c} : r \in g.callMap[d])
                       THEN outcome ELSE g.answer[r]
  BY <1>1
<1>3. CASE c \in g.states
  <2>1. Consistent(h)
    BY <1>3, EndedConsistent
  <2>a. s.surfaced \ s.callMap[c] \subseteq g.surfaced
    BY <1>1
  <2> HIDE DEF s
  <2>b. s \in RegistryType /\ c \in s.states
    BY <1>1, <1>3
  <2>c. h.callMap = [s.callMap EXCEPT ![c] = {}] /\ h.answer = s.answer
    BY <2>b, RemovedFields
  <2>2. h.callMap = [g.callMap EXCEPT ![c] = {}] /\ h.answer = s.answer
    BY <1>1, <2>c
  <2>3. h.surfaced = s.surfaced \ s.callMap[c]
    BY <2>b DEF Removed, RegistryType
  <2> HIDE DEF h
  <2>4. \A d \in Chains : h.callMap[d] = IF d \in {c} THEN {} ELSE g.callMap[d]
    BY <1>0, <2>2 DEF RegistryType
  <2>5. EndedFrom(g, h, {c}, {}, outcome)
    BY <1>2, <2>1, <2>2, <2>3, <2>4, <2>a DEF EndedFrom
  <2> QED
    BY <2>5 DEF h, s
<1>4. CASE c \notin g.states
  <2>1. g.callMap[c] = {}
    BY <1>4 DEF Consistent, MapsAgreeIn
  <2>2. h = s
    BY <1>1, <1>4 DEF Removed
  <2>3. s = g
    BY <1>0, <2>1 DEF Settle, RegistryType
  <2> HIDE DEF s, h
  <2>4. EndedFrom(g, g, {c}, {}, outcome)
    BY <2>1 DEF EndedFrom
  <2> QED
    BY <2>2, <2>3, <2>4 DEF h, s
<1> QED
  BY <1>3, <1>4

LEMMA TerminatedEnds ==
    ASSUME NEW g, Consistent(g), NEW c \in Chains
    PROVE  EndedFrom(g, Terminated(g, c), {c}, {}, "rejected")
  BY EndsOne DEF Terminated, Answers

LEMMA RespondedEnds ==
    ASSUME NEW g, Consistent(g), NEW c \in Chains, IsReady(g, c)
    PROVE  EndedFrom(g, RespondIfReady(g, c), {c}, {}, "responded")
  BY EndsOne DEF RespondIfReady, Answers

\* First requests that no state has, then the states of C.
LEMMA EndsCompose ==
    ASSUME NEW g, NEW h, NEW k, NEW C \in SUBSET Chains, NEW P,
           EndedFrom(g, h, {}, P, "rejected"), EndedFrom(h, k, C, {}, "rejected")
    PROVE  EndedFrom(g, k, C, P, "rejected")
  BY DEF EndedFrom

-------------------------------------------------------------------------------

\* h is g after the calls in Q have been captured.
TakenFrom(g, h, Q) ==
    /\ Consistent(h)
    /\ \A c \in Chains : h.callMap[c] = g.callMap[c] \cup {r \in Q : ChainKey(r) = c}
    /\ h.surfaced = g.surfaced
    /\ h.answer = g.answer

LEMMA CapturedTakes ==
    ASSUME NEW g, Consistent(g), NEW r \in Requests, CanCapture(g, r), g.answer[r] = "none"
    PROVE  TakenFrom(g, Captured(g, r), {r})
<1> DEFINE c == ChainKey(r)
           h == Captured(g, r)
<1>1. c \in Chains /\ g \in RegistryType
  BY KeysTyped DEF Consistent
<1>2. /\ h.callMap = [g.callMap EXCEPT ![c] = @ \cup {r}]
      /\ h.surfaced = g.surfaced /\ h.answer = g.answer
  BY <1>1 DEF Captured, RegistryType
<1>3. Consistent(h)
  BY CapturedConsistent
<1> HIDE DEF h
<1>4. \A d \in Chains : h.callMap[d] = g.callMap[d] \cup {q \in {r} : ChainKey(q) = d}
  BY <1>1, <1>2 DEF RegistryType
<1> QED
  BY <1>2, <1>3, <1>4 DEF TakenFrom, h

\* Capturing several requests at once is what capturing them in turn would be.
LEMMA CapturedAllTakes ==
    ASSUME NEW g, Consistent(g), NEW Q \in SUBSET Requests,
           \A r \in Q : CanCapture(g, r) /\ g.answer[r] = "none",
           \A r \in Q, q \in Q : CallKey(r) = CallKey(q) => r = q
    PROVE  TakenFrom(g, CapturedAll(g, Q), Q)
<1> DEFINE in(c) == {r \in Q : ChainKey(r) = c}
           h == CapturedAll(g, Q)
           P(k) == CHOOSE r \in Q : CallKey(r) = k
<1>0. g \in RegistryType
  BY DEF Consistent
<1>1. /\ h.states = g.states \cup {ChainKey(r) : r \in Q}
      /\ h.callMap = [c \in Chains |-> g.callMap[c] \cup in(c)]
      /\ h.callsById = [k \in CallKeys |->
            IF \E r \in Q : CallKey(r) = k THEN P(k) ELSE g.callsById[k]]
      /\ h.timers = [c \in Chains |-> g.timers[c] \cup in(c)]
      /\ h.signal = g.signal /\ h.answer = g.answer /\ h.surfaced = g.surfaced
      /\ h.received = g.received
  BY <1>0 DEF CapturedAll, RegistryType
<1>2. \A r \in Q : ChainKey(r) \in Chains /\ CallKey(r) \in CallKeys
  BY KeysTyped
<1>3. \A r \in Q : P(CallKey(r)) = r
  OBVIOUS
<1>a. \A k \in CallKeys : (\E r \in Q : CallKey(r) = k) => P(k) \in Q /\ CallKey(P(k)) = k
  OBVIOUS
<1> HIDE DEF P
<1>4. h \in RegistryType
  <2> DEFINE F == h.callsById
             M == h.callMap
             N == h.timers
             S == h.states
  <2>1. F \in [CallKeys -> Requests \cup {NoRequest}]
    BY <1>0, <1>1, <1>a DEF RegistryType
  <2>2. M \in [Chains -> SUBSET Requests] /\ N \in [Chains -> SUBSET Requests]
    BY <1>0, <1>1 DEF RegistryType
  <2>3. S \in SUBSET Chains
    BY <1>0, <1>1, <1>2 DEF RegistryType
  <2>4. h = [g EXCEPT !.states = S, !.callMap = M, !.callsById = F, !.timers = N]
    BY <1>0, <1>1 DEF CapturedAll, RegistryType
  <2> HIDE DEF F, M, N, S, h
  <2> QED
    BY <1>0, <2>1, <2>2, <2>3, <2>4 DEF RegistryType
<1> HIDE DEF h
<1>5. \A r \in Q : g.callsById[CallKey(r)] = NoRequest
  BY DEF CanCapture, HasCall
<1>6. MapsAgreeIn(h)
  <2>1. \A d \in Chains : d \in h.states <=> h.callMap[d] # {}
    BY <1>1, <1>2 DEF Consistent, MapsAgreeIn
  <2>2. \A d \in Chains : \A q \in h.callMap[d] :
           ChainKey(q) = d /\ h.callsById[CallKey(q)] = q
    <3> SUFFICES ASSUME NEW d \in Chains, NEW q \in h.callMap[d]
                 PROVE  ChainKey(q) = d /\ h.callsById[CallKey(q)] = q
      OBVIOUS
    <3>1. CASE q \in Q /\ ChainKey(q) = d
      BY <1>1, <1>2, <1>3, <3>1
    <3>2. CASE q \in g.callMap[d]
      <4>1. ChainKey(q) = d /\ g.callsById[CallKey(q)] = q /\ q \in Requests
        BY <1>0, <3>2 DEF Consistent, MapsAgreeIn, RegistryType
      <4>2. \A r \in Q : CallKey(r) # CallKey(q)
        BY <1>5, <4>1, RequestsAssumption
      <4> QED
        BY <1>1, <4>1, <4>2, KeysTyped
    <3> QED
      BY <1>1, <3>1, <3>2
  <2>3. \A j \in CallKeys : h.callsById[j] # NoRequest =>
           /\ CallKey(h.callsById[j]) = j
           /\ h.callsById[j] \in h.callMap[ChainKey(h.callsById[j])]
    <3> SUFFICES ASSUME NEW j \in CallKeys, h.callsById[j] # NoRequest
                 PROVE  /\ CallKey(h.callsById[j]) = j
                        /\ h.callsById[j] \in h.callMap[ChainKey(h.callsById[j])]
      OBVIOUS
    <3>1. CASE \E r \in Q : CallKey(r) = j
      BY <1>1, <1>2, <1>a, <3>1
    <3>2. CASE ~ \E r \in Q : CallKey(r) = j
      <4> DEFINE q == g.callsById[j]
      <4>1. h.callsById[j] = q
        BY <1>1, <3>2
      <4>2. q \in Requests /\ CallKey(q) = j /\ q \in g.callMap[ChainKey(q)]
        BY <1>0, <4>1 DEF Consistent, MapsAgreeIn, RegistryType
      <4> QED
        BY <1>1, <4>1, <4>2, KeysTyped
    <3> QED
      BY <3>1, <3>2
  <2> QED
    BY <2>1, <2>2, <2>3 DEF MapsAgreeIn
<1>7. OwnedIn(h)
  BY <1>1 DEF Consistent, OwnedIn
<1>8. UnansweredIn(h, Chains)
  BY <1>1 DEF Consistent, UnansweredIn
<1>9. Consistent(h)
  BY <1>4, <1>6, <1>7, <1>8 DEF Consistent
<1> QED
  BY <1>1, <1>9 DEF TakenFrom, h

\* The flags of calls and the listeners of states.
LEMMA FlagFields ==
    ASSUME NEW g, Consistent(g)
    PROVE  /\ \A r \in Requests :
                LET h == MarkedSurfaced(g, r)
                IN  /\ Consistent(h) /\ h.callMap = g.callMap /\ h.answer = g.answer
                    /\ h.surfaced = g.surfaced \cup {r}
           /\ \A Q \in SUBSET Requests, c \in g.states, s \in Signals, A \in SUBSET Signals :
                LET h == Recorded(Bound(g, c, s, A), Q)
                IN  /\ Consistent(h) /\ h.callMap = g.callMap /\ h.answer = g.answer
                    /\ h.surfaced = g.surfaced /\ h.states = g.states
<1>1. g \in RegistryType
  BY DEF Consistent
<1>2. ASSUME NEW r \in Requests
      PROVE  LET h == MarkedSurfaced(g, r)
             IN  /\ Consistent(h) /\ h.callMap = g.callMap /\ h.answer = g.answer
                 /\ h.surfaced = g.surfaced \cup {r}
  <2>1. Consistent(MarkedSurfaced(g, r))
    BY FlagsConsistent
  <2> QED
    BY <1>1, <2>1 DEF MarkedSurfaced, RegistryType
<1>3. ASSUME NEW Q \in SUBSET Requests, NEW c \in g.states, NEW s \in Signals,
             NEW A \in SUBSET Signals
      PROVE  LET h == Recorded(Bound(g, c, s, A), Q)
             IN  /\ Consistent(h) /\ h.callMap = g.callMap /\ h.answer = g.answer
                 /\ h.surfaced = g.surfaced /\ h.states = g.states
  <2> DEFINE b == Bound(g, c, s, A)
  <2>1. Consistent(b)
    BY FlagsConsistent
  <2>2. /\ b.callMap = g.callMap /\ b.answer = g.answer
        /\ b.surfaced = g.surfaced /\ b.states = g.states
    BY <1>1 DEF Bound, RegistryType
  <2> HIDE DEF b
  <2>3. Consistent(Recorded(b, Q))
    BY <2>1, FlagsConsistent
  <2>4. b \in RegistryType
    BY <2>1 DEF Consistent
  <2>5. /\ Recorded(b, Q).callMap = b.callMap /\ Recorded(b, Q).answer = b.answer
        /\ Recorded(b, Q).surfaced = b.surfaced /\ Recorded(b, Q).states = b.states
    BY <2>4 DEF Recorded, RegistryType
  <2> QED
    BY <2>2, <2>3, <2>5 DEF b
<1> QED
  BY <1>2, <1>3

===============================================================================
