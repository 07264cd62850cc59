----------------------- MODULE AppServerTransportProofs -----------------------
(***************************************************************************)
(* Proofs about AppServerTransport: for any number of generate calls, turns *)
(* and tool calls, the calls the App Server makes are never lost, a turn    *)
(* that sleeps owes no call, nothing is answered for a turn that ended, and *)
(* the turns keep TurnContract.                                             *)
(*                                                                          *)
(* The inductive invariant IInv has two parts.  Core says of each turn by   *)
(* itself (Shape), together with its calls in the registry (Owes), and of   *)
(* each call (Placed) where it is; Outer is about the calls of generate,    *)
(* the signals and the memory of failed calls.  One lemma per action shows  *)
(* that the action is Kept: Core holds after it and its step is one the     *)
(* contract allows.  From Kept a second lemma per action shows that Outer   *)
(* holds after it.  The registry enters only through the lemmas of          *)
(* ToolRegistryProofs: an operation ends calls (EndedFrom), takes calls     *)
(* (TakenFrom) or does neither.                                             *)
(***************************************************************************)
EXTENDS AppServerTransport, FiniteSetTheorems, SequenceTheorems, WellFoundedInduction, TLAPS

P == INSTANCE ToolRegistryProofs WITH
        Requests <- ToolCalls, Leases <- Gens, Turns <- Gens, Signals <- Gens,
        NoRequest <- NoCall, NoSignal <- NoGen

-------------------------------------------------------------------------------
(* The registry *)

LEMMA RegistryAssumption == P!RequestsAssumption
  BY TransportAssumption DEF P!RequestsAssumption

\* The two instances of the registry are the same.
LEMMA SameRegistry ==
    /\ R!RegistryType = P!RegistryType /\ R!Chains = P!Chains
    /\ R!EmptyRegistry = P!EmptyRegistry
    /\ \A g : R!Registered(g) = P!Registered(g)
    /\ \A g, c : R!Unsurfaced(g, c) = P!Unsurfaced(g, c)
    /\ \A g, c : R!IsReady(g, c) = P!IsReady(g, c)
    /\ \A g, Q, o : R!Settle(g, Q, o) = P!Settle(g, Q, o)
    /\ \A g, c : R!CanCapture(g, c) = P!CanCapture(g, c)
    /\ \A g, c : R!Captured(g, c) = P!Captured(g, c)
    /\ \A g, Q : R!CapturedAll(g, Q) = P!CapturedAll(g, Q)
    /\ \A g, c : R!MarkedSurfaced(g, c) = P!MarkedSurfaced(g, c)
    /\ \A g, Q : R!Recorded(g, Q) = P!Recorded(g, Q)
    /\ \A g, c, s, A : R!Bound(g, c, s, A) = P!Bound(g, c, s, A)
    /\ \A g, c : R!Removed(g, c) = P!Removed(g, c)
    /\ \A g, c : R!Terminated(g, c) = P!Terminated(g, c)
    /\ \A g, C : R!TerminatedAll(g, C) = P!TerminatedAll(g, C)
    /\ \A g, c : R!RespondIfReady(g, c) = P!RespondIfReady(g, c)
<1>1. /\ R!Chains = P!Chains /\ R!CallKeys = P!CallKeys /\ R!Answers = P!Answers
      /\ \A r : R!ChainKey(r) = P!ChainKey(r) /\ R!CallKey(r) = P!CallKey(r)
  BY DEF R!Chains, P!Chains, R!CallKeys, P!CallKeys, R!Answers, P!Answers, R!ChainKey,
         P!ChainKey, R!CallKey, P!CallKey
<1>2. R!RegistryType = P!RegistryType /\ R!EmptyRegistry = P!EmptyRegistry
  BY <1>1 DEF R!RegistryType, P!RegistryType, R!EmptyRegistry, P!EmptyRegistry
<1>3. /\ \A g : R!Registered(g) = P!Registered(g)
      /\ \A g, c : R!Unsurfaced(g, c) = P!Unsurfaced(g, c)
      /\ \A g, c : R!IsReady(g, c) = P!IsReady(g, c)
      /\ \A g, c : R!CanCapture(g, c) = P!CanCapture(g, c)
  BY <1>1 DEF R!Registered, P!Registered, R!Unsurfaced, P!Unsurfaced, R!IsReady, P!IsReady,
              R!CanCapture, P!CanCapture, R!HasCall, P!HasCall
<1>4. /\ \A g, Q, o : R!Settle(g, Q, o) = P!Settle(g, Q, o)
      /\ \A g, c : R!MarkedSurfaced(g, c) = P!MarkedSurfaced(g, c)
      /\ \A g, Q : R!Recorded(g, Q) = P!Recorded(g, Q)
      /\ \A g, c, s, A : R!Bound(g, c, s, A) = P!Bound(g, c, s, A)
  BY DEF R!Settle, P!Settle, R!MarkedSurfaced, P!MarkedSurfaced, R!Recorded, P!Recorded,
         R!Bound, P!Bound
<1>5. \A g, c : R!Captured(g, c) = P!Captured(g, c)
  BY <1>1 DEF R!Captured, P!Captured
<1>6. \A g, Q : R!CapturedAll(g, Q) = P!CapturedAll(g, Q)
  <2> SUFFICES ASSUME NEW g, NEW Q PROVE R!CapturedAll(g, Q) = P!CapturedAll(g, Q)
    OBVIOUS
  <2>1. R!CapturedAll(g, Q) = P!CapturedAll(g, Q)
    BY ZenonT(60) DEF R!CapturedAll, P!CapturedAll, R!Chains, P!Chains, R!CallKeys, P!CallKeys,
         R!ChainKey, P!ChainKey, R!CallKey, P!CallKey
  <2> QED
    BY <2>1
<1>7. \A g, c : R!Removed(g, c) = P!Removed(g, c)
  <2> SUFFICES ASSUME NEW g, NEW c PROVE R!Removed(g, c) = P!Removed(g, c)
    OBVIOUS
  <2>1. R!Removed(g, c) = P!Removed(g, c)
    BY <1>1, Zenon DEF R!Removed, P!Removed, R!CallKeys, P!CallKeys, R!CallKey, P!CallKey
  <2> QED
    BY <2>1
<1>8. \A g, c : R!Terminated(g, c) = P!Terminated(g, c)
  BY <1>4, <1>7 DEF R!Terminated, P!Terminated
<1>9. \A g, C : R!TerminatedAll(g, C) = P!TerminatedAll(g, C)
  <2> SUFFICES ASSUME NEW g, NEW C PROVE R!TerminatedAll(g, C) = P!TerminatedAll(g, C)
    OBVIOUS
  <2> QED
    BY <1>1, <1>4, ZenonT(60) DEF R!TerminatedAll, P!TerminatedAll
<1>10. \A g, c : R!RespondIfReady(g, c) = P!RespondIfReady(g, c)
  BY <1>3, <1>4, <1>7 DEF R!RespondIfReady, P!RespondIfReady
<1> QED
  BY <1>1, <1>2, <1>3, <1>4, <1>5, <1>6, <1>7, <1>8, <1>9, <1>10

-------------------------------------------------------------------------------
(* Numbers *)

LEMMA LeastNat ==
    ASSUME NEW T \in SUBSET Nat, T # {}
    PROVE  Min(T) \in T
<1>1. IsWellFoundedOn(OpToRel(<, Nat), Nat)
  BY NatLessThanWellFounded
<1>2. PICK n \in T : \A m \in T : <<m, n>> \notin OpToRel(<, Nat)
  BY <1>1, WFMin
<1>3. \A m \in T : ~ (m < n)
  BY <1>2 DEF OpToRel
<1>4. \A m \in T : n =< m
  BY <1>3
<1> QED
  BY <1>4 DEF Min

-------------------------------------------------------------------------------
(* Turn records *)

TurnRecord ==
    [ phase : {"none", "lease", "thread", "starting", "returned", "live"},
      lease : {"none", "held", "released"},
      reader : Gens \cup {NoGen},
      stage : {"none", "waiting", "got", "surfacing", "rejected"},
      item : {"none", "text", "tool", "completed"},
      todo : SUBSET ToolCalls,
      queue : Seq({"text", "tool", "completed"}),
      notes : 0..MaxNotes,
      callIds : SUBSET ToolCalls,
      preNotes : Seq(Notes),
      preCalls : Seq(ToolCalls),
      signal : Gens \cup {NoGen},
      terminal : BOOLEAN,
      failure : Errors \cup {"none"},
      cleaned : BOOLEAN,
      keepAlive : BOOLEAN,
      cleanup : {"none", "interrupt", "unsubscribe", "done"},
      doomed : Errors \cup {"none"} ]

\* What holds of the record of turn t by itself.
Shape(t, T) ==
    /\ T.phase \notin {"returned", "live"} =>
         /\ T.reader = NoGen /\ T.callIds = {} /\ T.signal = NoGen
         /\ T.doomed = "none" /\ T.queue = <<>>
    /\ T.phase = "returned" => T.stage = "none" /\ (~ T.cleaned => T.signal = t)
    /\ T.preCalls # <<>> => T.phase = "starting" /\ ~ T.cleaned
    /\ \A c \in ToSet(T.preCalls) \cup T.callIds \cup T.todo : c.lease = t
    /\ T.cleaned => T.doomed = "none"
    /\ T.reader = NoGen <=> T.stage = "none"
    /\ T.reader # NoGen /\ ~ T.cleaned => T.reader = T.signal
    /\ T.stage = "waiting" => ~ T.cleaned
    /\ "completed" \in ToSet(T.queue) => T.terminal
    /\ T.stage = "got" /\ T.item = "completed" => T.terminal

\* What holds of it together with its calls O in the registry, of which those in F
\* have been shown.
Owes(T, O, F) ==
    /\ O \subseteq T.callIds
    /\ T.cleaned \/ T.doomed # "none" => O = {}
    /\ T.stage = "waiting" => O = {}
    /\ T.stage = "got" \/ T.phase = "returned" => O \cap F = {}
    /\ T.stage = "got" /\ T.item = "completed" => O = {}
    /\ T.stage = "surfacing" /\ ~ T.cleaned /\ T.doomed = "none" => O # {}

\* A field takes another value of its set.
LEMMA Updates ==
    ASSUME NEW T \in TurnRecord
    PROVE  /\ \A v \in {"none", "lease", "thread", "starting", "returned", "live"} :
                   [T EXCEPT !.phase = v] \in TurnRecord
           /\ \A v \in {"none", "held", "released"} : [T EXCEPT !.lease = v] \in TurnRecord
           /\ \A v \in Gens \cup {NoGen} : [T EXCEPT !.reader = v] \in TurnRecord
           /\ \A v \in {"none", "waiting", "got", "surfacing", "rejected"} :
                   [T EXCEPT !.stage = v] \in TurnRecord
           /\ \A v \in {"none", "text", "tool", "completed"} : [T EXCEPT !.item = v] \in TurnRecord
           /\ \A v \in SUBSET ToolCalls : [T EXCEPT !.todo = v] \in TurnRecord
           /\ \A v \in Seq({"text", "tool", "completed"}) : [T EXCEPT !.queue = v] \in TurnRecord
           /\ \A v \in 0..MaxNotes : [T EXCEPT !.notes = v] \in TurnRecord
           /\ \A v \in SUBSET ToolCalls : [T EXCEPT !.callIds = v] \in TurnRecord
           /\ \A v \in Seq(Notes) : [T EXCEPT !.preNotes = v] \in TurnRecord
           /\ \A v \in Seq(ToolCalls) : [T EXCEPT !.preCalls = v] \in TurnRecord
           /\ \A v \in Gens \cup {NoGen} : [T EXCEPT !.signal = v] \in TurnRecord
           /\ \A v \in BOOLEAN : [T EXCEPT !.terminal = v] \in TurnRecord
           /\ \A v \in Errors \cup {"none"} : [T EXCEPT !.failure = v] \in TurnRecord
           /\ \A v \in BOOLEAN : [T EXCEPT !.cleaned = v] \in TurnRecord
           /\ \A v \in BOOLEAN : [T EXCEPT !.keepAlive = v] \in TurnRecord
           /\ \A v \in {"none", "interrupt", "unsubscribe", "done"} :
                   [T EXCEPT !.cleanup = v] \in TurnRecord
           /\ \A v \in Errors \cup {"none"} : [T EXCEPT !.doomed = v] \in TurnRecord
<1>1. \A v \in {"none", "lease", "thread", "starting", "returned", "live"} :
           [T EXCEPT !.phase = v] \in TurnRecord
  BY DEF TurnRecord
<1>2. \A v \in {"none", "held", "released"} : [T EXCEPT !.lease = v] \in TurnRecord
  BY DEF TurnRecord
<1>3. \A v \in Gens \cup {NoGen} : [T EXCEPT !.reader = v] \in TurnRecord
  BY DEF TurnRecord
<1>4. \A v \in {"none", "waiting", "got", "surfacing", "rejected"} :
           [T EXCEPT !.stage = v] \in TurnRecord
  BY DEF TurnRecord
<1>5. \A v \in {"none", "text", "tool", "completed"} : [T EXCEPT !.item = v] \in TurnRecord
  BY DEF TurnRecord
<1>6. \A v \in SUBSET ToolCalls : [T EXCEPT !.todo = v] \in TurnRecord
  BY DEF TurnRecord
<1>7. \A v \in Seq({"text", "tool", "completed"}) : [T EXCEPT !.queue = v] \in TurnRecord
  BY DEF TurnRecord
<1>8. \A v \in 0..MaxNotes : [T EXCEPT !.notes = v] \in TurnRecord
  BY DEF TurnRecord
<1>9. \A v \in SUBSET ToolCalls : [T EXCEPT !.callIds = v] \in TurnRecord
  BY DEF TurnRecord
<1>10. \A v \in Seq(Notes) : [T EXCEPT !.preNotes = v] \in TurnRecord
  BY DEF TurnRecord
<1>11. \A v \in Seq(ToolCalls) : [T EXCEPT !.preCalls = v] \in TurnRecord
  BY DEF TurnRecord
<1>12. \A v \in Gens \cup {NoGen} : [T EXCEPT !.signal = v] \in TurnRecord
  BY DEF TurnRecord
<1>13. \A v \in BOOLEAN : [T EXCEPT !.terminal = v] \in TurnRecord
  BY DEF TurnRecord
<1>14. \A v \in Errors \cup {"none"} : [T EXCEPT !.failure = v] \in TurnRecord
  BY DEF TurnRecord
<1>15. \A v \in BOOLEAN : [T EXCEPT !.cleaned = v] \in TurnRecord
  BY DEF TurnRecord
<1>16. \A v \in BOOLEAN : [T EXCEPT !.keepAlive = v] \in TurnRecord
  BY DEF TurnRecord
<1>17. \A v \in {"none", "interrupt", "unsubscribe", "done"} :
            [T EXCEPT !.cleanup = v] \in TurnRecord
  BY DEF TurnRecord
<1>18. \A v \in Errors \cup {"none"} : [T EXCEPT !.doomed = v] \in TurnRecord
  BY DEF TurnRecord
<1> QED
  BY <1>1, <1>2, <1>3, <1>4, <1>5, <1>6, <1>7, <1>8, <1>9,
     <1>10, <1>11, <1>12, <1>13, <1>14, <1>15, <1>16, <1>17, <1>18

\* A terminated turn keeps only what its reader needs.
LEMMA TerminateFields ==
    ASSUME NEW T \in TurnRecord, NEW error \in Errors \cup {"none"}, NEW interrupt \in BOOLEAN,
           ~ T.cleaned
    PROVE  LET U == Terminate(T, error, interrupt)
           IN  /\ U \in TurnRecord
               /\ U.cleaned /\ U.terminal /\ U.failure = error
               /\ U.queue = IF error = "none" THEN T.queue ELSE <<>>
               /\ U.stage = IF T.stage = "waiting" THEN "rejected" ELSE T.stage
               /\ U.signal = NoGen /\ U.preCalls = <<>> /\ U.doomed = "none"
               /\ U.phase = T.phase /\ U.reader = T.reader /\ U.item = T.item
               /\ U.todo = T.todo /\ U.callIds = T.callIds
<1> DEFINE C == IF interrupt /\ T.phase \in {"returned", "live"}
                THEN "interrupt" ELSE "unsubscribe"
           Q == IF error = "none" THEN T.queue ELSE <<>>
           S == IF T.stage = "waiting" THEN "rejected" ELSE T.stage
           U == Terminate(T, error, interrupt)
<1>1. U = [T EXCEPT
            !.cleaned = TRUE, !.terminal = TRUE, !.failure = error,
            !.queue = Q, !.stage = S,
            !.signal = NoGen, !.preNotes = <<>>, !.preCalls = <<>>, !.doomed = "none",
            !.cleanup = C]
  BY DEF Terminate, TurnRecord
<1>2. /\ C \in {"none", "interrupt", "unsubscribe", "done"}
      /\ Q \in Seq({"text", "tool", "completed"})
      /\ S \in {"none", "waiting", "got", "surfacing", "rejected"}
  BY DEF TurnRecord
<1> HIDE DEF C, Q, S, U
<1>3. /\ <<>> \in Seq(Notes) /\ <<>> \in Seq(ToolCalls) /\ TRUE \in BOOLEAN
      /\ NoGen \in Gens \cup {NoGen} /\ "none" \in Errors \cup {"none"}
  OBVIOUS
<1> DEFINE A == [T EXCEPT !.cleaned = TRUE, !.terminal = TRUE, !.failure = error, !.queue = Q]
           B == [A EXCEPT !.stage = S, !.signal = NoGen, !.preNotes = <<>>]
           D == [B EXCEPT !.preCalls = <<>>, !.doomed = "none", !.cleanup = C]
<1>4. U = D
  BY <1>1
<1>5. A \in TurnRecord
  BY <1>2, <1>3, Updates, Zenon
<1> HIDE DEF A
<1>6. B \in TurnRecord
  BY <1>2, <1>3, <1>5, Updates, Zenon
<1> HIDE DEF B
<1>7. D \in TurnRecord
  BY <1>2, <1>3, <1>6, Updates, Zenon
<1>9. U \in TurnRecord
  BY <1>4, <1>7
<1>10. /\ U.cleaned /\ U.terminal /\ U.failure = error
      /\ U.queue = Q /\ U.stage = S
      /\ U.signal = NoGen /\ U.preCalls = <<>> /\ U.doomed = "none"
      /\ U.phase = T.phase /\ U.reader = T.reader /\ U.item = T.item
      /\ U.todo = T.todo /\ U.callIds = T.callIds
  BY <1>1 DEF TurnRecord
<1> QED
  BY <1>9, <1>10 DEF U, Q, S

LEMMA TerminateShape ==
    ASSUME NEW t, NEW T \in TurnRecord, NEW error \in Errors \cup {"none"},
           NEW interrupt \in BOOLEAN, Shape(t, T)
    PROVE  LET U == Terminate(T, error, interrupt)
           IN  /\ U \in TurnRecord /\ Shape(t, U)
               /\ U.cleaned /\ U.preCalls = <<>> /\ U.phase = T.phase
               /\ U.reader = T.reader
<1> DEFINE U == Terminate(T, error, interrupt)
<1>1. CASE T.cleaned
  <2>1. U = T
    BY <1>1 DEF Terminate
  <2> HIDE DEF U
  <2> QED
    BY <1>1, <2>1 DEF Shape, U
<1>2. CASE ~ T.cleaned
  <2>1. /\ U \in TurnRecord
        /\ U.cleaned /\ U.terminal /\ U.failure = error
        /\ U.queue = IF error = "none" THEN T.queue ELSE <<>>
        /\ U.stage = IF T.stage = "waiting" THEN "rejected" ELSE T.stage
        /\ U.signal = NoGen /\ U.preCalls = <<>> /\ U.doomed = "none"
        /\ U.phase = T.phase /\ U.reader = T.reader /\ U.item = T.item
        /\ U.todo = T.todo /\ U.callIds = T.callIds
    BY <1>2, TerminateFields
  <2> HIDE DEF U
  <2>2. ToSet(U.preCalls) = {}
    BY <2>1 DEF ToSet
  <2>3. Shape(t, U)
    BY <2>1, <2>2 DEF Shape
  <2> QED
    BY <2>1, <2>3 DEF U
<1> QED
  BY <1>1, <1>2

-------------------------------------------------------------------------------
(* The turns and the registry together *)

Own(t) == reg.callMap[Chain(t)]
Buffered(t) == ToSet(turn[t].preCalls)

\* A tool request that arrived is answered or it waits, in the registry or in the
\* buffer of its turn; only one that arrived and left the buffer was ever shown.
Placed(c) ==
    /\ c \in Own(c.lease) \cup Buffered(c.lease) <=> c \in arrived /\ reg.answer[c] = "none"
    /\ c \in reg.surfaced => c \in arrived \ Buffered(c.lease)
    /\ c \notin arrived => reg.answer[c] = "none"

Core ==
    /\ turn \in [Gens -> TurnRecord]
    /\ P!Consistent(reg)
    /\ arrived \subseteq ToolCalls
    /\ \A t \in Gens : Shape(t, turn[t]) /\ Owes(turn[t], Own(t), reg.surfaced)
    /\ \A c \in ToolCalls : Placed(c)

LEMMA ChainTyped ==
    /\ \A t \in Gens : Chain(t) \in P!Chains
    /\ \A t \in Gens, u \in Gens : Chain(t) = Chain(u) => t = u
    /\ \A c \in ToolCalls : c.lease \in Gens /\ Chain(c.lease) = P!ChainKey(c)
<1>1. \A t \in Gens : Chain(t) \in P!Chains
  BY DEF Chain, P!Chains
<1>2. \A t : Chain(t).lease = t
  BY DEF Chain
<1>3. \A c \in ToolCalls : c.lease \in Gens /\ Chain(c.lease) = P!ChainKey(c)
  BY TransportAssumption DEF Chain, P!ChainKey
<1> QED
  BY <1>1, <1>2, <1>3

\* The calls of a consistent registry are where their lease and turn say.
LEMMA ChainFacts ==
    ASSUME NEW g, P!Consistent(g), NEW d \in P!Chains
    PROVE  /\ g.callMap[d] \subseteq ToolCalls
           /\ \A c \in g.callMap[d] : d = Chain(c.lease) /\ g.answer[c] = "none"
           /\ d \in g.states <=> g.callMap[d] # {}
<1>1. g.callMap[d] \subseteq ToolCalls
  BY DEF P!Consistent, P!RegistryType
<1>2. \A c \in g.callMap[d] : d = P!ChainKey(c) /\ g.answer[c] = "none"
  BY DEF P!Consistent, P!MapsAgreeIn, P!UnansweredIn
<1>3. d \in g.states <=> g.callMap[d] # {}
  BY DEF P!Consistent, P!MapsAgreeIn
<1> QED
  BY <1>1, <1>2, <1>3, ChainTyped

\* The same of the registry as it is.
LEMMA OwnFacts ==
    ASSUME Core, NEW t \in Gens
    PROVE  /\ \A c \in Own(t) : c \in ToolCalls /\ c.lease = t /\ reg.answer[c] = "none"
           /\ Chain(t) \in reg.states <=> Own(t) # {}
<1>1. P!Consistent(reg) /\ Chain(t) \in P!Chains
  BY ChainTyped DEF Core
<1>2. /\ Own(t) \subseteq ToolCalls
      /\ \A c \in Own(t) : Chain(t) = Chain(c.lease) /\ reg.answer[c] = "none"
      /\ Chain(t) \in reg.states <=> Own(t) # {}
  BY <1>1, ChainFacts DEF Own
<1> QED
  BY <1>2, ChainTyped

LEMMA RegisteredFacts ==
    ASSUME Core, NEW c \in ToolCalls
    PROVE  c \in P!Registered(reg) <=> c \in Own(c.lease)
<1>1. P!Consistent(reg) /\ Chain(c.lease) = P!ChainKey(c)
  BY ChainTyped DEF Core
<1> QED
  BY <1>1, RegistryAssumption, P!RegisteredOwned DEF Own

\* The phase of the contract, from the record alone.
PhaseOf(T) ==
    IF T.cleaned \/ T.doomed # "none" THEN "ended" ELSE
    CASE T.phase \notin {"returned", "live"} -> "none"
      [] T.phase = "live" /\ T.reader = NoGen -> "waiting"
      [] OTHER -> "running"

LEMMA EndedPhase ==
    ASSUME NEW T, T.cleaned \/ T.doomed # "none"
    PROVE  PhaseOf(T) = "ended"
  BY DEF PhaseOf

\* What the contract allows turn t in a step, in the terms of this module.
Allowed(t) ==
    LET p == PhaseOf(turn[t])
        q == PhaseOf(turn'[t])
        same == \A c \in Own(t) : reg'.answer[c] = reg.answer[c]
    IN  \/ /\ q = p /\ same
           /\ IF p \in {"running", "waiting"} THEN Own(t) \subseteq Own(t)' ELSE Own(t)' = Own(t)
        \/ p = "none" /\ q = "running"
        \/ p = "running" /\ q = "waiting" /\ Own(t)' = Own(t) /\ Own(t) # {} /\ same
        \/ p = "waiting" /\ q = "running" /\ Own(t)' = Own(t) /\ same
        \/ /\ p \in {"running", "waiting"} /\ q = "running" /\ Own(t)' = {}
           /\ \A c \in Own(t) : reg'.answer[c] = "responded"
        \/ /\ p # "ended" /\ q = "ended" /\ Own(t)' = {}
           /\ \A c \in Own(t) : reg'.answer[c] = "rejected"

\* What a step may do to the answer of call c, whoever owes it.
AnswerAllowed(c) ==
    /\ \/ c \in Own(c.lease)
       \/ reg'.answer[c] = reg.answer[c]
       \/ reg.answer[c] = "none" /\ reg'.answer[c] = "rejected"
    /\ reg.answer[c] # "responded" /\ reg'.answer[c] = "responded"
       => /\ InStates(c.lease) /\ ~ turn'[c.lease].cleaned
          /\ turn'[c.lease].reader \in Gens \ aborted

\* A step that keeps the core and every promise of the transport.
Kept ==
    /\ Core'
    /\ \A t \in Gens : Allowed(t)
    /\ \A c \in ToolCalls : AnswerAllowed(c)

\* A step that concerns one turn.
LEMMA OneTurnStep ==
    ASSUME Core, NEW t \in Gens, NEW U \in TurnRecord,
           turn' = [turn EXCEPT ![t] = U],
           P!Consistent(reg'), arrived' \subseteq ToolCalls,
           Shape(t, U), Owes(U, Own(t)', reg'.surfaced),
           \A u \in Gens \ {t} : Own(u)' = Own(u),
           \A c \in ToolCalls : c.lease # t =>
                /\ reg'.answer[c] = reg.answer[c]
                /\ c \in arrived' <=> c \in arrived
                /\ c \in reg'.surfaced => c \in reg.surfaced,
           \A c \in ToolCalls : c.lease = t => Placed(c)' /\ AnswerAllowed(c),
           Allowed(t)
    PROVE  Kept
<1>1. turn' \in [Gens -> TurnRecord] /\ turn'[t] = U /\ \A u \in Gens \ {t} : turn'[u] = turn[u]
  BY DEF Core
<1>2. ASSUME NEW u \in Gens
      PROVE  Shape(u, turn'[u]) /\ Owes(turn'[u], Own(u)', reg'.surfaced)
  <2>1. CASE u = t
    BY <1>1, <2>1
  <2>2. CASE u # t
    <3>1. Shape(u, turn[u]) /\ Owes(turn[u], Own(u), reg.surfaced)
      BY DEF Core
    <3>2. Own(u) \cap reg'.surfaced \subseteq reg.surfaced
      BY <2>2, OwnFacts
    <3>3. Owes(turn[u], Own(u), reg'.surfaced)
      BY <3>1, <3>2 DEF Owes
    <3> QED
      BY <1>1, <2>2, <3>1, <3>3
  <2> QED
    BY <2>1, <2>2
<1>3. ASSUME NEW c \in ToolCalls
      PROVE  Placed(c)' /\ AnswerAllowed(c)
  <2>1. CASE c.lease # t
    <3>1. c.lease \in Gens /\ Placed(c)
      <4>1. c.lease \in Gens
        BY ChainTyped
      <4>2. Placed(c)
        BY DEF Core
      <4> QED
        BY <4>1, <4>2
    <3>2. Own(c.lease)' = Own(c.lease) /\ Buffered(c.lease)' = Buffered(c.lease)
      BY <1>1, <2>1, <3>1 DEF Buffered
    <3> QED
      BY <2>1, <3>1, <3>2 DEF Placed, AnswerAllowed
  <2> QED
    BY <2>1
<1>4. ASSUME NEW u \in Gens
      PROVE  Allowed(u)
  <2>1. CASE u # t
    <3>1. \A c \in Own(u) : reg'.answer[c] = reg.answer[c]
      BY <2>1, OwnFacts
    <3> QED
      BY <1>1, <2>1, <3>1 DEF Allowed
  <2> QED
    BY <2>1
<1> QED
  BY <1>1, <1>2, <1>3, <1>4 DEF Kept, Core

\* A turn that has calls in the registry is known and has no buffer any more.
LEMMA OwnerKnown ==
    ASSUME Core, NEW t \in Gens, Own(t) # {}
    PROVE  /\ turn[t].phase \in {"returned", "live"} /\ ~ turn[t].cleaned
           /\ turn[t].doomed = "none" /\ turn[t].stage # "waiting" /\ Buffered(t) = {}
           /\ PhaseOf(turn[t]) \in {"running", "waiting"} /\ InStates(t)
<1>1. Shape(t, turn[t]) /\ Owes(turn[t], Own(t), reg.surfaced)
  BY DEF Core
<1>2. turn[t].phase \in {"returned", "live"} /\ ~ turn[t].cleaned
  BY <1>1 DEF Shape, Owes
<1>3. turn[t].doomed = "none" /\ turn[t].stage # "waiting"
  BY <1>1 DEF Owes
<1>4. turn[t].preCalls = <<>>
  BY <1>1, <1>2 DEF Shape
<1> QED
  BY <1>2, <1>3, <1>4 DEF PhaseOf, Buffered, ToSet, InStates, Known

\* A step that concerns the record of one turn and the flags of its calls.
LEMMA FlagStep ==
    ASSUME Core, NEW t \in Gens, NEW U \in TurnRecord,
           turn' = [turn EXCEPT ![t] = U], P!Consistent(reg'), arrived' = arrived,
           reg'.callMap = reg.callMap, reg'.answer = reg.answer,
           reg'.surfaced \subseteq reg.surfaced \cup Own(t),
           U.preCalls = turn[t].preCalls,
           Shape(t, U), Owes(U, Own(t), reg'.surfaced),
           \/ PhaseOf(U) = PhaseOf(turn[t])
           \/ PhaseOf(turn[t]) = "running" /\ PhaseOf(U) = "waiting" /\ Own(t) # {}
           \/ PhaseOf(turn[t]) = "waiting" /\ PhaseOf(U) = "running"
           \/ PhaseOf(turn[t]) # "ended" /\ PhaseOf(U) = "ended" /\ Own(t) = {}
    PROVE  Kept
<1>1. turn'[t] = U
  BY DEF Core
<1>2. \A u \in Gens : Own(u)' = Own(u)
  BY DEF Own
<1>3. Buffered(t)' = Buffered(t)
  BY <1>1 DEF Buffered
<1>4. ASSUME NEW c \in ToolCalls, c.lease = t
      PROVE  Placed(c)' /\ AnswerAllowed(c)
  <2>1. Placed(c)
    BY DEF Core
  <2>2. c \in Own(t) => c \in arrived \ Buffered(t)
    BY <1>4, <2>1, OwnerKnown DEF Placed
  <2> QED
    BY <1>2, <1>3, <1>4, <2>1, <2>2 DEF Placed, AnswerAllowed
<1>5. Allowed(t)
  BY <1>1, <1>2 DEF Allowed
<1>6. \A c \in ToolCalls : c.lease # t => (c \in reg'.surfaced => c \in reg.surfaced)
  BY OwnFacts
<1>7. arrived' \subseteq ToolCalls
  BY DEF Core
<1>8. Owes(U, Own(t)', reg'.surfaced)
  BY <1>2
<1> QED
  BY <1>2, <1>4, <1>5, <1>6, <1>7, <1>8, OneTurnStep

\* A step in which the turns of S end, whatever ends them.
LEMMA EndingStep ==
    ASSUME Core, NEW S \in SUBSET Gens, turn' \in [Gens -> TurnRecord], arrived' = arrived,
           \A u \in Gens \ S : turn'[u] = turn[u],
           \A u \in S : /\ Shape(u, turn'[u]) /\ turn'[u].preCalls = <<>>
                        /\ turn'[u].cleaned \/ turn'[u].doomed # "none",
           P!EndedFrom(reg, reg', {Chain(u) : u \in S}, UNION {Buffered(u) : u \in S}, "rejected")
    PROVE  Kept
<1> DEFINE C == {Chain(u) : u \in S}
           B == UNION {Buffered(u) : u \in S}
<1>1. /\ P!Consistent(reg')
      /\ \A d \in P!Chains : reg'.callMap[d] = IF d \in C THEN {} ELSE reg.callMap[d]
      /\ reg'.surfaced \subseteq reg.surfaced
      /\ \A c \in ToolCalls :
           reg'.answer[c] = IF /\ reg.answer[c] = "none"
                               /\ c \in B \/ \E d \in C : c \in reg.callMap[d]
                            THEN "rejected" ELSE reg.answer[c]
  BY DEF P!EndedFrom
<1>2. \A u \in Gens : u \in S <=> Chain(u) \in C
  BY ChainTyped
<1>3. \A u \in Gens : Own(u)' = IF u \in S THEN {} ELSE Own(u)
  BY <1>1, <1>2, ChainTyped DEF Own
<1>4. \A u \in Gens : Buffered(u)' = IF u \in S THEN {} ELSE Buffered(u)
  BY DEF Buffered, ToSet
<1>5. \A u \in Gens : \A c \in Buffered(u) : c.lease = u
  BY DEF Core, Shape, Buffered
<1>6. \A c \in ToolCalls : c \in B <=> c.lease \in S /\ c \in Buffered(c.lease)
  BY <1>5
<1>7. \A c \in ToolCalls :
         (\E d \in C : c \in reg.callMap[d]) <=> c.lease \in S /\ c \in Own(c.lease)
  <2>1. \A u \in S : \A c \in reg.callMap[Chain(u)] : c.lease = u
    BY OwnFacts DEF Own
  <2> QED
    BY <2>1 DEF Own
<1> HIDE DEF C, B
<1>8. \A c \in ToolCalls :
         reg'.answer[c] = IF /\ reg.answer[c] = "none" /\ c.lease \in S
                             /\ c \in Own(c.lease) \cup Buffered(c.lease)
                          THEN "rejected" ELSE reg.answer[c]
  BY <1>1, <1>6, <1>7
<1>9. ASSUME NEW u \in Gens
      PROVE  Shape(u, turn'[u]) /\ Owes(turn'[u], Own(u)', reg'.surfaced)
  <2>1. CASE u \in S
    BY <1>3, <2>1 DEF Owes
  <2>2. CASE u \notin S
    <3>1. Shape(u, turn[u]) /\ Owes(turn[u], Own(u), reg.surfaced)
      BY DEF Core
    <3> QED
      BY <1>1, <1>3, <2>2, <3>1 DEF Owes
  <2> QED
    BY <2>1, <2>2
<1>10. ASSUME NEW c \in ToolCalls
       PROVE  Placed(c)' /\ AnswerAllowed(c)
  <2>1. Placed(c) /\ c.lease \in Gens
    BY ChainTyped DEF Core
  <2>2. Placed(c)'
    <3>1. CASE c.lease \in S
      BY <1>1, <1>3, <1>4, <1>8, <2>1, <3>1 DEF Placed
    <3>2. CASE c.lease \notin S
      BY <1>1, <1>3, <1>4, <1>8, <2>1, <3>2 DEF Placed
    <3> QED
      BY <3>1, <3>2
  <2>3. AnswerAllowed(c)
    BY <1>8 DEF AnswerAllowed
  <2> QED
    BY <2>2, <2>3
<1>11. ASSUME NEW u \in Gens
       PROVE  Allowed(u)
  <2>1. \A c \in Own(u) : c \in ToolCalls /\ c.lease = u /\ reg.answer[c] = "none"
    BY OwnFacts
  <2>2. CASE u \in S
    <3>a. Own(u)' = {}
      BY <1>3, <2>2
    <3>b. turn'[u].cleaned \/ turn'[u].doomed # "none"
      BY <2>2
    <3>1. PhaseOf(turn'[u]) = "ended" /\ Own(u)' = {}
      BY <3>a, <3>b, EndedPhase
    <3>2. \A c \in Own(u) : reg'.answer[c] = "rejected"
      BY <1>8, <2>1, <2>2
    <3>3. PhaseOf(turn[u]) = "ended" => Own(u) = {}
      BY OwnerKnown
    <3> QED
      BY <3>1, <3>2, <3>3 DEF Allowed
  <2>3. CASE u \notin S
    <3>1. turn'[u] = turn[u] /\ Own(u)' = Own(u)
      BY <1>3, <2>3
    <3>2. \A c \in Own(u) : reg'.answer[c] = reg.answer[c]
      BY <1>8, <2>1, <2>3
    <3> QED
      BY <3>1, <3>2 DEF Allowed
  <2> QED
    BY <2>2, <2>3
<1>12. arrived' \subseteq ToolCalls
  BY DEF Core
<1> QED
  BY <1>1, <1>9, <1>10, <1>11, <1>12 DEF Kept, Core

\* The calls of a turn that goes on are answered.
LEMMA RespondStep ==
    ASSUME Core, NEW t \in Gens, NEW U \in TurnRecord,
           turn' = [turn EXCEPT ![t] = U], arrived' = arrived,
           P!EndedFrom(reg, reg', {Chain(t)}, {}, "responded"),
           U.preCalls = turn[t].preCalls, InStates(t), ~ U.cleaned, U.doomed = "none",
           U.phase = "live", U.reader \in Gens \ aborted,
           PhaseOf(turn[t]) \in {"running", "waiting"},
           Shape(t, U), Owes(U, {}, reg'.surfaced)
    PROVE  Kept
<1>1. turn'[t] = U /\ Buffered(t)' = Buffered(t)
  BY DEF Core, Buffered
<1>2. /\ P!Consistent(reg')
      /\ \A d \in P!Chains : reg'.callMap[d] = IF d \in {Chain(t)} THEN {} ELSE reg.callMap[d]
      /\ reg'.surfaced \subseteq reg.surfaced
      /\ \A c \in ToolCalls :
           reg'.answer[c] = IF /\ reg.answer[c] = "none"
                               /\ c \in {} \/ \E d \in {Chain(t)} : c \in reg.callMap[d]
                            THEN "responded" ELSE reg.answer[c]
  BY DEF P!EndedFrom
<1>3. Own(t)' = {} /\ \A u \in Gens \ {t} : Own(u)' = Own(u)
  BY <1>2, ChainTyped DEF Own
<1>4. \A c \in ToolCalls :
         reg'.answer[c] = IF reg.answer[c] = "none" /\ c \in Own(t)
                          THEN "responded" ELSE reg.answer[c]
  BY <1>2 DEF Own
<1>5. \A c \in Own(t) : c \in ToolCalls /\ c.lease = t /\ reg.answer[c] = "none"
  BY OwnFacts
<1>6. ASSUME NEW c \in ToolCalls, c.lease = t
      PROVE  Placed(c)' /\ AnswerAllowed(c)
  <2>1. Placed(c)
    BY DEF Core
  <2>2. Own(t) # {} => Buffered(t) = {}
    BY OwnerKnown
  <2> QED
    BY <1>1, <1>2, <1>3, <1>4, <1>6, <2>1, <2>2 DEF Placed, AnswerAllowed
<1>7. Allowed(t)
  <2>1. PhaseOf(U) = "running"
    BY TransportAssumption DEF PhaseOf
  <2> QED
    BY <1>1, <1>3, <1>4, <1>5, <2>1 DEF Allowed
<1>8. \A c \in ToolCalls : c.lease # t =>
          /\ reg'.answer[c] = reg.answer[c]
          /\ c \in arrived' <=> c \in arrived
          /\ c \in reg'.surfaced => c \in reg.surfaced
  BY <1>2, <1>4, <1>5
<1>9. arrived' \subseteq ToolCalls
  BY DEF Core
<1>10. Owes(U, Own(t)', reg'.surfaced)
  BY <1>3
<1> QED
  BY <1>2, <1>3, <1>6, <1>7, <1>8, <1>9, <1>10, OneTurnStep

\* Calls of turn t that arrived in A, or earlier in its buffer, are captured (Q),
\* refused (X) or still buffered.
LEMMA TakeStep ==
    ASSUME Core, NEW t \in Gens, NEW U \in TurnRecord, NEW A, NEW Q, NEW X, NEW k,
           turn' = [turn EXCEPT ![t] = U],
           arrived' = arrived \cup A, A \subseteq ToolCalls \ arrived,
           \A c \in A : c.lease = t,
           P!EndedFrom(reg, k, {}, X, "rejected"), P!TakenFrom(k, reg', Q),
           Q \cup X \cup ToSet(U.preCalls) = Buffered(t) \cup A,
           X \cap (Q \cup ToSet(U.preCalls)) = {},
           Shape(t, U), Owes(U, Own(t) \cup Q, reg'.surfaced),
           \/ PhaseOf(U) = PhaseOf(turn[t]) /\ (Q = {} \/ PhaseOf(U) \in {"running", "waiting"})
           \/ PhaseOf(turn[t]) = "none" /\ PhaseOf(U) = "running"
           \/ PhaseOf(turn[t]) = "none" /\ PhaseOf(U) = "ended" /\ Own(t) \cup Q = {}
    PROVE  Kept
<1>1. turn'[t] = U /\ Buffered(t)' = ToSet(U.preCalls)
  BY DEF Core, Buffered
<1>2. /\ \A d \in P!Chains : k.callMap[d] = IF d \in {} THEN {} ELSE reg.callMap[d]
      /\ k.surfaced \subseteq reg.surfaced
      /\ \A c \in ToolCalls :
           k.answer[c] = IF /\ reg.answer[c] = "none"
                            /\ c \in X \/ \E d \in {} : c \in reg.callMap[d]
                         THEN "rejected" ELSE reg.answer[c]
  BY DEF P!EndedFrom
<1>3. /\ P!Consistent(reg')
      /\ \A d \in P!Chains : reg'.callMap[d] = k.callMap[d] \cup {r \in Q : P!ChainKey(r) = d}
      /\ reg'.surfaced = k.surfaced
      /\ reg'.answer = k.answer
  BY DEF P!TakenFrom
<1>4. Buffered(t) \subseteq ToolCalls /\ \A c \in Buffered(t) : c.lease = t
  <2>1. turn[t] \in TurnRecord /\ Shape(t, turn[t])
    BY DEF Core
  <2> QED
    BY <2>1 DEF TurnRecord, Shape, Buffered, ToSet
<1>5. Q \cup X \subseteq ToolCalls /\ \A c \in Q \cup X : c.lease = t
  BY <1>4
<1>6. \A u \in Gens : {r \in Q : P!ChainKey(r) = Chain(u)} = IF u = t THEN Q ELSE {}
  BY <1>5, ChainTyped
<1>7. Own(t)' = Own(t) \cup Q /\ \A u \in Gens \ {t} : Own(u)' = Own(u)
  <2>1. \A u \in Gens : k.callMap[Chain(u)] = reg.callMap[Chain(u)]
    BY <1>2, ChainTyped
  <2>2. \A u \in Gens : reg'.callMap[Chain(u)] =
             reg.callMap[Chain(u)] \cup IF u = t THEN Q ELSE {}
    BY <1>3, <1>6, <2>1, ChainTyped
  <2> QED
    BY <2>2, ZenonT(40) DEF Own
<1>8. \A c \in ToolCalls :
         reg'.answer[c] = IF reg.answer[c] = "none" /\ c \in X THEN "rejected" ELSE reg.answer[c]
  BY <1>2, <1>3
<1>9. Own(t) \cap X = {}
  <2>1. \A c \in Own(t) : c \in arrived /\ c \notin Buffered(t)
    BY OwnFacts, OwnerKnown DEF Core, Placed
  <2> QED
    BY <2>1
<1>10. ASSUME NEW c \in ToolCalls, c.lease = t
       PROVE  Placed(c)' /\ AnswerAllowed(c)
  <2>1. Placed(c)
    BY DEF Core
  <2>2. Placed(c)'
    BY <1>1, <1>2, <1>3, <1>7, <1>8, <1>9, <1>10, <2>1 DEF Placed
  <2>3. AnswerAllowed(c)
    BY <1>8 DEF AnswerAllowed
  <2> QED
    BY <2>2, <2>3
<1>11. \A c \in Own(t) : reg'.answer[c] = reg.answer[c]
  BY <1>8, <1>9, OwnFacts
<1>12. Allowed(t)
  <2>1. PhaseOf(turn[t]) = "ended" => Own(t) = {}
    BY OwnerKnown
  <2>2. PhaseOf(turn[t]) = "none" => Own(t) = {}
    BY OwnerKnown
  <2> QED
    BY <1>1, <1>7, <1>11, <2>1, <2>2 DEF Allowed
<1>13. \A c \in ToolCalls : c.lease # t =>
           /\ reg'.answer[c] = reg.answer[c]
           /\ c \in arrived' <=> c \in arrived
           /\ c \in reg'.surfaced => c \in reg.surfaced
  BY <1>2, <1>3, <1>5, <1>8
<1>14. arrived' \subseteq ToolCalls
  BY DEF Core
<1>15. Owes(U, Own(t)', reg'.surfaced)
  BY <1>7
<1> QED
  BY <1>3, <1>7, <1>10, <1>12, <1>13, <1>14, <1>15, OneTurnStep

-------------------------------------------------------------------------------
(* Turns that end *)

LEMMA DetachedShape ==
    ASSUME NEW t, NEW T \in TurnRecord, Shape(t, T)
    PROVE  LET D == Detached(T)
           IN  /\ D \in TurnRecord /\ Shape(t, D)
               /\ D.reader = NoGen /\ D.stage = "none" /\ D.todo = {}
               /\ D.phase = T.phase /\ D.cleaned = T.cleaned /\ D.doomed = T.doomed
               /\ D.preCalls = T.preCalls /\ D.callIds = T.callIds /\ D.signal = T.signal
<1> DEFINE D == Detached(T)
<1>1. D \in TurnRecord
  <2>1. NoGen \in Gens \cup {NoGen} /\ {} \in SUBSET ToolCalls
    OBVIOUS
  <2> QED
    BY <2>1, Updates, Zenon DEF Detached
<1>2. /\ D.reader = NoGen /\ D.stage = "none" /\ D.item = "none" /\ D.todo = {}
      /\ D.phase = T.phase /\ D.doomed = T.doomed /\ D.queue = T.queue
      /\ D.preCalls = T.preCalls /\ D.callIds = T.callIds /\ D.signal = T.signal
  BY DEF Detached, TurnRecord
<1>3. D.cleaned = T.cleaned /\ D.terminal = T.terminal
  BY Zenon DEF Detached, TurnRecord
<1> HIDE DEF D
<1>4. Shape(t, D)
  BY <1>2, <1>3 DEF Shape
<1> QED
  BY <1>1, <1>2, <1>3, <1>4 DEF D

\* The requests a turn has buffered are in no state of the registry.
LEMMA BufferedApart ==
    ASSUME Core, NEW t \in Gens, NEW d \in P!Chains
    PROVE  Buffered(t) \subseteq ToolCalls /\ Buffered(t) \cap reg.callMap[d] = {}
<1>1. turn[t] \in TurnRecord /\ Shape(t, turn[t]) /\ P!Consistent(reg)
  BY DEF Core
<1>2. Buffered(t) \subseteq ToolCalls /\ \A c \in Buffered(t) : c.lease = t
  BY <1>1 DEF TurnRecord, Shape, Buffered, ToSet
<1>3. \A c \in reg.callMap[d] : d = Chain(c.lease)
  BY <1>1, ChainFacts
<1>4. ASSUME NEW c \in Buffered(t), c \in reg.callMap[d]
      PROVE  FALSE
  BY <1>2, <1>3, <1>4, OwnerKnown DEF Own
<1> QED
  BY <1>2, <1>4

LEMMA RegistryAfterEnds ==
    ASSUME Core, NEW t \in Gens, NEW error, error # "none" \/ Own(t) = {}
    PROVE  P!EndedFrom(reg, RegistryAfter(reg, t, error), {Chain(t)}, Buffered(t), "rejected")
<1> DEFINE h == RegistryAfter(reg, t, error)
           open == P!Settle(reg, Buffered(t), "rejected")
<1>0. P!Consistent(reg) /\ Chain(t) \in P!Chains
  BY ChainTyped DEF Core
<1>1. CASE turn[t].cleaned
  <2>1. h = reg
    BY <1>1 DEF RegistryAfter
  <2>2. Own(t) = {}
    BY <1>1, OwnerKnown
  <2>3. Buffered(t) = {}
    BY <1>1 DEF Core, Shape, Buffered, ToSet
  <2>4. P!EndedFrom(reg, reg, {Chain(t)}, {}, "rejected")
    BY <1>0, <2>2 DEF P!EndedFrom, Own
  <2> QED
    BY <2>1, <2>3, <2>4
<1>2. CASE ~ turn[t].cleaned
  <2>1. P!EndedFrom(reg, open, {}, Buffered(t), "rejected")
    <3>1. /\ Buffered(t) \in SUBSET ToolCalls
          /\ \A d \in P!Chains : Buffered(t) \cap reg.callMap[d] = {}
      BY <1>0, BufferedApart
    <3> QED
      BY <1>0, <3>1, RegistryAssumption, P!SettledEnds
  <2>2. P!Consistent(open)
    BY <2>1 DEF P!EndedFrom
  <2>3. CASE error # "none"
    <3>1. h = P!Terminated(open, Chain(t))
      BY <1>2, <2>3, SameRegistry DEF RegistryAfter, Buffered
    <3> HIDE DEF h, open
    <3>2. P!EndedFrom(open, h, {Chain(t)}, {}, "rejected")
      BY <1>0, <2>2, <3>1, RegistryAssumption, P!TerminatedEnds
    <3>3. {Chain(t)} \in SUBSET P!Chains
      BY <1>0
    <3>4. P!EndedFrom(reg, h, {Chain(t)}, Buffered(t), "rejected")
      BY <2>1, <3>2, <3>3, RegistryAssumption, P!EndsCompose
    <3> QED
      BY <3>4 DEF h
  <2>4. CASE error = "none"
    <3>1. h = P!Removed(open, Chain(t))
      BY <1>2, <2>4, SameRegistry DEF RegistryAfter, Buffered
    <3> HIDE DEF h, open
    <3>2. open.callMap[Chain(t)] = {}
      BY <1>0, <2>1, <2>4 DEF P!EndedFrom, Own
    <3>3. h = open
      BY <1>0, <2>2, <3>1, <3>2, RegistryAssumption, P!RemovedEmpty
    <3>4. P!EndedFrom(reg, open, {Chain(t)}, Buffered(t), "rejected")
      BY <1>0, <2>1, <2>4 DEF P!EndedFrom, Own
    <3> QED
      BY <3>3, <3>4 DEF h
  <2> QED
    BY <2>3, <2>4
<1> QED
  BY <1>1, <1>2

\* One turn ends, its record being T or the terminated T.
LEMMA OneEnds ==
    ASSUME Core, NEW t \in Gens, NEW U \in TurnRecord, Shape(t, U), U.preCalls = <<>>,
           U.cleaned \/ U.doomed # "none",
           turn' = [turn EXCEPT ![t] = U], arrived' = arrived,
           P!EndedFrom(reg, reg', {Chain(t)}, Buffered(t), "rejected")
    PROVE  Kept
<1> DEFINE S == {t}
<1>1. /\ turn' \in [Gens -> TurnRecord] /\ turn'[t] = U
      /\ \A u \in Gens \ S : turn'[u] = turn[u]
  BY DEF Core
<1>2. {Chain(u) : u \in S} = {Chain(t)} /\ UNION {Buffered(u) : u \in S} = Buffered(t)
  OBVIOUS
<1>3. P!EndedFrom(reg, reg', {Chain(u) : u \in S}, UNION {Buffered(u) : u \in S}, "rejected")
  BY <1>2
<1>4. \A u \in S : /\ Shape(u, turn'[u]) /\ turn'[u].preCalls = <<>>
                   /\ turn'[u].cleaned \/ turn'[u].doomed # "none"
  BY <1>1
<1>5. S \in SUBSET Gens
  OBVIOUS
<1> HIDE DEF S
<1> QED
  BY <1>1, <1>3, <1>4, <1>5, EndingStep

LEMMA TerminateTurnStep ==
    ASSUME Core, NEW t \in Gens, NEW T \in TurnRecord, Shape(t, T),
           NEW error \in Errors \cup {"none"}, NEW interrupt \in BOOLEAN,
           TerminateTurn(t, T, error, interrupt), arrived' = arrived,
           error # "none" \/ Own(t) = {}
    PROVE  Kept
<1> DEFINE U == Terminate(T, error, interrupt)
<1>1. U \in TurnRecord /\ Shape(t, U) /\ U.cleaned /\ U.preCalls = <<>>
  BY TerminateShape
<1>2. turn' = [turn EXCEPT ![t] = U] /\ reg' = RegistryAfter(reg, t, error)
  BY DEF TerminateTurn
<1> HIDE DEF U
<1>3. P!EndedFrom(reg, reg', {Chain(t)}, Buffered(t), "rejected")
  BY <1>2, RegistryAfterEnds
<1> QED
  BY <1>1, <1>2, <1>3, OneEnds

LEMMA TerminateTurnsStep ==
    ASSUME Core, NEW S \in SUBSET Gens, NEW error \in Errors, NEW interrupt \in BOOLEAN,
           TerminateTurns(S, error, interrupt), arrived' = arrived
    PROVE  Kept
<1> DEFINE hit == {t \in S : ~ turn[t].cleaned}
           B == UNION {Buffered(t) : t \in hit}
           C == {Chain(t) : t \in hit}
           open == P!Settle(reg, B, "rejected")
<1>1. /\ turn' = [t \in Gens |->
            IF t \in hit THEN Terminate(turn[t], error, interrupt) ELSE turn[t]]
      /\ reg' = P!TerminatedAll(open, C)
  BY SameRegistry DEF TerminateTurns, Buffered
<1>2. ASSUME NEW t \in hit
      PROVE  LET U == Terminate(turn[t], error, interrupt)
             IN  U \in TurnRecord /\ Shape(t, U) /\ U.cleaned /\ U.preCalls = <<>>
  <2>1. t \in Gens /\ turn[t] \in TurnRecord /\ Shape(t, turn[t])
    BY DEF Core
  <2> QED
    BY <2>1, TerminateShape
<1>3. P!Consistent(reg) /\ C \in SUBSET P!Chains
  BY ChainTyped DEF Core
<1>4. P!EndedFrom(reg, open, {}, B, "rejected")
  <2>1. B \in SUBSET ToolCalls /\ \A d \in P!Chains : B \cap reg.callMap[d] = {}
    BY ChainTyped, BufferedApart
  <2> HIDE DEF B
  <2> QED
    BY <1>3, <2>1, RegistryAssumption, P!SettledEnds
<1>5. hit \in SUBSET Gens
  OBVIOUS
<1> HIDE DEF hit
<1>6. turn' \in [Gens -> TurnRecord] /\ \A t \in Gens \ hit : turn'[t] = turn[t]
  BY <1>1, <1>2 DEF Core
<1>7. \A t \in hit : /\ Shape(t, turn'[t]) /\ turn'[t].preCalls = <<>>
                     /\ turn'[t].cleaned \/ turn'[t].doomed # "none"
  BY <1>1, <1>2, <1>5
<1> HIDE DEF open, C, B
<1>8. P!EndedFrom(open, reg', C, {}, "rejected")
  <2>1. P!Consistent(open)
    BY <1>4 DEF P!EndedFrom
  <2> QED
    BY <1>1, <1>3, <2>1, RegistryAssumption, P!TerminatedAllEnds
<1>9. P!EndedFrom(reg, reg', C, B, "rejected")
  BY <1>3, <1>4, <1>8, RegistryAssumption, P!EndsCompose
<1> QED
  BY <1>5, <1>6, <1>7, <1>9, EndingStep DEF C, B

-------------------------------------------------------------------------------
(* The invariant *)

\* What holds of the calls of generate and the memory of failed calls.
Outer ==
    /\ gen \in [Gens -> [status : {"idle", "active", "closing", "done"},
                         on : Gens \cup {NoGen}, outcome : Outcomes]]
    /\ shown \cup failed \subseteq CallIds
    /\ aborted \subseteq Gens /\ disposed \in BOOLEAN
    /\ \A t \in Gens : ~ turn[t].cleaned => turn[t].signal \notin aborted
    /\ \A g \in Gens : g \in aborted => gen[g].status # "idle"
    /\ \A g \in Gens : gen[g].status = "idle" => turn[g].phase = "none"
    /\ WaitingCallsAnswerable

IInv == Core /\ Outer

\* The facts of the invariant about one turn.
LEMMA TurnFacts ==
    ASSUME Core, NEW t \in Gens
    PROVE  /\ turn[t] \in TurnRecord /\ Shape(t, turn[t])
           /\ Owes(turn[t], Own(t), reg.surfaced)
           /\ P!Consistent(reg) /\ Chain(t) \in P!Chains
  BY ChainTyped DEF Core

-------------------------------------------------------------------------------
(* The actions that end turns *)

LEMMA DoomedTerminatesKept ==
    ASSUME IInv, NEW t \in Gens, DoomedTerminates(t)
    PROVE  Kept
<1>1. turn[t] \in TurnRecord /\ Shape(t, turn[t]) /\ Core
  BY TurnFacts DEF IInv
<1>2. turn[t].doomed \in Errors /\ (~ turn[t].terminal) \in BOOLEAN
  BY <1>1 DEF DoomedTerminates, TurnRecord
<1> QED
  BY <1>1, <1>2, TerminateTurnStep DEF DoomedTerminates, Errors

LEMMA SecurityFailureKept ==
    ASSUME IInv, NEW t \in Gens, SecurityFailure(t)
    PROVE  Kept
<1>1. turn[t] \in TurnRecord /\ Shape(t, turn[t]) /\ Core
  BY TurnFacts DEF IInv
<1>2. PICK i \in BOOLEAN : TerminateTurn(t, turn[t], "protocol", ~ i)
  BY DEF SecurityFailure
<1>3. "protocol" \in Errors \cup {"none"} /\ (~ i) \in BOOLEAN /\ arrived' = arrived
  BY DEF SecurityFailure, Errors
<1> QED
  BY <1>1, <1>2, <1>3, TerminateTurnStep

LEMMA TakeCompletedKept ==
    ASSUME IInv, NEW t \in Gens, TakeCompleted(t)
    PROVE  Kept
<1>1. /\ turn[t] \in TurnRecord /\ Shape(t, turn[t]) /\ Core
      /\ Owes(turn[t], Own(t), reg.surfaced)
  BY TurnFacts DEF IInv
<1>2. Detached(turn[t]) \in TurnRecord /\ Shape(t, Detached(turn[t]))
  BY <1>1, DetachedShape
<1>3. Own(t) = {} /\ arrived' = arrived
  BY <1>1 DEF TakeCompleted, Owes
<1> QED
  BY <1>1, <1>2, <1>3, TerminateTurnStep DEF TakeCompleted

LEMMA ReaderThrowsKept ==
    ASSUME IInv, NEW t \in Gens, ReaderThrows(t)
    PROVE  Kept
<1>1. turn[t] \in TurnRecord /\ Shape(t, turn[t]) /\ Core
  BY TurnFacts DEF IInv
<1>2. Detached(turn[t]) \in TurnRecord /\ Shape(t, Detached(turn[t]))
  BY <1>1, DetachedShape
<1>3. "cancelled" \in Errors \cup {"none"}
  BY DEF Errors
<1> QED
  BY <1>1, <1>2, <1>3, TerminateTurnStep DEF ReaderThrows

LEMMA TurnStartFailedKept ==
    ASSUME IInv, NEW t \in Gens, TurnStartFailed(t)
    PROVE  Kept
<1> DEFINE error == IF t \in aborted THEN "cancelled" ELSE "protocol"
           V == Terminate(turn[t], error, TRUE)
           U == [V EXCEPT !.phase = "live"]
<1>1. turn[t] \in TurnRecord /\ Shape(t, turn[t]) /\ Core
  BY TurnFacts DEF IInv
<1>2. error \in Errors \cup {"none"} /\ error # "none" /\ TRUE \in BOOLEAN
  BY DEF Errors
<1>3. /\ turn[t].phase = "starting" /\ turn' = [turn EXCEPT ![t] = U]
      /\ reg' = RegistryAfter(reg, t, error) /\ arrived' = arrived
  BY DEF TurnStartFailed
<1> HIDE DEF error
<1>4. /\ V \in TurnRecord /\ Shape(t, V) /\ V.cleaned /\ V.preCalls = <<>>
      /\ V.phase = "starting"
  BY <1>1, <1>2, <1>3, TerminateShape, ZenonT(40)
<1> HIDE DEF V
<1>5. /\ U \in TurnRecord /\ U.phase = "live" /\ U.reader = V.reader /\ U.stage = V.stage
      /\ U.preCalls = V.preCalls /\ U.callIds = V.callIds /\ U.todo = V.todo
      /\ U.doomed = V.doomed /\ U.queue = V.queue /\ U.item = V.item
  BY <1>4 DEF TurnRecord
<1>6. U.cleaned = V.cleaned /\ U.terminal = V.terminal
  BY <1>4, Zenon DEF TurnRecord
<1> HIDE DEF U
<1>7. Shape(t, U)
  BY <1>4, <1>5, <1>6 DEF Shape
<1>8. P!EndedFrom(reg, reg', {Chain(t)}, Buffered(t), "rejected")
  BY <1>1, <1>2, <1>3, RegistryAfterEnds
<1> QED
  BY <1>1, <1>3, <1>4, <1>5, <1>6, <1>7, <1>8, OneEnds

LEMMA TurnStartedTooLateKept ==
    ASSUME IInv, NEW t \in Gens, TurnStartedTooLate(t)
    PROVE  Kept
<1> DEFINE V == [turn[t] EXCEPT !.phase = "live"]
           U == Terminate(V, "cancelled", TRUE)
<1>1. turn[t] \in TurnRecord /\ Shape(t, turn[t]) /\ Core
  BY TurnFacts DEF IInv
<1>2. "cancelled" \in Errors \cup {"none"} /\ TRUE \in BOOLEAN
  BY DEF Errors
<1>3. /\ turn[t].phase = "starting" /\ turn' = [turn EXCEPT ![t] = U]
      /\ reg' = RegistryAfter(reg, t, "cancelled") /\ arrived' = arrived
  BY DEF TurnStartedTooLate
<1>4. /\ V \in TurnRecord /\ V.phase = "live" /\ V.reader = turn[t].reader
      /\ V.stage = turn[t].stage /\ V.preCalls = turn[t].preCalls
      /\ V.callIds = turn[t].callIds /\ V.todo = turn[t].todo
      /\ V.doomed = turn[t].doomed /\ V.queue = turn[t].queue /\ V.item = turn[t].item
  BY <1>1 DEF TurnRecord
<1>5. V.cleaned = turn[t].cleaned /\ V.terminal = turn[t].terminal
  BY <1>1, Zenon DEF TurnRecord
<1> HIDE DEF V
<1>6. /\ U \in TurnRecord /\ U.cleaned /\ U.preCalls = <<>> /\ U.phase = "live"
      /\ U.reader = NoGen /\ U.stage = "none" /\ U.callIds = {} /\ U.doomed = "none"
      /\ U.todo = turn[t].todo /\ U.queue = <<>>
  <2>1. CASE V.cleaned
    <3>1. U = V
      BY <2>1 DEF Terminate
    <3> QED
      BY <1>1, <1>3, <1>4, <1>5, <2>1, <3>1 DEF Shape
  <2>2. CASE ~ V.cleaned
    <3> DEFINE error == "cancelled"
    <3>1. error \in Errors \cup {"none"} /\ error # "none"
      BY <1>2
    <3> HIDE DEF error
    <3>2. V \in TurnRecord /\ ~ V.cleaned /\ TRUE \in BOOLEAN
      BY <1>2, <1>4, <2>2
    <3>3. LET W == Terminate(V, error, TRUE)
          IN  /\ W \in TurnRecord
              /\ W.cleaned /\ W.terminal /\ W.failure = error
              /\ W.queue = IF error = "none" THEN V.queue ELSE <<>>
              /\ W.stage = IF V.stage = "waiting" THEN "rejected" ELSE V.stage
              /\ W.signal = NoGen /\ W.preCalls = <<>> /\ W.doomed = "none"
              /\ W.phase = V.phase /\ W.reader = V.reader /\ W.item = V.item
              /\ W.todo = V.todo /\ W.callIds = V.callIds
      BY <3>1, <3>2, TerminateFields
    <3>4. U = Terminate(V, error, TRUE)
      BY DEF error
    <3> HIDE DEF U
    <3> QED
      BY <1>1, <1>3, <1>4, <3>1, <3>3, <3>4 DEF Shape
  <2> QED
    BY <2>1, <2>2
<1> HIDE DEF U
<1>7. Shape(t, U)
  <2>1. ToSet(U.preCalls) = {} /\ ToSet(U.queue) = {}
    BY <1>6 DEF ToSet
  <2> QED
    BY <1>1, <1>6, <2>1 DEF Shape
<1>8. P!EndedFrom(reg, reg', {Chain(t)}, Buffered(t), "rejected")
  BY <1>1, <1>3, RegistryAfterEnds
<1> QED
  BY <1>1, <1>3, <1>6, <1>7, <1>8, OneEnds

LEMMA ProcessExitKept ==
    ASSUME IInv, ProcessExit
    PROVE  Kept
<1>1. "process" \in Errors /\ {t \in Gens : HasHandlers(t)} \in SUBSET Gens
  BY DEF Errors
<1> QED
  BY <1>1, TerminateTurnsStep DEF ProcessExit, IInv

LEMMA DisposeKept ==
    ASSUME IInv, Dispose
    PROVE  Kept
<1>1. "cancelled" \in Errors /\ {t \in Gens : InStates(t)} \in SUBSET Gens
  BY DEF Errors
<1> QED
  BY <1>1, TerminateTurnsStep DEF Dispose, IInv

\* The record of a turn that a termination is queued for.
LEMMA DoomedShape ==
    ASSUME NEW t, NEW T \in TurnRecord, Shape(t, T), NEW error \in Errors,
           T.phase \in {"returned", "live"}, ~ T.cleaned
    PROVE  LET U == [T EXCEPT !.doomed = error]
           IN  /\ U \in TurnRecord /\ Shape(t, U) /\ U.preCalls = <<>> /\ U.doomed = error
               /\ U.signal = T.signal /\ U.phase = T.phase /\ U.cleaned = T.cleaned
               /\ U.callIds = T.callIds
<1> DEFINE U == [T EXCEPT !.doomed = error]
<1>1. U \in TurnRecord
  BY Updates
<1>2. /\ U.doomed = error
      /\ U.phase = T.phase /\ U.reader = T.reader /\ U.stage = T.stage /\ U.item = T.item
      /\ U.todo = T.todo /\ U.queue = T.queue /\ U.callIds = T.callIds
      /\ U.preCalls = T.preCalls /\ U.signal = T.signal
  BY DEF TurnRecord
<1>3. U.cleaned = T.cleaned /\ U.terminal = T.terminal
  BY Zenon DEF TurnRecord
<1> HIDE DEF U
<1>4. Shape(t, U)
  BY <1>2, <1>3 DEF Shape
<1>5. U.preCalls = <<>>
  BY <1>2 DEF Shape
<1> QED
  BY <1>1, <1>2, <1>3, <1>4, <1>5 DEF U

LEMMA ToolTimeoutKept ==
    ASSUME IInv, NEW c \in ToolCalls, ToolTimeout(c)
    PROVE  Kept
<1> DEFINE t == c.lease
           U == [turn[t] EXCEPT !.doomed = "timeout"]
<1>1. t \in Gens /\ Core /\ TurnOf(c) = t
  BY ChainTyped DEF IInv, TurnOf
<1>2. /\ turn[t] \in TurnRecord /\ Shape(t, turn[t])
      /\ P!Consistent(reg) /\ Chain(t) \in P!Chains
  BY <1>1, TurnFacts
<1>3. /\ c \in reg.timers[Chain(t)] /\ reg' = P!Terminated(reg, Chain(t))
      /\ turn' = [turn EXCEPT ![t].doomed = "timeout"] /\ arrived' = arrived
  BY <1>1, SameRegistry DEF ToolTimeout
<1>4. Own(t) # {}
  BY <1>2, <1>3 DEF P!Consistent, P!OwnedIn, Own
<1> HIDE DEF t
<1>5. /\ turn[t].phase \in {"returned", "live"} /\ ~ turn[t].cleaned /\ Buffered(t) = {}
  BY <1>1, <1>4, OwnerKnown
<1>6. U \in TurnRecord /\ Shape(t, U) /\ U.preCalls = <<>> /\ U.doomed = "timeout"
  BY <1>2, <1>5, DoomedShape DEF Errors
<1>7. turn' = [turn EXCEPT ![t] = U]
  BY <1>3
<1> HIDE DEF U
<1>8. P!EndedFrom(reg, reg', {Chain(t)}, Buffered(t), "rejected")
  BY <1>2, <1>3, <1>5, RegistryAssumption, P!TerminatedEnds
<1> QED
  BY <1>1, <1>3, <1>6, <1>7, <1>8, OneEnds

\* A stopped generate call is bound to its turn, or its turn's calls listen to it.
LEMMA AbortKept ==
    ASSUME IInv, NEW g \in Gens, Abort(g)
    PROVE  Kept
<1> DEFINE bound == {t \in Gens : turn[t].signal = g /\ ~ turn[t].cleaned}
           listening == {t \in Gens : reg.signal[Chain(t)] = g}
           reading == {t \in Gens : turn[t].reader = g /\ turn[t].stage = "waiting"}
           S == bound \cup listening
           C == {Chain(t) : t \in S}
           U(t) == IF t \in bound THEN Terminate(turn[t], "cancelled", TRUE)
                   ELSE [turn[t] EXCEPT !.doomed = "cancelled"]
<1>0. Core /\ g # NoGen /\ "cancelled" \in Errors
  BY TransportAssumption DEF IInv, Errors
<1>1. /\ reg' = P!TerminatedAll(reg, C) /\ arrived' = arrived
      /\ turn' = [t \in Gens |->
           CASE t \in bound -> Terminate(turn[t], "cancelled", TRUE)
             [] t \in (listening \cup reading) \ bound ->
                  [turn[t] EXCEPT
                     !.doomed = IF t \in listening THEN "cancelled" ELSE @,
                     !.stage = IF t \in reading THEN "rejected" ELSE @]
             [] OTHER -> turn[t]]
  BY SameRegistry DEF Abort
<1>2. reading \subseteq bound
  BY <1>0, TurnFacts DEF Shape
<1>3. ASSUME NEW t \in listening
      PROVE  t \in Gens /\ Own(t) # {}
  <2>1. P!Consistent(reg) /\ Chain(t) \in P!Chains /\ reg.signal[Chain(t)] # NoGen
    BY <1>0, ChainTyped DEF Core
  <2>2. Chain(t) \in reg.states
    BY <2>1 DEF P!Consistent, P!OwnedIn
  <2> QED
    BY <1>0, <2>2, OwnFacts
<1>4. ASSUME NEW t \in S
      PROVE  t \in Gens /\ Buffered(t) = {}
  <2>1. CASE t \in listening
    BY <1>0, <1>3, <2>1, OwnerKnown
  <2>2. CASE t \in bound
    <3>1. Shape(t, turn[t]) /\ turn[t].signal = g
      BY <1>0, <2>2, TurnFacts
    <3> QED
      BY <1>0, <2>2, <3>1 DEF Shape, Buffered, ToSet
  <2> QED
    BY <2>1, <2>2
<1>5. ASSUME NEW t \in S
      PROVE  /\ U(t) \in TurnRecord /\ Shape(t, U(t)) /\ U(t).preCalls = <<>>
             /\ U(t).cleaned \/ U(t).doomed # "none"
  <2>1. t \in Gens /\ turn[t] \in TurnRecord /\ Shape(t, turn[t])
    BY <1>0, <1>4, TurnFacts
  <2>2. CASE t \in bound
    <3>1. "cancelled" \in Errors \cup {"none"} /\ TRUE \in BOOLEAN
      BY <1>0
    <3>2. LET V == Terminate(turn[t], "cancelled", TRUE)
          IN  V \in TurnRecord /\ Shape(t, V) /\ V.preCalls = <<>> /\ V.cleaned
      BY <2>1, <3>1, TerminateShape
    <3> QED
      BY <2>2, <3>2
  <2>3. CASE t \notin bound
    <3>1. turn[t].phase \in {"returned", "live"} /\ ~ turn[t].cleaned
      BY <1>0, <1>3, <2>3, OwnerKnown
    <3>2. LET V == [turn[t] EXCEPT !.doomed = "cancelled"]
          IN  V \in TurnRecord /\ Shape(t, V) /\ V.preCalls = <<>> /\ V.doomed = "cancelled"
      BY <1>0, <2>1, <3>1, DoomedShape
    <3> QED
      BY <2>3, <3>2
  <2> QED
    BY <2>2, <2>3
<1>6. \A t \in Gens : turn'[t] = IF t \in S THEN U(t) ELSE turn[t]
  <2> SUFFICES ASSUME NEW t \in Gens PROVE turn'[t] = IF t \in S THEN U(t) ELSE turn[t]
    OBVIOUS
  <2>1. CASE t \in bound
    BY <1>1, <2>1
  <2>2. CASE t \in listening \ bound
    <3>1. t \notin reading
      BY <1>2, <2>2
    <3>2. turn'[t] = [turn[t] EXCEPT !.doomed = "cancelled", !.stage = turn[t].stage]
      BY <1>1, <2>2, <3>1
    <3>3. turn[t] \in TurnRecord
      BY <1>0, TurnFacts
    <3>4. turn'[t] = [turn[t] EXCEPT !.doomed = "cancelled"]
      BY <3>2, <3>3 DEF TurnRecord
    <3> QED
      BY <2>2, <3>4
  <2>3. CASE t \notin S
    BY <1>1, <1>2, <2>3
  <2> QED
    BY <2>1, <2>2, <2>3
<1> HIDE DEF U, S
<1>7. turn' \in [Gens -> TurnRecord]
  <2>1. \A t \in Gens : turn'[t] \in TurnRecord
    BY <1>0, <1>5, <1>6, TurnFacts
  <2>2. turn' = [t \in Gens |-> turn'[t]]
    BY <1>1
  <2> QED
    BY <2>1, <2>2
<1>8. S \in SUBSET Gens /\ C \in SUBSET P!Chains /\ UNION {Buffered(t) : t \in S} = {}
  BY <1>4, ChainTyped
<1>9. P!EndedFrom(reg, reg', C, {}, "rejected")
  BY <1>0, <1>1, <1>8, RegistryAssumption, P!TerminatedAllEnds DEF Core
<1>10. P!EndedFrom(reg, reg', {Chain(u) : u \in S}, UNION {Buffered(u) : u \in S}, "rejected")
  BY <1>8, <1>9
<1>11. \A u \in Gens \ S : turn'[u] = turn[u]
  BY <1>6
<1>12. \A u \in S : /\ Shape(u, turn'[u]) /\ turn'[u].preCalls = <<>>
                    /\ turn'[u].cleaned \/ turn'[u].doomed # "none"
  BY <1>5, <1>6, <1>8
<1> HIDE DEF C
<1> QED
  BY <1>0, <1>1, <1>7, <1>8, <1>10, <1>11, <1>12, EndingStep, ZenonT(40)

LEMMA DisposeEndsKept ==
    ASSUME IInv, DisposeEnds
    PROVE  Kept
<1> DEFINE S == {t \in Gens : Chain(t) \in reg.states /\ ~ turn[t].cleaned}
           C == {Chain(t) : t \in S}
<1>0. Core /\ P!Consistent(reg)
  BY DEF IInv, Core
<1>1. /\ reg' = P!TerminatedAll(reg, reg.states) /\ arrived' = arrived
      /\ turn' = [t \in Gens |->
           IF t \in S THEN [turn[t] EXCEPT !.doomed = "cancelled"] ELSE turn[t]]
  BY SameRegistry DEF DisposeEnds
<1>2. reg.states \subseteq P!Chains
  BY <1>0 DEF P!Consistent, P!RegistryType
<1>3. reg.states = C
  <2>1. ASSUME NEW d \in reg.states
        PROVE  d \in C
    <3>1. reg.callMap[d] # {} /\ reg.callMap[d] \subseteq ToolCalls
      BY <1>0, <1>2, ChainFacts
    <3>2. PICK c \in reg.callMap[d] : c \in ToolCalls /\ d = Chain(c.lease)
      BY <1>0, <1>2, <3>1, ChainFacts
    <3>3. c.lease \in Gens /\ Own(c.lease) # {}
      BY <3>2, ChainTyped DEF Own
    <3>4. ~ turn[c.lease].cleaned
      BY <1>0, <3>3, OwnerKnown
    <3> QED
      BY <3>2, <3>3, <3>4
  <2> QED
    BY <2>1
<1>4. ASSUME NEW t \in S
      PROVE  LET U == [turn[t] EXCEPT !.doomed = "cancelled"]
             IN  /\ U \in TurnRecord /\ Shape(t, U) /\ U.preCalls = <<>>
                 /\ U.doomed = "cancelled" /\ Buffered(t) = {}
  <2>1. Own(t) # {} /\ turn[t] \in TurnRecord /\ Shape(t, turn[t])
    BY <1>0, OwnFacts, TurnFacts
  <2>2. turn[t].phase \in {"returned", "live"} /\ ~ turn[t].cleaned /\ Buffered(t) = {}
    BY <1>0, <2>1, OwnerKnown
  <2> QED
    BY <2>1, <2>2, DoomedShape DEF Errors
<1>5. UNION {Buffered(t) : t \in S} = {} /\ S \in SUBSET Gens
  BY <1>4
<1> HIDE DEF S
<1>6. turn' \in [Gens -> TurnRecord] /\ \A u \in Gens \ S : turn'[u] = turn[u]
  BY <1>0, <1>1, <1>4, TurnFacts
<1>7. \A u \in S : /\ Shape(u, turn'[u]) /\ turn'[u].preCalls = <<>>
                   /\ turn'[u].cleaned \/ turn'[u].doomed # "none"
  BY <1>1, <1>4, <1>5
<1>8. P!EndedFrom(reg, reg', C, {}, "rejected")
  BY <1>0, <1>1, <1>2, <1>3, RegistryAssumption, P!TerminatedAllEnds
<1> QED
  BY <1>0, <1>1, <1>5, <1>6, <1>7, <1>8, EndingStep

-------------------------------------------------------------------------------
(* The loop of consumeState *)

\* What the loop needs: a live turn bound to its reader g, with calls O of which
\* some are still to be shown when there are any.
Readable(t, g, T, O, F) ==
    /\ T \in TurnRecord /\ T.phase = "live" /\ ~ T.cleaned /\ T.signal = g
    /\ T.preCalls = <<>> /\ (\A c \in T.callIds : c.lease = t)
    /\ "completed" \in ToSet(T.queue) => T.terminal
    /\ O \subseteq T.callIds /\ (T.doomed # "none" => O = {})
    /\ O # {} => O \ F # {}

\* The values the loop gives to the fields of such a turn.
Proceeds(T, O, stage, item, todo, queue) ==
    /\ stage \in {"waiting", "got", "surfacing"} /\ (stage = "surfacing" <=> O # {})
    /\ item \in {"none", "text", "tool", "completed"}
    /\ todo \subseteq O
    /\ queue \in Seq({"text", "tool", "completed"})
    /\ ToSet(queue) \cup {item} \subseteq ToSet(T.queue) \cup {"none"}

\* The record of a turn that g reads.
IsRead(t, g, T, O, U) ==
    /\ U \in TurnRecord /\ Shape(t, U) /\ (\A G : Owes(U, O, G))
    /\ U.reader = g /\ U.phase = "live" /\ U.preCalls = <<>>
    /\ U.doomed = T.doomed /\ ~ U.cleaned /\ U.signal = g

LEMMA LoopRecord ==
    ASSUME NEW t, NEW g \in Gens, NEW T, NEW O, NEW F, Readable(t, g, T, O, F),
           NEW stage, NEW item, NEW todo, NEW queue,
           Proceeds(T, O, stage, item, todo, queue)
    PROVE  IsRead(t, g, T, O, [T EXCEPT !.reader = g, !.item = item, !.todo = todo,
                                        !.stage = stage, !.queue = queue])
<1> DEFINE U == [T EXCEPT !.reader = g, !.item = item, !.todo = todo, !.stage = stage,
                          !.queue = queue]
<1>0. T \in TurnRecord /\ T.callIds \subseteq ToolCalls
  BY DEF Readable, TurnRecord
<1>1. U \in TurnRecord
  <2>1. g \in Gens \cup {NoGen} /\ todo \in SUBSET ToolCalls
        /\ stage \in {"none", "waiting", "got", "surfacing", "rejected"}
    BY <1>0 DEF Readable, Proceeds
  <2>2. /\ queue \in Seq({"text", "tool", "completed"})
        /\ item \in {"none", "text", "tool", "completed"}
    BY DEF Proceeds
  <2> QED
    BY <1>0, <2>1, <2>2, Updates, Zenon
<1>2. /\ U.reader = g /\ U.item = item /\ U.todo = todo /\ U.stage = stage /\ U.queue = queue
      /\ U.phase = T.phase /\ U.doomed = T.doomed
      /\ U.preCalls = T.preCalls /\ U.callIds = T.callIds /\ U.signal = T.signal
  BY <1>0 DEF TurnRecord
<1>3. U.cleaned = T.cleaned /\ U.terminal = T.terminal
  BY <1>0, Zenon DEF TurnRecord
<1> HIDE DEF U
<1>4. ToSet(U.preCalls) = {}
  BY <1>2 DEF Readable, ToSet
<1>5. g # NoGen
  BY TransportAssumption
<1>6. Shape(t, U)
  BY <1>2, <1>3, <1>4, <1>5 DEF Shape, Readable, Proceeds
<1>7. \A G : Owes(U, O, G)
  BY <1>2, <1>3 DEF Owes, Readable, Proceeds
<1> QED
  BY <1>1, <1>2, <1>3, <1>6, <1>7 DEF U, Readable, IsRead

LEMMA LoopStep ==
    ASSUME Core, NEW t \in Gens, NEW g \in Gens, NEW T, NEW rg, P!Consistent(rg),
           Readable(t, g, T, rg.callMap[Chain(t)], rg.surfaced), Loop(t, g, T, rg)
    PROVE  \E U \in TurnRecord :
             /\ turn' = [turn EXCEPT ![t] = U]
             /\ IsRead(t, g, T, rg.callMap[Chain(t)], U)
             /\ P!Consistent(reg') /\ reg'.callMap = rg.callMap /\ reg'.answer = rg.answer
             /\ reg'.surfaced \subseteq rg.surfaced \cup rg.callMap[Chain(t)]
             /\ rg.callMap[Chain(t)] = {} => reg' = rg
<1> DEFINE O == rg.callMap[Chain(t)]
           F == rg.surfaced
           waiting == P!Unsurfaced(rg, Chain(t))
           next == [T EXCEPT !.reader = g, !.item = "none", !.todo = {}]
           Goal(U) ==
             /\ turn' = [turn EXCEPT ![t] = U]
             /\ IsRead(t, g, T, O, U)
             /\ P!Consistent(reg') /\ reg'.callMap = rg.callMap /\ reg'.answer = rg.answer
             /\ reg'.surfaced \subseteq F \cup O
             /\ O = {} => reg' = rg
<1> SUFFICES \E U \in TurnRecord : Goal(U)
  OBVIOUS
<1>0. Readable(t, g, T, O, F) /\ T \in TurnRecord
  BY DEF Readable
<1>1. waiting = O \ F
  BY DEF P!Unsurfaced
<1>2. O \subseteq ToolCalls
  BY ChainTyped, ChainFacts
<1>3. T.queue \in Seq({"text", "tool", "completed"})
  BY <1>0 DEF TurnRecord
<1>4. CASE waiting # {}
  <2>1. PICK c \in waiting :
           /\ reg' = P!MarkedSurfaced(rg, c)
           /\ turn' = [turn EXCEPT ![t] =
                [next EXCEPT !.stage = "surfacing", !.todo = waiting \ {c}]]
    BY <1>4, SameRegistry, Zenon DEF Loop
  <2> DEFINE U == [T EXCEPT !.reader = g, !.item = "none", !.todo = waiting \ {c},
                            !.stage = "surfacing", !.queue = T.queue]
  <2>2. [next EXCEPT !.stage = "surfacing", !.todo = waiting \ {c}] = U
    BY <1>0 DEF TurnRecord
  <2>3. c \in O /\ c \in ToolCalls
    BY <1>1, <1>2
  <2>4. /\ P!Consistent(reg') /\ reg'.callMap = rg.callMap /\ reg'.answer = rg.answer
        /\ reg'.surfaced = rg.surfaced \cup {c}
    BY <2>1, <2>3, RegistryAssumption, P!FlagFields
  <2>5. waiting \ {c} \in SUBSET O /\ O # {}
    BY <1>1, <2>3
  <2> HIDE DEF O, F, waiting
  <2>6. Proceeds(T, O, "surfacing", "none", waiting \ {c}, T.queue)
    BY <1>3, <2>5 DEF Proceeds
  <2>b. IsRead(t, g, T, O, U)
    BY <1>0, <2>6, LoopRecord
  <2>7. turn' = [turn EXCEPT ![t] = U]
    BY <2>1, <2>2
  <2> HIDE DEF U
  <2>8. Goal(U)
    BY <2>3, <2>4, <2>5, <2>7, <2>b DEF F
  <2>9. U \in TurnRecord
    BY <2>b DEF IsRead
  <2> QED
    BY <2>8, <2>9
<1>5. CASE waiting = {}
  <2>1. O = {}
    BY <1>0, <1>1, <1>5 DEF Readable
  <2>2. /\ reg' = rg
        /\ turn' = [turn EXCEPT ![t] =
             IF T.queue = <<>> THEN [next EXCEPT !.stage = "waiting"]
             ELSE [next EXCEPT !.stage = "got", !.item = Head(T.queue), !.queue = Tail(@)]]
    BY <1>5, SameRegistry DEF Loop
  <2> DEFINE stage == IF T.queue = <<>> THEN "waiting" ELSE "got"
             item == IF T.queue = <<>> THEN "none" ELSE Head(T.queue)
             todo == {}
             queue == IF T.queue = <<>> THEN T.queue ELSE Tail(T.queue)
             U == [T EXCEPT !.reader = g, !.item = item, !.todo = todo, !.stage = stage,
                            !.queue = queue]
  <2>3. turn' = [turn EXCEPT ![t] = U]
    <3>1. CASE T.queue = <<>>
      <4>1. [next EXCEPT !.stage = "waiting"] = U
        BY <1>0, <3>1 DEF TurnRecord
      <4> QED
        BY <2>2, <3>1, <4>1
    <3>2. CASE T.queue # <<>>
      <4>1. [next EXCEPT !.stage = "got", !.item = Head(T.queue), !.queue = Tail(@)] = U
        BY <1>0, <3>2 DEF TurnRecord
      <4> QED
        BY <2>2, <3>2, <4>1
    <3> QED
      BY <3>1, <3>2
  <2>4. Proceeds(T, O, stage, item, todo, queue)
    BY <1>3, <2>1 DEF Proceeds, ToSet
  <2> HIDE DEF stage, item, todo, queue, O, F
  <2>5. IsRead(t, g, T, O, U)
    BY <1>0, <2>4, LoopRecord
  <2> HIDE DEF U
  <2>6. Goal(U)
    BY <2>1, <2>2, <2>3, <2>5 DEF F
  <2>7. U \in TurnRecord
    BY <2>5 DEF IsRead
  <2> QED
    BY <2>6, <2>7
<1> QED
  BY <1>4, <1>5

\* A turn with a reader is live: generate reads only after startTurn has returned.
LEMMA ReaderLive ==
    ASSUME Core, NEW t \in Gens, turn[t].stage # "none"
    PROVE  /\ turn[t].phase = "live" /\ turn[t].preCalls = <<>> /\ turn[t].reader \in Gens
           /\ ~ turn[t].cleaned => turn[t].reader = turn[t].signal
<1>1. turn[t] \in TurnRecord /\ Shape(t, turn[t])
  BY TurnFacts
<1> QED
  BY <1>1 DEF Shape, TurnRecord

\* A live turn may be read by the generate call it is bound to.
LEMMA TurnReadable ==
    ASSUME Core, NEW t \in Gens, NEW T, NEW O, NEW F, T \in TurnRecord, Shape(t, T),
           T.phase = "live", ~ T.cleaned,
           O \subseteq T.callIds, T.doomed # "none" => O = {}, O # {} => O \ F # {}
    PROVE  Readable(t, T.signal, T, O, F)
  BY DEF Readable, Shape

\* The loop runs without the registry answering anything.
LEMMA LoopKept ==
    ASSUME Core, NEW t \in Gens, NEW g \in Gens, NEW T, NEW rg, P!Consistent(rg),
           rg.callMap = reg.callMap, rg.answer = reg.answer, rg.surfaced = reg.surfaced,
           turn[t].preCalls = <<>>, Readable(t, g, T, Own(t), reg.surfaced),
           Loop(t, g, T, rg), arrived' = arrived,
           \/ PhaseOf(turn[t]) \in {"running", "waiting"} /\ T.doomed = "none"
           \/ PhaseOf(turn[t]) = "ended" /\ T.doomed # "none"
    PROVE  Kept
<1>1. Readable(t, g, T, rg.callMap[Chain(t)], rg.surfaced)
  BY DEF Own
<1>2. PICK U \in TurnRecord :
           /\ turn' = [turn EXCEPT ![t] = U]
           /\ IsRead(t, g, T, rg.callMap[Chain(t)], U)
           /\ P!Consistent(reg') /\ reg'.callMap = rg.callMap /\ reg'.answer = rg.answer
           /\ reg'.surfaced \subseteq rg.surfaced \cup rg.callMap[Chain(t)]
  BY <1>1, LoopStep
<1>3. /\ Shape(t, U) /\ Owes(U, Own(t), reg'.surfaced)
      /\ U.reader = g /\ U.phase = "live" /\ U.preCalls = <<>>
      /\ U.doomed = T.doomed /\ ~ U.cleaned
  BY <1>2 DEF IsRead, Own
<1>4. g # NoGen
  BY TransportAssumption
<1>5. PhaseOf(U) = IF T.doomed = "none" THEN "running" ELSE "ended"
  BY <1>3, <1>4 DEF PhaseOf
<1>6. reg'.surfaced \subseteq reg.surfaced \cup Own(t)
  BY <1>2 DEF Own
<1>7. \/ PhaseOf(U) = PhaseOf(turn[t])
      \/ PhaseOf(turn[t]) = "waiting" /\ PhaseOf(U) = "running"
  BY <1>5
<1> QED
  BY <1>2, <1>3, <1>6, <1>7, FlagStep

\* The loop runs after all calls of the turn have been answered.
LEMMA RespondedLoopKept ==
    ASSUME Core, NEW t \in Gens, NEW g \in Gens \ aborted, NEW T, NEW rg,
           P!EndedFrom(reg, rg, {Chain(t)}, {}, "responded"),
           Readable(t, g, T, {}, rg.surfaced), T.doomed = "none",
           Own(t) # {}, Loop(t, g, T, rg), arrived' = arrived
    PROVE  Kept
<1>1. P!Consistent(rg) /\ rg.callMap[Chain(t)] = {}
  BY ChainTyped DEF P!EndedFrom
<1>2. Readable(t, g, T, rg.callMap[Chain(t)], rg.surfaced)
  BY <1>1
<1>3. PICK U \in TurnRecord :
           /\ turn' = [turn EXCEPT ![t] = U]
           /\ IsRead(t, g, T, rg.callMap[Chain(t)], U)
           /\ P!Consistent(reg') /\ reg'.callMap = rg.callMap /\ reg'.answer = rg.answer
           /\ reg'.surfaced \subseteq rg.surfaced \cup rg.callMap[Chain(t)]
           /\ rg.callMap[Chain(t)] = {} => reg' = rg
  BY <1>1, <1>2, LoopStep, Zenon
<1>4. /\ Shape(t, U) /\ Owes(U, {}, reg'.surfaced)
      /\ U.reader = g /\ U.phase = "live" /\ U.preCalls = <<>>
      /\ U.doomed = "none" /\ ~ U.cleaned /\ reg' = rg
  BY <1>1, <1>3 DEF IsRead
<1>5. PhaseOf(turn[t]) \in {"running", "waiting"} /\ InStates(t) /\ turn[t].preCalls = <<>>
  <2>1. Shape(t, turn[t])
    BY TurnFacts
  <2>2. turn[t].phase \in {"returned", "live"}
    BY OwnerKnown
  <2> QED
    BY <2>1, <2>2, OwnerKnown DEF Shape
<1>6. P!EndedFrom(reg, reg', {Chain(t)}, {}, "responded")
  BY <1>4
<1> QED
  BY <1>3, <1>4, <1>5, <1>6, RespondStep

-------------------------------------------------------------------------------
(* The actions of consumeState *)

LEMMA TakeKept ==
    ASSUME IInv, NEW t \in Gens, Take(t)
    PROVE  Kept
<1>1. /\ Core /\ turn[t] \in TurnRecord /\ Shape(t, turn[t])
      /\ Owes(turn[t], Own(t), reg.surfaced) /\ P!Consistent(reg)
  BY TurnFacts DEF IInv
<1>2. turn[t].stage = "got" /\ arrived' = arrived
  BY DEF Take
<1>3. /\ turn[t].phase = "live" /\ turn[t].preCalls = <<>> /\ turn[t].reader \in Gens
      /\ ~ turn[t].cleaned => turn[t].reader = turn[t].signal
  BY <1>1, <1>2, ReaderLive
<1>4. CASE turn[t].cleaned
  <2> DEFINE U == Detached(turn[t])
  <2>1. turn' = [turn EXCEPT ![t] = U] /\ reg' = reg
    BY <1>4 DEF Take
  <2>2. /\ U \in TurnRecord /\ Shape(t, U) /\ U.preCalls = turn[t].preCalls
        /\ U.cleaned = turn[t].cleaned
    BY <1>1, DetachedShape
  <2> HIDE DEF U
  <2>3. Own(t) = {} /\ PhaseOf(U) = "ended" /\ PhaseOf(turn[t]) = "ended"
    BY <1>1, <1>4, <2>2, OwnerKnown, EndedPhase
  <2>4. Owes(U, Own(t), reg'.surfaced)
    BY <1>4, <2>2, <2>3 DEF Owes
  <2>5. /\ P!Consistent(reg') /\ reg'.callMap = reg.callMap /\ reg'.answer = reg.answer
        /\ reg'.surfaced \subseteq reg.surfaced \cup Own(t)
    BY <1>1, <2>1
  <2> QED
    BY <1>1, <1>2, <2>1, <2>2, <2>3, <2>4, <2>5, FlagStep
<1>5. CASE ~ turn[t].cleaned
  <2>1. Loop(t, turn[t].reader, turn[t], reg)
    BY <1>5 DEF Take
  <2>2. /\ Own(t) \subseteq turn[t].callIds /\ (turn[t].doomed # "none" => Own(t) = {})
        /\ (Own(t) # {} => Own(t) \ reg.surfaced # {})
    BY <1>1, <1>2 DEF Owes
  <2>3. Readable(t, turn[t].reader, turn[t], Own(t), reg.surfaced)
    BY <1>1, <1>3, <1>5, <2>2, TurnReadable
  <2>4. \/ PhaseOf(turn[t]) \in {"running", "waiting"} /\ turn[t].doomed = "none"
        \/ PhaseOf(turn[t]) = "ended" /\ turn[t].doomed # "none"
    BY <1>3, <1>5 DEF PhaseOf
  <2> QED
    BY <1>1, <1>2, <1>3, <2>1, <2>3, <2>4, LoopKept
<1> QED
  BY <1>4, <1>5

LEMMA SurfaceKept ==
    ASSUME IInv, NEW t \in Gens, Surface(t)
    PROVE  Kept
<1>1. /\ Core /\ turn[t] \in TurnRecord /\ Shape(t, turn[t])
      /\ Owes(turn[t], Own(t), reg.surfaced) /\ P!Consistent(reg)
  BY TurnFacts DEF IInv
<1>2. turn[t].stage = "surfacing" /\ arrived' = arrived
  BY DEF Surface
<1>3. PICK c \in turn[t].todo :
         IF c \in R!Registered(reg)
         THEN /\ reg' = R!MarkedSurfaced(reg, c)
              /\ turn' = [turn EXCEPT ![t].todo = @ \ {c}]
         ELSE TerminateTurn(t, Detached(turn[t]), "protocol", TRUE)
  BY DEF Surface
<1>4. c \in ToolCalls /\ c.lease = t
  BY <1>1 DEF Shape, TurnRecord
<1>5. CASE c \in R!Registered(reg)
  <2> DEFINE U == [turn[t] EXCEPT !.todo = @ \ {c}]
  <2>1. reg' = P!MarkedSurfaced(reg, c) /\ turn' = [turn EXCEPT ![t] = U]
    BY <1>3, <1>5, SameRegistry
  <2>2. c \in Own(t)
    BY <1>1, <1>4, <1>5, SameRegistry, RegisteredFacts
  <2>3. /\ P!Consistent(reg') /\ reg'.callMap = reg.callMap /\ reg'.answer = reg.answer
        /\ reg'.surfaced = reg.surfaced \cup {c}
    BY <1>1, <1>4, <2>1, RegistryAssumption, P!FlagFields
  <2>4. U \in TurnRecord
    <3>1. turn[t].todo \ {c} \in SUBSET ToolCalls
      BY <1>1 DEF TurnRecord
    <3> QED
      BY <1>1, <3>1, Updates
  <2>5. /\ U.todo = turn[t].todo \ {c}
        /\ U.phase = turn[t].phase /\ U.reader = turn[t].reader /\ U.stage = turn[t].stage
        /\ U.item = turn[t].item /\ U.queue = turn[t].queue /\ U.callIds = turn[t].callIds
        /\ U.preCalls = turn[t].preCalls /\ U.signal = turn[t].signal
        /\ U.doomed = turn[t].doomed
    BY <1>1 DEF TurnRecord
  <2>6. U.cleaned = turn[t].cleaned /\ U.terminal = turn[t].terminal
    BY <1>1, Zenon DEF TurnRecord
  <2> HIDE DEF U
  <2>7. Shape(t, U)
    BY <1>1, <2>5, <2>6 DEF Shape
  <2>8. Owes(U, Own(t), reg'.surfaced)
    <3>1. turn[t].phase = "live"
      BY <1>1, <1>2, ReaderLive
    <3> QED
      BY <1>1, <1>2, <2>5, <2>6, <3>1 DEF Owes
  <2>9. PhaseOf(U) = PhaseOf(turn[t])
    BY <2>5, <2>6 DEF PhaseOf
  <2>10. reg'.surfaced \subseteq reg.surfaced \cup Own(t)
    BY <2>2, <2>3
  <2> QED
    BY <1>1, <1>2, <2>1, <2>3, <2>4, <2>5, <2>7, <2>8, <2>9, <2>10, FlagStep
<1>6. CASE c \notin R!Registered(reg)
  <2>1. TerminateTurn(t, Detached(turn[t]), "protocol", TRUE)
    BY <1>3, <1>6
  <2>2. Detached(turn[t]) \in TurnRecord /\ Shape(t, Detached(turn[t]))
    BY <1>1, DetachedShape
  <2>3. "protocol" \in Errors \cup {"none"} /\ TRUE \in BOOLEAN /\ "protocol" # "none"
    BY DEF Errors
  <2> QED
    BY <1>1, <1>2, <2>1, <2>2, <2>3, TerminateTurnStep
<1> QED
  BY <1>5, <1>6

LEMMA SurfacedAllKept ==
    ASSUME IInv, NEW t \in Gens, SurfacedAll(t)
    PROVE  Kept
<1>1. /\ Core /\ turn[t] \in TurnRecord /\ Shape(t, turn[t]) /\ Chain(t) \in P!Chains
      /\ Owes(turn[t], Own(t), reg.surfaced) /\ P!Consistent(reg)
  BY TurnFacts DEF IInv
<1>2. turn[t].stage = "surfacing" /\ arrived' = arrived
  BY DEF SurfacedAll
<1>3. /\ turn[t].phase = "live" /\ turn[t].preCalls = <<>> /\ turn[t].reader \in Gens
      /\ ~ turn[t].cleaned => turn[t].reader = turn[t].signal
  BY <1>1, <1>2, ReaderLive
<1>4. CASE P!IsReady(reg, Chain(t))
  <2> DEFINE rg == P!RespondIfReady(reg, Chain(t))
  <2>1. Loop(t, turn[t].reader, turn[t], rg)
    BY <1>4, SameRegistry DEF SurfacedAll
  <2>2. P!EndedFrom(reg, rg, {Chain(t)}, {}, "responded")
    BY <1>1, <1>4, RegistryAssumption, P!RespondedEnds
  <2>3. Own(t) # {}
    BY <1>1, <1>4, OwnFacts DEF P!IsReady
  <2>4. ~ turn[t].cleaned /\ turn[t].doomed = "none"
    BY <1>1, <2>3, OwnerKnown
  <2>5. turn[t].reader = turn[t].signal /\ turn[t].reader \in Gens \ aborted
    BY <1>3, <2>4 DEF IInv, Outer
  <2> HIDE DEF rg
  <2>6. Readable(t, turn[t].reader, turn[t], {}, rg.surfaced)
    BY <1>1, <1>3, <2>4, <2>5, TurnReadable
  <2> QED
    BY <1>1, <1>2, <2>1, <2>2, <2>3, <2>4, <2>5, <2>6, RespondedLoopKept
<1>5. CASE ~ P!IsReady(reg, Chain(t))
  <2> DEFINE D == Detached(turn[t])
             U == [D EXCEPT !.keepAlive = TRUE]
  <2>1. turn' = [turn EXCEPT ![t] = U] /\ reg' = reg
    BY <1>5, SameRegistry DEF SurfacedAll
  <2>2. /\ D \in TurnRecord /\ Shape(t, D)
        /\ D.reader = NoGen /\ D.stage = "none" /\ D.todo = {}
        /\ D.phase = turn[t].phase /\ D.cleaned = turn[t].cleaned /\ D.doomed = turn[t].doomed
        /\ D.preCalls = turn[t].preCalls /\ D.callIds = turn[t].callIds
        /\ D.signal = turn[t].signal
    BY <1>1, DetachedShape
  <2> HIDE DEF D
  <2>3. U \in TurnRecord
    BY <2>2, Updates
  <2>4. /\ U.phase = D.phase /\ U.reader = D.reader /\ U.stage = D.stage /\ U.item = D.item
        /\ U.todo = D.todo /\ U.queue = D.queue /\ U.callIds = D.callIds
        /\ U.preCalls = D.preCalls /\ U.signal = D.signal /\ U.doomed = D.doomed
    BY <2>2 DEF TurnRecord
  <2>5. U.cleaned = D.cleaned /\ U.terminal = D.terminal
    BY <2>2, Zenon DEF TurnRecord
  <2> HIDE DEF U
  <2>6. Shape(t, U)
    BY <2>2, <2>4, <2>5 DEF Shape
  <2>7. Owes(U, Own(t), reg'.surfaced)
    BY <1>1, <1>3, <2>2, <2>4, <2>5 DEF Owes
  <2>8. \/ PhaseOf(U) = PhaseOf(turn[t])
        \/ PhaseOf(turn[t]) = "running" /\ PhaseOf(U) = "waiting" /\ Own(t) # {}
    <3>1. CASE turn[t].cleaned \/ turn[t].doomed # "none"
      BY <2>2, <2>4, <2>5, <3>1, EndedPhase
    <3>2. CASE ~ turn[t].cleaned /\ turn[t].doomed = "none"
      <4>1. Own(t) # {}
        BY <1>1, <1>2, <3>2 DEF Owes
      <4>2. turn[t].reader # NoGen
        BY <1>3, TransportAssumption
      <4>3. PhaseOf(turn[t]) = "running"
        BY <1>3, <3>2, <4>2 DEF PhaseOf
      <4>4. PhaseOf(U) = "waiting"
        BY <1>3, <2>2, <2>4, <2>5, <3>2 DEF PhaseOf
      <4> QED
        BY <4>1, <4>3, <4>4
    <3> QED
      BY <3>1, <3>2
  <2>9. /\ P!Consistent(reg') /\ reg'.callMap = reg.callMap /\ reg'.answer = reg.answer
        /\ reg'.surfaced \subseteq reg.surfaced \cup Own(t)
    BY <1>1, <2>1
  <2>10. U.preCalls = turn[t].preCalls
    BY <2>2, <2>4
  <2> QED
    BY <1>1, <1>2, <2>1, <2>3, <2>6, <2>7, <2>8, <2>9, <2>10, FlagStep
<1> QED
  BY <1>4, <1>5

LEMMA EntersConsumeKept ==
    ASSUME IInv, NEW t \in Gens, EntersConsume(t)
    PROVE  Kept
<1> DEFINE T == [turn[t] EXCEPT !.phase = "live"]
<1>1. /\ Core /\ turn[t] \in TurnRecord /\ Shape(t, turn[t])
      /\ Owes(turn[t], Own(t), reg.surfaced) /\ P!Consistent(reg)
  BY TurnFacts DEF IInv
<1>2. turn[t].phase = "returned" /\ arrived' = arrived
  BY DEF EntersConsume
<1>3. T \in TurnRecord
  BY <1>1, Updates
<1>4. /\ T.phase = "live" /\ T.reader = turn[t].reader /\ T.stage = turn[t].stage
      /\ T.item = turn[t].item /\ T.todo = turn[t].todo /\ T.queue = turn[t].queue
      /\ T.callIds = turn[t].callIds /\ T.preCalls = turn[t].preCalls
      /\ T.signal = turn[t].signal /\ T.doomed = turn[t].doomed
  BY <1>1 DEF TurnRecord
<1>5. T.cleaned = turn[t].cleaned /\ T.terminal = turn[t].terminal
  BY <1>1, Zenon DEF TurnRecord
<1>6. /\ T.cleaned => turn' = [turn EXCEPT ![t] = T] /\ reg' = reg
      /\ ~ T.cleaned => Loop(t, t, T, reg)
  BY DEF EntersConsume
<1> HIDE DEF T
<1>7. Shape(t, T) /\ turn[t].preCalls = <<>>
  BY <1>1, <1>2, <1>4, <1>5 DEF Shape
<1>8. CASE turn[t].cleaned
  <2>1. Own(t) = {} /\ PhaseOf(T) = "ended" /\ PhaseOf(turn[t]) = "ended"
    BY <1>1, <1>5, <1>8, OwnerKnown, EndedPhase
  <2>2. turn' = [turn EXCEPT ![t] = T] /\ reg' = reg
    BY <1>5, <1>6, <1>8
  <2>3. Owes(T, Own(t), reg'.surfaced)
    BY <1>5, <1>8, <1>1, <1>4, <2>1 DEF Owes
  <2>4. /\ P!Consistent(reg') /\ reg'.callMap = reg.callMap /\ reg'.answer = reg.answer
        /\ reg'.surfaced \subseteq reg.surfaced \cup Own(t)
    BY <1>1, <2>2
  <2> QED
    BY <1>1, <1>2, <1>3, <1>4, <1>7, <2>1, <2>2, <2>3, <2>4, FlagStep
<1>9. CASE ~ turn[t].cleaned
  <2>1. Loop(t, t, T, reg) /\ T.signal = t
    BY <1>1, <1>2, <1>4, <1>5, <1>6, <1>9 DEF Shape
  <2>2. /\ Own(t) \subseteq T.callIds /\ (T.doomed # "none" => Own(t) = {})
        /\ (Own(t) # {} => Own(t) \ reg.surfaced # {})
    BY <1>1, <1>2, <1>4 DEF Owes
  <2>3. Readable(t, t, T, Own(t), reg.surfaced)
    BY <1>1, <1>3, <1>4, <1>5, <1>7, <1>9, <2>1, <2>2, TurnReadable
  <2>4. \/ PhaseOf(turn[t]) \in {"running", "waiting"} /\ T.doomed = "none"
        \/ PhaseOf(turn[t]) = "ended" /\ T.doomed # "none"
    BY <1>2, <1>4, <1>9 DEF PhaseOf
  <2> QED
    BY <1>1, <1>2, <1>7, <2>1, <2>3, <2>4, LoopKept
<1> QED
  BY <1>8, <1>9

-------------------------------------------------------------------------------
(* generate *)

\* A turn that a result is for waits, unread, for the call of generate that brings it.
LEMMA CandidateWaits ==
    ASSUME IInv, Quiet, NEW t \in Gens, NEW ids, t \in Candidates(ids)
    PROVE  /\ Own(t) # {} /\ turn[t].reader = NoGen /\ turn[t].stage = "none"
           /\ turn[t].phase = "live" /\ turn[t].doomed = "none" /\ ~ turn[t].cleaned
           /\ turn[t].preCalls = <<>>
<1>1. /\ Core /\ turn[t] \in TurnRecord /\ Shape(t, turn[t])
  BY TurnFacts DEF IInv
<1>2. PICK c \in turn[t].callIds : c \in R!Registered(reg)
  BY DEF Candidates
<1>3. c \in ToolCalls /\ c.lease = t
  BY <1>1 DEF TurnRecord, Shape
<1>4. Own(t) # {}
  BY <1>1, <1>2, <1>3, SameRegistry, RegisteredFacts
<1>5. /\ turn[t].phase \in {"returned", "live"} /\ ~ turn[t].cleaned
      /\ turn[t].doomed = "none" /\ turn[t].stage # "waiting"
  BY <1>1, <1>4, OwnerKnown
<1>6. turn[t].stage = "none" /\ turn[t].phase = "live"
  BY <1>1, <1>5 DEF Quiet, TurnRecord
<1> QED
  BY <1>1, <1>4, <1>5, <1>6 DEF Shape

LEMMA GenerateFollowUpKept ==
    ASSUME IInv, Quiet, NEW g \in Gens, gen[g].status = "idle", NEW t \in Gens, NEW ids,
           GenerateFollowUp(g, t, ids)
    PROVE  Kept
<1> DEFINE new == NewResults(t, ids)
           rg == Resumed(g, t, new)
           T == [turn[t] EXCEPT !.signal = g, !.keepAlive = FALSE]
           U == [T EXCEPT !.keepAlive = TRUE]
<1>1. /\ Core /\ turn[t] \in TurnRecord /\ Shape(t, turn[t]) /\ Chain(t) \in P!Chains
      /\ Owes(turn[t], Own(t), reg.surfaced) /\ P!Consistent(reg)
  BY TurnFacts DEF IInv
<1>2. /\ Own(t) # {} /\ turn[t].reader = NoGen /\ turn[t].stage = "none"
      /\ turn[t].phase = "live" /\ turn[t].doomed = "none" /\ ~ turn[t].cleaned
      /\ turn[t].preCalls = <<>>
  BY CandidateWaits DEF GenerateFollowUp
<1>3. T \in TurnRecord
  <2>1. g \in Gens \cup {NoGen} /\ FALSE \in BOOLEAN
    OBVIOUS
  <2> QED
    BY <1>1, <2>1, Updates, Zenon
<1>4. /\ T.signal = g
      /\ T.phase = turn[t].phase /\ T.reader = turn[t].reader /\ T.stage = turn[t].stage
      /\ T.item = turn[t].item /\ T.todo = turn[t].todo /\ T.queue = turn[t].queue
      /\ T.callIds = turn[t].callIds /\ T.preCalls = turn[t].preCalls
      /\ T.doomed = turn[t].doomed
  BY <1>1 DEF TurnRecord
<1>5. T.cleaned = turn[t].cleaned /\ T.terminal = turn[t].terminal
  BY <1>1, Zenon DEF TurnRecord
<1>6. /\ arrived' = arrived
      /\ \/ /\ (new # {} /\ Chain(t) \notin rg.states) \/ P!Unsurfaced(rg, Chain(t)) # {}
            /\ T.reader = NoGen => Loop(t, g, T, rg)
         \/ /\ ~ ((new # {} /\ Chain(t) \notin rg.states) \/ P!Unsurfaced(rg, Chain(t)) # {})
            /\ turn' = [turn EXCEPT ![t] = U] /\ reg' = rg
  BY SameRegistry, Zenon DEF GenerateFollowUp
<1>7. /\ U \in TurnRecord
      /\ U.signal = T.signal
      /\ U.phase = T.phase /\ U.reader = T.reader /\ U.stage = T.stage
      /\ U.item = T.item /\ U.todo = T.todo /\ U.queue = T.queue
      /\ U.callIds = T.callIds /\ U.preCalls = T.preCalls /\ U.doomed = T.doomed
  <2> HIDE DEF T
  <2>1. U \in TurnRecord
    BY <1>3, Updates
  <2> QED
    BY <1>3, <2>1 DEF TurnRecord
<1>8. U.cleaned = T.cleaned /\ U.terminal = T.terminal
  <2> HIDE DEF T
  <2> QED
    BY <1>3, Zenon DEF TurnRecord
<1>9. g \in Gens \ aborted
  BY DEF IInv, Outer
<1> DEFINE h == P!Recorded(P!Bound(reg, Chain(t), g, aborted), new)
<1>10. rg = IF new = {} THEN reg ELSE P!RespondIfReady(h, Chain(t))
  BY SameRegistry DEF Resumed
<1>11. /\ P!Consistent(h) /\ h.callMap = reg.callMap /\ h.answer = reg.answer
       /\ h.surfaced = reg.surfaced /\ h.states = reg.states
  <2>1. Chain(t) \in reg.states /\ new \in SUBSET ToolCalls /\ aborted \in SUBSET Gens
    BY <1>1, <1>2, OwnFacts DEF NewResults, IInv, Outer, TurnRecord
  <2> HIDE DEF new
  <2> QED
    BY <1>1, <2>1, RegistryAssumption, P!FlagFields
<1> HIDE DEF T, U, h, rg, new
<1>12. Shape(t, T) /\ Shape(t, U)
  BY <1>1, <1>2, <1>4, <1>5, <1>7, <1>8 DEF Shape
<1>13. CASE new # {} /\ P!IsReady(h, Chain(t))
  <2>1. rg = P!RespondIfReady(h, Chain(t))
    BY <1>10, <1>13
  <2>2. P!EndedFrom(h, rg, {Chain(t)}, {}, "responded")
    BY <1>1, <1>11, <1>13, <2>1, RegistryAssumption, P!RespondedEnds
  <2>3. P!EndedFrom(reg, rg, {Chain(t)}, {}, "responded")
    BY <1>11, <2>2 DEF P!EndedFrom
  <2>4. rg.callMap[Chain(t)] = {} /\ P!Consistent(rg)
    BY <1>1, <2>3 DEF P!EndedFrom
  <2>5. Chain(t) \notin rg.states
    BY <1>1, <2>4, ChainFacts
  <2>6. Loop(t, g, T, rg)
    BY <1>2, <1>4, <1>6, <1>13, <2>5
  <2>7. Readable(t, g, T, {}, rg.surfaced)
    BY <1>1, <1>2, <1>3, <1>4, <1>5, <1>12, TurnReadable
  <2> QED
    BY <1>1, <1>2, <1>4, <1>6, <1>9, <2>3, <2>6, <2>7, RespondedLoopKept
<1>14. CASE ~ (new # {} /\ P!IsReady(h, Chain(t)))
  <2>1. /\ P!Consistent(rg) /\ rg.callMap = reg.callMap /\ rg.answer = reg.answer
        /\ rg.surfaced = reg.surfaced /\ rg.states = reg.states
    BY <1>1, <1>10, <1>11, <1>14 DEF P!RespondIfReady
  <2>2. Chain(t) \in rg.states
    BY <1>1, <1>2, <2>1, OwnFacts
  <2>3. PhaseOf(turn[t]) = "waiting" /\ PhaseOf(U) = "waiting"
    BY <1>2, <1>4, <1>5, <1>7, <1>8 DEF PhaseOf
  <2>4. CASE P!Unsurfaced(rg, Chain(t)) # {}
    <3>1. Loop(t, g, T, rg)
      BY <1>2, <1>4, <1>6, <2>4
    <3>2. Own(t) \ reg.surfaced # {} /\ Own(t) \subseteq T.callIds
      BY <1>1, <1>4, <2>1, <2>4 DEF P!Unsurfaced, Own, Owes
    <3>3. Readable(t, g, T, Own(t), reg.surfaced)
      BY <1>1, <1>2, <1>3, <1>4, <1>5, <1>12, <3>2, TurnReadable
    <3> QED
      BY <1>1, <1>2, <1>4, <1>6, <2>1, <2>3, <3>1, <3>3, LoopKept
  <2>5. CASE P!Unsurfaced(rg, Chain(t)) = {}
    <3>1. turn' = [turn EXCEPT ![t] = U] /\ reg' = rg
      BY <1>6, <2>2, <2>5
    <3>2. Owes(U, Own(t), reg'.surfaced)
      BY <1>1, <1>2, <1>4, <1>5, <1>7, <1>8 DEF Owes
    <3>3. U.preCalls = turn[t].preCalls /\ reg'.surfaced \subseteq reg.surfaced \cup Own(t)
      BY <1>4, <1>7, <2>1, <3>1
    <3> QED
      BY <1>1, <1>6, <1>7, <1>12, <2>1, <2>3, <3>1, <3>2, <3>3, FlagStep
  <2> QED
    BY <2>4, <2>5
<1> QED
  BY <1>13, <1>14

\* A step that leaves what the invariant says of a turn as it is, apart from how far
\* its start has come.
LEMMA SamePartKept ==
    ASSUME Core, NEW t \in Gens, NEW U \in TurnRecord, turn' = [turn EXCEPT ![t] = U],
           reg' = reg, arrived' = arrived,
           U.reader = turn[t].reader, U.stage = turn[t].stage, U.item = turn[t].item,
           U.todo = turn[t].todo, U.queue = turn[t].queue, U.callIds = turn[t].callIds,
           U.preCalls = turn[t].preCalls, U.signal = turn[t].signal,
           U.doomed = turn[t].doomed, U.cleaned = turn[t].cleaned,
           U.terminal = turn[t].terminal,
           \/ U.phase = turn[t].phase
           \/ /\ U.phase \notin {"returned", "live"}
              /\ turn[t].phase \notin {"returned", "live", "starting"}
    PROVE  Kept
<1>1. /\ turn[t] \in TurnRecord /\ Shape(t, turn[t])
      /\ Owes(turn[t], Own(t), reg.surfaced) /\ P!Consistent(reg)
  BY TurnFacts
<1>2. Shape(t, U)
  BY <1>1 DEF Shape
<1>3. Owes(U, Own(t), reg'.surfaced)
  BY <1>1 DEF Owes
<1>4. PhaseOf(U) = PhaseOf(turn[t])
  BY DEF PhaseOf
<1>5. /\ P!Consistent(reg') /\ reg'.callMap = reg.callMap /\ reg'.answer = reg.answer
      /\ reg'.surfaced \subseteq reg.surfaced \cup Own(t)
  BY <1>1
<1> QED
  BY <1>2, <1>3, <1>4, <1>5, FlagStep

\* A step that concerns neither turns nor the registry.
LEMMA ElsewhereKept ==
    ASSUME Core, UNCHANGED <<turn, reg, arrived>>
    PROVE  Kept
<1>1. \A t \in Gens : Own(t)' = Own(t) /\ Buffered(t)' = Buffered(t)
  BY DEF Own, Buffered
<1>2. \A c \in ToolCalls : Placed(c)'
  <2> SUFFICES ASSUME NEW c \in ToolCalls PROVE Placed(c)'
    OBVIOUS
  <2>1. c.lease \in Gens
    BY ChainTyped
  <2>2. Placed(c)
    BY DEF Core
  <2> QED
    BY <1>1, <2>1, <2>2 DEF Placed
<1>3. \A t \in Gens : Shape(t, turn[t]) /\ Owes(turn[t], Own(t), reg.surfaced)
  BY DEF Core
<1>4. Core'
  BY <1>1, <1>2, <1>3 DEF Core
<1>5. \A t \in Gens : Allowed(t)
  BY <1>1 DEF Allowed
<1>6. \A c \in ToolCalls : AnswerAllowed(c)
  BY DEF AnswerAllowed
<1> QED
  BY <1>4, <1>5, <1>6 DEF Kept

LEMMA CleanupStepKept ==
    ASSUME IInv, NEW t \in Gens, CleanupStep(t)
    PROVE  Kept
<1> DEFINE C == IF turn[t].cleanup = "interrupt" THEN "unsubscribe" ELSE "done"
           L == IF turn[t].cleanup = "unsubscribe" THEN "released" ELSE turn[t].lease
           U == [turn[t] EXCEPT !.cleanup = C, !.lease = L]
<1>1. Core /\ turn[t] \in TurnRecord
  BY TurnFacts DEF IInv
<1>2. turn' = [turn EXCEPT ![t] = U] /\ reg' = reg /\ arrived' = arrived
  BY <1>1 DEF CleanupStep, Core
<1>3. C \in {"none", "interrupt", "unsubscribe", "done"} /\ L \in {"none", "held", "released"}
  BY <1>1 DEF TurnRecord
<1> HIDE DEF C, L
<1>4. U \in TurnRecord
  BY <1>1, <1>3, Updates, Zenon
<1>5. /\ U.phase = turn[t].phase
      /\ U.reader = turn[t].reader /\ U.stage = turn[t].stage /\ U.item = turn[t].item
      /\ U.todo = turn[t].todo /\ U.queue = turn[t].queue /\ U.callIds = turn[t].callIds
      /\ U.preCalls = turn[t].preCalls /\ U.signal = turn[t].signal
      /\ U.doomed = turn[t].doomed
  BY <1>1 DEF TurnRecord
<1>6. U.cleaned = turn[t].cleaned /\ U.terminal = turn[t].terminal
  BY <1>1, Zenon DEF TurnRecord
<1> HIDE DEF U
<1> QED
  BY <1>1, <1>2, <1>4, <1>5, <1>6, SamePartKept

\* The steps of startTurn before the turn has handlers.
LEMMA PhaseStepKept ==
    ASSUME Core, NEW t \in Gens, reg' = reg, arrived' = arrived,
           NEW f \in {"none", "lease", "thread", "starting"},
           NEW l \in {"none", "held", "released"},
           turn' = [turn EXCEPT ![t].phase = f, ![t].lease = l],
           turn[t].phase \in {"none", "lease", "thread"}
    PROVE  Kept
<1> DEFINE U == [turn[t] EXCEPT !.phase = f, !.lease = l]
<1>1. turn[t] \in TurnRecord
  BY TurnFacts
<1>2. turn' = [turn EXCEPT ![t] = U]
  BY DEF Core
<1>3. U \in TurnRecord
  BY <1>1, Updates, Zenon
<1>5. /\ U.phase = f
      /\ U.reader = turn[t].reader /\ U.stage = turn[t].stage /\ U.item = turn[t].item
      /\ U.todo = turn[t].todo /\ U.queue = turn[t].queue /\ U.callIds = turn[t].callIds
      /\ U.preCalls = turn[t].preCalls /\ U.signal = turn[t].signal
      /\ U.doomed = turn[t].doomed
  BY <1>1 DEF TurnRecord
<1>6. U.cleaned = turn[t].cleaned /\ U.terminal = turn[t].terminal
  BY <1>1, Zenon DEF TurnRecord
<1> HIDE DEF U
<1> QED
  BY <1>2, <1>3, <1>5, <1>6, SamePartKept

\* Such a step moves the phase, and perhaps the lease.
LEMMA StartingMoves ==
    ASSUME Core, NEW t \in Gens,
           LeaseAcquired(t) \/ LeaseFailed(t) \/ ThreadStarted(t) \/ ThreadFailed(t)
    PROVE  \E f \in {"none", "lease", "thread", "starting"}, l \in {"none", "held", "released"} :
              turn' = [turn EXCEPT ![t].phase = f, ![t].lease = l]
<1>1. turn[t] \in TurnRecord /\ turn[t].lease \in {"none", "held", "released"}
  BY TurnFacts DEF TurnRecord
<1>2. ASSUME NEW f, turn' = [turn EXCEPT ![t].phase = f]
      PROVE  turn' = [turn EXCEPT ![t].phase = f, ![t].lease = turn[t].lease]
  BY <1>1, <1>2 DEF Core, TurnRecord
<1>3. CASE LeaseAcquired(t)
  BY <1>3 DEF LeaseAcquired
<1>4. CASE LeaseFailed(t)
  BY <1>1, <1>2, <1>4 DEF LeaseFailed
<1>5. CASE ThreadStarted(t)
  BY <1>1, <1>2, <1>5 DEF ThreadStarted
<1>6. CASE ThreadFailed(t)
  BY <1>6 DEF ThreadFailed
<1> QED
  BY <1>3, <1>4, <1>5, <1>6

LEMMA StartingKept ==
    ASSUME IInv, NEW t \in Gens,
           LeaseAcquired(t) \/ LeaseFailed(t) \/ ThreadStarted(t) \/ ThreadFailed(t)
    PROVE  Kept
<1>1. Core
  BY DEF IInv
<1>2. turn[t].phase \in {"lease", "thread"} /\ reg' = reg /\ arrived' = arrived
  BY DEF LeaseAcquired, LeaseFailed, ThreadStarted, ThreadFailed
<1>3. PICK f \in {"none", "lease", "thread", "starting"}, l \in {"none", "held", "released"} :
         turn' = [turn EXCEPT ![t].phase = f, ![t].lease = l]
  BY <1>1, StartingMoves
<1> QED
  BY <1>1, <1>2, <1>3, PhaseStepKept

LEMMA GenerateNewKept ==
    ASSUME IInv, NEW g \in Gens, gen[g].status = "idle", NEW ids, GenerateNew(g, ids)
    PROVE  Kept
<1>1. Core /\ turn[g] \in TurnRecord /\ turn[g].lease \in {"none", "held", "released"}
  BY TurnFacts DEF IInv, TurnRecord
<1>2. turn[g].phase = "none" /\ reg' = reg /\ arrived' = arrived
  BY DEF GenerateNew, IInv, Outer
<1>3. turn' = [turn EXCEPT ![g].phase = "lease", ![g].lease = turn[g].lease]
  BY <1>1 DEF GenerateNew, Core, TurnRecord
<1> QED
  BY <1>1, <1>2, <1>3, PhaseStepKept

-------------------------------------------------------------------------------
(* What the App Server sends *)

\* The value goes to the waiting reader or to the queue.
LEMMA PushFields ==
    ASSUME NEW T \in TurnRecord, NEW x \in {"text", "tool", "completed"}
    PROVE  LET U == Push(T, x)
           IN  /\ U \in TurnRecord
               /\ U.phase = T.phase /\ U.reader = T.reader /\ U.todo = T.todo
               /\ U.callIds = T.callIds /\ U.preCalls = T.preCalls /\ U.signal = T.signal
               /\ U.doomed = T.doomed /\ U.cleaned = T.cleaned /\ U.terminal = T.terminal
               /\ T.stage = "waiting" => U.stage = "got" /\ U.item = x /\ U.queue = T.queue
               /\ T.stage # "waiting" => U.stage = T.stage /\ U.item = T.item
               /\ ToSet(U.queue) \subseteq ToSet(T.queue) \cup {x}
<1> DEFINE U == Push(T, x)
<1>1. CASE T.stage = "waiting"
  <2>1. U = [T EXCEPT !.stage = "got", !.item = x]
    BY <1>1 DEF Push
  <2>2. U \in TurnRecord
    <3> DEFINE A == [T EXCEPT !.stage = "got"]
    <3>1. A \in TurnRecord
      BY Updates
    <3> HIDE DEF A
    <3>2. [A EXCEPT !.item = x] \in TurnRecord
      BY <3>1, Updates
    <3> QED
      BY <2>1, <3>2 DEF A
  <2>3. U.cleaned = T.cleaned /\ U.terminal = T.terminal
    BY <2>1, Zenon DEF TurnRecord
  <2> QED
    BY <1>1, <2>1, <2>2, <2>3 DEF TurnRecord
<1>2. CASE T.stage # "waiting"
  <2>1. U = [T EXCEPT !.queue = Append(T.queue, x)]
    BY <1>2 DEF Push
  <2>2. T.queue \in Seq({"text", "tool", "completed"})
    BY DEF TurnRecord
  <2>3. Append(T.queue, x) \in Seq({"text", "tool", "completed"})
    BY <2>2
  <2>4. ToSet(Append(T.queue, x)) \subseteq ToSet(T.queue) \cup {x}
    BY <2>2 DEF ToSet
  <2>5. U \in TurnRecord
    BY <2>1, <2>3, Updates, ZenonT(40)
  <2>6. U.cleaned = T.cleaned /\ U.terminal = T.terminal
    BY <2>1, Zenon DEF TurnRecord
  <2> QED
    BY <1>2, <2>1, <2>4, <2>5, <2>6 DEF TurnRecord
<1> QED
  BY <1>1, <1>2

\* A turn that takes a value keeps its shape, and owes its calls O, of which those
\* in F are shown, as before or since just now.
LEMMA PushShape ==
    ASSUME NEW t, NEW T \in TurnRecord, NEW x \in {"text", "tool", "completed"}, Shape(t, T),
           T.phase \in {"returned", "live"}, ~ T.cleaned, T.doomed = "none",
           x = "completed" => T.terminal,
           NEW O, NEW F, O \subseteq T.callIds,
           T.stage = "waiting" => O \cap F = {} /\ (x = "completed" => O = {}),
           T.stage = "got" \/ T.phase = "returned" => O \cap F = {},
           T.stage = "got" /\ T.item = "completed" => O = {},
           T.stage = "surfacing" => O # {}
    PROVE  Shape(t, Push(T, x)) /\ Owes(Push(T, x), O, F)
<1> DEFINE U == Push(T, x)
<1>1. /\ U \in TurnRecord
      /\ U.phase = T.phase /\ U.reader = T.reader /\ U.todo = T.todo
      /\ U.callIds = T.callIds /\ U.preCalls = T.preCalls /\ U.signal = T.signal
      /\ U.doomed = T.doomed /\ U.cleaned = T.cleaned /\ U.terminal = T.terminal
      /\ T.stage = "waiting" => U.stage = "got" /\ U.item = x /\ U.queue = T.queue
      /\ T.stage # "waiting" => U.stage = T.stage /\ U.item = T.item
      /\ ToSet(U.queue) \subseteq ToSet(T.queue) \cup {x}
  BY PushFields
<1> HIDE DEF U
<1>2. Shape(t, U)
  BY <1>1 DEF Shape
<1>3. Owes(U, O, F)
  BY <1>1 DEF Owes
<1> QED
  BY <1>2, <1>3 DEF U

\* An event or the completion of a live turn is given to its reader.
LEMMA EventKept ==
    ASSUME Core, NEW t \in Gens, NEW T \in TurnRecord, NEW x \in {"text", "completed"},
           turn[t].phase \in {"returned", "live"}, ~ turn[t].cleaned, turn[t].doomed = "none",
           T.phase = turn[t].phase, T.reader = turn[t].reader, T.stage = turn[t].stage,
           T.item = turn[t].item, T.todo = turn[t].todo, T.queue = turn[t].queue,
           T.callIds = turn[t].callIds, T.preCalls = turn[t].preCalls,
           T.signal = turn[t].signal, T.doomed = turn[t].doomed, T.cleaned = turn[t].cleaned,
           turn[t].terminal => T.terminal, x = "completed" => T.terminal,
           turn' = [turn EXCEPT ![t] = Push(T, x)], reg' = reg, arrived' = arrived
    PROVE  Kept
<1> DEFINE U == Push(T, x)
<1>1. /\ turn[t] \in TurnRecord /\ Shape(t, turn[t])
      /\ Owes(turn[t], Own(t), reg.surfaced) /\ P!Consistent(reg)
  BY TurnFacts
<1>2. Shape(t, T)
  BY <1>1 DEF Shape
<1>3. /\ Own(t) \subseteq T.callIds
      /\ T.stage = "waiting" => Own(t) = {}
      /\ T.stage = "got" \/ T.phase = "returned" => Own(t) \cap reg.surfaced = {}
      /\ T.stage = "got" /\ T.item = "completed" => Own(t) = {}
      /\ T.stage = "surfacing" => Own(t) # {}
  BY <1>1 DEF Owes
<1>4. x \in {"text", "tool", "completed"}
  OBVIOUS
<1>5. Shape(t, U) /\ Owes(U, Own(t), reg.surfaced)
  BY <1>2, <1>3, <1>4, PushShape
<1>6. /\ U \in TurnRecord /\ U.phase = T.phase /\ U.reader = T.reader
      /\ U.preCalls = T.preCalls /\ U.doomed = T.doomed /\ U.cleaned = T.cleaned
  BY <1>4, PushFields
<1> HIDE DEF U
<1>7. PhaseOf(U) = PhaseOf(turn[t])
  BY <1>6 DEF PhaseOf
<1>8. /\ P!Consistent(reg') /\ reg'.callMap = reg.callMap /\ reg'.answer = reg.answer
      /\ reg'.surfaced \subseteq reg.surfaced \cup Own(t)
  BY <1>1
<1>9. turn' = [turn EXCEPT ![t] = U] /\ Owes(U, Own(t), reg'.surfaced)
  BY <1>5 DEF U
<1> QED
  BY <1>5, <1>6, <1>7, <1>8, <1>9, FlagStep

LEMMA NotifyKept ==
    ASSUME IInv, NEW t \in Gens, NEW n \in Notes, Notify(t, n)
    PROVE  Kept
<1> DEFINE T == [turn[t] EXCEPT !.notes = @ + 1]
           U == Noted(T, n)
<1>1. Core /\ turn[t] \in TurnRecord /\ Shape(t, turn[t])
  BY TurnFacts DEF IInv
<1>2. /\ HasHandlers(t) /\ T.notes <= MaxNotes /\ turn[t].doomed = "none" /\ arrived' = arrived
  BY DEF Notify, Listening
<1>3. T \in TurnRecord
  <2>1. turn[t].notes + 1 \in 0..MaxNotes
    BY <1>1, <1>2, TransportAssumption DEF TurnRecord
  <2> QED
    BY <1>1, <2>1, Updates
<1>4. /\ T.phase = turn[t].phase /\ T.reader = turn[t].reader /\ T.stage = turn[t].stage
      /\ T.item = turn[t].item /\ T.todo = turn[t].todo /\ T.queue = turn[t].queue
      /\ T.callIds = turn[t].callIds /\ T.preCalls = turn[t].preCalls
      /\ T.signal = turn[t].signal /\ T.doomed = turn[t].doomed
      /\ T.preNotes = turn[t].preNotes
  BY <1>1 DEF TurnRecord
<1>5. T.cleaned = turn[t].cleaned /\ T.terminal = turn[t].terminal
  BY <1>1, Zenon DEF TurnRecord
<1>6. /\ T.phase = "starting" => turn' = [turn EXCEPT ![t] = [T EXCEPT !.preNotes = Append(@, n)]]
                                  /\ reg' = reg
      /\ T.phase # "starting" =>
           /\ turn' = [turn EXCEPT ![t] = U]
           /\ reg' = IF U.cleaned THEN RegistryAfter(reg, t, U.failure) ELSE reg
  BY DEF Notify
<1> HIDE DEF T
<1>7. CASE T.phase = "starting"
  <2> DEFINE V == [T EXCEPT !.preNotes = Append(@, n)]
  <2>1. turn' = [turn EXCEPT ![t] = V] /\ reg' = reg
    BY <1>6, <1>7
  <2>2. V \in TurnRecord
    <3>1. Append(T.preNotes, n) \in Seq(Notes)
      BY <1>3 DEF TurnRecord
    <3> QED
      BY <1>3, <3>1, Updates
  <2>3. /\ V.phase = T.phase /\ V.reader = T.reader /\ V.stage = T.stage
        /\ V.item = T.item /\ V.todo = T.todo /\ V.queue = T.queue
        /\ V.callIds = T.callIds /\ V.preCalls = T.preCalls
        /\ V.signal = T.signal /\ V.doomed = T.doomed
    BY <1>3 DEF TurnRecord
  <2>4. V.cleaned = T.cleaned /\ V.terminal = T.terminal
    BY <1>3, Zenon DEF TurnRecord
  <2> HIDE DEF V
  <2> QED
    BY <1>1, <1>2, <1>4, <1>5, <2>1, <2>2, <2>3, <2>4, SamePartKept
<1>8. CASE T.phase # "starting"
  <2>1. turn[t].phase \in {"returned", "live"} /\ ~ turn[t].cleaned /\ ~ T.cleaned
    BY <1>2, <1>4, <1>5, <1>8 DEF HasHandlers
  <2>2. CASE n = "text"
    <3>1. U = Push(T, "text")
      BY <2>1, <2>2 DEF Noted
    <3>2. U.cleaned = T.cleaned
      BY <1>3, <3>1, PushFields
    <3>3. turn' = [turn EXCEPT ![t] = Push(T, "text")] /\ reg' = reg
      BY <1>6, <1>8, <2>1, <3>1, <3>2
    <3> QED
      BY <1>1, <1>2, <1>3, <1>4, <1>5, <2>1, <3>3, EventKept
  <2>3. CASE n = "completed"
    <3> DEFINE V == [T EXCEPT !.terminal = TRUE]
    <3>1. U = Push(V, "completed")
      BY <2>1, <2>3 DEF Noted
    <3>2. V \in TurnRecord
      BY <1>3, Updates
    <3>3. /\ V.phase = T.phase /\ V.reader = T.reader /\ V.stage = T.stage
          /\ V.item = T.item /\ V.todo = T.todo /\ V.queue = T.queue
          /\ V.callIds = T.callIds /\ V.preCalls = T.preCalls
          /\ V.signal = T.signal /\ V.doomed = T.doomed
      BY <1>3 DEF TurnRecord
    <3>4. V.cleaned = T.cleaned /\ V.terminal
      BY <1>3, Zenon DEF TurnRecord
    <3> HIDE DEF V
    <3>5. U.cleaned = V.cleaned
      BY <3>1, <3>2, PushFields
    <3>6. turn' = [turn EXCEPT ![t] = Push(V, "completed")] /\ reg' = reg
      BY <1>6, <1>8, <2>1, <3>1, <3>4, <3>5
    <3> QED
      BY <1>1, <1>2, <1>4, <1>5, <2>1, <3>2, <3>3, <3>4, <3>6, EventKept
  <2>4. CASE n \in {"interrupted", "badCompletion", "failed"}
    <3> DEFINE e == IF n = "interrupted" THEN "cancelled" ELSE "protocol"
               b == n = "failed"
    <3>1. U = Terminate(T, e, b)
      BY <2>1, <2>4 DEF Noted
    <3>2. e \in Errors \cup {"none"} /\ e # "none" /\ b \in BOOLEAN
      BY DEF Errors
    <3> HIDE DEF e, b, U
    <3>3. Shape(t, T)
      BY <1>1, <1>4, <1>5 DEF Shape
    <3>4. U \in TurnRecord /\ Shape(t, U) /\ U.cleaned /\ U.preCalls = <<>>
      BY <1>3, <3>1, <3>2, <3>3, TerminateShape
    <3>5. U.failure = e
      BY <1>3, <2>1, <3>1, <3>2, TerminateFields
    <3>6. turn' = [turn EXCEPT ![t] = U] /\ reg' = RegistryAfter(reg, t, e)
      BY <1>6, <1>8, <3>4, <3>5
    <3>7. P!EndedFrom(reg, reg', {Chain(t)}, Buffered(t), "rejected")
      BY <1>1, <3>2, <3>6, RegistryAfterEnds
    <3> QED
      BY <1>1, <1>2, <3>4, <3>6, <3>7, OneEnds
  <2> QED
    BY <2>2, <2>3, <2>4 DEF Notes
<1> QED
  BY <1>7, <1>8

\* Nothing ended and nothing was taken.
LEMMA NothingEnds ==
    ASSUME NEW g, P!Consistent(g)
    PROVE  P!EndedFrom(g, g, {}, {}, "rejected") /\ P!TakenFrom(g, g, {})
  BY DEF P!EndedFrom, P!TakenFrom

\* A request the server has not sent before is nowhere.
LEMMA NewRequest ==
    ASSUME Core, NEW c \in ToolCalls, c \notin arrived
    PROVE  /\ c.lease \in Gens /\ reg.answer[c] = "none" /\ c \notin reg.surfaced
           /\ \A d \in P!Chains : c \notin reg.callMap[d]
<1>1. c.lease \in Gens /\ Placed(c) /\ P!Consistent(reg)
  BY ChainTyped DEF Core
<1>2. ASSUME NEW d \in P!Chains, c \in reg.callMap[d]
      PROVE  FALSE
  <2>1. d = Chain(c.lease)
    BY <1>1, <1>2, ChainFacts
  <2> QED
    BY <1>1, <1>2, <2>1 DEF Placed, Own
<1> QED
  BY <1>1, <1>2 DEF Placed

\* A sequence and what is appended to it.
LEMMA AppendRange ==
    ASSUME NEW S, NEW q \in Seq(S), NEW x \in S
    PROVE  Append(q, x) \in Seq(S) /\ ToSet(Append(q, x)) = ToSet(q) \cup {x}
<1>1. /\ Append(q, x) \in Seq(S) /\ Len(Append(q, x)) = Len(q) + 1
      /\ Append(q, x)[Len(q) + 1] = x /\ \A i \in 1..Len(q) : Append(q, x)[i] = q[i]
  OBVIOUS
<1>2. Len(q) \in Nat /\ DOMAIN q = 1..Len(q) /\ DOMAIN Append(q, x) = 1..Len(q) + 1
  BY <1>1
<1>3. ToSet(Append(q, x)) \subseteq ToSet(q) \cup {x}
  BY <1>1, <1>2 DEF ToSet
<1>4. ToSet(q) \subseteq ToSet(Append(q, x))
  BY <1>1, <1>2 DEF ToSet
<1>5. x \in ToSet(Append(q, x))
  <2>1. Len(q) + 1 \in DOMAIN Append(q, x)
    BY <1>2
  <2> QED
    BY <1>1, <2>1 DEF ToSet
<1> QED
  BY <1>1, <1>3, <1>4, <1>5

LEMMA BufferToolCallKept ==
    ASSUME Core, NEW c \in ToolCalls, c \notin arrived, arrived' = arrived \cup {c},
           BufferToolCall(c)
    PROVE  Kept
<1> DEFINE t == c.lease
           U == [turn[t] EXCEPT !.preCalls = Append(@, c)]
<1>1. t \in Gens
  BY ChainTyped
<1>2. /\ turn[t] \in TurnRecord /\ Shape(t, turn[t])
      /\ Owes(turn[t], Own(t), reg.surfaced) /\ P!Consistent(reg)
  BY <1>1, TurnFacts
<1>3. /\ turn[t].phase = "starting" /\ ~ turn[t].cleaned
      /\ turn' = [turn EXCEPT ![t] = U] /\ reg' = reg
  BY <1>1 DEF BufferToolCall, TurnOf, TakesToolCalls, HasHandlers, Core
<1>4. /\ Append(turn[t].preCalls, c) \in Seq(ToolCalls)
      /\ ToSet(Append(turn[t].preCalls, c)) = Buffered(t) \cup {c}
  <2>1. turn[t].preCalls \in Seq(ToolCalls)
    BY <1>2 DEF TurnRecord
  <2> QED
    BY <2>1, AppendRange DEF Buffered
<1>5. U \in TurnRecord
  BY <1>2, <1>4, Updates
<1>6. /\ ToSet(U.preCalls) = Buffered(t) \cup {c}
      /\ U.phase = turn[t].phase
      /\ U.reader = turn[t].reader /\ U.stage = turn[t].stage /\ U.item = turn[t].item
      /\ U.todo = turn[t].todo /\ U.queue = turn[t].queue /\ U.callIds = turn[t].callIds
      /\ U.signal = turn[t].signal /\ U.doomed = turn[t].doomed
  BY <1>2, <1>4 DEF TurnRecord
<1>7. U.cleaned = turn[t].cleaned /\ U.terminal = turn[t].terminal
  BY <1>2, Zenon DEF TurnRecord
<1> HIDE DEF U
<1>8. Shape(t, U)
  BY <1>2, <1>3, <1>6, <1>7 DEF Shape, Buffered
<1>9. PhaseOf(U) = PhaseOf(turn[t])
  BY <1>6, <1>7 DEF PhaseOf
<1>10. P!EndedFrom(reg, reg, {}, {}, "rejected") /\ P!TakenFrom(reg, reg, {})
  BY <1>2, NothingEnds
<1>11. Owes(U, Own(t) \cup {}, reg.surfaced)
  BY <1>2, <1>6, <1>7 DEF Owes
<1> DEFINE A == {c}
           E == {}
<1>12. /\ A \subseteq ToolCalls \ arrived /\ (\A a \in A : a.lease = t)
       /\ arrived' = arrived \cup A
       /\ E \cup E \cup ToSet(U.preCalls) = Buffered(t) \cup A
       /\ E \cap (E \cup ToSet(U.preCalls)) = {}
       /\ P!EndedFrom(reg, reg, {}, E, "rejected") /\ P!TakenFrom(reg, reg', E)
       /\ Owes(U, Own(t) \cup E, reg'.surfaced)
       /\ PhaseOf(U) = PhaseOf(turn[t]) /\ (E = {} \/ PhaseOf(U) \in {"running", "waiting"})
  BY <1>3, <1>6, <1>9, <1>10, <1>11
<1> HIDE DEF A, E, t
<1> QED
  BY <1>1, <1>3, <1>5, <1>8, <1>12, TakeStep

\* A new request that is refused.
LEMMA RefusedCallKept ==
    ASSUME Core, NEW c \in ToolCalls, c \notin arrived, arrived' = arrived \cup {c},
           reg' = R!Settle(reg, {c}, "rejected"), turn' = turn
    PROVE  Kept
<1> DEFINE t == c.lease
           U == turn[t]
           A == {c}
           E == {}
<1>1. /\ t \in Gens /\ \A d \in P!Chains : A \cap reg.callMap[d] = {}
  BY NewRequest
<1>2. /\ U \in TurnRecord /\ Shape(t, U)
      /\ Owes(U, Own(t), reg.surfaced) /\ P!Consistent(reg)
  BY <1>1, TurnFacts
<1>3. reg' = P!Settle(reg, A, "rejected") /\ A \in SUBSET ToolCalls
  BY SameRegistry
<1>4. P!EndedFrom(reg, reg', {}, A, "rejected")
  <2> HIDE DEF A
  <2> QED
    BY <1>1, <1>2, <1>3, RegistryAssumption, P!SettledEnds
<1>5. P!TakenFrom(reg', reg', E)
  <2>1. P!Consistent(reg')
    BY <1>4 DEF P!EndedFrom
  <2> QED
    BY <2>1, NothingEnds
<1>6. Buffered(t) \subseteq arrived
  <2>1. Buffered(t) \subseteq ToolCalls /\ \A b \in Buffered(t) : b.lease = t
    BY <1>2 DEF TurnRecord, Shape, Buffered, ToSet
  <2> QED
    BY <2>1 DEF Core, Placed
<1>7. reg'.surfaced \subseteq reg.surfaced
  BY <1>4 DEF P!EndedFrom
<1>8. Owes(U, Own(t) \cup E, reg'.surfaced)
  BY <1>2, <1>7 DEF Owes
<1>9. /\ turn' = [turn EXCEPT ![t] = U] /\ A \subseteq ToolCalls \ arrived
      /\ (\A a \in A : a.lease = t) /\ arrived' = arrived \cup A
      /\ E \cup A \cup ToSet(U.preCalls) = Buffered(t) \cup A
      /\ A \cap (E \cup ToSet(U.preCalls)) = {}
      /\ PhaseOf(U) = PhaseOf(turn[t]) /\ (E = {} \/ PhaseOf(U) \in {"running", "waiting"})
  BY <1>6 DEF Core, Buffered
<1> HIDE DEF A, E, t, U
<1> QED
  BY <1>1, <1>2, <1>4, <1>5, <1>8, <1>9, TakeStep

LEMMA HandleToolCallKept ==
    ASSUME Core, NEW c \in ToolCalls, c \notin arrived, arrived' = arrived \cup {c},
           Listening, HandleToolCall(c)
    PROVE  Kept
<1> DEFINE t == c.lease
           V == [turn[t] EXCEPT !.callIds = @ \cup {c}]
           U == Push(V, "tool")
           A == {c}
           E == {}
<1>1. /\ t \in Gens /\ reg.answer[c] = "none" /\ c \notin reg.surfaced
  BY NewRequest
<1>2. /\ turn[t] \in TurnRecord /\ Shape(t, turn[t])
      /\ Owes(turn[t], Own(t), reg.surfaced) /\ P!Consistent(reg)
  BY <1>1, TurnFacts
<1>3. /\ turn[t].phase \in {"returned", "live"} /\ ~ turn[t].cleaned /\ ~ turn[t].terminal
      /\ turn[t].doomed = "none"
  BY <1>1 DEF HandleToolCall, TurnOf, TakesToolCalls, HasHandlers, Listening
<1>4. CASE ~ R!CanCapture(reg, c)
  <2>1. reg' = R!Settle(reg, {c}, "rejected") /\ turn' = turn
    BY <1>4 DEF HandleToolCall
  <2> QED
    BY <2>1, RefusedCallKept
<1>5. CASE R!CanCapture(reg, c)
  <2>1. reg' = P!Captured(reg, c) /\ turn' = [turn EXCEPT ![t] = U] /\ P!CanCapture(reg, c)
    <3>0. turn' = [turn EXCEPT ![t] = U]
      BY <1>5, Zenon DEF HandleToolCall, TurnOf
    <3>1. reg' = R!Captured(reg, c)
      BY <1>5, Zenon DEF HandleToolCall, TurnOf
    <3>2. R!Captured(reg, c) = P!Captured(reg, c) /\ P!CanCapture(reg, c)
      BY <1>5, SameRegistry
    <3> QED
      BY <3>0, <3>1, <3>2
  <2>2. P!TakenFrom(reg, reg', A)
    BY <1>1, <1>2, <2>1, RegistryAssumption, P!CapturedTakes
  <2>3. V \in TurnRecord
    <3>1. turn[t].callIds \cup {c} \in SUBSET ToolCalls
      BY <1>2 DEF TurnRecord
    <3> QED
      BY <1>2, <3>1, Updates
  <2>4. /\ V.callIds = turn[t].callIds \cup {c}
        /\ V.phase = turn[t].phase /\ V.reader = turn[t].reader /\ V.stage = turn[t].stage
        /\ V.item = turn[t].item /\ V.todo = turn[t].todo /\ V.queue = turn[t].queue
        /\ V.preCalls = turn[t].preCalls /\ V.signal = turn[t].signal
        /\ V.doomed = turn[t].doomed
    BY <1>2 DEF TurnRecord
  <2>5. V.cleaned = turn[t].cleaned /\ V.terminal = turn[t].terminal
    BY <1>2, Zenon DEF TurnRecord
  <2> HIDE DEF V
  <2>6. Shape(t, V)
    BY <1>2, <1>3, <2>4, <2>5 DEF Shape
  <2>7. /\ V.phase \in {"returned", "live"} /\ ~ V.cleaned /\ V.doomed = "none"
        /\ "tool" \in {"text", "tool", "completed"} /\ "tool" # "completed"
        /\ Own(t) \cup A \subseteq V.callIds
        /\ V.stage = "waiting" => (Own(t) \cup A) \cap reg.surfaced = {}
        /\ V.stage = "got" \/ V.phase = "returned" => (Own(t) \cup A) \cap reg.surfaced = {}
        /\ V.stage = "got" /\ V.item = "completed" => Own(t) \cup A = {}
        /\ V.stage = "surfacing" => Own(t) \cup A # {}
    BY <1>1, <1>2, <1>3, <2>4, <2>5 DEF Shape, Owes
  <2> DEFINE O == Own(t) \cup A
  <2> HIDE DEF O
  <2>8. Shape(t, U) /\ Owes(U, O, reg.surfaced)
    BY <2>3, <2>6, <2>7, PushShape DEF O
  <2>9. /\ U \in TurnRecord /\ U.phase = V.phase /\ U.reader = V.reader
        /\ U.preCalls = V.preCalls /\ U.doomed = V.doomed /\ U.cleaned = V.cleaned
    BY <2>3, PushFields
  <2> HIDE DEF U
  <2>10. PhaseOf(U) = PhaseOf(turn[t]) /\ PhaseOf(U) \in {"running", "waiting"}
    BY <1>3, <2>4, <2>5, <2>9 DEF PhaseOf
  <2>11. P!EndedFrom(reg, reg, {}, E, "rejected")
    BY <1>2, NothingEnds
  <2>12. Buffered(t) = {} /\ ToSet(U.preCalls) = {}
    BY <1>2, <1>3, <2>4, <2>9 DEF Shape, Buffered, ToSet
  <2>13. reg'.surfaced = reg.surfaced
    BY <2>2 DEF P!TakenFrom
  <2>14. /\ A \subseteq ToolCalls \ arrived
         /\ (\A a \in A : a.lease = t) /\ arrived' = arrived \cup A
         /\ A \cup E \cup ToSet(U.preCalls) = Buffered(t) \cup A
         /\ E \cap (A \cup ToSet(U.preCalls)) = {}
         /\ Owes(U, Own(t) \cup A, reg'.surfaced)
    BY <2>8, <2>12, <2>13 DEF O
  <2> HIDE DEF A, E, t
  <2> QED
    BY <1>1, <2>1, <2>2, <2>8, <2>9, <2>10, <2>11, <2>14, TakeStep
<1> QED
  BY <1>4, <1>5

LEMMA ToolRequestKept ==
    ASSUME IInv, NEW c \in ToolCalls, ToolRequest(c)
    PROVE  Kept
<1>1. Core /\ c \notin arrived /\ arrived' = arrived \cup {c} /\ Listening
  BY DEF ToolRequest, IInv
<1>2. CASE BufferToolCall(c)
  BY <1>1, <1>2, BufferToolCallKept
<1>3. CASE HandleToolCall(c)
  BY <1>1, <1>3, HandleToolCallKept
<1>4. CASE RejectToolCall(c)
  BY <1>1, <1>4, RefusedCallKept DEF RejectToolCall
<1> QED
  BY <1>2, <1>3, <1>4 DEF ToolRequest

-------------------------------------------------------------------------------
(* turn/start is answered *)

LEMMA SeqFinite ==
    ASSUME NEW S, NEW q \in Seq(S)
    PROVE  IsFiniteSet(ToSet(q))
<1>1. Len(q) \in Nat /\ DOMAIN q = 1..Len(q)
  OBVIOUS
<1>2. IsFiniteSet(1..Len(q))
  BY <1>1, FS_Interval
<1>3. q \in Surjection(1..Len(q), ToSet(q))
  BY <1>1 DEF Surjection, ToSet
<1> QED
  BY <1>2, <1>3, FS_Surjection

\* What is in a sequence that goes on with another one.
LEMMA ConcatRange ==
    ASSUME NEW S, NEW p \in Seq(S), NEW q \in Seq(S)
    PROVE  p \o q \in Seq(S) /\ ToSet(p \o q) \subseteq ToSet(p) \cup ToSet(q)
<1>1. /\ p \o q \in Seq(S) /\ Len(p \o q) = Len(p) + Len(q)
      /\ \A i \in 1..Len(p) : (p \o q)[i] = p[i]
      /\ \A i \in 1..Len(p) + Len(q) : i > Len(p) => (p \o q)[i] = q[i - Len(p)]
  OBVIOUS
<1>2. /\ Len(p) \in Nat /\ Len(q) \in Nat /\ DOMAIN p = 1..Len(p) /\ DOMAIN q = 1..Len(q)
      /\ DOMAIN (p \o q) = 1..Len(p) + Len(q)
  BY <1>1
<1>3. ASSUME NEW i \in 1..Len(p) + Len(q)
      PROVE  (p \o q)[i] \in ToSet(p) \cup ToSet(q)
  <2>1. CASE i \in 1..Len(p)
    BY <1>1, <1>2, <2>1 DEF ToSet
  <2>2. CASE i > Len(p)
    <3>1. i - Len(p) \in 1..Len(q)
      BY <1>2, <2>2
    <3> QED
      BY <1>1, <1>2, <2>2, <3>1 DEF ToSet
  <2> QED
    BY <1>2, <2>1, <2>2
<1> QED
  BY <1>1, <1>2, <1>3 DEF ToSet

\* What a starting turn has become after its buffered notifications.
LEMMA FlushedFields ==
    ASSUME NEW t \in Gens, turn[t] \in TurnRecord, Shape(t, turn[t]),
           turn[t].phase = "starting", ~ turn[t].cleaned
    PROVE  LET T == Flushed(t)
           IN  /\ T \in TurnRecord /\ T.phase = "returned" /\ T.reader = NoGen
               /\ T.stage = "none" /\ T.todo = turn[t].todo /\ T.preCalls = <<>>
               /\ T.doomed = "none" /\ (T.cleaned => T.terminal)
               /\ "completed" \in ToSet(T.queue) => T.terminal
<1> DEFINE notes == turn[t].preNotes
           W == [turn[t] EXCEPT !.phase = "returned", !.preNotes = <<>>]
           ends == {i \in DOMAIN notes : notes[i] \notin {"text", "completed"}}
           U == IF ends # {} THEN Noted(W, notes[Min(ends)])
                ELSE [W EXCEPT !.queue = @ \o notes, !.terminal = "completed" \in ToSet(notes)]
           T == [U EXCEPT !.preCalls = <<>>]
<1>1. T = Flushed(t)
  BY DEF Flushed
<1>2. notes \in Seq(Notes) /\ Len(notes) \in Nat /\ DOMAIN notes = 1..Len(notes)
  BY DEF TurnRecord
<1>3. W \in TurnRecord
  <2>1. <<>> \in Seq(Notes)
    OBVIOUS
  <2> QED
    BY <2>1, Updates, Zenon
<1>4. /\ W.phase = "returned" /\ W.reader = NoGen /\ W.stage = "none"
      /\ W.todo = turn[t].todo /\ W.doomed = "none" /\ W.queue = <<>>
  BY DEF TurnRecord, Shape
<1>5. ~ W.cleaned
  BY Zenon DEF TurnRecord
<1>6. /\ U \in TurnRecord /\ U.phase = "returned" /\ U.reader = NoGen
      /\ U.stage = "none" /\ U.todo = turn[t].todo
      /\ U.doomed = "none" /\ (U.cleaned => U.terminal)
      /\ "completed" \in ToSet(U.queue) => U.terminal
  <2>1. CASE ends # {}
    <3> DEFINE n == notes[Min(ends)]
               e == IF n = "interrupted" THEN "cancelled" ELSE "protocol"
               b == n = "failed"
    <3>1. Min(ends) \in ends
      <4>1. ends \in SUBSET Nat
        BY <1>2
      <4> HIDE DEF ends
      <4> QED
        BY <2>1, <4>1, LeastNat
    <3>0. \A i \in ends : notes[i] \in Notes \ {"text", "completed"}
      BY <1>2
    <3>2. n \in Notes \ {"text", "completed"}
      BY <3>0, <3>1, Zenon
    <3>3. U = Noted(W, n)
      BY <2>1
    <3> HIDE DEF n, W, U
    <3>4. U = Terminate(W, e, b)
      BY <1>5, <3>2, <3>3 DEF Noted, Notes
    <3>5. e \in Errors \cup {"none"} /\ e # "none" /\ b \in BOOLEAN
      BY DEF Errors
    <3> HIDE DEF e, b
    <3>6. /\ U \in TurnRecord
          /\ U.cleaned /\ U.terminal /\ U.failure = e
          /\ U.queue = IF e = "none" THEN W.queue ELSE <<>>
          /\ U.stage = IF W.stage = "waiting" THEN "rejected" ELSE W.stage
          /\ U.signal = NoGen /\ U.preCalls = <<>> /\ U.doomed = "none"
          /\ U.phase = W.phase /\ U.reader = W.reader /\ U.item = W.item
          /\ U.todo = W.todo /\ U.callIds = W.callIds
      BY <1>3, <1>5, <3>4, <3>5, TerminateFields
    <3> QED
      BY <1>4, <3>6
  <2>2. CASE ends = {}
    <3> DEFINE queue == W.queue \o notes
               terminal == "completed" \in ToSet(notes)
               V == [W EXCEPT !.queue = queue, !.terminal = terminal]
    <3>1. U = V
      BY <2>2
    <3>2. notes \in Seq({"text", "tool", "completed"})
      BY <1>2, <2>2
    <3>3. /\ queue \in Seq({"text", "tool", "completed"})
          /\ ToSet(queue) \subseteq ToSet(W.queue) \cup ToSet(notes)
      <4>1. W.queue \in Seq({"text", "tool", "completed"})
        BY <1>3 DEF TurnRecord
      <4> QED
        BY <3>2, <4>1, ConcatRange
    <3>4. terminal \in BOOLEAN
      OBVIOUS
    <3> HIDE DEF W
    <3>5. "completed" \in ToSet(queue) => terminal
      <4>1. ToSet(W.queue) = {}
        BY <1>4 DEF ToSet
      <4> QED
        BY <3>3, <4>1
    <3> HIDE DEF queue, terminal
    <3>6. V \in TurnRecord
      BY <1>3, <3>3, <3>4, Updates, Zenon
    <3>7. /\ V.queue = queue /\ V.phase = W.phase /\ V.reader = W.reader
          /\ V.stage = W.stage /\ V.todo = W.todo /\ V.doomed = W.doomed
      BY <1>3 DEF TurnRecord
    <3>8. V.cleaned = W.cleaned /\ V.terminal = terminal
      BY <1>3, Zenon DEF TurnRecord
    <3> HIDE DEF V, U
    <3> QED
      BY <1>4, <1>5, <3>1, <3>5, <3>6, <3>7, <3>8
  <2> QED
    BY <2>1, <2>2
<1> HIDE DEF U
<1>7. T \in TurnRecord
  <2>1. <<>> \in Seq(ToolCalls)
    OBVIOUS
  <2> QED
    BY <1>6, <2>1, Updates
<1>8. /\ T.preCalls = <<>> /\ T.phase = U.phase /\ T.reader = U.reader
      /\ T.stage = U.stage /\ T.todo = U.todo /\ T.doomed = U.doomed /\ T.queue = U.queue
  BY <1>6 DEF TurnRecord
<1>9. T.cleaned = U.cleaned /\ T.terminal = U.terminal
  BY <1>6, Zenon DEF TurnRecord
<1> HIDE DEF T
<1> QED
  BY <1>1, <1>6, <1>7, <1>8, <1>9

\* The buffered calls that are captured: none of a terminal turn, each with a key
\* that is free and that no other of them has.
LEMMA CapturedOnFlushFacts ==
    ASSUME NEW T, NEW calls \in Seq(ToolCalls)
    PROVE  LET Q == CapturedOnFlush(T, calls)
           IN  /\ Q \subseteq ToSet(calls) /\ Cardinality(Q) \in Nat
               /\ T.terminal => Q = {}
               /\ \A r \in Q : P!CanCapture(reg, r)
               /\ \A r \in Q, q \in Q : P!CallKey(r) = P!CallKey(q) => r = q
<1> DEFINE Q == CapturedOnFlush(T, calls)
           J == {j \in DOMAIN calls :
                   /\ ~ T.terminal
                   /\ R!CanCapture(reg, calls[j])
                   /\ \A k \in 1..(j - 1) : R!CallKey(calls[k]) # R!CallKey(calls[j])}
<1>1. Q = {calls[i] : i \in J} /\ DOMAIN calls = 1..Len(calls) /\ Len(calls) \in Nat
  BY DEF CapturedOnFlush
<1>2. Q \subseteq ToSet(calls)
  BY <1>1 DEF ToSet
<1>3. Cardinality(Q) \in Nat
  <2> HIDE DEF Q
  <2>1. IsFiniteSet(Q)
    BY <1>2, SeqFinite, FS_Subset
  <2> QED
    BY <2>1, FS_CardinalityType
<1>4. T.terminal => Q = {}
  BY <1>1
<1>5. \A r \in Q : P!CanCapture(reg, r)
  BY <1>1, SameRegistry
<1>6. \A i \in J, j \in J : R!CallKey(calls[i]) = R!CallKey(calls[j]) => i = j
  <2> SUFFICES ASSUME NEW i \in J, NEW j \in J, R!CallKey(calls[i]) = R!CallKey(calls[j])
               PROVE  i = j
    OBVIOUS
  <2>1. i \in Nat /\ j \in Nat /\ i >= 1 /\ j >= 1
    BY <1>1
  <2>2. ~ (i < j)
  <3>1. i < j => i \in 1..(j - 1)
    BY <2>1
  <3> QED
    BY <3>1
  <2>3. ~ (j < i)
  <3>1. j < i => j \in 1..(i - 1)
    BY <2>1
  <3> QED
    BY <3>1
  <2> QED
    BY <2>1, <2>2, <2>3
<1>7. \A r, q : P!CallKey(r) = P!CallKey(q) => R!CallKey(r) = R!CallKey(q)
  BY DEF P!CallKey, R!CallKey
<1>8. \A r \in Q, q \in Q : P!CallKey(r) = P!CallKey(q) => r = q
  BY <1>1, <1>6, <1>7
<1> QED
  BY <1>2, <1>3, <1>4, <1>5, <1>8

\* What a starting turn is after its buffered notifications.
IsFlushed(t, T) ==
    /\ T \in TurnRecord /\ T.phase = "returned" /\ T.reader = NoGen
    /\ T.stage = "none" /\ T.preCalls = <<>> /\ (\A c \in T.todo : c.lease = t)
    /\ T.doomed = "none" /\ (T.cleaned => T.terminal)
    /\ "completed" \in ToSet(T.queue) => T.terminal

\* What it is once the calls Q have been captured and the signal is bound.
IsStarted(t, T, Q, U) ==
    /\ U \in TurnRecord /\ Shape(t, U) /\ U.preCalls = <<>> /\ U.callIds = Q
    /\ U.phase = "returned" /\ U.stage = "none" /\ U.doomed = "none"
    /\ U.reader = NoGen /\ U.signal = t
    /\ U.cleaned = T.cleaned

LEMMA StartedShape ==
    ASSUME NEW t \in Gens, NEW T, IsFlushed(t, T), NEW Q \in SUBSET ToolCalls,
           NEW pushed \in Seq({"tool"}), \A c \in Q : c.lease = t
    PROVE  IsStarted(t, T, Q, [T EXCEPT !.queue = T.queue \o pushed, !.callIds = Q, !.signal = t])
<1>0. T \in TurnRecord
  BY DEF IsFlushed
<1> DEFINE queue == T.queue \o pushed
           U == [T EXCEPT !.queue = queue, !.callIds = Q, !.signal = t]
<1>1. /\ queue \in Seq({"text", "tool", "completed"})
      /\ "completed" \in ToSet(queue) => T.terminal
  <2>1. /\ T.queue \in Seq({"text", "tool", "completed"})
        /\ pushed \in Seq({"text", "tool", "completed"})
    BY <1>0 DEF TurnRecord
  <2>2. ToSet(pushed) \subseteq {"tool"}
    BY DEF ToSet
  <2> QED
    BY <2>1, <2>2, ConcatRange DEF IsFlushed
<1> HIDE DEF queue
<1>2. U \in TurnRecord
  <2>1. t \in Gens \cup {NoGen} /\ Q \in SUBSET ToolCalls
    OBVIOUS
  <2> QED
    BY <1>0, <1>1, <2>1, Updates, Zenon
<1>3. /\ U.queue = queue /\ U.callIds = Q /\ U.signal = t
      /\ U.phase = T.phase /\ U.reader = T.reader /\ U.stage = T.stage /\ U.item = T.item
      /\ U.todo = T.todo /\ U.preCalls = T.preCalls /\ U.doomed = T.doomed
  BY <1>0 DEF TurnRecord
<1>4. U.cleaned = T.cleaned /\ U.terminal = T.terminal
  BY <1>0, Zenon DEF TurnRecord
<1> HIDE DEF U
<1>5. Shape(t, U)
  <2>1. ToSet(U.preCalls) = {}
    BY <1>3 DEF ToSet, IsFlushed
  <2> QED
    BY <1>1, <1>3, <1>4, <2>1 DEF Shape, IsFlushed
<1> QED
  BY <1>2, <1>3, <1>4, <1>5 DEF U, queue, IsFlushed, IsStarted

\* The calls of Q are captured, and what else of the buffer B is refused.
LEMMA FlushTakes ==
    ASSUME NEW g, P!Consistent(g), NEW B \in SUBSET ToolCalls, NEW Q \in SUBSET B,
           \A c \in B : g.answer[c] = "none",
           \A d \in P!Chains : B \cap g.callMap[d] = {},
           \A r \in Q : P!CanCapture(g, r),
           \A r \in Q, q \in Q : P!CallKey(r) = P!CallKey(q) => r = q
    PROVE  LET k == P!Settle(g, B \ Q, "rejected")
           IN  /\ P!EndedFrom(g, k, {}, B \ Q, "rejected")
               /\ P!TakenFrom(k, P!CapturedAll(k, Q), Q)
<1> DEFINE X == B \ Q
           k == P!Settle(g, X, "rejected")
<1>1. /\ X \in SUBSET ToolCalls /\ Q \in SUBSET ToolCalls
      /\ \A d \in P!Chains : X \cap g.callMap[d] = {}
  OBVIOUS
<1>2. g \in P!RegistryType /\ "rejected" \in P!Answers
  BY DEF P!Consistent, P!Answers
<1>3. \A c \in Q : c \in ToolCalls /\ c \notin X /\ g.answer[c] = "none"
  OBVIOUS
<1> HIDE DEF X
<1>4. P!EndedFrom(g, k, {}, X, "rejected")
  BY <1>1, RegistryAssumption, P!SettledEnds
<1>5. /\ k \in P!RegistryType
      /\ k.states = g.states /\ k.callMap = g.callMap
      /\ k.callsById = g.callsById /\ k.timers = g.timers
      /\ k.signal = g.signal
      /\ k.surfaced = g.surfaced /\ k.received = g.received
      /\ \A q \in ToolCalls : q \notin X => k.answer[q] = g.answer[q]
      /\ \A q \in ToolCalls : g.answer[q] # "none" => k.answer[q] = g.answer[q]
      /\ \A q \in ToolCalls : q \in X /\ g.answer[q] = "none" => k.answer[q] = "rejected"
  BY <1>2, RegistryAssumption, P!SettleFields
<1>6. P!Consistent(k)
  BY <1>4 DEF P!EndedFrom
<1> HIDE DEF k
<1>7. \A r \in Q : P!CanCapture(k, r) /\ k.answer[r] = "none"
  BY <1>3, <1>5 DEF P!CanCapture, P!HasCall
<1>8. P!TakenFrom(k, P!CapturedAll(k, Q), Q)
  BY <1>1, <1>6, <1>7, RegistryAssumption, P!CapturedAllTakes
<1> QED
  BY <1>4, <1>8 DEF k, X

LEMMA TurnStartedKept ==
    ASSUME IInv, NEW t \in Gens, TurnStarted(t)
    PROVE  Kept
<1> DEFINE T == Flushed(t)
           Q == CapturedOnFlush(T, turn[t].preCalls)
           n == Cardinality(Q)
           pushed == [i \in 1..n |-> "tool"]
           U == [T EXCEPT !.queue = @ \o pushed, !.callIds = Q, !.signal = t]
           X == Buffered(t) \ Q
           k == P!Settle(reg, X, "rejected")
           A == {}
<1>1. /\ Core /\ turn[t] \in TurnRecord /\ Shape(t, turn[t]) /\ P!Consistent(reg)
      /\ turn[t].preCalls \in Seq(ToolCalls)
  BY TurnFacts DEF IInv, TurnRecord
<1>2. /\ turn[t].phase = "starting" /\ ~ turn[t].cleaned /\ arrived' = arrived
      /\ turn' = [turn EXCEPT ![t] = U]
      /\ reg' = R!CapturedAll(R!Settle(reg, ToSet(turn[t].preCalls) \ Q, "rejected"), Q)
  BY Zenon DEF TurnStarted
<1>3. reg' = P!CapturedAll(k, Q)
  <2> HIDE DEF Q
  <2> QED
    BY <1>2, SameRegistry DEF Buffered
<1>4. /\ T \in TurnRecord /\ T.phase = "returned" /\ T.reader = NoGen
      /\ T.stage = "none" /\ T.todo = turn[t].todo /\ T.preCalls = <<>>
      /\ T.doomed = "none" /\ (T.cleaned => T.terminal)
      /\ "completed" \in ToSet(T.queue) => T.terminal
  BY <1>1, <1>2, FlushedFields
<1>5. /\ Q \subseteq Buffered(t) /\ n \in Nat
      /\ T.terminal => Q = {}
      /\ \A r \in Q : P!CanCapture(reg, r)
      /\ \A r \in Q, q \in Q : P!CallKey(r) = P!CallKey(q) => r = q
  BY <1>1, CapturedOnFlushFacts DEF Buffered
<1>6. /\ Buffered(t) \subseteq ToolCalls /\ \A d \in P!Chains : Buffered(t) \cap reg.callMap[d] = {}
      /\ \A c \in Buffered(t) : c.lease = t
  <2>1. \A c \in Buffered(t) : c.lease = t
    BY <1>1 DEF Shape, Buffered
  <2>2. Buffered(t) \subseteq ToolCalls
    BY <1>1 DEF Buffered, ToSet
  <2> QED
    BY <1>1, <2>1, <2>2, BufferedApart
<1>7. \A c \in Buffered(t) : reg.answer[c] = "none" /\ c \notin reg.surfaced
  BY <1>1, <1>6 DEF Core, Placed
<1>8. pushed \in Seq({"tool"})
  BY <1>5
<1> HIDE DEF T, Q, n, pushed
<1>9. P!EndedFrom(reg, k, {}, X, "rejected") /\ P!TakenFrom(k, P!CapturedAll(k, Q), Q)
  BY <1>1, <1>5, <1>6, <1>7, FlushTakes
<1> HIDE DEF k
<1>10. P!TakenFrom(k, reg', Q)
  BY <1>3, <1>9
<1>11. Q \in SUBSET ToolCalls /\ \A c \in Q \cup T.todo : c.lease = t
  BY <1>1, <1>4, <1>5, <1>6 DEF Shape
<1>12. /\ U \in TurnRecord /\ Shape(t, U) /\ U.preCalls = <<>> /\ U.callIds = Q
       /\ U.phase = "returned" /\ U.stage = "none" /\ U.doomed = "none"
       /\ U.reader = NoGen /\ U.signal = t
       /\ U.cleaned = T.cleaned
  <2>1. IsFlushed(t, T)
    BY <1>4, <1>11 DEF IsFlushed
  <2>2. IsStarted(t, T, Q, [T EXCEPT !.queue = T.queue \o pushed, !.callIds = Q, !.signal = t])
    BY <1>8, <1>11, <2>1, StartedShape
  <2>3. U = [T EXCEPT !.queue = T.queue \o pushed, !.callIds = Q, !.signal = t]
    BY Zenon DEF U
  <2> HIDE DEF U
  <2> QED
    BY <2>2, <2>3 DEF IsStarted
<1> HIDE DEF U
<1>13. Own(t) = {} /\ PhaseOf(turn[t]) = "none"
  BY <1>1, <1>2, OwnerKnown DEF Shape, PhaseOf
<1>14. reg'.surfaced \subseteq reg.surfaced
  BY <1>9, <1>10 DEF P!EndedFrom, P!TakenFrom
<1>15. Owes(U, Own(t) \cup Q, reg'.surfaced)
  BY <1>4, <1>5, <1>7, <1>12, <1>13, <1>14 DEF Owes
<1>16. \/ PhaseOf(turn[t]) = "none" /\ PhaseOf(U) = "running"
       \/ PhaseOf(turn[t]) = "none" /\ PhaseOf(U) = "ended" /\ Own(t) \cup Q = {}
  <2>1. CASE U.cleaned
    BY <1>4, <1>5, <1>12, <1>13, <2>1 DEF PhaseOf
  <2>2. CASE ~ U.cleaned
    BY <1>12, <1>13, <2>2 DEF PhaseOf
  <2> QED
    BY <2>1, <2>2
<1>17. /\ arrived' = arrived \cup A /\ A \subseteq ToolCalls \ arrived /\ (\A c \in A : c.lease = t)
       /\ Q \cup X \cup ToSet(U.preCalls) = Buffered(t) \cup A
       /\ X \cap (Q \cup ToSet(U.preCalls)) = {}
  BY <1>2, <1>5, <1>12 DEF ToSet
<1> HIDE DEF X, A
<1> QED
  BY <1>1, <1>2, <1>9, <1>10, <1>12, <1>15, <1>16, <1>17, TakeStep

-------------------------------------------------------------------------------
(* Every step keeps the core *)

LEMMA GenerateKept ==
    ASSUME IInv, NEW g \in Gens, Generate(g)
    PROVE  Kept
<1>1. Quiet /\ gen[g].status = "idle" /\ Core
  BY DEF Generate, IInv
<1>2. PICK ids \in SUBSET shown :
         \/ GenerateRefused(g, ids)
         \/ GenerateNew(g, ids)
         \/ \E t \in Gens : GenerateFollowUp(g, t, ids)
  BY DEF Generate
<1>3. CASE GenerateRefused(g, ids)
  BY <1>1, <1>3, ElsewhereKept DEF GenerateRefused
<1>4. CASE GenerateNew(g, ids)
  BY <1>1, <1>4, GenerateNewKept
<1>5. CASE \E t \in Gens : GenerateFollowUp(g, t, ids)
  BY <1>1, <1>5, GenerateFollowUpKept
<1> QED
  BY <1>2, <1>3, <1>4, <1>5

\* The steps that concern turn t.
LEMMA TurnStepKept ==
    ASSUME IInv, NEW t \in Gens,
           \/ Starting(t) \/ Continuations(t) \/ CleanupStep(t) \/ SecurityFailure(t)
           \/ \E n \in Notes : Notify(t, n)
    PROVE  Kept
<1>1. CASE Starting(t)
  <2>1. CASE LeaseAcquired(t) \/ LeaseFailed(t) \/ ThreadStarted(t) \/ ThreadFailed(t)
    BY <2>1, StartingKept
  <2>2. CASE TurnStarted(t)
    BY <2>2, TurnStartedKept
  <2>3. CASE TurnStartedTooLate(t)
    BY <2>3, TurnStartedTooLateKept
  <2>4. CASE TurnStartFailed(t)
    BY <2>4, TurnStartFailedKept
  <2> QED
    BY <1>1, <2>1, <2>2, <2>3, <2>4 DEF Starting
<1>2. CASE Continuations(t)
  <2>1. CASE EntersConsume(t)
    BY <2>1, EntersConsumeKept
  <2>2. CASE Take(t)
    BY <2>2, TakeKept
  <2>3. CASE TakeCompleted(t)
    BY <2>3, TakeCompletedKept
  <2>4. CASE Surface(t)
    BY <2>4, SurfaceKept
  <2>5. CASE SurfacedAll(t)
    BY <2>5, SurfacedAllKept
  <2>6. CASE ReaderThrows(t)
    BY <2>6, ReaderThrowsKept
  <2>7. CASE DoomedTerminates(t)
    BY <2>7, DoomedTerminatesKept
  <2> QED
    BY <1>2, <2>1, <2>2, <2>3, <2>4, <2>5, <2>6, <2>7 DEF Continuations
<1>3. CASE CleanupStep(t)
  BY <1>3, CleanupStepKept
<1>4. CASE SecurityFailure(t)
  BY <1>4, SecurityFailureKept
<1>5. CASE \E n \in Notes : Notify(t, n)
  BY <1>5, NotifyKept
<1> QED
  BY <1>1, <1>2, <1>3, <1>4, <1>5

LEMMA NextKept ==
    ASSUME IInv, [Next]_vars
    PROVE  Kept
<1>0. Core
  BY DEF IInv
<1>1. ASSUME NEW g \in Gens, Generate(g) \/ Closed(g) \/ Abort(g)
      PROVE  Kept
  <2>1. CASE Generate(g)
    BY <2>1, GenerateKept
  <2>2. CASE Closed(g)
    BY <1>0, <2>2, ElsewhereKept DEF Closed
  <2>3. CASE Abort(g)
    BY <2>3, AbortKept
  <2> QED
    BY <1>1, <2>1, <2>2, <2>3
<1>2. ASSUME NEW c \in ToolCalls, ToolRequest(c) \/ ToolTimeout(c)
      PROVE  Kept
  BY <1>2, ToolRequestKept, ToolTimeoutKept
<1>3. ASSUME NEW id \in CallIds, FailedCallExpires(id)
      PROVE  Kept
  BY <1>0, <1>3, ElsewhereKept DEF FailedCallExpires
<1>4. CASE ProcessExit
  BY <1>4, ProcessExitKept
<1>5. CASE Dispose
  BY <1>5, DisposeKept
<1>6. CASE DisposeEnds
  BY <1>6, DisposeEndsKept
<1>7. CASE UNCHANGED vars
  BY <1>0, <1>7, ElsewhereKept DEF vars
<1> QED
  BY <1>1, <1>2, <1>3, <1>4, <1>5, <1>6, <1>7, TurnStepKept DEF Next

-------------------------------------------------------------------------------
(* Every step keeps the rest of the invariant *)

GenType == [Gens -> [status : {"idle", "active", "closing", "done"},
                     on : Gens \cup {NoGen}, outcome : Outcomes]]

\* A call of generate that has begun does not become idle again.
GenStep ==
    /\ gen' \in GenType
    /\ \A g \in Gens : gen'[g].status = "idle" => gen[g].status = "idle"

LEMMA GenStays ==
    ASSUME IInv, gen' = gen
    PROVE  GenStep
  BY DEF IInv, Outer, GenStep, GenType

LEMMA GenEnds ==
    ASSUME IInv, NEW g \in Gens, NEW o \in Outcomes, NEW st \in {"active", "closing", "done"},
           Ends(g, o, st)
    PROVE  GenStep
  BY DEF IInv, Outer, GenStep, GenType, Ends

\* What becomes of the record T of a turn in a step that neither starts the turn nor
\* flushes its buffers nor binds another signal.
Steady(T, U) ==
    /\ T.phase = "none" => U.phase = "none"
    /\ T.phase = "starting" => U.phase = "starting" \/ U.cleaned
    /\ U.cleaned \/ (~ T.cleaned /\ U.signal = T.signal)

\* A call that waits after the step waited, was buffered or had not arrived before.
LEMMA StillWaiting ==
    ASSUME Core, Kept, NEW u \in Gens, NEW c \in Own(u)'
    PROVE  /\ c \in ToolCalls /\ c.lease = u
           /\ c \in arrived => c \in Own(u) \cup Buffered(u)
           /\ c \in arrived'
<1>1. P!Consistent(reg') /\ Chain(u) \in P!Chains /\ Core'
  BY ChainTyped DEF Kept, Core
<1>2. c \in ToolCalls /\ c.lease = u /\ reg'.answer[c] = "none"
  <2>1. /\ reg'.callMap[Chain(u)] \subseteq ToolCalls
        /\ \A d \in reg'.callMap[Chain(u)] : Chain(u) = Chain(d.lease) /\ reg'.answer[d] = "none"
    BY <1>1, ChainFacts
  <2> QED
    BY <2>1, ChainTyped DEF Own
<1>3. c \in arrived'
  <2>1. Placed(c)'
    BY <1>1, <1>2 DEF Core
  <2> QED
    BY <1>2, <2>1 DEF Placed
<1>4. c \in arrived => c \in Own(u) \cup Buffered(u)
  <2>1. c \in Own(u) \/ reg.answer[c] = "none"
    BY <1>2 DEF Kept, AnswerAllowed
  <2>2. Placed(c)
    BY <1>2 DEF Core
  <2> QED
    BY <1>2, <2>1, <2>2 DEF Placed
<1> QED
  BY <1>2, <1>3, <1>4

\* After the step, too, a turn that has calls is known.
LEMMA OwnerKnownAfter ==
    ASSUME Kept, NEW u \in Gens, Own(u)' # {}
    PROVE  /\ turn'[u].phase \in {"returned", "live"} /\ ~ turn'[u].cleaned
           /\ Own(u)' \subseteq turn'[u].callIds
<1>1. Shape(u, turn'[u]) /\ Owes(turn'[u], Own(u)', reg'.surfaced)
  BY DEF Kept, Core
<1> QED
  BY <1>1 DEF Shape, Owes

LEMMA SteadyWaiting ==
    ASSUME Core, Kept, NEW u \in Gens, Steady(turn[u], turn'[u]), NEW c \in Own(u)', c \in arrived
    PROVE  c \in Own(u)
<1>1. c \in Own(u) \cup Buffered(u)
  BY StillWaiting
<1>2. turn'[u].phase \in {"returned", "live"} /\ ~ turn'[u].cleaned
  BY OwnerKnownAfter
<1>3. turn[u].phase # "starting"
  BY <1>2 DEF Steady
<1>4. Buffered(u) = {}
  BY <1>3, TurnFacts DEF Shape, Buffered, ToSet
<1> QED
  BY <1>1, <1>4

\* An ordinary step of the turns.
LEMMA GoesOn ==
    ASSUME IInv, Kept, GenStep, \A t \in Gens : Steady(turn[t], turn'[t]),
           shown' \cup failed' \subseteq CallIds, aborted' = aborted, disposed' \in BOOLEAN,
           arrived' = arrived,
           \A t \in Gens : \A c \in Own(t)' : c.callId \in failed' => c.callId \in failed
    PROVE  Outer'
<1>1. Core /\ Outer
  BY DEF IInv
<1>2. gen' \in GenType /\ aborted' \subseteq Gens
  BY <1>1 DEF GenStep, Outer
<1>3. \A t \in Gens : ~ turn'[t].cleaned => turn'[t].signal \notin aborted'
  BY <1>1 DEF Outer, Steady
<1>4. \A g \in Gens : g \in aborted' => gen'[g].status # "idle"
  BY <1>1 DEF Outer, GenStep
<1>5. \A g \in Gens : gen'[g].status = "idle" => turn'[g].phase = "none"
  BY <1>1 DEF Outer, GenStep, Steady
<1>6. \A t \in Gens : \A c \in Own(t)' : c.callId \notin failed'
  <2> SUFFICES ASSUME NEW t \in Gens, NEW c \in Own(t)' PROVE c.callId \notin failed'
    OBVIOUS
  <2>1. c \in arrived
    BY <1>1, StillWaiting
  <2>2. c \in Own(t)
    BY <1>1, <2>1, SteadyWaiting
  <2>3. c.callId \notin failed
    BY <1>1, <2>2 DEF Outer, WaitingCallsAnswerable, Own
  <2> QED
    BY <2>3
<1> QED
  BY <1>2, <1>3, <1>4, <1>5, <1>6 DEF Outer, WaitingCallsAnswerable, Own, GenType

\* The same, of one turn.
LEMMA OneGoesOn ==
    ASSUME IInv, Kept, GenStep, NEW t \in Gens, NEW U,
           turn' = [turn EXCEPT ![t] = U], Steady(turn[t], U),
           shown' \subseteq CallIds, failed' = failed, aborted' = aborted, disposed' = disposed,
           arrived' = arrived
    PROVE  Outer'
<1>1. turn'[t] = U /\ \A u \in Gens \ {t} : turn'[u] = turn[u]
  BY DEF IInv, Core
<1>2. \A u \in Gens : Steady(turn[u], turn'[u])
  <2>1. \A u \in Gens \ {t} : Steady(turn[u], turn'[u])
    BY <1>1 DEF Steady
  <2> QED
    BY <1>1, <2>1
<1>3. failed \subseteq CallIds /\ disposed \in BOOLEAN
  BY DEF IInv, Outer
<1> QED
  BY <1>2, <1>3, GoesOn

\* One turn is terminated and its calls are remembered as failed, but for the ids
\* that other live turns have as well.
LEMMA FailedAfterOuter ==
    ASSUME IInv, Kept, GenStep, NEW t \in Gens, NEW U, NEW error,
           turn' = [turn EXCEPT ![t] = U], Steady(turn[t], U), U.cleaned,
           failed' = FailedAfter(t, error),
           shown' = shown, aborted' = aborted, disposed' = disposed, arrived' = arrived
    PROVE  Outer'
<1> DEFINE ids(u) == {c.callId : c \in turn[u].callIds}
           live == UNION {ids(u) : u \in {v \in Gens \ {t} : InStates(v)}}
<1>0. Core
  BY DEF IInv
<1>1. turn'[t] = U /\ \A u \in Gens \ {t} : turn'[u] = turn[u]
  BY <1>0 DEF Core
<1>2. \A u \in Gens : Steady(turn[u], turn'[u])
  <2>1. \A u \in Gens \ {t} : Steady(turn[u], turn'[u])
    BY <1>1 DEF Steady
  <2> QED
    BY <1>1, <2>1
<1>3. failed \subseteq CallIds /\ shown \subseteq CallIds /\ disposed \in BOOLEAN
  BY DEF IInv, Outer
<1>4. failed' \subseteq failed \cup (ids(t) \ live)
  BY DEF FailedAfter
<1>5. ids(t) \subseteq CallIds
  <2>1. turn[t].callIds \subseteq ToolCalls
    BY <1>0, TurnFacts DEF TurnRecord
  <2> QED
    BY <2>1, TransportAssumption
<1>6. ASSUME NEW u \in Gens, NEW c \in Own(u)'
      PROVE  c.callId \in failed' => c.callId \in failed
  <2>1. u # t
    BY <1>1, <1>6, OwnerKnownAfter
  <2>2. c \in Own(u)
    BY <1>0, <1>2, <1>6, StillWaiting, SteadyWaiting
  <2>3. InStates(u) /\ c \in turn[u].callIds
    BY <1>0, <2>2, OwnerKnown, TurnFacts DEF Owes
  <2>4. c.callId \in live
    BY <2>1, <2>3
  <2> QED
    BY <1>4, <2>4
<1>7. shown' \cup failed' \subseteq CallIds
  BY <1>3, <1>4, <1>5
<1> HIDE DEF ids, live
<1> QED
  BY <1>2, <1>3, <1>6, <1>7, GoesOn

LEMMA TerminateTurnOuter ==
    ASSUME IInv, Kept, GenStep, NEW t \in Gens, NEW T \in TurnRecord, Shape(t, T),
           T.phase = turn[t].phase,
           NEW error \in Errors \cup {"none"}, NEW interrupt \in BOOLEAN,
           TerminateTurn(t, T, error, interrupt),
           UNCHANGED <<arrived, shown, aborted, disposed>>
    PROVE  Outer'
<1> DEFINE U == Terminate(T, error, interrupt)
<1>1. U.cleaned /\ U.phase = T.phase
  BY TerminateShape
<1>2. turn' = [turn EXCEPT ![t] = U] /\ failed' = FailedAfter(t, error)
  BY DEF TerminateTurn
<1> HIDE DEF U
<1>3. Steady(turn[t], U)
  BY <1>1 DEF Steady
<1> QED
  BY <1>1, <1>2, <1>3, FailedAfterOuter

LEMMA DoomedTerminatesOuter ==
    ASSUME IInv, Kept, NEW t \in Gens, DoomedTerminates(t)
    PROVE  Outer'
<1>1. turn[t] \in TurnRecord /\ Shape(t, turn[t]) /\ GenStep
  BY TurnFacts, GenStays DEF IInv, DoomedTerminates
<1>2. /\ turn[t].doomed \in Errors \cup {"none"} /\ (~ turn[t].terminal) \in BOOLEAN
      /\ UNCHANGED <<arrived, shown, aborted, disposed>>
  BY <1>1 DEF DoomedTerminates, TurnRecord
<1> QED
  BY <1>1, <1>2, TerminateTurnOuter DEF DoomedTerminates

LEMMA SecurityFailureOuter ==
    ASSUME IInv, Kept, NEW t \in Gens, SecurityFailure(t)
    PROVE  Outer'
<1>1. turn[t] \in TurnRecord /\ Shape(t, turn[t]) /\ GenStep
  BY TurnFacts, GenStays DEF IInv, SecurityFailure
<1>2. PICK i \in BOOLEAN : TerminateTurn(t, turn[t], "protocol", ~ i)
  BY DEF SecurityFailure
<1>3. /\ "protocol" \in Errors \cup {"none"} /\ (~ i) \in BOOLEAN
      /\ UNCHANGED <<arrived, shown, aborted, disposed>>
  BY DEF SecurityFailure, Errors
<1> QED
  BY <1>1, <1>2, <1>3, TerminateTurnOuter

\* The reader of a turn ends with the turn.
LEMMA ReaderEndsOuter ==
    ASSUME IInv, Kept, NEW t \in Gens, turn[t].stage # "none",
           NEW error \in Errors \cup {"none"}, NEW interrupt \in BOOLEAN,
           NEW o \in Outcomes,
           TerminateTurn(t, Detached(turn[t]), error, interrupt),
           Ends(turn[t].reader, o, "closing"),
           UNCHANGED <<arrived, shown, aborted, disposed>>
    PROVE  Outer'
<1>1. turn[t] \in TurnRecord /\ Shape(t, turn[t]) /\ Core
  BY TurnFacts DEF IInv
<1>2. turn[t].reader \in Gens
  BY <1>1, ReaderLive
<1>3. "closing" \in {"active", "closing", "done"}
  OBVIOUS
<1>4. GenStep
  BY <1>2, <1>3, GenEnds
<1>5. /\ Detached(turn[t]) \in TurnRecord /\ Shape(t, Detached(turn[t]))
      /\ Detached(turn[t]).phase = turn[t].phase
  BY <1>1, DetachedShape
<1> QED
  BY <1>4, <1>5, TerminateTurnOuter

LEMMA TakeCompletedOuter ==
    ASSUME IInv, Kept, NEW t \in Gens, TakeCompleted(t)
    PROVE  Outer'
<1>1. /\ turn[t].stage # "none" /\ "none" \in Errors \cup {"none"} /\ FALSE \in BOOLEAN
      /\ "completed" \in Outcomes /\ UNCHANGED <<arrived, shown, aborted, disposed>>
  BY DEF TakeCompleted, Outcomes
<1> QED
  BY <1>1, ReaderEndsOuter DEF TakeCompleted

LEMMA ReaderThrowsOuter ==
    ASSUME IInv, Kept, NEW t \in Gens, ReaderThrows(t)
    PROVE  Outer'
<1> DEFINE error == IF turn[t].cleaned THEN turn[t].failure ELSE "cancelled"
           o == IF error = "cancelled" THEN "cancelled" ELSE "failed"
<1>1. /\ turn[t].stage # "none" /\ "cancelled" \in Errors \cup {"none"} /\ TRUE \in BOOLEAN
      /\ o \in Outcomes /\ UNCHANGED <<arrived, shown, aborted, disposed>>
  BY DEF ReaderThrows, Outcomes, Errors
<1>2. TerminateTurn(t, Detached(turn[t]), "cancelled", TRUE) /\ Ends(turn[t].reader, o, "closing")
  BY DEF ReaderThrows
<1> HIDE DEF error, o
<1> QED
  BY <1>1, <1>2, ReaderEndsOuter

\* A step of one turn after which how far it is, whether it was terminated and which
\* signal it is bound to is the same.
LEMMA AsItWasOuter ==
    ASSUME IInv, Kept, GenStep, NEW t \in Gens, NEW U,
           turn' = [turn EXCEPT ![t] = U],
           U.phase = turn[t].phase, U.cleaned = turn[t].cleaned, U.signal = turn[t].signal,
           shown' \subseteq CallIds, UNCHANGED <<arrived, failed, aborted, disposed>>
    PROVE  Outer'
<1>1. Steady(turn[t], U)
  <2>1. turn[t] \in TurnRecord
    BY TurnFacts DEF IInv
  <2>2. turn[t].cleaned \in BOOLEAN
    BY <2>1 DEF TurnRecord
  <2> QED
    BY <2>2 DEF Steady
<1> QED
  BY <1>1, OneGoesOn

\* What the loop leaves alone, and that it shows ids of calls.
LEMMA LoopLeaves ==
    ASSUME Core, Kept, shown \subseteq CallIds, NEW t, NEW g, NEW T \in TurnRecord, NEW rg,
           Loop(t, g, T, rg)
    PROVE  /\ \E U : /\ turn' = [turn EXCEPT ![t] = U]
                     /\ U.phase = T.phase /\ U.cleaned = T.cleaned /\ U.signal = T.signal
           /\ shown' \subseteq CallIds
<1> DEFINE next == [T EXCEPT !.reader = g, !.item = "none", !.todo = {}]
           waiting == R!Unsurfaced(rg, Chain(t))
           Goal(U) == /\ turn' = [turn EXCEPT ![t] = U]
                      /\ U.phase = T.phase /\ U.cleaned = T.cleaned /\ U.signal = T.signal
<1>1. CASE waiting # {}
  <2>1. PICK c \in waiting :
           /\ reg' = R!MarkedSurfaced(rg, c)
           /\ shown' = shown \cup {c.callId}
           /\ turn' = [turn EXCEPT ![t] =
                [next EXCEPT !.stage = "surfacing", !.todo = waiting \ {c}]]
    BY <1>1, Zenon DEF Loop
  <2> DEFINE U == [next EXCEPT !.stage = "surfacing", !.todo = waiting \ {c}]
  <2>2. U.phase = T.phase /\ U.signal = T.signal
    BY DEF TurnRecord
  <2>3. U.cleaned = T.cleaned
    BY Zenon DEF TurnRecord
  <2>4. Goal(U)
    BY <2>1, <2>2, <2>3
  <2>5. c \in ToolCalls
    <3>1. reg' = [rg EXCEPT !.surfaced = @ \cup {c}]
      BY <2>1 DEF R!MarkedSurfaced
    <3>2. reg' \in P!RegistryType
      BY DEF Kept, Core, P!Consistent
    <3>3. "surfaced" \in DOMAIN reg' /\ reg'.surfaced \subseteq ToolCalls
      BY <3>2 DEF P!RegistryType
    <3>4. c \in reg'.surfaced
      BY <3>1, <3>3
    <3> QED
      BY <3>3, <3>4
  <2>6. c.callId \in CallIds
    BY <2>5, TransportAssumption
  <2> HIDE DEF U
  <2> QED
    BY <2>1, <2>4, <2>6
<1>2. CASE waiting = {}
  <2> DEFINE V == [next EXCEPT !.stage = "waiting"]
             W == [next EXCEPT !.stage = "got", !.item = Head(T.queue), !.queue = Tail(@)]
  <2>1. /\ turn' = [turn EXCEPT ![t] = IF T.queue = <<>> THEN V ELSE W]
        /\ shown' = shown
    BY <1>2 DEF Loop
  <2>2. /\ V.phase = T.phase /\ V.signal = T.signal
        /\ W.phase = T.phase /\ W.signal = T.signal
    BY DEF TurnRecord
  <2>3. V.cleaned = T.cleaned
    BY Zenon DEF TurnRecord
  <2>4. W.cleaned = T.cleaned
    BY Zenon DEF TurnRecord
  <2> DEFINE X == IF T.queue = <<>> THEN V ELSE W
  <2> HIDE DEF V, W
  <2>5. Goal(X)
    BY <2>1, <2>2, <2>3, <2>4
  <2> HIDE DEF X
  <2> QED
    BY <2>1, <2>5
<1> QED
  BY <1>1, <1>2

LEMMA LoopOuter ==
    ASSUME IInv, Kept, GenStep, NEW t \in Gens, NEW g, NEW T \in TurnRecord, NEW rg,
           Loop(t, g, T, rg), turn[t].phase \in {"returned", "live"},
           T.phase \in {"returned", "live"}, T.cleaned = turn[t].cleaned, ~ T.cleaned,
           T.signal = turn[t].signal,
           UNCHANGED <<arrived, failed, aborted, disposed>>
    PROVE  Outer'
<1>1. Core /\ shown \subseteq CallIds
  BY DEF IInv, Outer
<1>2. shown' \subseteq CallIds
  BY <1>1, LoopLeaves
<1>3. PICK U : /\ turn' = [turn EXCEPT ![t] = U]
               /\ U.phase = T.phase /\ U.cleaned = T.cleaned /\ U.signal = T.signal
  BY <1>1, LoopLeaves
<1>4. Steady(turn[t], U)
  BY <1>3 DEF Steady
<1> QED
  BY <1>2, <1>3, <1>4, OneGoesOn

LEMMA TakeOuter ==
    ASSUME IInv, Kept, NEW t \in Gens, Take(t)
    PROVE  Outer'
<1>1. turn[t] \in TurnRecord /\ Shape(t, turn[t]) /\ Core /\ shown \subseteq CallIds
  BY TurnFacts DEF IInv, Outer
<1>2. turn[t].reader \in Gens /\ turn[t].phase = "live"
  BY <1>1, ReaderLive DEF Take
<1>3. UNCHANGED <<arrived, failed, aborted, disposed>>
  BY DEF Take
<1>4. CASE turn[t].cleaned
  <2> DEFINE U == Detached(turn[t])
  <2>1. turn' = [turn EXCEPT ![t] = U] /\ Ends(turn[t].reader, "ended", "done") /\ shown' = shown
    BY <1>4 DEF Take
  <2>2. U.phase = turn[t].phase /\ U.cleaned = turn[t].cleaned /\ U.signal = turn[t].signal
    BY <1>1, DetachedShape
  <2> HIDE DEF U
  <2>3. "ended" \in Outcomes /\ "done" \in {"active", "closing", "done"}
    BY DEF Outcomes
  <2>4. GenStep
    BY <1>2, <2>1, <2>3, GenEnds
  <2> QED
    BY <1>1, <1>3, <2>1, <2>2, <2>4, AsItWasOuter
<1>5. CASE ~ turn[t].cleaned
  <2>1. Loop(t, turn[t].reader, turn[t], reg) /\ gen' = gen
    BY <1>5 DEF Take
  <2>2. GenStep
    BY <2>1, GenStays
  <2> QED
    BY <1>1, <1>2, <1>3, <1>5, <2>1, <2>2, LoopOuter
<1> QED
  BY <1>4, <1>5

LEMMA SurfaceOuter ==
    ASSUME IInv, Kept, NEW t \in Gens, Surface(t)
    PROVE  Outer'
<1>1. /\ turn[t] \in TurnRecord /\ shown \subseteq CallIds /\ turn[t].stage # "none"
  BY TurnFacts DEF IInv, Outer, Surface
<1>2. PICK c \in turn[t].todo :
         IF c \in R!Registered(reg)
         THEN /\ shown' = shown \cup {c.callId}
              /\ turn' = [turn EXCEPT ![t].todo = @ \ {c}]
              /\ UNCHANGED <<gen, failed>>
         ELSE /\ TerminateTurn(t, Detached(turn[t]), "protocol", TRUE)
              /\ Ends(turn[t].reader, "failed", "closing")
              /\ UNCHANGED shown
  BY DEF Surface
<1>3. UNCHANGED <<arrived, aborted, disposed>>
  BY DEF Surface
<1>4. CASE c \in R!Registered(reg)
  <2> DEFINE U == [turn[t] EXCEPT !.todo = @ \ {c}]
  <2>1. turn' = [turn EXCEPT ![t] = U] /\ UNCHANGED <<gen, failed>>
    BY <1>2, <1>4
  <2>2. U.phase = turn[t].phase /\ U.signal = turn[t].signal
    BY <1>1 DEF TurnRecord
  <2>3. U.cleaned = turn[t].cleaned
    BY <1>1, Zenon DEF TurnRecord
  <2>4. c.callId \in CallIds
    BY <1>1, TransportAssumption DEF TurnRecord
  <2>5. shown' \subseteq CallIds
    BY <1>1, <1>2, <1>4, <2>4
  <2>6. GenStep
    BY <2>1, GenStays
  <2> HIDE DEF U
  <2> QED
    BY <1>3, <2>1, <2>2, <2>3, <2>5, <2>6, AsItWasOuter
<1>5. CASE c \notin R!Registered(reg)
  <2>1. /\ "protocol" \in Errors \cup {"none"} /\ TRUE \in BOOLEAN /\ "failed" \in Outcomes
        /\ UNCHANGED <<arrived, shown, aborted, disposed>>
    BY <1>2, <1>3, <1>5 DEF Errors, Outcomes
  <2> QED
    BY <1>1, <1>2, <1>5, <2>1, ReaderEndsOuter
<1> QED
  BY <1>4, <1>5

LEMMA SurfacedAllOuter ==
    ASSUME IInv, Kept, NEW t \in Gens, SurfacedAll(t)
    PROVE  Outer'
<1>1. /\ turn[t] \in TurnRecord /\ Shape(t, turn[t]) /\ Core /\ shown \subseteq CallIds
  BY TurnFacts DEF IInv, Outer
<1>2. turn[t].reader \in Gens /\ turn[t].phase = "live"
  BY <1>1, ReaderLive DEF SurfacedAll
<1>3. UNCHANGED <<arrived, failed, aborted, disposed>>
  BY DEF SurfacedAll
<1>4. CASE R!IsReady(reg, Chain(t))
  <2>1. Loop(t, turn[t].reader, turn[t], R!RespondIfReady(reg, Chain(t))) /\ gen' = gen
    BY <1>4 DEF SurfacedAll
  <2>2. GenStep
    BY <2>1, GenStays
  <2>3. ~ turn[t].cleaned
    <3>1. Chain(t) \in reg.states
      BY <1>4 DEF R!IsReady
    <3> QED
      BY <1>1, <3>1, OwnFacts, OwnerKnown
  <2> QED
    BY <1>1, <1>2, <1>3, <2>1, <2>2, <2>3, LoopOuter
<1>5. CASE ~ R!IsReady(reg, Chain(t))
  <2> DEFINE D == Detached(turn[t])
             U == [D EXCEPT !.keepAlive = TRUE]
  <2>1. /\ turn' = [turn EXCEPT ![t] = U] /\ Ends(turn[t].reader, "paused", "done")
        /\ shown' = shown
    BY <1>5 DEF SurfacedAll
  <2>2. /\ D \in TurnRecord /\ D.phase = turn[t].phase /\ D.cleaned = turn[t].cleaned
        /\ D.signal = turn[t].signal
    BY <1>1, DetachedShape
  <2> HIDE DEF D
  <2>3. U.phase = D.phase /\ U.signal = D.signal
    BY <2>2 DEF TurnRecord
  <2>4. U.cleaned = D.cleaned
    BY <2>2, Zenon DEF TurnRecord
  <2> HIDE DEF U
  <2>5. "paused" \in Outcomes /\ "done" \in {"active", "closing", "done"}
    BY DEF Outcomes
  <2>6. GenStep
    BY <1>2, <2>1, <2>5, GenEnds
  <2> QED
    BY <1>1, <1>3, <2>1, <2>2, <2>3, <2>4, <2>6, AsItWasOuter
<1> QED
  BY <1>4, <1>5

LEMMA EntersConsumeOuter ==
    ASSUME IInv, Kept, NEW t \in Gens, EntersConsume(t)
    PROVE  Outer'
<1> DEFINE T == [turn[t] EXCEPT !.phase = "live"]
<1>1. turn[t] \in TurnRecord /\ shown \subseteq CallIds /\ turn[t].phase = "returned"
  BY TurnFacts DEF IInv, Outer, EntersConsume
<1>2. T \in TurnRecord /\ T.phase = "live" /\ T.signal = turn[t].signal
  <2>1. T \in TurnRecord
    BY <1>1, Updates
  <2>2. T.phase = "live" /\ T.signal = turn[t].signal
    BY <1>1 DEF TurnRecord
  <2> QED
    BY <2>1, <2>2
<1>3. T.cleaned = turn[t].cleaned
  BY <1>1, Zenon DEF TurnRecord
<1>4. /\ T.cleaned => /\ turn' = [turn EXCEPT ![t] = T]
                      /\ Ends(t, IF T.failure = "cancelled" THEN "cancelled" ELSE "failed", "done")
                      /\ shown' = shown
      /\ ~ T.cleaned => Loop(t, t, T, reg) /\ gen' = gen
      /\ UNCHANGED <<arrived, failed, aborted, disposed>>
  BY DEF EntersConsume
<1> HIDE DEF T
<1>5. CASE T.cleaned
  <2> DEFINE o == IF T.failure = "cancelled" THEN "cancelled" ELSE "failed"
  <2>1. o \in Outcomes /\ "done" \in {"active", "closing", "done"}
    BY DEF Outcomes
  <2>2. Ends(t, o, "done")
    BY <1>4, <1>5
  <2> HIDE DEF o
  <2>3. GenStep
    BY <2>1, <2>2, GenEnds
  <2>4. Steady(turn[t], T)
    BY <1>1, <1>2, <1>5 DEF Steady
  <2> QED
    BY <1>1, <1>4, <1>5, <2>3, <2>4, OneGoesOn
<1>6. CASE ~ T.cleaned
  <2>1. GenStep
    BY <1>4, <1>6, GenStays
  <2> QED
    BY <1>1, <1>2, <1>3, <1>4, <1>6, <2>1, LoopOuter
<1> QED
  BY <1>5, <1>6

LEMMA CleanupStepOuter ==
    ASSUME IInv, Kept, NEW t \in Gens, CleanupStep(t)
    PROVE  Outer'
<1> DEFINE C == IF turn[t].cleanup = "interrupt" THEN "unsubscribe" ELSE "done"
           L == IF turn[t].cleanup = "unsubscribe" THEN "released" ELSE turn[t].lease
           U == [turn[t] EXCEPT !.cleanup = C, !.lease = L]
<1>1. /\ turn[t] \in TurnRecord /\ shown \subseteq CallIds /\ Core
  BY TurnFacts DEF IInv, Outer
<1>2. /\ turn' = [turn EXCEPT ![t] = U]
      /\ UNCHANGED <<gen, arrived, shown, failed, aborted, disposed>>
  BY <1>1 DEF CleanupStep, Core
<1> HIDE DEF C, L
<1>3. U.phase = turn[t].phase /\ U.signal = turn[t].signal
  BY <1>1 DEF TurnRecord
<1>4. U.cleaned = turn[t].cleaned
  BY <1>1, Zenon DEF TurnRecord
<1> HIDE DEF U
<1>5. GenStep
  BY <1>2, GenStays
<1> QED
  BY <1>1, <1>2, <1>3, <1>4, <1>5, AsItWasOuter

LEMMA ToolTimeoutOuter ==
    ASSUME IInv, Kept, NEW c \in ToolCalls, ToolTimeout(c)
    PROVE  Outer'
<1> DEFINE t == c.lease
           U == [turn[t] EXCEPT !.doomed = "timeout"]
<1>1. t \in Gens /\ shown \subseteq CallIds /\ Core
  BY ChainTyped DEF IInv, Outer
<1>2. turn[t] \in TurnRecord
  BY <1>1, TurnFacts
<1>3. /\ turn' = [turn EXCEPT ![t] = U]
      /\ UNCHANGED <<gen, arrived, shown, failed, aborted, disposed>>
  BY <1>1 DEF ToolTimeout, TurnOf, Core
<1>4. U.phase = turn[t].phase /\ U.signal = turn[t].signal
  BY <1>2 DEF TurnRecord
<1>5. U.cleaned = turn[t].cleaned
  BY <1>2, Zenon DEF TurnRecord
<1> HIDE DEF U, t
<1>6. GenStep
  BY <1>3, GenStays
<1> QED
  BY <1>1, <1>3, <1>4, <1>5, <1>6, AsItWasOuter

\* The steps that leave every turn alone.
LEMMA TurnsAloneOuter ==
    ASSUME IInv, Kept, GenStep, failed' \subseteq failed,
           UNCHANGED <<turn, arrived, shown, aborted, disposed>>
    PROVE  Outer'
<1>1. \A t \in Gens : Steady(turn[t], turn'[t])
  <2> SUFFICES ASSUME NEW t \in Gens PROVE Steady(turn[t], turn'[t])
    OBVIOUS
  <2>1. turn[t] \in TurnRecord
    BY TurnFacts DEF IInv
  <2>2. turn[t].cleaned \in BOOLEAN
    BY <2>1 DEF TurnRecord
  <2> QED
    BY <2>2 DEF Steady
<1>2. shown \cup failed \subseteq CallIds /\ disposed \in BOOLEAN
  BY DEF IInv, Outer
<1>3. shown' \cup failed' \subseteq CallIds /\ disposed' \in BOOLEAN
  BY <1>2
<1> QED
  BY <1>1, <1>3, GoesOn

LEMMA ClosedOuter ==
    ASSUME IInv, Kept, NEW g \in Gens, Closed(g)
    PROVE  Outer'
<1>1. GenStep
  BY DEF Closed, IInv, Outer, GenStep, GenType
<1> QED
  BY <1>1, TurnsAloneOuter DEF Closed

LEMMA GenerateRefusedOuter ==
    ASSUME IInv, Kept, NEW g \in Gens, NEW ids, GenerateRefused(g, ids)
    PROVE  Outer'
<1> DEFINE o == IF disposed THEN "cancelled" ELSE "refused"
<1>1. o \in Outcomes /\ "done" \in {"active", "closing", "done"} /\ Ends(g, o, "done")
  BY DEF Outcomes, GenerateRefused
<1> HIDE DEF o
<1>2. GenStep
  BY <1>1, GenEnds
<1> QED
  BY <1>2, TurnsAloneOuter DEF GenerateRefused

LEMMA FailedCallExpiresOuter ==
    ASSUME IInv, Kept, NEW id, FailedCallExpires(id)
    PROVE  Outer'
<1>1. GenStep
  BY GenStays DEF FailedCallExpires
<1> QED
  BY <1>1, TurnsAloneOuter DEF FailedCallExpires

LEMMA StartingOuter ==
    ASSUME IInv, Kept, NEW t \in Gens,
           LeaseAcquired(t) \/ LeaseFailed(t) \/ ThreadStarted(t) \/ ThreadFailed(t)
    PROVE  Outer'
<1>1. Core /\ turn[t] \in TurnRecord /\ shown \subseteq CallIds
  BY TurnFacts DEF IInv, Outer
<1>2. /\ turn[t].phase \in {"lease", "thread"}
      /\ UNCHANGED <<arrived, shown, failed, aborted, disposed>>
  BY DEF LeaseAcquired, LeaseFailed, ThreadStarted, ThreadFailed
<1>3. PICK f \in {"none", "lease", "thread", "starting"}, l \in {"none", "held", "released"} :
         turn' = [turn EXCEPT ![t].phase = f, ![t].lease = l]
  BY <1>1, StartingMoves
<1> DEFINE U == [turn[t] EXCEPT !.phase = f, !.lease = l]
<1>4. turn' = [turn EXCEPT ![t] = U]
  BY <1>1, <1>3 DEF Core
<1>5. U.signal = turn[t].signal
  BY <1>1 DEF TurnRecord
<1>6. U.cleaned = turn[t].cleaned /\ turn[t].cleaned \in BOOLEAN
  BY <1>1, Zenon DEF TurnRecord
<1>7. gen' = gen \/ Ends(t, "cancelled", "done") \/ Ends(t, "failed", "done")
  BY DEF LeaseAcquired, LeaseFailed, ThreadStarted, ThreadFailed
<1>8. /\ "done" \in {"active", "closing", "done"}
      /\ "cancelled" \in Outcomes /\ "failed" \in Outcomes
  BY DEF Outcomes
<1>9. GenStep
  BY <1>7, <1>8, GenStays, GenEnds
<1>10. Steady(turn[t], U)
  BY <1>2, <1>5, <1>6 DEF Steady
<1> HIDE DEF U
<1> QED
  BY <1>1, <1>2, <1>4, <1>9, <1>10, OneGoesOn

LEMMA TurnStartFailedOuter ==
    ASSUME IInv, Kept, NEW t \in Gens, TurnStartFailed(t)
    PROVE  Outer'
<1> DEFINE error == IF t \in aborted THEN "cancelled" ELSE "protocol"
           o == IF t \in aborted THEN "cancelled" ELSE "failed"
           V == Terminate(turn[t], error, TRUE)
           U == [V EXCEPT !.phase = "live"]
<1>1. turn[t] \in TurnRecord /\ Shape(t, turn[t]) /\ shown \subseteq CallIds
  BY TurnFacts DEF IInv, Outer
<1>2. /\ error \in Errors \cup {"none"} /\ TRUE \in BOOLEAN
      /\ o \in Outcomes /\ "closing" \in {"active", "closing", "done"}
  BY DEF Errors, Outcomes
<1>3. /\ turn[t].phase = "starting" /\ turn' = [turn EXCEPT ![t] = U]
      /\ Ends(t, o, "closing") /\ UNCHANGED <<arrived, shown, failed, aborted, disposed>>
  BY DEF TurnStartFailed
<1> HIDE DEF error, o
<1>4. V \in TurnRecord /\ V.cleaned
  BY <1>1, <1>2, TerminateShape
<1> HIDE DEF V
<1>5. U.cleaned = V.cleaned
  BY <1>4, Zenon DEF TurnRecord
<1> HIDE DEF U
<1>6. Steady(turn[t], U)
  BY <1>3, <1>4, <1>5 DEF Steady
<1>7. GenStep
  BY <1>2, <1>3, GenEnds
<1> QED
  BY <1>1, <1>3, <1>6, <1>7, OneGoesOn

LEMMA TurnStartedTooLateOuter ==
    ASSUME IInv, Kept, NEW t \in Gens, TurnStartedTooLate(t)
    PROVE  Outer'
<1> DEFINE o == IF turn[t].failure \in {"none", "cancelled"} THEN "cancelled" ELSE "failed"
           V == [turn[t] EXCEPT !.phase = "live"]
           U == Terminate(V, "cancelled", TRUE)
<1>1. turn[t] \in TurnRecord /\ shown \subseteq CallIds
  BY TurnFacts DEF IInv, Outer
<1>2. /\ "cancelled" \in Errors \cup {"none"} /\ TRUE \in BOOLEAN
      /\ o \in Outcomes /\ "closing" \in {"active", "closing", "done"}
  BY DEF Errors, Outcomes
<1>3. /\ turn[t].phase = "starting" /\ turn' = [turn EXCEPT ![t] = U]
      /\ Ends(t, o, "closing") /\ UNCHANGED <<arrived, shown, failed, aborted, disposed>>
  BY DEF TurnStartedTooLate
<1> HIDE DEF o
<1>4. V \in TurnRecord
  BY <1>1, Updates
<1> HIDE DEF V
<1>5. U.cleaned
  <2>1. CASE V.cleaned
    BY <2>1 DEF Terminate
  <2>2. CASE ~ V.cleaned
    BY <1>2, <1>4, <2>2, TerminateFields
  <2> QED
    BY <2>1, <2>2
<1> HIDE DEF U
<1>6. Steady(turn[t], U)
  BY <1>3, <1>5 DEF Steady
<1>7. GenStep
  BY <1>2, <1>3, GenEnds
<1> QED
  BY <1>1, <1>3, <1>6, <1>7, OneGoesOn

LEMMA NotifyOuter ==
    ASSUME IInv, Kept, NEW t \in Gens, NEW n \in Notes, Notify(t, n)
    PROVE  Outer'
<1> DEFINE T == [turn[t] EXCEPT !.notes = @ + 1]
           U == Noted(T, n)
<1>1. Core /\ turn[t] \in TurnRecord /\ shown \subseteq CallIds
  BY TurnFacts DEF IInv, Outer
<1>2. /\ HasHandlers(t) /\ T.notes <= MaxNotes
      /\ UNCHANGED <<gen, arrived, shown, aborted, disposed>>
  BY DEF Notify
<1>3. T \in TurnRecord
  <2>1. turn[t].notes + 1 \in 0..MaxNotes
    BY <1>1, <1>2, TransportAssumption DEF TurnRecord
  <2> QED
    BY <1>1, <2>1, Updates
<1>4. T.phase = turn[t].phase /\ T.signal = turn[t].signal
  BY <1>1 DEF TurnRecord
<1>5. T.cleaned = turn[t].cleaned
  BY <1>1, Zenon DEF TurnRecord
<1>6. /\ T.phase = "starting" =>
           /\ turn' = [turn EXCEPT ![t] = [T EXCEPT !.preNotes = Append(@, n)]]
           /\ failed' = failed
      /\ T.phase # "starting" =>
           /\ turn' = [turn EXCEPT ![t] = U]
           /\ failed' = IF U.cleaned THEN FailedAfter(t, U.failure) ELSE failed
  BY DEF Notify
<1>7. GenStep /\ shown' \subseteq CallIds
  BY <1>1, <1>2, GenStays
<1>8. ~ T.cleaned /\ T.phase # "none"
  BY <1>2, <1>4, <1>5 DEF HasHandlers
<1> HIDE DEF T
<1>9. CASE T.phase = "starting"
  <2> DEFINE V == [T EXCEPT !.preNotes = Append(@, n)]
  <2>1. V.phase = T.phase /\ V.signal = T.signal
    BY <1>3 DEF TurnRecord
  <2>2. V.cleaned = T.cleaned
    BY <1>3, Zenon DEF TurnRecord
  <2>3. turn' = [turn EXCEPT ![t] = V] /\ failed' = failed
    BY <1>6, <1>9
  <2> HIDE DEF V
  <2> QED
    BY <1>2, <1>4, <1>5, <1>7, <2>1, <2>2, <2>3, AsItWasOuter
<1>10. CASE T.phase # "starting" /\ ~ U.cleaned
  <2>1. U.phase = T.phase /\ U.signal = T.signal
    <3>1. CASE n = "text"
      <4>1. U = Push(T, "text")
        BY <1>8, <3>1 DEF Noted
      <4> QED
        BY <1>3, <4>1, PushFields
    <3>2. CASE n = "completed"
      <4> DEFINE V == [T EXCEPT !.terminal = TRUE]
      <4>1. U = Push(V, "completed")
        BY <1>8, <3>2 DEF Noted
      <4>2. V \in TurnRecord
        BY <1>3, Updates
      <4>3. V.phase = T.phase /\ V.signal = T.signal
        BY <1>3 DEF TurnRecord
      <4> HIDE DEF V
      <4> QED
        BY <4>1, <4>2, <4>3, PushFields
    <3>3. CASE n \in {"interrupted", "badCompletion", "failed"}
      <4>1. U.cleaned
        <5> DEFINE e == IF n = "interrupted" THEN "cancelled" ELSE "protocol"
                   b == n = "failed"
        <5>1. U = Terminate(T, e, b)
          BY <1>8, <3>3 DEF Noted
        <5>2. e \in Errors \cup {"none"} /\ b \in BOOLEAN
          BY DEF Errors
        <5> HIDE DEF e, b, U
        <5> QED
          BY <1>3, <1>8, <5>1, <5>2, TerminateFields
      <4> QED
        BY <1>10, <4>1
    <3> QED
      BY <3>1, <3>2, <3>3 DEF Notes
  <2>2. turn' = [turn EXCEPT ![t] = U] /\ failed' = failed
    BY <1>6, <1>10
  <2> HIDE DEF U
  <2>3. Steady(turn[t], U)
    BY <1>4, <1>5, <1>8, <1>10, <2>1 DEF Steady
  <2> QED
    BY <1>2, <1>7, <2>2, <2>3, OneGoesOn
<1>11. CASE T.phase # "starting" /\ U.cleaned
  <2>1. turn' = [turn EXCEPT ![t] = U] /\ failed' = FailedAfter(t, U.failure)
    BY <1>6, <1>11
  <2> HIDE DEF U
  <2>2. Steady(turn[t], U)
    BY <1>4, <1>8, <1>11 DEF Steady
  <2> QED
    BY <1>2, <1>7, <1>11, <2>1, <2>2, FailedAfterOuter
<1> QED
  BY <1>9, <1>10, <1>11

\* A tool request leaves the turns where they are; if its call waits after it, then
\* its id is not remembered as a failed one.
LEMMA RequestOuter ==
    ASSUME IInv, Kept, NEW c \in ToolCalls, arrived' = arrived \cup {c},
           \A t \in Gens : Steady(turn[t], turn'[t]), failed' \subseteq failed,
           c \in Own(c.lease)' => c.callId \notin failed',
           UNCHANGED <<gen, shown, aborted, disposed>>
    PROVE  Outer'
<1>1. Core /\ Outer /\ GenStep
  BY GenStays DEF IInv
<1>2. gen' \in GenType /\ \A g \in Gens : gen'[g].status = gen[g].status
  BY <1>1 DEF GenStep
<1>3. \A t \in Gens : ~ turn'[t].cleaned => turn'[t].signal \notin aborted
  BY <1>1 DEF Outer, Steady
<1>4. \A g \in Gens : gen[g].status = "idle" => turn'[g].phase = "none"
  BY <1>1 DEF Outer, Steady
<1>5. ASSUME NEW t \in Gens, NEW d \in Own(t)'
      PROVE  d.callId \notin failed'
  <2>1. d \in arrived' /\ d \in ToolCalls /\ d.lease = t
    BY <1>1, <1>5, StillWaiting
  <2>2. CASE d = c
    BY <1>5, <2>1, <2>2
  <2>3. CASE d \in arrived
    <3>1. d \in Own(t)
      BY <1>1, <1>5, <2>3, SteadyWaiting
    <3> QED
      BY <1>1, <3>1 DEF Outer, WaitingCallsAnswerable, Own
  <2> QED
    BY <2>1, <2>2, <2>3
<1> QED
  BY <1>1, <1>2, <1>3, <1>4, <1>5 DEF Outer, WaitingCallsAnswerable, Own, GenType

\* The record of one turn changes, but not how far it is, whether it was terminated
\* and which signal it is bound to.
LEMMA OneSteady ==
    ASSUME Core, NEW t \in Gens, NEW U, turn' = [turn EXCEPT ![t] = U],
           U.phase = turn[t].phase, U.cleaned = turn[t].cleaned, U.signal = turn[t].signal
    PROVE  \A u \in Gens : Steady(turn[u], turn'[u])
<1> SUFFICES ASSUME NEW u \in Gens PROVE Steady(turn[u], turn'[u])
  OBVIOUS
<1>1. turn[u].cleaned \in BOOLEAN
  BY TurnFacts DEF TurnRecord
<1>2. turn'[u] = IF u = t THEN U ELSE turn[u]
  BY DEF Core
<1>3. CASE u = t
  BY <1>1, <1>2, <1>3 DEF Steady
<1>4. CASE u # t
  BY <1>1, <1>2, <1>4 DEF Steady
<1> QED
  BY <1>3, <1>4

LEMMA TurnsSteady ==
    ASSUME Core, turn' = turn
    PROVE  \A u \in Gens : Steady(turn[u], turn'[u])
<1> SUFFICES ASSUME NEW u \in Gens PROVE Steady(turn[u], turn'[u])
  OBVIOUS
<1>1. turn[u].cleaned \in BOOLEAN
  BY TurnFacts DEF TurnRecord
<1> QED
  BY <1>1 DEF Steady

\* A request that is refused at once does not wait.
LEMMA RefusedDoesNotWait ==
    ASSUME Core, NEW c \in ToolCalls, c \notin arrived, reg' = R!Settle(reg, {c}, "rejected")
    PROVE  c \notin Own(c.lease)'
<1>1. reg'.callMap = reg.callMap
  BY DEF R!Settle, Core, P!Consistent, P!RegistryType
<1>2. c \notin Own(c.lease)
  BY DEF Core, Placed
<1> QED
  BY <1>1, <1>2 DEF Own

LEMMA ToolRequestOuter ==
    ASSUME IInv, Kept, NEW c \in ToolCalls, ToolRequest(c)
    PROVE  Outer'
<1> DEFINE t == c.lease
<1>1. /\ Core /\ t \in Gens /\ turn[t] \in TurnRecord
      /\ c \notin arrived /\ arrived' = arrived \cup {c}
      /\ UNCHANGED <<gen, shown, aborted, disposed>>
  BY ChainTyped, TurnFacts DEF IInv, ToolRequest
<1>2. CASE BufferToolCall(c)
  <2> DEFINE U == [turn[t] EXCEPT !.preCalls = Append(@, c)]
  <2>1. turn' = [turn EXCEPT ![t] = U] /\ failed' = failed /\ turn[t].phase = "starting"
    BY <1>2 DEF BufferToolCall, TurnOf
  <2>2. U.phase = turn[t].phase /\ U.signal = turn[t].signal
    BY <1>1 DEF TurnRecord
  <2>3. U.cleaned = turn[t].cleaned
    BY <1>1, Zenon DEF TurnRecord
  <2> HIDE DEF U
  <2>4. \A u \in Gens : Steady(turn[u], turn'[u])
    BY <1>1, <2>1, <2>2, <2>3, OneSteady
  <2>5. turn'[t].phase = "starting"
    BY <1>1, <2>1, <2>2 DEF Core
  <2>6. c \notin Own(t)'
    BY <1>1, <2>5, OwnerKnownAfter
  <2> QED
    BY <1>1, <2>1, <2>4, <2>6, RequestOuter
<1>3. CASE HandleToolCall(c)
  <2>1. failed' = failed \ {c.callId}
    BY <1>3 DEF HandleToolCall
  <2>2. \A u \in Gens : Steady(turn[u], turn'[u])
    <3> DEFINE V == [turn[t] EXCEPT !.callIds = @ \cup {c}]
               U == Push(V, "tool")
    <3>1. turn' = turn \/ turn' = [turn EXCEPT ![t] = U]
      BY <1>3, Zenon DEF HandleToolCall, TurnOf
    <3>2. V \in TurnRecord
      <4>1. turn[t].callIds \cup {c} \in SUBSET ToolCalls
        BY <1>1 DEF TurnRecord
      <4> QED
        BY <1>1, <4>1, Updates
    <3>3. V.phase = turn[t].phase /\ V.signal = turn[t].signal
      BY <1>1 DEF TurnRecord
    <3>4. V.cleaned = turn[t].cleaned
      BY <1>1, Zenon DEF TurnRecord
    <3> HIDE DEF V
    <3>5. U.phase = V.phase /\ U.signal = V.signal /\ U.cleaned = V.cleaned
      BY <3>2, PushFields
    <3> HIDE DEF U
    <3> QED
      BY <1>1, <3>1, <3>3, <3>4, <3>5, OneSteady, TurnsSteady
  <2> QED
    BY <1>1, <2>1, <2>2, RequestOuter
<1>4. CASE RejectToolCall(c)
  <2>1. reg' = R!Settle(reg, {c}, "rejected") /\ UNCHANGED <<turn, failed>>
    BY <1>4 DEF RejectToolCall
  <2>2. c \notin Own(c.lease)' /\ \A u \in Gens : Steady(turn[u], turn'[u])
    BY <1>1, <2>1, RefusedDoesNotWait, TurnsSteady
  <2> QED
    BY <1>1, <2>1, <2>2, RequestOuter
<1> QED
  BY <1>2, <1>3, <1>4 DEF ToolRequest

\* A step of one turn that may start it, flush it or bind another signal to it.
LEMMA OneMoves ==
    ASSUME IInv, Kept, gen' \in GenType, NEW t \in Gens, NEW U,
           turn' = [turn EXCEPT ![t] = U],
           \A g \in Gens : gen'[g].status = "idle" => g # t /\ gen[g].status = "idle",
           U.cleaned \/ U.signal \notin aborted,
           \A c \in Own(t)' : c.callId \notin failed',
           shown' \subseteq CallIds, failed' \subseteq failed,
           aborted' = aborted, disposed' = disposed, arrived' = arrived
    PROVE  Outer'
<1>1. Core /\ Outer
  BY DEF IInv
<1>2. turn'[t] = U /\ \A u \in Gens \ {t} : turn'[u] = turn[u]
  BY <1>1 DEF Core
<1>3. \A u \in Gens : ~ turn'[u].cleaned => turn'[u].signal \notin aborted
  BY <1>1, <1>2 DEF Outer
<1>4. \A g \in Gens : gen'[g].status = "idle" => turn'[g].phase = "none"
  BY <1>1, <1>2 DEF Outer
<1>5. ASSUME NEW u \in Gens, NEW c \in Own(u)'
      PROVE  c.callId \notin failed'
  <2>1. CASE u = t
    BY <1>5, <2>1
  <2>2. CASE u # t
    <3>1. c \in arrived
      BY <1>1, <1>5, StillWaiting
    <3>2. turn[u].cleaned \in BOOLEAN /\ turn'[u] = turn[u]
      BY <1>1, <1>2, <2>2, TurnFacts DEF TurnRecord
    <3>3. Steady(turn[u], turn'[u])
      BY <3>2 DEF Steady
    <3>4. c \in Own(u)
      BY <1>1, <1>5, <3>1, <3>3, SteadyWaiting
    <3> QED
      BY <1>1, <3>4 DEF Outer, WaitingCallsAnswerable, Own
  <2> QED
    BY <2>1, <2>2
<1>6. \A g \in Gens : g \in aborted => gen'[g].status # "idle"
  BY <1>1 DEF Outer
<1> QED
  BY <1>1, <1>3, <1>4, <1>5, <1>6 DEF Outer, WaitingCallsAnswerable, Own, GenType

LEMMA TurnStartedOuter ==
    ASSUME IInv, Kept, NEW t \in Gens, TurnStarted(t)
    PROVE  Outer'
<1> DEFINE T == Flushed(t)
           Q == CapturedOnFlush(T, turn[t].preCalls)
           n == Cardinality(Q)
           pushed == [i \in 1..n |-> "tool"]
           U == [T EXCEPT !.queue = @ \o pushed, !.callIds = Q, !.signal = t]
           tried == IF T.terminal THEN {} ELSE {c.callId : c \in Buffered(t)}
<1>1. /\ Core /\ Outer /\ turn[t] \in TurnRecord /\ Shape(t, turn[t])
      /\ turn[t].preCalls \in Seq(ToolCalls)
  BY TurnFacts DEF IInv, TurnRecord
<1>2. /\ turn[t].phase = "starting" /\ ~ turn[t].cleaned /\ t \notin aborted
      /\ turn' = [turn EXCEPT ![t] = U]
      /\ UNCHANGED <<gen, arrived, shown, aborted, disposed>>
  BY Zenon DEF TurnStarted
<1>3. failed' = failed \ tried
  BY Zenon DEF TurnStarted, Buffered
<1>4. T \in TurnRecord
  BY <1>1, <1>2, FlushedFields
<1>5. T.terminal => Q = {}
  BY <1>1, CapturedOnFlushFacts
<1> HIDE DEF T, Q, n, pushed
<1>6. U.callIds = Q /\ U.signal = t
  BY <1>4 DEF TurnRecord
<1> HIDE DEF U
<1>7. turn'[t] = U
  BY <1>1, <1>2 DEF Core
<1>8. ASSUME NEW c \in Own(t)'
      PROVE  c.callId \notin failed'
  <2>1. c \in arrived
    BY <1>1, <1>2, <1>8, StillWaiting
  <2>2. Own(t) = {}
    BY <1>1, <1>2, OwnerKnown
  <2>3. c \in Buffered(t)
    BY <1>1, <1>8, <2>1, <2>2, StillWaiting
  <2>4. c \in Q
    BY <1>6, <1>7, <1>8, OwnerKnownAfter
  <2> QED
    BY <1>3, <1>5, <2>3, <2>4
<1>9. gen' \in GenType /\ \A g \in Gens : gen'[g].status = "idle" => g # t /\ gen[g].status = "idle"
  BY <1>1, <1>2 DEF Outer, GenType
<1>10. shown' \subseteq CallIds /\ failed' \subseteq failed
  BY <1>1, <1>2, <1>3 DEF Outer
<1> QED
  BY <1>2, <1>6, <1>8, <1>9, <1>10, OneMoves

LEMMA GenerateNewOuter ==
    ASSUME IInv, Kept, NEW g \in Gens, NEW ids, GenerateNew(g, ids)
    PROVE  Outer'
<1> DEFINE U == [turn[g] EXCEPT !.phase = "lease"]
<1>1. Core /\ Outer /\ turn[g] \in TurnRecord
  BY TurnFacts DEF IInv
<1>2. /\ gen' = [gen EXCEPT ![g].status = "active", ![g].on = g]
      /\ turn' = [turn EXCEPT ![g] = U]
      /\ UNCHANGED <<arrived, shown, failed, aborted, disposed>>
  BY DEF GenerateNew
<1>3. U.phase = "lease" /\ U.signal = turn[g].signal
  BY <1>1 DEF TurnRecord
<1>4. U.cleaned = turn[g].cleaned
  BY <1>1, Zenon DEF TurnRecord
<1> HIDE DEF U
<1>5. turn'[g].phase = "lease"
  BY <1>1, <1>2, <1>3 DEF Core
<1>6. Own(g)' = {}
  BY <1>5, OwnerKnownAfter
<1>7. gen' \in GenType /\ \A h \in Gens : gen'[h].status = "idle" => h # g /\ gen[h].status = "idle"
  BY <1>1, <1>2 DEF Outer, GenType
<1>8. shown' \subseteq CallIds /\ failed' \subseteq failed /\ (U.cleaned \/ U.signal \notin aborted)
  BY <1>1, <1>2, <1>3, <1>4 DEF Outer
<1> QED
  BY <1>2, <1>6, <1>7, <1>8, OneMoves

LEMMA GenerateFollowUpOuter ==
    ASSUME IInv, Kept, Quiet, NEW g \in Gens, gen[g].status = "idle", NEW t \in Gens, NEW ids,
           GenerateFollowUp(g, t, ids)
    PROVE  Outer'
<1> DEFINE new == NewResults(t, ids)
           rg == Resumed(g, t, new)
           T == [turn[t] EXCEPT !.signal = g, !.keepAlive = FALSE]
           V == [T EXCEPT !.keepAlive = TRUE]
<1>1. Core /\ Outer /\ turn[t] \in TurnRecord
  BY TurnFacts DEF IInv
<1>2. turn[t].reader = NoGen /\ turn[t].phase = "live" /\ turn[t].preCalls = <<>>
  BY CandidateWaits DEF GenerateFollowUp
<1>3. T \in TurnRecord
  <2>1. g \in Gens \cup {NoGen} /\ FALSE \in BOOLEAN
    OBVIOUS
  <2> QED
    BY <1>1, <2>1, Updates, Zenon
<1>4. T.signal = g /\ T.reader = NoGen
  BY <1>1, <1>2 DEF TurnRecord
<1>5. /\ UNCHANGED <<arrived, aborted, disposed>>
      /\ \/ /\ T.reader = NoGen => /\ Loop(t, g, T, rg)
                                   /\ gen' = [gen EXCEPT ![g].status = "active", ![g].on = t]
                                   /\ failed' = failed
            /\ T.reader # NoGen => TRUE
         \/ /\ turn' = [turn EXCEPT ![t] = V]
            /\ gen' = [gen EXCEPT ![g] = [status |-> "done", on |-> t, outcome |-> "partial"]]
            /\ UNCHANGED <<shown, failed>>
  BY Zenon DEF GenerateFollowUp
<1> HIDE DEF T, rg, new
<1>6. V.signal = T.signal
  BY <1>3 DEF TurnRecord
<1> HIDE DEF V
<1>7. failed' = failed
  BY <1>4, <1>5
<1>8. \E U : turn' = [turn EXCEPT ![t] = U] /\ U.signal = g
  <2>1. CASE Loop(t, g, T, rg)
    <3>1. shown \subseteq CallIds
      BY <1>1 DEF Outer
    <3>2. PICK U : /\ turn' = [turn EXCEPT ![t] = U]
                   /\ U.phase = T.phase /\ U.cleaned = T.cleaned /\ U.signal = T.signal
      BY <1>1, <1>3, <2>1, <3>1, LoopLeaves
    <3> QED
      BY <1>4, <3>2
  <2> QED
    BY <1>4, <1>5, <1>6, <2>1
<1>9. shown' \subseteq CallIds
  <2>1. CASE Loop(t, g, T, rg)
    BY <1>1, <1>3, <2>1, LoopLeaves DEF Outer
  <2> QED
    BY <1>1, <1>4, <1>5, <2>1 DEF Outer
<1>10. /\ gen' \in GenType
       /\ \A h \in Gens : gen'[h].status = "idle" => h # g /\ gen[h].status = "idle"
  <2>1. \/ gen' = [gen EXCEPT ![g].status = "active", ![g].on = t]
        \/ gen' = [gen EXCEPT ![g] = [status |-> "done", on |-> t, outcome |-> "partial"]]
    BY <1>4, <1>5
  <2> QED
    BY <1>1, <2>1 DEF Outer, GenType, Outcomes
<1>11. \A h \in Gens : gen'[h].status = "idle" => h # t /\ gen[h].status = "idle"
  BY <1>1, <1>2, <1>10 DEF Outer
<1>12. ASSUME NEW c \in Own(t)'
       PROVE  c.callId \notin failed'
  <2>1. c \in arrived /\ Buffered(t) = {}
    BY <1>1, <1>2, <1>5, <1>12, StillWaiting DEF Buffered, ToSet
  <2>2. c \in Own(t)
    BY <1>1, <1>12, <2>1, StillWaiting
  <2> QED
    BY <1>1, <1>7, <2>2 DEF Outer, WaitingCallsAnswerable, Own
<1>13. g \notin aborted
  BY <1>1 DEF Outer
<1>14. PICK U : turn' = [turn EXCEPT ![t] = U] /\ U.signal = g
  BY <1>8
<1> QED
  BY <1>5, <1>7, <1>9, <1>10, <1>11, <1>12, <1>13, <1>14, OneMoves

LEMMA GenerateOuter ==
    ASSUME IInv, Kept, NEW g \in Gens, Generate(g)
    PROVE  Outer'
<1>1. Quiet /\ gen[g].status = "idle"
  BY DEF Generate
<1> QED
  BY <1>1, GenerateRefusedOuter, GenerateNewOuter, GenerateFollowUpOuter DEF Generate

\* Several turns are terminated in one step.
LEMMA TerminateTurnsSteady ==
    ASSUME IInv, NEW S \in SUBSET Gens, NEW error \in Errors, NEW interrupt \in BOOLEAN,
           TerminateTurns(S, error, interrupt)
    PROVE  /\ \A t \in Gens : Steady(turn[t], turn'[t])
           /\ \A t \in S : turn'[t].cleaned
           /\ \A t \in Gens \ S : turn'[t] = turn[t]
           /\ failed' \subseteq CallIds
           /\ error = "cancelled" => failed' = failed
<1> DEFINE hit == {t \in S : ~ turn[t].cleaned}
           ids == UNION {{c.callId : c \in turn[t].callIds} : t \in hit}
<1>1. /\ \A t \in Gens : turn'[t] = IF t \in hit THEN Terminate(turn[t], error, interrupt)
                                    ELSE turn[t]
      /\ failed' = IF error = "cancelled" THEN failed ELSE failed \cup ids
  BY DEF TerminateTurns
<1>2. Core /\ failed \subseteq CallIds /\ error \in Errors \cup {"none"}
  BY DEF IInv, Outer
<1>3. ids \subseteq CallIds
  <2> SUFFICES ASSUME NEW t \in hit, NEW c \in turn[t].callIds PROVE c.callId \in CallIds
    OBVIOUS
  <2>1. c \in ToolCalls
    BY <1>2, TurnFacts DEF TurnRecord
  <2> QED
    BY <2>1, TransportAssumption
<1>4. ASSUME NEW t \in hit
      PROVE  turn'[t].cleaned /\ turn'[t].phase = turn[t].phase
  <2>1. turn[t] \in TurnRecord /\ Shape(t, turn[t]) /\ t \in Gens
    BY <1>2, TurnFacts
  <2>2. LET U == Terminate(turn[t], error, interrupt) IN U.cleaned /\ U.phase = turn[t].phase
    BY <1>2, <2>1, TerminateShape
  <2> QED
    BY <1>1, <2>1, <2>2
<1>5. ASSUME NEW t \in Gens \ hit
      PROVE  turn'[t] = turn[t] /\ turn[t].cleaned \in BOOLEAN
  BY <1>1, <1>2, TurnFacts DEF TurnRecord
<1>6. \A t \in Gens : Steady(turn[t], turn'[t])
  <2> SUFFICES ASSUME NEW t \in Gens PROVE Steady(turn[t], turn'[t])
    OBVIOUS
  <2>1. CASE t \in hit
    BY <1>4, <2>1 DEF Steady
  <2>2. CASE t \notin hit
    BY <1>5, <2>2 DEF Steady
  <2> QED
    BY <2>1, <2>2
<1>7. (\A t \in S : turn'[t].cleaned) /\ (\A t \in Gens \ S : turn'[t] = turn[t])
  <2>1. \A t \in S : t \in hit \/ turn[t].cleaned
    OBVIOUS
  <2> QED
    BY <1>4, <1>5, <2>1
<1> HIDE DEF hit, ids
<1> QED
  BY <1>1, <1>2, <1>3, <1>6, <1>7

LEMMA ProcessExitOuter ==
    ASSUME IInv, Kept, ProcessExit
    PROVE  Outer'
<1> DEFINE S == {t \in Gens : HasHandlers(t)}
<1>1. /\ S \in SUBSET Gens /\ "process" \in Errors /\ FALSE \in BOOLEAN
      /\ TerminateTurns(S, "process", FALSE)
      /\ UNCHANGED <<gen, arrived, shown, aborted, disposed>>
  BY DEF ProcessExit, Errors
<1>2. /\ \A t \in Gens : Steady(turn[t], turn'[t])
      /\ \A t \in S : turn'[t].cleaned
      /\ \A t \in Gens \ S : turn'[t] = turn[t]
      /\ failed' \subseteq CallIds
  BY <1>1, TerminateTurnsSteady
<1>3. ASSUME NEW t \in Gens
      PROVE  Own(t)' = {}
  <2>1. CASE t \in S
    BY <1>2, <2>1, OwnerKnownAfter
  <2>2. CASE t \notin S
    BY <1>2, <2>2, OwnerKnownAfter DEF HasHandlers
  <2> QED
    BY <2>1, <2>2
<1>4. GenStep /\ shown' \subseteq CallIds /\ disposed' \in BOOLEAN
  BY <1>1, GenStays DEF IInv, Outer
<1> HIDE DEF S
<1> QED
  BY <1>1, <1>2, <1>3, <1>4, GoesOn

LEMMA DisposeOuter ==
    ASSUME IInv, Kept, Dispose
    PROVE  Outer'
<1> DEFINE S == {t \in Gens : InStates(t)}
<1>1. /\ S \in SUBSET Gens /\ "cancelled" \in Errors /\ TRUE \in BOOLEAN
      /\ TerminateTurns(S, "cancelled", TRUE)
      /\ disposed' = TRUE /\ UNCHANGED <<gen, arrived, shown, aborted>>
  BY DEF Dispose, Errors
<1>2. /\ \A t \in Gens : Steady(turn[t], turn'[t])
      /\ failed' = failed
  BY <1>1, TerminateTurnsSteady
<1>3. GenStep /\ shown' \cup failed' \subseteq CallIds /\ disposed' \in BOOLEAN
  BY <1>1, <1>2, GenStays DEF IInv, Outer
<1> HIDE DEF S
<1> QED
  BY <1>1, <1>2, <1>3, GoesOn

LEMMA DisposeEndsOuter ==
    ASSUME IInv, Kept, DisposeEnds
    PROVE  Outer'
<1>1. /\ failed' = {} /\ UNCHANGED <<gen, arrived, shown, aborted, disposed>>
      /\ \A t \in Gens : \/ turn'[t] = turn[t]
                         \/ turn'[t] = [turn[t] EXCEPT !.doomed = "cancelled"]
  BY DEF DisposeEnds
<1>2. ASSUME NEW t \in Gens
      PROVE  Steady(turn[t], turn'[t])
  <2> DEFINE U == [turn[t] EXCEPT !.doomed = "cancelled"]
  <2>1. turn[t] \in TurnRecord
    BY TurnFacts DEF IInv
  <2>2. U.phase = turn[t].phase /\ U.signal = turn[t].signal /\ turn[t].cleaned \in BOOLEAN
    BY <2>1 DEF TurnRecord
  <2>3. U.cleaned = turn[t].cleaned
    BY <2>1, Zenon DEF TurnRecord
  <2>4. turn'[t] = turn[t] \/ turn'[t] = U
    BY <1>1
  <2> HIDE DEF U
  <2> QED
    BY <2>2, <2>3, <2>4 DEF Steady
<1>3. GenStep /\ shown' \cup failed' \subseteq CallIds /\ disposed' \in BOOLEAN
  BY <1>1, GenStays DEF IInv, Outer
<1> QED
  BY <1>1, <1>2, <1>3, GoesOn

\* Every turn bound to the signal that fires is terminated.
LEMMA AbortOuter ==
    ASSUME IInv, Kept, NEW g \in Gens, Abort(g)
    PROVE  Outer'
<1> DEFINE bound == {t \in Gens : turn[t].signal = g /\ ~ turn[t].cleaned}
           listening == {t \in Gens : reg.signal[Chain(t)] = g}
           reading == {t \in Gens : turn[t].reader = g /\ turn[t].stage = "waiting"}
<1>1. /\ Core /\ Outer /\ gen[g].status = "active"
      /\ aborted' = aborted \cup {g} /\ UNCHANGED <<gen, arrived, shown, failed, disposed>>
  BY DEF IInv, Abort
<1>2. turn' = [t \in Gens |->
         CASE t \in bound -> Terminate(turn[t], "cancelled", TRUE)
           [] t \in (listening \cup reading) \ bound ->
                [turn[t] EXCEPT
                   !.doomed = IF t \in listening THEN "cancelled" ELSE @,
                   !.stage = IF t \in reading THEN "rejected" ELSE @]
           [] OTHER -> turn[t]]
  BY DEF Abort
<1>3. ASSUME NEW t \in bound
      PROVE  turn'[t].cleaned /\ turn'[t].phase = turn[t].phase
  <2>1. turn[t] \in TurnRecord /\ Shape(t, turn[t]) /\ t \in Gens
    BY <1>1, TurnFacts
  <2> DEFINE e == "cancelled"
             U == Terminate(turn[t], e, TRUE)
  <2>2. e \in Errors \cup {"none"} /\ TRUE \in BOOLEAN
    BY DEF Errors
  <2>3. turn'[t] = U
    BY <1>2
  <2> HIDE DEF e, bound
  <2>4. U \in TurnRecord /\ Shape(t, U) /\ U.cleaned /\ U.phase = turn[t].phase
    BY <2>1, <2>2, TerminateShape
  <2> HIDE DEF U
  <2> QED
    BY <2>3, <2>4
<1>4. ASSUME NEW t \in Gens \ bound
      PROVE  /\ turn'[t].phase = turn[t].phase /\ turn'[t].signal = turn[t].signal
             /\ turn'[t].cleaned = turn[t].cleaned /\ turn[t].cleaned \in BOOLEAN
  <2> DEFINE d == IF t \in listening THEN "cancelled" ELSE turn[t].doomed
             e == IF t \in reading THEN "rejected" ELSE turn[t].stage
             U == [turn[t] EXCEPT !.doomed = d, !.stage = e]
  <2>1. turn[t] \in TurnRecord
    BY <1>1, TurnFacts
  <2>2. turn'[t] = turn[t] \/ turn'[t] = U
    BY <1>2
  <2> HIDE DEF d, e
  <2>3. U.phase = turn[t].phase /\ U.signal = turn[t].signal /\ turn[t].cleaned \in BOOLEAN
    BY <2>1 DEF TurnRecord
  <2>4. U.cleaned = turn[t].cleaned
    BY <2>1, Zenon DEF TurnRecord
  <2> HIDE DEF U
  <2> QED
    BY <2>2, <2>3, <2>4
<1>5. \A t \in Gens : ~ turn'[t].cleaned => turn'[t].signal \notin aborted'
  <2> SUFFICES ASSUME NEW t \in Gens, ~ turn'[t].cleaned PROVE turn'[t].signal \notin aborted'
    OBVIOUS
  <2>1. t \notin bound
    BY <1>3
  <2>2. turn'[t].signal = turn[t].signal /\ ~ turn[t].cleaned
    BY <1>4, <2>1
  <2>3. turn[t].signal # g
    BY <2>1, <2>2
  <2> QED
    BY <1>1, <2>2, <2>3 DEF Outer
<1>6. ASSUME NEW t \in Gens
      PROVE  Steady(turn[t], turn'[t]) /\ turn'[t].phase = turn[t].phase
  <2>1. CASE t \in bound
    BY <1>3, <2>1 DEF Steady
  <2>2. CASE t \notin bound
    BY <1>4, <2>2 DEF Steady
  <2> QED
    BY <2>1, <2>2
<1> HIDE DEF bound, listening, reading
<1>7. ASSUME NEW t \in Gens, NEW c \in Own(t)'
      PROVE  c.callId \notin failed'
  <2>1. c \in arrived
    BY <1>1, <1>7, StillWaiting
  <2>2. c \in Own(t)
    BY <1>1, <1>6, <1>7, <2>1, SteadyWaiting
  <2> QED
    BY <1>1, <2>2 DEF Outer, WaitingCallsAnswerable, Own
<1>8. \A h \in Gens : h \in aborted' => gen'[h].status # "idle"
  BY <1>1 DEF Outer
<1>9. \A h \in Gens : gen'[h].status = "idle" => turn'[h].phase = "none"
  BY <1>1, <1>6 DEF Outer
<1> QED
  BY <1>1, <1>5, <1>7, <1>8, <1>9 DEF Outer, WaitingCallsAnswerable, Own

-------------------------------------------------------------------------------
(* The invariant is inductive *)

LEMMA TurnStepOuter ==
    ASSUME IInv, Kept, NEW t \in Gens,
           \/ Starting(t) \/ Continuations(t) \/ CleanupStep(t) \/ SecurityFailure(t)
           \/ \E n \in Notes : Notify(t, n)
    PROVE  Outer'
<1>1. CASE Starting(t)
  <2>1. CASE LeaseAcquired(t) \/ LeaseFailed(t) \/ ThreadStarted(t) \/ ThreadFailed(t)
    BY <2>1, StartingOuter
  <2>2. CASE TurnStarted(t)
    BY <2>2, TurnStartedOuter
  <2>3. CASE TurnStartedTooLate(t)
    BY <2>3, TurnStartedTooLateOuter
  <2>4. CASE TurnStartFailed(t)
    BY <2>4, TurnStartFailedOuter
  <2> QED
    BY <1>1, <2>1, <2>2, <2>3, <2>4 DEF Starting
<1>2. CASE Continuations(t)
  <2>1. CASE EntersConsume(t)
    BY <2>1, EntersConsumeOuter
  <2>2. CASE Take(t)
    BY <2>2, TakeOuter
  <2>3. CASE TakeCompleted(t)
    BY <2>3, TakeCompletedOuter
  <2>4. CASE Surface(t)
    BY <2>4, SurfaceOuter
  <2>5. CASE SurfacedAll(t)
    BY <2>5, SurfacedAllOuter
  <2>6. CASE ReaderThrows(t)
    BY <2>6, ReaderThrowsOuter
  <2>7. CASE DoomedTerminates(t)
    BY <2>7, DoomedTerminatesOuter
  <2> QED
    BY <1>2, <2>1, <2>2, <2>3, <2>4, <2>5, <2>6, <2>7 DEF Continuations
<1>3. CASE CleanupStep(t)
  BY <1>3, CleanupStepOuter
<1>4. CASE SecurityFailure(t)
  BY <1>4, SecurityFailureOuter
<1>5. CASE \E n \in Notes : Notify(t, n)
  BY <1>5, NotifyOuter
<1> QED
  BY <1>1, <1>2, <1>3, <1>4, <1>5

LEMMA NextOuter ==
    ASSUME IInv, Kept, [Next]_vars
    PROVE  Outer'
<1>1. ASSUME NEW g \in Gens, Generate(g) \/ Closed(g) \/ Abort(g)
      PROVE  Outer'
  BY <1>1, GenerateOuter, ClosedOuter, AbortOuter
<1>2. ASSUME NEW c \in ToolCalls, ToolRequest(c) \/ ToolTimeout(c)
      PROVE  Outer'
  BY <1>2, ToolRequestOuter, ToolTimeoutOuter
<1>3. CASE ProcessExit
  BY <1>3, ProcessExitOuter
<1>4. CASE Dispose
  BY <1>4, DisposeOuter
<1>5. CASE DisposeEnds
  BY <1>5, DisposeEndsOuter
<1>6. CASE UNCHANGED vars
  <2>1. GenStep
    BY <1>6, GenStays DEF vars
  <2> QED
    BY <1>6, <2>1, TurnsAloneOuter DEF vars
<1> QED
  BY <1>1, <1>2, <1>3, <1>4, <1>5, <1>6, TurnStepOuter, FailedCallExpiresOuter DEF Next

LEMMA NewTurnFacts ==
    ASSUME NEW t \in Gens
    PROVE  /\ NewTurn \in TurnRecord /\ Shape(t, NewTurn) /\ NewTurn.preCalls = <<>>
           /\ NewTurn.stage = "none" /\ NewTurn.phase = "none" /\ NewTurn.signal = NoGen
           /\ NewTurn.reader = NoGen /\ ~ NewTurn.cleaned /\ NewTurn.doomed = "none"
<1>1. NewTurn \in TurnRecord
  <2>1. /\ <<>> \in Seq({"text", "tool", "completed"})
        /\ <<>> \in Seq(Notes) /\ <<>> \in Seq(ToolCalls)
    OBVIOUS
  <2>2. 0 \in 0..MaxNotes
    BY TransportAssumption
  <2> QED
    BY <2>1, <2>2 DEF NewTurn, TurnRecord
<1>2. ToSet(<<>>) = {}
  BY DEF ToSet
<1>3. Shape(t, NewTurn)
  BY <1>2 DEF NewTurn, Shape
<1> QED
  BY <1>1, <1>3 DEF NewTurn

LEMMA InitIInv ==
    ASSUME Init
    PROVE  IInv
<1>1. /\ turn = [t \in Gens |-> NewTurn] /\ reg = P!EmptyRegistry /\ arrived = {}
      /\ shown = {} /\ failed = {} /\ aborted = {} /\ disposed = FALSE
      /\ gen = [g \in Gens |-> [status |-> "idle", on |-> NoGen, outcome |-> "none"]]
  BY SameRegistry DEF Init
<1>2. P!Consistent(reg)
  BY <1>1, RegistryAssumption, P!EmptyConsistent
<1>3. /\ \A t \in Gens : Own(t) = {} /\ Buffered(t) = {}
      /\ \A c \in ToolCalls : reg.answer[c] = "none" /\ c \notin reg.surfaced
  BY <1>1, ChainTyped, NewTurnFacts DEF P!EmptyRegistry, Own, Buffered, ToSet
<1>4. ASSUME NEW t \in Gens
      PROVE  turn[t] \in TurnRecord /\ Shape(t, turn[t]) /\ Owes(turn[t], Own(t), reg.surfaced)
  BY <1>1, <1>3, NewTurnFacts DEF Owes
<1>5. \A c \in ToolCalls : Placed(c)
  BY <1>1, <1>3, ChainTyped DEF Placed
<1>6. Core
  BY <1>1, <1>2, <1>4, <1>5 DEF Core
<1>7. Outer
  <2>1. gen \in GenType
    BY <1>1 DEF GenType, Outcomes
  <2>2. \A t \in Gens : turn[t].phase = "none"
    BY <1>1, NewTurnFacts
  <2>3. WaitingCallsAnswerable
    BY <1>1 DEF WaitingCallsAnswerable
  <2> QED
    BY <1>1, <2>1, <2>2, <2>3 DEF Outer, GenType
<1> QED
  BY <1>6, <1>7 DEF IInv

LEMMA NextIInv ==
    ASSUME IInv, [Next]_vars
    PROVE  IInv' /\ Kept
<1>1. Kept
  BY NextKept
<1>2. Outer'
  BY <1>1, NextOuter
<1> QED
  BY <1>1, <1>2 DEF IInv, Kept

LEMMA Invariance == Spec => []IInv
<1>1. Init => IInv
  BY InitIInv
<1>2. IInv /\ [Next]_vars => IInv'
  BY NextIInv
<1> QED
  BY <1>1, <1>2, PTL DEF Spec

-------------------------------------------------------------------------------
(* Theorems *)

\* Calls of generate, turns and the registry have their types in every reachable
\* state.
THEOREM TypeCorrect == Spec => []TypeOK
<1>1. IInv => TypeOK
  <2> SUFFICES ASSUME IInv PROVE TypeOK
    OBVIOUS
  <2>1. Core /\ Outer
    BY DEF IInv
  <2>2. ASSUME NEW t \in Gens
        PROVE  /\ turn[t].phase \in {"none", "lease", "thread", "starting", "returned", "live"}
               /\ turn[t].lease \in {"none", "held", "released"}
               /\ turn[t].reader \in Gens \cup {NoGen} /\ turn[t].signal \in Gens \cup {NoGen}
               /\ turn[t].stage \in {"none", "waiting", "got", "surfacing", "rejected"}
               /\ turn[t].item \in {"none", "text", "tool", "completed"}
               /\ ToSet(turn[t].queue) \subseteq {"text", "tool", "completed"}
               /\ turn[t].todo \cup turn[t].callIds \cup ToSet(turn[t].preCalls) \subseteq ToolCalls
               /\ ToSet(turn[t].preNotes) \subseteq Notes /\ turn[t].notes \in 0..MaxNotes
               /\ turn[t].failure \in Errors \cup {"none"}
               /\ turn[t].doomed \in Errors \cup {"none"}
               /\ {turn[t].terminal, turn[t].cleaned, turn[t].keepAlive} \subseteq BOOLEAN
               /\ turn[t].cleanup \in {"none", "interrupt", "unsubscribe", "done"}
    <3>1. turn[t] \in TurnRecord
      BY <2>1, TurnFacts
    <3> QED
      BY <3>1 DEF TurnRecord, ToSet
  <2>3. reg \in R!RegistryType
    BY <2>1, SameRegistry DEF Core, P!Consistent
  <2>4. DOMAIN turn = Gens /\ arrived \subseteq ToolCalls
    BY <2>1 DEF Core
  <2> QED
    BY <2>1, <2>2, <2>3, <2>4, ZenonT(40) DEF TypeOK, Outer
<1> QED
  BY <1>1, Invariance, PTL

\* No lost wake-up (AsyncQueue, surfacePendingToolCalls): a reader that sleeps in
\* queue.next has no call of its turn left to show or to wait for.
THEOREM NoLostWakeUp == Spec => []SleepingReaderHasNoCalls
<1>1. IInv => SleepingReaderHasNoCalls
  BY TurnFacts, OwnFacts DEF IInv, SleepingReaderHasNoCalls, Owes
<1> QED
  BY <1>1, Invariance, PTL

\* No dropped call (captureToolCall, terminateState, finishState): a tool request
\* without an answer waits in the registry or in the buffer of a turn that starts.
THEOREM EveryCallPlaced == Spec => []NoCallDropped
<1>1. IInv => NoCallDropped
  <2> SUFFICES ASSUME IInv, NEW c \in arrived, reg.answer[c] = "none"
               PROVE  c \in R!Registered(reg) \cup ToSet(turn[TurnOf(c)].preCalls)
    BY DEF NoCallDropped
  <2>1. Core /\ c \in ToolCalls
    BY DEF IInv, Core
  <2>2. c \in Own(c.lease) \cup Buffered(c.lease)
    BY <2>1 DEF Core, Placed
  <2> QED
    BY <2>1, <2>2, SameRegistry, RegisteredFacts DEF Buffered, TurnOf
<1> QED
  BY <1>1, Invariance, PTL

\* The memory of failed calls (rememberFailedCall, assertNoFailedCalls), kept by call
\* id alone, never shuts out the result of a call that still waits.
THEOREM ResultsAccepted == Spec => []WaitingCallsAnswerable
<1>1. IInv => WaitingCallsAnswerable
  BY DEF IInv, Outer
<1> QED
  BY <1>1, Invariance, PTL

\* Whoever answers the App Server (respondIfReady) does it for a turn that is live
\* before and after the step, for a generate call the user has not stopped.
THEOREM LateResultsAnswerNothing == Spec => OnlyLiveTurnsAnswered
<1> DEFINE A == \A c \in ToolCalls :
                  reg.answer[c] # "responded" /\ reg'.answer[c] = "responded"
                  => /\ InStates(TurnOf(c)) /\ ~ turn'[TurnOf(c)].cleaned
                     /\ turn'[TurnOf(c)].reader \in Gens \ aborted
<1>1. IInv /\ [Next]_vars => [A]_vars
  BY NextIInv DEF Kept, AnswerAllowed, TurnOf
<1> QED
  BY <1>1, Invariance, PTL DEF Spec, OnlyLiveTurnsAnswered

\* The turns implement TurnContract: their calls are answered together or rejected
\* together, never after the turn ended, and a pause owes answers.
THEOREM ContractKept == Spec => KeepsContract
<1>1. \A t : ContractPhase(t) = PhaseOf(turn[t])
  BY DEF ContractPhase, PhaseOf, Known
<1>2. Init => Contract!Init
  <2> SUFFICES ASSUME Init PROVE Contract!Init
    OBVIOUS
  <2>1. IInv /\ turn = [t \in Gens |-> NewTurn] /\ reg = P!EmptyRegistry
    BY InitIInv, SameRegistry DEF Init
  <2>2. \A t \in Gens : ContractPhase(t) = "none"
    BY <1>1, <2>1, NewTurnFacts DEF PhaseOf
  <2>3. \A t \in Gens : reg.callMap[Chain(t)] = {}
    BY <2>1, ChainTyped DEF P!EmptyRegistry
  <2>4. reg.answer = [c \in ToolCalls |-> "none"]
    BY <2>1 DEF P!EmptyRegistry
  <2> QED
    BY <2>2, <2>3, <2>4 DEF Contract!Init
<1>3. IInv /\ [Next]_vars => [Contract!Next]_(Contract!vars)
  <2> SUFFICES ASSUME IInv, [Next]_vars PROVE Contract!Next
    OBVIOUS
  <2> DEFINE Phases == {"none", "running", "waiting", "ended"}
             phase == [t \in Gens |-> ContractPhase(t)]
             owed == [t \in Gens |-> reg.callMap[Chain(t)]]
  <2>1. Kept /\ Core'
    BY NextIInv DEF Kept
  <2>2. \A t \in Gens : /\ phase[t] = PhaseOf(turn[t]) /\ phase'[t] = PhaseOf(turn'[t])
                        /\ owed[t] = Own(t) /\ owed'[t] = Own(t)'
    BY <1>1 DEF Own, ContractPhase, PhaseOf, Known
  <2>3. phase' \in [Gens -> Phases]
    BY <2>2 DEF PhaseOf
  <2>4. owed' \in [Gens -> SUBSET ToolCalls]
    BY <2>1, <2>2, StillWaiting DEF IInv
  <2>5. \A t \in Gens :
          Contract!Goes(t) \/ Contract!Begins(t) \/ Contract!Pauses(t)
          \/ Contract!Continues(t) \/ Contract!Answers(t) \/ Contract!Ends(t)
    <3> SUFFICES ASSUME NEW t \in Gens
                 PROVE  Contract!Goes(t) \/ Contract!Begins(t) \/ Contract!Pauses(t)
                        \/ Contract!Continues(t) \/ Contract!Answers(t) \/ Contract!Ends(t)
      OBVIOUS
    <3>1. Allowed(t)
      BY <2>1 DEF Kept
    <3> QED
      BY <2>2, <3>1 DEF Allowed, Contract!Goes, Contract!Begins, Contract!Pauses,
            Contract!Continues, Contract!Answers, Contract!Ends, Contract!Unchanged, Contract!All
  <2>6. \A c \in ToolCalls :
          \/ \E t \in Gens : c \in owed[t]
          \/ reg'.answer[c] = reg.answer[c]
          \/ reg.answer[c] = "none" /\ reg'.answer[c] = "rejected"
    BY <2>1, <2>2, ChainTyped DEF Kept, AnswerAllowed
  <2> QED
    BY <2>3, <2>4, <2>5, <2>6 DEF Contract!Next
<1> QED
  BY <1>2, <1>3, Invariance, PTL DEF Spec, KeepsContract, Contract!Spec

===============================================================================
