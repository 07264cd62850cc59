----------------------------- MODULE ModelDiscovery -----------------------------
(***************************************************************************)
(* ModelCache (core/model-cache.ts) and the operations of                   *)
(* ChatGptOAuthTransport (chatgpt-oauth/oauth-transport.ts) that share it:  *)
(* listModels and generate, each with an AbortController of its own that    *)
(* follows the caller's signal and the transport's lifecycle.               *)
(*                                                                         *)
(* A load is one run of loadModels, made with the signal of the operation   *)
(* that found no cached models; it is also the name of what it returns.     *)
(* Abstracted: the events of a response stream; snapshot, which only reads. *)
(***************************************************************************)
EXTENDS Naturals, Sequences

CONSTANTS
    Ops,      \* calls of listModels and generate
    MaxLoads, \* bound: loads
    MaxClears \* bound: clears of the cache from outside

ASSUME DiscoveryAssumption == MaxLoads \in Nat \ {0} /\ MaxClears \in Nat

VARIABLES
    cache,    \* the fields of ModelCache
    load,     \* the loads: who made it, for which generation, how it ended
    op,       \* the operations
    disposed  \* of the transport: "no", "closing", "done"

vars == <<cache, load, op, disposed>>

Loads == 1..MaxLoads
NoOp == [kind |-> "none", stage |-> "idle", aborted |-> FALSE, load |-> 0, since |-> 0,
         result |-> "none"]

Init ==
    /\ cache = [cached |-> 0, fresh |-> FALSE, inFlight |-> 0, generation |-> 0]
    /\ load = <<>>
    /\ op = [o \in Ops |-> NoOp]
    /\ disposed = "no"

-------------------------------------------------------------------------------
(* ModelCache *)

\* clear: what is cached or in flight is forgotten, and no load of before may fill
\* the cache any more.
Cleared(C) == [cached |-> 0, fresh |-> FALSE, inFlight |-> 0, generation |-> C.generation + 1]

\* get by operation o, which goes on as record O, on cache C: the cached models, the
\* load in flight, or a new load with the signal of o.
Get(o, O, C) ==
    LET waits(l) == [O EXCEPT !.stage = "models", !.load = l, !.since = C.generation]
        new == Len(load) + 1
    IN  \/ /\ C.cached # 0 /\ C.fresh
           /\ op' = [op EXCEPT ![o] = waits(C.cached)]
           /\ cache' = C /\ UNCHANGED load
        \/ /\ C.cached = 0 \/ ~ C.fresh
           /\ C.inFlight # 0
           /\ op' = [op EXCEPT ![o] = waits(C.inFlight)]
           /\ cache' = C /\ UNCHANGED load
        \/ /\ C.cached = 0 \/ ~ C.fresh
           /\ C.inFlight = 0 /\ new \in Loads
           /\ load' = Append(load, [by |-> o, generation |-> C.generation, status |-> "pending"])
           /\ op' = [op EXCEPT ![o] = waits(new)]
           /\ cache' = [C EXCEPT !.inFlight = new]

\* MUTANT of Filled: a load fills the cache whatever was cleared meanwhile.
FilledAlways(C, l, ok) ==
    IF ok THEN [C EXCEPT !.cached = l, !.fresh = TRUE, !.inFlight = 0]
    ELSE [C EXCEPT !.inFlight = 0]

\* MUTANT of Filled: a failed load stays in flight.
FilledOnSuccess(C, l, ok) ==
    IF ~ ok \/ load[l].generation # C.generation THEN C
    ELSE [C EXCEPT !.cached = l, !.fresh = TRUE, !.inFlight = 0]

\* The end of load l: the models are cached unless the cache was cleared since.
Filled(C, l, ok) ==
    IF load[l].generation # C.generation THEN C
    ELSE IF ok THEN [C EXCEPT !.cached = l, !.fresh = TRUE, !.inFlight = 0]
    ELSE [C EXCEPT !.inFlight = 0]

\* getModels answers, fails or times out; it is cancelled by the signal of the
\* operation that made the load.
LoadSettles(l) ==
    /\ l \in DOMAIN load /\ load[l].status = "pending"
    /\ \E status \in IF op[load[l].by].aborted THEN {"cancelled"} ELSE {"ok", "failed"} :
         /\ load' = [load EXCEPT ![l].status = status]
         /\ cache' = Filled(cache, l, status = "ok")
    /\ UNCHANGED <<op, disposed>>

\* The time to live of the cached models passes.
Expire ==
    /\ cache.cached # 0 /\ cache.fresh
    /\ cache' = [cache EXCEPT !.fresh = FALSE]
    /\ UNCHANGED <<load, op, disposed>>

\* A sign-out or a refresh command clears the cache.
Clear ==
    /\ cache.generation < MaxClears
    /\ cache' = Cleared(cache)
    /\ UNCHANGED <<load, op, disposed>>

-------------------------------------------------------------------------------
(* Operations of the transport *)

Active(o) == op[o].stage \in {"created", "models", "streaming"}
Finished(o, result) == 
    [op EXCEPT ![o] = [@ EXCEPT !.stage = "done", !.result = result]]

ListModels(o, forceRefresh) ==
    /\ op[o].stage = "idle" /\ disposed = "no"
    /\ forceRefresh => cache.generation < MaxClears
    /\ Get(o, [op[o] EXCEPT !.kind = "list"], IF forceRefresh THEN Cleared(cache) ELSE cache)
    /\ UNCHANGED disposed

\* generate only creates the stream; its first next() gets the models.
Generate(o) ==
    /\ op[o].stage = "idle" /\ disposed = "no"
    /\ op' = [op EXCEPT ![o] = [@ EXCEPT !.kind = "generate", !.stage = "created"]]
    /\ UNCHANGED <<cache, load, disposed>>

FirstNext(o) ==
    /\ op[o].stage = "created"
    /\ Get(o, op[o], cache)
    /\ UNCHANGED disposed

\* MUTANT of ModelsArrive: the load is not awaited.
ModelsArriveUnawaited(o) ==
    /\ op[o].stage = "models"
    /\ LET status == load[op[o].load].status IN
         op' = IF status # "ok" \/ op[o].kind = "list" THEN Finished(o, status)
               ELSE IF op[o].aborted THEN Finished(o, "cancelled")
               ELSE [op EXCEPT ![o] = [@ EXCEPT !.stage = "streaming"]]
    /\ UNCHANGED <<cache, load, disposed>>

\* The load has settled: listModels returns what it gave, generate goes on to its
\* stream unless it was aborted or the model is not there.
ModelsArrive(o) ==
    /\ op[o].stage = "models" /\ load[op[o].load].status # "pending"
    /\ LET status == load[op[o].load].status IN
         op' = IF status # "ok" \/ op[o].kind = "list" THEN Finished(o, status)
               ELSE IF op[o].aborted THEN Finished(o, "cancelled")
               ELSE [op EXCEPT ![o] = [@ EXCEPT !.stage = "streaming"]]
    /\ UNCHANGED <<cache, load, disposed>>

\* The stream completes or fails, or a model that is not offered ends it.
StreamEnds(o) ==
    /\ op[o].stage = "streaming" /\ ~ op[o].aborted
    /\ \E result \in {"ok", "failed"} : op' = Finished(o, result)
    /\ UNCHANGED <<cache, load, disposed>>

StreamCancelled(o) ==
    /\ op[o].stage = "streaming" /\ op[o].aborted
    /\ op' = Finished(o, "cancelled")
    /\ UNCHANGED <<cache, load, disposed>>

\* The caller's signal fires.
Cancel(o) ==
    /\ Active(o) /\ ~ op[o].aborted
    /\ op' = [op EXCEPT ![o] = [@ EXCEPT !.aborted = TRUE]]
    /\ UNCHANGED <<cache, load, disposed>>

\* The caller leaves the stream at an event, or before the first one.
Return(o) ==
    /\ op[o].stage \in {"created", "streaming"}
    /\ op' = [op EXCEPT ![o] =
         [@ EXCEPT !.aborted = TRUE, !.stage = "done", !.result = "cancelled"]]
    /\ UNCHANGED <<cache, load, disposed>>

\* MUTANT of Dispose: a stream that was never pulled is left open.
DisposeStarted ==
    /\ disposed = "no"
    /\ disposed' = "closing"
    /\ cache' = Cleared(cache)
    /\ op' = [o \in Ops |-> IF Active(o) THEN [op[o] EXCEPT !.aborted = TRUE] ELSE op[o]]
    /\ UNCHANGED load

\* dispose: every active operation is aborted, a stream that was never pulled ends at
\* once, and dispose waits for the others.
Dispose ==
    /\ disposed = "no"
    /\ disposed' = "closing"
    /\ cache' = Cleared(cache)
    /\ op' = [o \in Ops |->
         IF op[o].stage = "created"
         THEN [op[o] EXCEPT !.aborted = TRUE, !.stage = "done", !.result = "cancelled"]
         ELSE IF Active(o) THEN [op[o] EXCEPT !.aborted = TRUE] ELSE op[o]]
    /\ UNCHANGED load

DisposeEnds ==
    /\ disposed = "closing"
    /\ \A o \in Ops : ~ Active(o)
    /\ disposed' = "done"
    /\ UNCHANGED <<cache, load, op>>

-------------------------------------------------------------------------------

Next ==
    \/ \E o \in Ops :
         \/ \E force \in BOOLEAN : ListModels(o, force)
         \/ Generate(o) \/ FirstNext(o) \/ ModelsArrive(o)
         \/ StreamEnds(o) \/ StreamCancelled(o)
         \/ Cancel(o) \/ Return(o)
    \/ \E l \in Loads : LoadSettles(l)
    \/ Expire
    \/ Clear
    \/ Dispose
    \/ DisposeEnds

\* Requests end (withAbort bounds each), continuations run, and dispose returns the
\* streams it aborted; nothing obliges a caller to pull a stream, or the server to
\* end one.
Fairness ==
    /\ \A l \in Loads : WF_vars(LoadSettles(l))
    /\ \A o \in Ops : WF_vars(ModelsArrive(o))
                      /\ WF_vars(disposed = "closing" /\ StreamCancelled(o))
    /\ WF_vars(DisposeEnds)

Spec == Init /\ [][Next]_vars /\ Fairness

-------------------------------------------------------------------------------
(* Properties *)

CacheRecord == [ cached : Nat, fresh : BOOLEAN, inFlight : Nat, generation : Nat ]

LoadRecord ==
    [ by : Ops, generation : Nat, status : {"pending", "ok", "failed", "cancelled"} ]

OpRecord ==
    [ kind : {"none", "list", "generate"},
      stage : {"idle", "created", "models", "streaming", "done"},
      aborted : BOOLEAN, load : Nat, since : Nat,
      result : {"none", "ok", "failed", "cancelled"} ]

TypeOK ==
    /\ cache \in CacheRecord
    /\ load \in Seq(LoadRecord)
    /\ op \in [Ops -> OpRecord]
    /\ disposed \in {"no", "closing", "done"}
    /\ {cache.cached, cache.inFlight} \cup {op[o].load : o \in Ops}
         \subseteq DOMAIN load \cup {0}

\* Who asks after a clear is never given models whose request began before it, however
\* late that request ends (a sign-out must not leave the old account's models behind).
\* A caller that was already waiting at the clear does get those it had asked for.
NoModelsFromBeforeClear ==
    \A o \in Ops : op[o].load # 0 => load[op[o].load].generation >= op[o].since

\* The cache points at a load that still runs, and at the only one of its
\* generation: a failure is never kept, and no second request is made.
OneLoadInFlight ==
    /\ cache.inFlight # 0 => load[cache.inFlight].status = "pending"
    /\ \A l \in DOMAIN load :
         load[l].status = "pending" /\ load[l].generation = cache.generation
         => l = cache.inFlight

\* dispose returns, whatever the operations were doing.
DisposeReturns == (disposed = "closing") ~> (disposed = "done")

\* A caller is told "cancelled" only if it was: the signal of the first caller is not
\* passed on into the load that others share
\* (docs/superpowers/specs/2026-08-25-reliability-security-maintenance-design.md:61).
CancelsOnlyItself == \A o \in Ops : op[o].result = "cancelled" => op[o].aborted

===============================================================================
