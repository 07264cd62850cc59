-------------------------- MODULE ModelDiscoveryProofs --------------------------
(***************************************************************************)
(* Proofs about ModelDiscovery for any number of operations, loads and      *)
(* clears.  The invariant says what the cache knows of the loads: what it   *)
(* points at was made in its generation, and a pending load of its          *)
(* generation is the one in flight.                                         *)
(***************************************************************************)
EXTENDS ModelDiscovery, SequenceTheorems, TLAPS

\* A cache value C is right about the loads L.
SoundCache(C, L) ==
    /\ C \in CacheRecord
    /\ {C.cached, C.inFlight} \subseteq DOMAIN L \cup {0}
    /\ \A l \in DOMAIN L : L[l].generation <= C.generation
    /\ C.cached # 0 => L[C.cached].generation = C.generation
    /\ C.inFlight # 0 =>
         L[C.inFlight].generation = C.generation /\ L[C.inFlight].status = "pending"
    /\ \A l \in DOMAIN L :
         L[l].status = "pending" /\ L[l].generation = C.generation => l = C.inFlight

\* One operation waits for, or was given, a load not older than its question.
SoundOp(P, L) ==
    /\ P \in OpRecord
    /\ P.load \in DOMAIN L \cup {0}
    /\ P.load # 0 => L[P.load].generation >= P.since
    /\ P.stage = "models" => P.load # 0

IInv ==
    /\ load \in Seq(LoadRecord)
    /\ SoundCache(cache, load)
    /\ DOMAIN op = Ops /\ op \in [Ops -> OpRecord]
    /\ \A o \in Ops : SoundOp(op[o], load)
    /\ disposed \in {"no", "closing", "done"}

-------------------------------------------------------------------------------

\* What a load in the sequence is.
LEMMA LoadElement ==
    ASSUME NEW L \in Seq(LoadRecord), NEW l \in DOMAIN L
    PROVE  /\ l \in Nat \ {0} /\ L[l] \in LoadRecord
           /\ L[l].generation \in Nat
           /\ L[l].status \in {"pending", "ok", "failed", "cancelled"}
<1>1. DOMAIN L = 1..Len(L) /\ Len(L) \in Nat
  OBVIOUS
<1>2. L[l] \in LoadRecord
  BY <1>1
<1> QED
  BY <1>1, <1>2 DEF LoadRecord

\* clear leaves nothing behind that an older load could disturb.
LEMMA ClearedSound ==
    ASSUME NEW C, NEW L \in Seq(LoadRecord), SoundCache(C, L)
    PROVE  SoundCache(Cleared(C), L)
<1>1. \A l \in DOMAIN L : L[l].generation \in Nat
  BY LoadElement
<1> QED
  BY <1>1 DEF SoundCache, Cleared, CacheRecord

\* The loads gain one or one of them settles: what an operation waits for stays.
LEMMA OpsKeep ==
    ASSUME NEW L, NEW M, NEW P, SoundOp(P, L), DOMAIN L \subseteq DOMAIN M,
           \A l \in DOMAIN L : M[l].generation = L[l].generation
    PROVE  SoundOp(P, M)
BY DEF SoundOp

\* get answers from a sound cache and leaves one.
LEMMA GetSound ==
    ASSUME IInv, NEW o \in Ops, NEW O \in OpRecord, NEW C, SoundCache(C, load),
           Get(o, O, C), UNCHANGED disposed
    PROVE  IInv'
<1> DEFINE W(l) == [O EXCEPT !.stage = "models", !.load = l, !.since = C.generation]
<1>1. ASSUME NEW l \in DOMAIN load, load[l].generation = C.generation,
             op' = [op EXCEPT ![o] = W(l)], cache' = C, UNCHANGED load
      PROVE  IInv'
  <2>0. l \in Nat \ {0} /\ C.generation \in Nat
    BY LoadElement DEF SoundCache, CacheRecord, IInv
  <2>1. W(l) \in OpRecord /\ W(l).load = l /\ W(l).since = C.generation
    BY <2>0 DEF OpRecord
  <2>2. SoundOp(W(l), load)
    BY <1>1, <2>0, <2>1 DEF SoundOp
  <2> HIDE DEF W
  <2> QED
    BY <1>1, <2>1, <2>2 DEF IInv
<1>2. CASE C.cached # 0 /\ C.fresh
  <2>1. op' = [op EXCEPT ![o] = W(C.cached)] /\ cache' = C /\ UNCHANGED load
    BY <1>2 DEF Get, SoundCache, CacheRecord
  <2> QED
    BY <1>1, <1>2, <2>1 DEF SoundCache
<1>3. CASE ~ (C.cached # 0 /\ C.fresh) /\ C.inFlight # 0
  <2>1. op' = [op EXCEPT ![o] = W(C.inFlight)] /\ cache' = C /\ UNCHANGED load
    BY <1>3 DEF Get, SoundCache, CacheRecord
  <2> QED
    BY <1>1, <1>3, <2>1 DEF SoundCache
<1>4. CASE ~ (C.cached # 0 /\ C.fresh) /\ C.inFlight = 0
  <2> DEFINE new == Len(load) + 1
             R == [by |-> o, generation |-> C.generation, status |-> "pending"]
  <2>1. /\ load' = Append(load, R) /\ op' = [op EXCEPT ![o] = W(new)]
        /\ cache' = [C EXCEPT !.inFlight = new]
    BY <1>4 DEF Get
  <2>2. R \in LoadRecord /\ R.generation = C.generation /\ R.status = "pending"
    BY DEF LoadRecord, SoundCache, CacheRecord
  <2> HIDE DEF R
  <2>3. /\ load' \in Seq(LoadRecord) /\ DOMAIN load = 1..Len(load) /\ Len(load) \in Nat
        /\ DOMAIN load' = 1..new /\ load'[new] = R
        /\ \A l \in DOMAIN load : load'[l] = load[l]
    BY <2>1, <2>2, AppendProperties DEF IInv
  <2>4. SoundCache(cache', load')
    <3>1. /\ cache' \in CacheRecord /\ cache'.inFlight = new
          /\ cache'.cached = C.cached /\ cache'.generation = C.generation
      BY <2>1, <2>3 DEF SoundCache, CacheRecord
    <3>2. \A l \in DOMAIN load' : l \in DOMAIN load \/ l = new
      BY <2>3
    <3>3. C.generation \in Nat
      BY DEF SoundCache, CacheRecord
    <3> QED
      BY <1>4, <2>2, <2>3, <3>1, <3>2, <3>3 DEF SoundCache
  <2>5. W(new) \in OpRecord /\ W(new).load = new /\ W(new).since = C.generation
    <3>1. new \in Nat /\ C.generation \in Nat
      BY <2>3 DEF SoundCache, CacheRecord
    <3> HIDE DEF new
    <3> QED
      BY <3>1 DEF OpRecord
  <2>6. SoundOp(W(new), load')
    BY <2>2, <2>3, <2>5 DEF SoundOp, SoundCache, CacheRecord
  <2>7. \A p \in Ops : SoundOp(op[p], load')
    BY <2>3, OpsKeep DEF IInv
  <2> HIDE DEF W, new
  <2> QED
    BY <2>1, <2>3, <2>4, <2>5, <2>6, <2>7 DEF IInv
<1> QED
  BY <1>2, <1>3, <1>4

\* A step that only moves operations, and keeps what each waits for.
LEMMA OpsSound ==
    ASSUME IInv, UNCHANGED <<cache, load>>, disposed' \in {"no", "closing", "done"},
           op' \in [Ops -> OpRecord],
           \A o \in Ops : /\ op'[o].load = op[o].load /\ op'[o].since = op[o].since
                          /\ op'[o].stage = "models" => op[o].stage = "models"
    PROVE  IInv'
BY DEF IInv, SoundOp

\* The same for a step of one operation, which continues as record P.
LEMMA OneOpSound ==
    ASSUME IInv, UNCHANGED <<cache, load, disposed>>, NEW o \in Ops, NEW P \in OpRecord,
           op' = [op EXCEPT ![o] = P], P.load = op[o].load, P.since = op[o].since,
           P.stage # "models"
    PROVE  IInv'
BY OpsSound DEF IInv

-------------------------------------------------------------------------------

LEMMA InitIInv == Init => IInv
BY DEF Init, IInv, SoundCache, SoundOp, NoOp, CacheRecord, LoadRecord, OpRecord

\* The end of a load fills or frees the cache of its own generation only.
LEMMA LoadSettlesSound ==
    ASSUME IInv, NEW l \in Loads, LoadSettles(l)
    PROVE  IInv'
<1>1. l \in DOMAIN load /\ load[l].status = "pending" /\ UNCHANGED <<op, disposed>>
  BY DEF LoadSettles
<1>2. PICK status \in {"ok", "failed", "cancelled"} :
        /\ load' = [load EXCEPT ![l].status = status]
        /\ cache' = Filled(cache, l, status = "ok")
  BY DEF LoadSettles
<1> DEFINE R == [load[l] EXCEPT !.status = status]
<1>3. DOMAIN load = 1..Len(load) /\ load[l] \in LoadRecord
  BY <1>1 DEF IInv
<1>4. /\ R \in LoadRecord /\ R.generation = load[l].generation /\ R.status # "pending"
      /\ load' = [load EXCEPT ![l] = R]
  BY <1>2, <1>3 DEF LoadRecord
<1> HIDE DEF R
<1>5. /\ load' \in Seq(LoadRecord) /\ DOMAIN load' = DOMAIN load /\ load'[l] = R
      /\ \A m \in DOMAIN load : m # l => load'[m] = load[m]
  BY <1>1, <1>3, <1>4, ExceptSeq DEF IInv
<1>6. \A m \in DOMAIN load : load'[m].generation = load[m].generation
  BY <1>4, <1>5
<1>7. \A o \in Ops : SoundOp(op[o], load')
  BY <1>5, <1>6, OpsKeep DEF IInv
<1>8. SoundCache(cache', load')
  <2>1. CASE load[l].generation # cache.generation
    <3>1. cache' = cache
      BY <1>2, <2>1 DEF Filled
    <3> QED
      BY <1>1, <1>4, <1>5, <1>6, <2>1, <3>1 DEF IInv, SoundCache
  <2>2. CASE load[l].generation = cache.generation
    <3>1. cache.inFlight = l
      BY <1>1, <2>2 DEF IInv, SoundCache
    <3>2. /\ cache' \in CacheRecord /\ cache'.inFlight = 0
          /\ cache'.generation = cache.generation /\ cache'.cached \in {l, cache.cached}
      BY <1>2, <1>3, <2>2, <1>1 DEF Filled, IInv, SoundCache, CacheRecord
    <3> QED
      BY <1>1, <1>4, <1>5, <1>6, <2>2, <3>1, <3>2 DEF IInv, SoundCache
  <2> QED
    BY <2>1, <2>2
<1> QED
  BY <1>1, <1>5, <1>7, <1>8 DEF IInv

LEMMA NextIInv == IInv /\ [Next]_vars => IInv'
<1> SUFFICES ASSUME IInv, [Next]_vars PROVE IInv'
  OBVIOUS
<1>0. SoundCache(cache, load) /\ SoundCache(Cleared(cache), load)
  BY ClearedSound DEF IInv
<1>t. op \in [Ops -> OpRecord]
  BY DEF IInv
<1>1. ASSUME NEW o \in Ops, NEW force \in BOOLEAN, ListModels(o, force) PROVE IInv'
  <2>1. [op[o] EXCEPT !.kind = "list"] \in OpRecord
    BY <1>t DEF OpRecord
  <2> QED
    BY <1>0, <1>1, <2>1, GetSound DEF ListModels
<1>2. ASSUME NEW o \in Ops, Generate(o) PROVE IInv'
  <2> DEFINE P == [op[o] EXCEPT !.kind = "generate", !.stage = "created"]
  <2>1. P \in OpRecord /\ P.load = op[o].load /\ P.since = op[o].since /\ P.stage = "created"
    BY <1>t DEF OpRecord
  <2>2. op' = [op EXCEPT ![o] = P] /\ UNCHANGED <<cache, load, disposed>>
    BY <1>2 DEF Generate
  <2> HIDE DEF P
  <2> QED
    BY <2>1, <2>2, OneOpSound
<1>3. ASSUME NEW o \in Ops, FirstNext(o) PROVE IInv'
  BY <1>0, <1>3, <1>t, GetSound DEF FirstNext
<1>d. ASSUME NEW o \in Ops, NEW result \in {"none", "ok", "failed", "cancelled"},
             op' = Finished(o, result), UNCHANGED <<cache, load, disposed>>
      PROVE  IInv'
  <2> DEFINE P == [op[o] EXCEPT !.stage = "done", !.result = result]
  <2>1. P \in OpRecord /\ P.load = op[o].load /\ P.since = op[o].since /\ P.stage = "done"
    BY <1>t DEF OpRecord
  <2>2. op' = [op EXCEPT ![o] = P]
    BY <1>d DEF Finished
  <2> HIDE DEF P
  <2> QED
    BY <1>d, <2>1, <2>2, OneOpSound
<1>4. ASSUME NEW o \in Ops, ModelsArrive(o) PROVE IInv'
  <2>1. load[op[o].load].status \in {"ok", "failed", "cancelled"}
    <3>1. op[o].load \in DOMAIN load
      BY <1>4 DEF ModelsArrive, IInv, SoundOp
    <3> QED
      BY <1>4, <3>1, LoadElement DEF ModelsArrive, IInv
  <2> DEFINE P == [op[o] EXCEPT !.stage = "streaming"]
  <2>2. P \in OpRecord /\ P.load = op[o].load /\ P.since = op[o].since /\ P.stage = "streaming"
    BY <1>t DEF OpRecord
  <2>3. \/ op' = Finished(o, load[op[o].load].status)
        \/ op' = Finished(o, "cancelled")
        \/ op' = [op EXCEPT ![o] = P]
    BY <1>4 DEF ModelsArrive
  <2>4. UNCHANGED <<cache, load, disposed>>
    BY <1>4 DEF ModelsArrive
  <2> HIDE DEF P
  <2> QED
    BY <1>d, <2>1, <2>2, <2>3, <2>4, OneOpSound
<1>5. ASSUME NEW o \in Ops, StreamEnds(o) \/ StreamCancelled(o) PROVE IInv'
  BY <1>5, <1>d DEF StreamEnds, StreamCancelled
<1>6. ASSUME NEW o \in Ops, Cancel(o) PROVE IInv'
  <2> DEFINE P(p) == IF p = o THEN [op[o] EXCEPT !.aborted = TRUE] ELSE op[p]
  <2>1. \A p \in Ops : /\ P(p) \in OpRecord /\ P(p).load = op[p].load
                       /\ P(p).since = op[p].since /\ P(p).stage = op[p].stage
    BY <1>t DEF OpRecord
  <2>2. op' = [p \in Ops |-> P(p)] /\ UNCHANGED <<cache, load, disposed>>
    BY <1>6, <1>t DEF Cancel
  <2> HIDE DEF P
  <2> QED
    BY <2>1, <2>2, OpsSound DEF IInv
<1>e. ASSUME NEW o \in Ops, Return(o) PROVE IInv'
  <2> DEFINE P == [op[o] EXCEPT !.aborted = TRUE, !.stage = "done", !.result = "cancelled"]
  <2>1. P \in OpRecord /\ P.load = op[o].load /\ P.since = op[o].since /\ P.stage = "done"
    BY <1>t DEF OpRecord
  <2>2. op' = [op EXCEPT ![o] = P] /\ UNCHANGED <<cache, load, disposed>>
    BY <1>e DEF Return
  <2> HIDE DEF P
  <2> QED
    BY <2>1, <2>2, OneOpSound
<1>7. ASSUME NEW l \in Loads, LoadSettles(l) PROVE IInv'
  BY <1>7, LoadSettlesSound
<1>8. CASE Expire
  BY <1>8 DEF Expire, IInv, SoundCache, CacheRecord
<1>9. CASE Clear
  BY <1>9, <1>0 DEF Clear, IInv
<1>10. CASE Dispose
  <2> DEFINE P(o) == IF op[o].stage = "created"
                     THEN [op[o] EXCEPT !.aborted = TRUE, !.stage = "done", !.result = "cancelled"]
                     ELSE IF Active(o) THEN [op[o] EXCEPT !.aborted = TRUE] ELSE op[o]
  <2>1. /\ op' = [o \in Ops |-> P(o)] /\ cache' = Cleared(cache)
        /\ UNCHANGED load /\ disposed' = "closing"
    BY <1>10 DEF Dispose
  <2>2. ASSUME NEW o \in Ops
        PROVE  /\ P(o) \in OpRecord /\ P(o).load = op[o].load /\ P(o).since = op[o].since
               /\ P(o).stage = "models" => op[o].stage = "models"
    BY <1>t DEF OpRecord
  <2>3. \A o \in Ops : SoundOp(P(o), load)
    BY <2>2 DEF IInv, SoundOp
  <2> HIDE DEF P
  <2> QED
    BY <1>0, <2>1, <2>2, <2>3 DEF IInv
<1>11. CASE DisposeEnds
  BY <1>11, OpsSound DEF DisposeEnds, IInv
<1>12. CASE UNCHANGED vars
  BY <1>12, OpsSound DEF vars, IInv
<1> QED
  BY <1>1, <1>2, <1>3, <1>4, <1>5, <1>6, <1>e, <1>7, <1>8, <1>9, <1>10, <1>11, <1>12 DEF Next

-------------------------------------------------------------------------------
(* Theorems *)

LEMMA AlwaysSound == Spec => []IInv
  BY InitIInv, NextIInv, PTL DEF Spec

\* The variables have their types and refer to loads that were made.
THEOREM TypeCorrect == Spec => []TypeOK
<1>1. IInv => TypeOK
  BY DEF IInv, SoundCache, SoundOp, TypeOK
<1> QED
  BY <1>1, AlwaysSound, PTL

\* However many requests and clears overlap, nobody is given models requested before
\* the last clear he came after (get 19-50 and its generation check).
THEOREM NothingOlderThanClear == Spec => []NoModelsFromBeforeClear
<1>1. IInv => NoModelsFromBeforeClear
  BY DEF IInv, SoundOp, NoModelsFromBeforeClear
<1> QED
  BY <1>1, AlwaysSound, PTL

\* The cache never keeps a settled load in flight, and never makes a second request
\* beside a pending one of its generation.
THEOREM SingleFlight == Spec => []OneLoadInFlight
<1>1. IInv => OneLoadInFlight
  BY DEF IInv, SoundCache, OneLoadInFlight
<1> QED
  BY <1>1, AlwaysSound, PTL

===============================================================================
