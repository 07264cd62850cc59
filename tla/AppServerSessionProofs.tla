------------------------- MODULE AppServerSessionProofs -------------------------
(***************************************************************************)
(* Proofs about AppServerSession for any number of leases, clients and      *)
(* events.  The session's own fields have an invariant that no lease takes  *)
(* part in (Joins, OneClient, Dead); what a lease knows of its client and   *)
(* of its turn follows from it, lease by lease (Told, Kept).                *)
(***************************************************************************)
EXTENDS AppServerSession, SequenceTheorems, TLAPS

-------------------------------------------------------------------------------
(* Types *)

Stages ==
    {"none", "queued", "start", "aborted", "initialize", "probe", "report",
     "waiting", "stopping"}

SessionType ==
    [client : 0..MaxClients, handlers : 0..MaxClients, incompatible : BOOLEAN,
     disposal : {"no", "stopping", "waiting", "done"}, lateStart : BOOLEAN]

OpType == [Ops -> [stage : Stages, client : 0..MaxClients]]

SupType == [child : 0..MaxClients, next : 1..MaxClients + 1, stopping : BOOLEAN]

Buffers(n) == [TurnNames -> Seq(1..n)]

LeaseType(n) ==
    [ stage : {"new", "joining", "held", "released", "refused"}, joins : Ops,
      client : 0..MaxClients, told : {"no", "heard", "unheard"}, attached : BOOLEAN,
      thread : {"none", "asked", "known", "failed", "gone"},
      turn : {"none", "asked", "done", "failed"}, pending : BOOLEAN, active : BOOLEAN,
      leaving : BOOLEAN, notes : Buffers(n), calls : Buffers(n) ]

CoreTypes ==
    /\ session \in SessionType /\ op \in OpType /\ sup \in SupType
    /\ closed \subseteq Clients

UserTypes ==
    /\ event \in 0..MaxEvents /\ answered \subseteq 1..event
    /\ lease \in [Leases -> LeaseType(event)]
    /\ given \in [Leases -> [came : Seq(1..event), heard : Seq(1..event)]]

-------------------------------------------------------------------------------
(* The inductive invariant *)

\* The function behind the promise of operation k is past what it joined.
Active(k) == op[k].stage \notin {"none", "waiting"}

\* One of the two operations at a time, and none beside a client in use; a stop has
\* taken the child and aborted the start.
Joins ==
    /\ op["init"].stage \notin {"waiting", "stopping"}
    /\ ~ (Active("init") /\ Active("restart"))
    /\ \A k \in Ops : Active(k) => session.client = 0
    /\ sup.stopping => sup.child = 0 /\ \A k \in Ops : op[k].stage # "start"
    /\ \A k \in Ops : Handshaking(k) =>
         /\ op[k].client # 0 /\ op[k].client < sup.next
         /\ op[k].client = sup.child \/ op[k].client \in closed
         /\ ~ Disposed => session.handlers = op[k].client

\* The child is the newest client and open; the session's client is the child, with
\* the session's handlers, or has terminated.
OneClient ==
    /\ \A c \in closed : c # 0 /\ c < sup.next
    /\ sup.child \notin closed /\ sup.child < sup.next
    /\ session.client # 0 =>
         /\ session.client < sup.next
         /\ session.client \notin closed =>
              session.client = sup.child /\ session.handlers = sup.child

\* After a disposal nothing that could start a child is left.
Dead ==
    Disposed =>
        /\ session.client = 0 /\ session.handlers = 0
        /\ ~ session.lateStart =>
             /\ sup.child = 0
             /\ \A k \in Ops : op[k].stage \notin {"start", "stopping", "queued"}

Gone(L) == L.client \in closed \/ session.client # L.client

\* What a lease knows of its client.  A lease of the child is one of the session's
\* client, so a client is never installed a second time under old leases.
Told(L) ==
    /\ L.stage = "held" => L.client # 0
    /\ L.stage \in {"new", "joining"} => L.client = 0
    /\ L.client = 0 => L.told = "no"
    /\ L.attached => L.stage = "held"
    /\ L.client < sup.next
    /\ L.client # 0 /\ L.client = sup.child => session.client = L.client
    /\ L.attached /\ Gone(L) => L.told = "heard"
    /\ L.told # "no" => Gone(L)

\* What a lease knows of its turn.  Only a turn/start in flight buffers anything, and
\* nothing comes for a thread that is not known.
Kept(L, G) ==
    /\ L.pending => L.stage = "held" /\ L.turn = "asked"
    /\ ~ L.pending => L.notes = Nothing /\ L.calls = Nothing
    /\ L.active => ~ L.pending /\ L.turn = "done"
    /\ L.thread \in {"none", "asked", "failed"} =>
         /\ ~ L.pending /\ ~ L.active /\ ~ L.attached /\ L.turn = "none"
         /\ G.came = <<>> /\ G.heard = <<>>
    /\ L.attached /\ L.turn # "failed" /\ ~ L.leaving => G.came = G.heard \o L.notes["own"]

Core == CoreTypes /\ Joins /\ OneClient /\ Dead
Users == UserTypes /\ \A l \in Leases : Told(lease[l]) /\ Kept(lease[l], given[l])
IInv == Core /\ Users

-------------------------------------------------------------------------------
(* The session's own fields *)

USE SessionAssumption

LEMMA OpNames ==
    /\ Ops = {"init", "restart"} /\ "init" \in Ops /\ "restart" \in Ops
    /\ StartStage \in {"queued", "start"}
    /\ StartStage = "start" => ~ sup.stopping
BY DEF Ops, StartStage

\* Stage and client of each operation are all that matters of op.
LEMMA AtType ==
    ASSUME op \in OpType, NEW k \in Ops, NEW st \in Stages
    PROVE  /\ At(k, st) \in OpType
           /\ \A j \in Ops : /\ At(k, st)[j].stage = IF j = k THEN st ELSE op[j].stage
                             /\ At(k, st)[j].client = op[j].client
BY DEF At, OpType

LEMMA EndedType ==
    ASSUME op \in OpType, NEW k \in Ops
    PROVE  /\ Ended(k) \in OpType
           /\ \A j \in Ops : /\ Ended(k)[j].stage = IF j = k THEN "none" ELSE op[j].stage
                             /\ j # k => Ended(k)[j] = op[j]
BY DEF Ended, OpType, Stages

LEMMA ClearedType ==
    ASSUME NEW s \in SessionType
    PROVE  /\ ClearedSession(s) \in SessionType
           /\ ClearedSession(s).client = 0 /\ ClearedSession(s).handlers = 0
           /\ ClearedSession(s).disposal = s.disposal
           /\ ClearedSession(s).lateStart = s.lateStart
           /\ ClearedSession(s).incompatible = s.incompatible
<1> DEFINE t == [s EXCEPT !.client = 0, !.handlers = 0]
<1>0. 0 \in 0..MaxClients
  OBVIOUS
<1>1. t \in SessionType
  BY <1>0 DEF SessionType
<1>2. t.client = 0 /\ t.handlers = 0 /\ t.disposal = s.disposal
  BY DEF SessionType
<1>3. t.lateStart = s.lateStart
  BY Zenon DEF SessionType
<1>4. t.incompatible = s.incompatible
  BY Zenon DEF SessionType
<1> QED
  BY <1>1, <1>2, <1>3, <1>4 DEF ClearedSession

\* A stop takes the child and aborts the starts, unless one is running already.
LEMMA StopResult ==
    ASSUME CoreTypes, NEW ops \in OpType, NEW Ls, Stops(ops, Ls)
    PROVE  /\ sup' \in SupType /\ sup'.stopping = TRUE /\ sup'.next = sup.next
           /\ sup'.child = IF sup.stopping THEN sup.child ELSE 0
           /\ closed' = IF sup.stopping \/ sup.child = 0 THEN closed
                        ELSE closed \cup {sup.child}
           /\ closed' \subseteq Clients
           /\ op' \in OpType
           /\ \A k \in Ops : /\ op'[k].client = ops[k].client
                             /\ op'[k].stage = IF ~ sup.stopping /\ ops[k].stage = "start"
                                               THEN "aborted" ELSE ops[k].stage
<1>1. CASE sup.stopping
  BY <1>1 DEF CoreTypes, Stops, SupType
<1>2. CASE ~ sup.stopping
  <2>1. /\ sup' = [sup EXCEPT !.stopping = TRUE, !.child = 0]
        /\ closed' = closed \cup ({sup.child} \ {0})
        /\ op' = [k \in Ops |-> IF ops[k].stage = "start"
                                THEN [ops[k] EXCEPT !.stage = "aborted"] ELSE ops[k]]
    BY <1>2 DEF Stops, Closes
  <2>2. /\ sup' \in SupType /\ sup'.stopping = TRUE /\ sup'.next = sup.next /\ sup'.child = 0
    <3> DEFINE t == [sup EXCEPT !.stopping = TRUE, !.child = 0]
    <3>1. sup \in SupType /\ 0 \in 0..MaxClients
      BY DEF CoreTypes
    <3>2. t \in SupType /\ t.stopping = TRUE /\ t.next = sup.next /\ t.child = 0
      BY <3>1 DEF SupType
    <3> QED
      BY <2>1, <3>2
  <2>3. closed' = (IF sup.child = 0 THEN closed ELSE closed \cup {sup.child})
        /\ closed' \subseteq Clients
    BY <2>1 DEF CoreTypes, SupType, Clients
  <2>4. \A k \in Ops : /\ ops[k] \in [stage : Stages, client : 0..MaxClients]
                       /\ [ops[k] EXCEPT !.stage = "aborted"]
                            \in [stage : Stages, client : 0..MaxClients]
                       /\ [ops[k] EXCEPT !.stage = "aborted"].client = ops[k].client
                       /\ [ops[k] EXCEPT !.stage = "aborted"].stage = "aborted"
    BY DEF OpType, Stages
  <2>5. op' \in OpType
    BY <2>1, <2>4 DEF OpType
  <2>6. \A k \in Ops : /\ op'[k].client = ops[k].client
                       /\ op'[k].stage = IF ops[k].stage = "start"
                                         THEN "aborted" ELSE ops[k].stage
    BY <2>1, <2>4
  <2> QED
    BY <1>2, <2>2, <2>3, <2>5, <2>6
<1> QED
  BY <1>1, <1>2

\* What a stop makes of the invariant, for a session that keeps its client and the
\* operations, or lets go of the client when no handshake is under way or for good.
LEMMA StopKeepsCore ==
    ASSUME Core, NEW ops \in OpType, NEW Ls, Stops(ops, Ls), session' \in SessionType,
           ops["init"].stage \notin {"waiting", "stopping"},
           ~ (/\ ops["init"].stage \notin {"none", "waiting"}
              /\ ops["restart"].stage \notin {"none", "waiting"}),
           \A k \in Ops : ops[k].stage \notin {"none", "waiting"} => session'.client = 0,
           \A k \in Ops : ops[k].stage \in {"start", "initialize", "probe"} =>
               ops[k].stage = op[k].stage /\ ops[k].client = op[k].client,
           session'.client # 0 =>
               session'.client = session.client /\ session'.handlers = session.handlers,
           \/ session'.disposal # "no"
           \/ session'.handlers = session.handlers /\ session'.disposal = session.disposal
           \/ \A k \in Ops : ops[k].stage \notin {"initialize", "probe"},
           session'.disposal # "no" =>
               /\ session'.client = 0 /\ session'.handlers = 0
               /\ ~ session'.lateStart =>
                    \A k \in Ops : ops[k].stage \notin {"stopping", "queued"}
    PROVE  Core'
<1>0. /\ sup' \in SupType /\ sup'.stopping = TRUE /\ sup'.next = sup.next
      /\ sup'.child = (IF sup.stopping THEN sup.child ELSE 0)
      /\ closed' = (IF sup.stopping \/ sup.child = 0 THEN closed ELSE closed \cup {sup.child})
      /\ closed' \subseteq Clients
      /\ op' \in OpType
      /\ \A k \in Ops : /\ op'[k].client = ops[k].client
                        /\ op'[k].stage = IF ~ sup.stopping /\ ops[k].stage = "start"
                                          THEN "aborted" ELSE ops[k].stage
  BY StopResult DEF Core
<1>1. CoreTypes'
  BY <1>0 DEF CoreTypes
<1>a. sup'.child = 0 /\ \A k \in Ops : op'[k].stage # "start"
  BY <1>0 DEF Core, Joins
<1>b. /\ sup.child \in Nat /\ sup.next \in Nat /\ closed \subseteq closed'
      /\ sup.child # 0 => sup.child \in closed'
  BY <1>0 DEF Core, Joins, CoreTypes, SupType
<1>2. Joins'
  <2>1. /\ op'["init"].stage \notin {"waiting", "stopping"}
        /\ ~ (Active("init")' /\ Active("restart")')
        /\ \A k \in Ops : Active(k)' => session'.client = 0
    BY <1>0, OpNames DEF Active
  <2>2. \A k \in Ops : Handshaking(k)' =>
            /\ ops[k].stage \in {"initialize", "probe"}
            /\ Handshaking(k) /\ op'[k].client = op[k].client
    BY <1>0 DEF Handshaking
  <2>3. \A k \in Ops : Handshaking(k)' =>
            /\ op'[k].client # 0 /\ op'[k].client < sup'.next
            /\ op'[k].client \in closed'
    BY <1>0, <1>b, <2>2 DEF Core, Joins
  <2>4. \A k \in Ops : Handshaking(k)' /\ ~ Disposed' => session'.handlers = op'[k].client
    BY <2>2 DEF Core, Joins, Disposed
  <2> QED
    BY <1>a, <2>1, <2>3, <2>4 DEF Joins
<1>3. OneClient'
  <2>1. \A c \in closed' : c # 0 /\ c < sup'.next
    BY <1>0 DEF Core, OneClient
  <2>2. sup'.child \notin closed' /\ sup'.child < sup'.next
    BY <1>0, <1>a, <2>1 DEF SupType
  <2>3. session'.client # 0 => session'.client < sup'.next /\ session'.client \in closed'
    BY <1>0, <1>b DEF Core, OneClient
  <2> QED
    BY <2>1, <2>2, <2>3 DEF OneClient
<1>4. Dead'
  BY <1>0, <1>a DEF Dead, Disposed
<1> QED
  BY <1>1, <1>2, <1>3, <1>4 DEF Core

LEMMA StopCommandKeepsCore ==
    ASSUME Core, StopCommand
    PROVE  Core'
<1>1. op \in OpType /\ Stops(op, lease) /\ session' = session /\ session' \in SessionType
      /\ ~ Disposed
  BY DEF Core, CoreTypes, StopCommand
<1> QED
  BY <1>1, StopKeepsCore DEF Core, Joins, Active, Disposed

LEMMA DisposeKeepsCore ==
    ASSUME Core, Dispose
    PROVE  Core'
<1> DEFINE cleared == ClearedSession(session)
           late == \E k \in Ops : op[k].stage \in {"stopping", "queued"}
<1>1. /\ op \in OpType /\ session \in SessionType /\ cleared \in SessionType
      /\ cleared.client = 0 /\ cleared.handlers = 0
  BY ClearedType DEF Core, CoreTypes
<1>2. session' = [cleared EXCEPT !.disposal = "stopping", !.lateStart = late]
      /\ Stops(op, ClearedLeases(lease))
  BY DEF Dispose
<1>3. late \in BOOLEAN
  OBVIOUS
<1> HIDE DEF cleared, late
<1>4. /\ session' \in SessionType /\ session'.client = 0 /\ session'.handlers = 0
      /\ session'.disposal = "stopping" /\ session'.lateStart = late
  BY <1>1, <1>2, <1>3 DEF SessionType
<1>5. ~ session'.lateStart => \A k \in Ops : op[k].stage \notin {"stopping", "queued"}
  BY <1>4 DEF late
<1> QED
  BY <1>1, <1>2, <1>4, <1>5, StopKeepsCore DEF Core, Joins, Active

LEMMA RestartGoesOnKeepsCore ==
    ASSUME Core, RestartGoesOn
    PROVE  Core'
<1>1. CASE Disposed
  <2>1. op' = Ended("restart") /\ UNCHANGED <<session, sup, closed>>
    BY <1>1 DEF RestartGoesOn, Fails
  <2>2. /\ op' \in OpType
        /\ \A j \in Ops : /\ op'[j].stage = IF j = "restart" THEN "none" ELSE op[j].stage
                          /\ j # "restart" => op'[j] = op[j]
    BY <2>1, EndedType, OpNames DEF Core, CoreTypes
  <2>3. Joins'
    BY <2>1, <2>2, OpNames DEF Core, Joins, Active, Handshaking, Disposed
  <2>4. Dead'
    BY <2>1, <2>2 DEF Core, Dead, Disposed
  <2> QED
    BY <2>1, <2>2, <2>3, <2>4 DEF Core, CoreTypes, OneClient
<1>2. CASE ~ Disposed
  <2> DEFINE cleared == ClearedSession(session)
             ops == At("restart", "stopping")
  <2>1. /\ session' = [cleared EXCEPT !.incompatible = FALSE]
        /\ Stops(ops, ClearedLeases(lease))
        /\ op["restart"].stage = "waiting" /\ op["init"].stage = "none"
    BY <1>2 DEF RestartGoesOn
  <2>2. /\ cleared \in SessionType /\ cleared.client = 0 /\ cleared.handlers = 0
        /\ cleared.disposal = "no"
    BY <1>2, ClearedType DEF Core, CoreTypes, Disposed
  <2>3. /\ ops \in OpType
        /\ \A j \in Ops : ops[j].stage = IF j = "restart" THEN "stopping" ELSE op[j].stage
    BY AtType, OpNames DEF Core, CoreTypes, Stages
  <2> HIDE DEF cleared, ops
  <2>4. /\ session' \in SessionType /\ session'.client = 0 /\ session'.disposal = "no"
    BY <2>1, <2>2 DEF SessionType
  <2>5. /\ ops["init"].stage = "none" /\ ops["restart"].stage = "stopping"
        /\ \A k \in Ops : ops[k].stage \in {"none", "stopping"}
    BY <2>1, <2>3, OpNames
  <2> QED
    BY <2>1, <2>3, <2>4, <2>5, StopKeepsCore
<1> QED
  BY <1>1, <1>2

\* An operation begins when none is under way and the session has no open client.
LEMMA BeginsKeepsCore ==
    ASSUME Core, NEW Ls, Begins(Ls), UNCHANGED <<sup, closed>>
    PROVE  Core'
<1>1. CASE op[Running].stage # "none"
  BY <1>1 DEF Begins, Core, CoreTypes, Joins, OneClient, Dead, Active, Handshaking, Disposed
<1>2. CASE op[Running].stage = "none"
  <2>1. /\ op["restart"].stage = "none" /\ op["init"].stage = "none" /\ ~ Disposed
        /\ session' = ClearedSession(session) /\ op' = At("init", StartStage)
    BY <1>2 DEF Begins, Running, Refuses
  <2>2. /\ session' \in SessionType /\ session'.client = 0 /\ ~ Disposed'
    BY <2>1, ClearedType DEF Core, CoreTypes, Disposed
  <2>3. /\ op' \in OpType
        /\ \A j \in Ops : op'[j].stage = IF j = "init" THEN StartStage ELSE op[j].stage
    BY <2>1, AtType, OpNames DEF Core, CoreTypes, Stages
  <2>4. /\ op'["init"].stage \in {"queued", "start"} /\ op'["restart"].stage = "none"
        /\ op'["init"].stage = "start" => ~ sup.stopping
    BY <2>1, <2>3, OpNames
  <2>5. Joins'
    BY <2>2, <2>4, OpNames DEF Core, Joins, Active, Handshaking
  <2> QED
    BY <2>2, <2>3, <2>5 DEF Core, CoreTypes, OneClient, Dead
<1> QED
  BY <1>1, <1>2

LEMMA FoundClosedKeepsCore ==
    ASSUME Core, FoundClosed
    PROVE  Core'
<1>1. /\ session.client # 0 /\ ~ Disposed /\ UNCHANGED <<op, sup, closed>>
      /\ session' = ClearedSession(session)
  BY DEF FoundClosed, Core, OneClient
<1>2. session' \in SessionType /\ session'.client = 0 /\ ~ Disposed'
  BY <1>1, ClearedType DEF Core, CoreTypes, Disposed
<1>3. \A k \in Ops : ~ Active(k)
  BY <1>1 DEF Core, Joins
<1>4. Joins'
  BY <1>1, <1>2, <1>3 DEF Core, Joins, Active, Handshaking
<1> QED
  BY <1>1, <1>2, <1>4 DEF Core, CoreTypes, OneClient, Dead

\* An operation that ends with nothing to show.
LEMMA EndKeepsCore ==
    ASSUME Core, NEW k \in Ops, op' = Ended(k), UNCHANGED <<session, sup, closed>>
    PROVE  Core'
<1>1. /\ op' \in OpType
      /\ \A j \in Ops : /\ op'[j].stage = IF j = k THEN "none" ELSE op[j].stage
                        /\ j # k => op'[j] = op[j]
  BY EndedType DEF Core, CoreTypes
<1>2. Joins'
  BY <1>1, OpNames DEF Core, Joins, Active, Handshaking, Disposed
<1>3. Dead'
  BY <1>1 DEF Core, Dead, Disposed
<1> QED
  BY <1>1, <1>2, <1>3 DEF Core, CoreTypes, OneClient

\* An operation that is under way and goes from one of these stages to another.
LEMMA MoveKeepsCore ==
    ASSUME Core, NEW k \in Ops, NEW st \in Stages, op' = At(k, st),
           \/ st \in {"initialize", "probe"} /\ Handshaking(k)
           \/ k = "restart" /\ op[k].stage = "none" /\ st = "waiting",
           UNCHANGED <<session, sup, closed>>
    PROVE  Core'
<1>1. /\ op' \in OpType
      /\ \A j \in Ops : /\ op'[j].stage = IF j = k THEN st ELSE op[j].stage
                        /\ op'[j].client = op[j].client
  BY AtType DEF Core, CoreTypes
<1>2. Joins'
  BY <1>1, OpNames DEF Core, Joins, Active, Handshaking, Disposed
<1>3. Dead'
  BY <1>1 DEF Core, Dead, Disposed
<1> QED
  BY <1>1, <1>2, <1>3 DEF Core, CoreTypes, OneClient

LEMMA StartEndsKeepsCore ==
    ASSUME Core, NEW k \in Ops, StartEnds(k)
    PROVE  Core'
<1>0. /\ op[k].stage = "start" /\ ~ sup.stopping /\ session.client = 0
      /\ \A j \in Ops : j # k => op[j].stage \in {"none", "waiting"}
  BY OpNames DEF StartEnds, Core, Joins, Active
<1>1. /\ sup' \in SupType /\ sup'.stopping = sup.stopping /\ sup.next <= sup'.next
      /\ sup'.child # 0 /\ sup'.child < sup'.next /\ sup'.child \notin closed
      /\ sup'.child \in 0..MaxClients
  <2>1. sup \in SupType /\ sup.child < sup.next /\ sup.child \notin closed
        /\ \A c \in closed : c < sup.next
    BY DEF Core, CoreTypes, OneClient
  <2>2. CASE sup.child # 0
    BY <2>1, <2>2 DEF StartEnds, SupType
  <2>3. CASE sup.child = 0
    <3> DEFINE t == [sup EXCEPT !.child = sup.next, !.next = sup.next + 1]
    <3>1. sup' = t /\ sup'.child <= MaxClients
      BY <2>3 DEF StartEnds
    <3>a. t.child = sup.next /\ t.next = sup.next + 1
      BY <2>1 DEF SupType
    <3>2. sup.next \in Nat \ {0} /\ sup.next <= MaxClients
      BY <2>1, <3>1, <3>a DEF SupType
    <3>3. sup.next \in 0..MaxClients /\ sup.next + 1 \in 1..MaxClients + 1
      BY <3>2
    <3>4. t \in SupType
      BY <2>1, <3>3 DEF SupType
    <3>5. t.stopping = sup.stopping
      BY <2>1, Zenon DEF SupType
    <3> QED
      BY <2>1, <3>1, <3>a, <3>2, <3>3, <3>4, <3>5
  <2> QED
    BY <2>2, <2>3
<1>a. sup.next \in Nat /\ sup'.next \in Nat
  BY <1>1 DEF Core, CoreTypes, SupType
<1>b. \A c \in closed : c \in Nat /\ c # 0 /\ c < sup.next /\ sup.next <= sup'.next
  BY <1>1 DEF Core, CoreTypes, OneClient, Clients
<1>c. \A c \in closed : c < sup'.next
  BY <1>a, <1>b
<1>2. CASE Disposed
  <2>1. op' = Ended(k) /\ UNCHANGED <<session, closed>>
    BY <1>2 DEF StartEnds, Fails
  <2>2. /\ op' \in OpType
        /\ \A j \in Ops : /\ op'[j].stage = IF j = k THEN "none" ELSE op[j].stage
                          /\ j # k => op'[j] = op[j]
    BY <2>1, EndedType DEF Core, CoreTypes
  <2>3. \A j \in Ops : op'[j].stage \in {"none", "waiting"}
    BY <1>0, <2>2
  <2>4. op'["init"].stage # "waiting"
    BY <2>2, OpNames DEF Core, Joins
  <2>5. Joins'
    BY <1>0, <1>1, <2>3, <2>4, OpNames DEF Joins, Active, Handshaking
  <2>6. OneClient'
    BY <1>0, <1>1, <1>b, <1>c, <2>1 DEF OneClient
  <2>7. Dead'
    BY <1>0, <1>2, <2>1 DEF Core, Dead, Disposed
  <2> QED
    BY <1>1, <2>1, <2>2, <2>5, <2>6, <2>7 DEF Core, CoreTypes
<1>3. CASE ~ Disposed
  <2>1. /\ session' = [session EXCEPT !.handlers = sup'.child]
        /\ op' = [op EXCEPT ![k] = [stage |-> "initialize", client |-> sup'.child]]
        /\ UNCHANGED closed
    BY <1>3 DEF StartEnds
  <2>2. session' \in SessionType /\ session'.client = 0 /\ session'.handlers = sup'.child
        /\ ~ Disposed'
    BY <1>0, <1>1, <1>3, <2>1 DEF Core, CoreTypes, SessionType, Disposed
  <2>3. [stage |-> "initialize", client |-> sup'.child] \in [stage : Stages, client : 0..MaxClients]
    BY <1>1 DEF Stages
  <2>4. op' \in OpType
    BY <2>1, <2>3 DEF Core, CoreTypes, OpType
  <2>5. \A j \in Ops : IF j = k THEN op'[j].stage = "initialize" /\ op'[j].client = sup'.child
                                ELSE op'[j] = op[j]
    BY <2>1 DEF Core, CoreTypes, OpType
  <2>6. /\ op'["init"].stage \notin {"waiting", "stopping"}
        /\ ~ (Active("init")' /\ Active("restart")')
    BY <1>0, <2>5, OpNames DEF Core, Joins, Active
  <2>7. \A j \in Ops : Handshaking(j)' => j = k
    BY <1>0, <2>5 DEF Handshaking
  <2>8. Joins'
    BY <1>0, <1>1, <2>2, <2>5, <2>6, <2>7 DEF Joins
  <2>9. OneClient'
    BY <1>0, <1>1, <1>b, <1>c, <2>1, <2>2 DEF OneClient
  <2> QED
    BY <1>1, <2>1, <2>2, <2>4, <2>8, <2>9 DEF Core, CoreTypes, Dead
<1> QED
  BY <1>2, <1>3

LEMMA ProbedKeepsCore ==
    ASSUME Core, NEW k \in Ops, Probed(k)
    PROVE  Core'
<1>1. /\ op[k].stage = "probe" /\ ~ Disposed /\ op' = Ended(k) /\ UNCHANGED <<sup, closed>>
      /\ session' = [session EXCEPT !.client = op[k].client]
  BY DEF Probed
<1>2. /\ op' \in OpType
      /\ \A j \in Ops : /\ op'[j].stage = IF j = k THEN "none" ELSE op[j].stage
                        /\ j # k => op'[j] = op[j]
  BY <1>1, EndedType DEF Core, CoreTypes
<1>3. op[k].client \in 0..MaxClients
  BY DEF Core, CoreTypes, OpType
<1>4. /\ session' \in SessionType /\ session'.client = op[k].client
      /\ session'.handlers = session.handlers /\ ~ Disposed'
  BY <1>1, <1>3 DEF Core, CoreTypes, SessionType, Disposed
<1>5. \A j \in Ops : j # k => ~ Active(j)
  BY <1>1, OpNames DEF Core, Joins, Active
<1>6. \A j \in Ops : ~ Active(j)'
  BY <1>2, <1>5 DEF Active
<1>7. Joins'
  BY <1>1, <1>2, <1>6, OpNames DEF Core, Joins, Active, Handshaking
<1>8. OneClient'
  BY <1>1, <1>4 DEF Core, OneClient, Joins, Handshaking
<1> QED
  BY <1>1, <1>2, <1>4, <1>7, <1>8 DEF Core, CoreTypes, Dead

\* A handshake fails; its client is stopped if it still is the child.
LEMMA HandshakeFailsKeepsCore ==
    ASSUME Core, NEW k \in Ops, NEW inc \in BOOLEAN, HandshakeFails(k, inc)
    PROVE  Core'
<1> DEFINE c == op[k].client
<1>1. /\ Handshaking(k) /\ op' = At(k, "report") /\ session.client = 0
      /\ inc => ~ Disposed
  BY DEF HandshakeFails, Core, Joins, Active, Handshaking
<1>2. /\ op' \in OpType
      /\ \A j \in Ops : op'[j].stage = IF j = k THEN "report" ELSE op[j].stage
  BY <1>1, AtType DEF Core, CoreTypes, Stages
<1>3. /\ session' \in SessionType /\ session'.client = 0 /\ session'.handlers = 0
      /\ session'.disposal = session.disposal /\ session'.lateStart = session.lateStart
  <2>1. CASE inc
    <3> DEFINE cleared == ClearedSession(session)
    <3>1. /\ cleared \in SessionType /\ cleared.client = 0 /\ cleared.handlers = 0
          /\ cleared.disposal = session.disposal
      BY ClearedType DEF Core, CoreTypes
    <3>a. cleared.lateStart = session.lateStart
      BY ClearedType DEF Core, CoreTypes
    <3>2. session' = [cleared EXCEPT !.incompatible = TRUE]
      BY <2>1 DEF HandshakeFails
    <3> HIDE DEF cleared
    <3>3. session' \in SessionType /\ session'.client = 0 /\ session'.handlers = 0
          /\ session'.disposal = session.disposal
      BY <3>1, <3>2 DEF SessionType
    <3>4. session'.lateStart = cleared.lateStart
      BY <3>1, <3>2, Zenon DEF SessionType
    <3> QED
      BY <3>3, <3>4, <3>a
  <2>2. CASE ~ inc
    <3>1. session' = [session EXCEPT !.handlers = 0] /\ session \in SessionType
      BY <2>2 DEF HandshakeFails, Core, CoreTypes
    <3>2. session' \in SessionType /\ session'.client = 0 /\ session'.handlers = 0
          /\ session'.disposal = session.disposal
      BY <1>1, <3>1 DEF SessionType
    <3>3. session'.lateStart = session.lateStart
      BY <3>1, Zenon DEF SessionType
    <3> QED
      BY <3>2, <3>3
  <2> QED
    BY <2>1, <2>2
<1>4. /\ sup' \in SupType /\ sup'.next = sup.next
      /\ sup'.child = (IF sup.child = c THEN 0 ELSE sup.child)
      /\ closed' = (IF sup.child = c THEN closed \cup {c} ELSE closed)
      /\ c # 0 /\ c \in Clients /\ c < sup.next
  <2>1. c # 0 /\ c \in Clients /\ c < sup.next /\ sup \in SupType /\ 0 \in 0..MaxClients
    BY <1>1 DEF Core, CoreTypes, Joins, OpType, Clients
  <2>2. CASE sup.child = c
    <3>1. sup' = [sup EXCEPT !.child = 0] /\ closed' = closed \cup ({c} \ {0})
      BY <2>2 DEF HandshakeFails, Closes
    <3> QED
      BY <2>1, <2>2, <3>1 DEF SupType
  <2>3. CASE sup.child # c
    BY <2>1, <2>3 DEF HandshakeFails
  <2> QED
    BY <2>2, <2>3
<1>5. sup'.stopping = sup.stopping
  <2>1. CASE sup.child = c
    <3>1. sup' = [sup EXCEPT !.child = 0] /\ sup \in SupType
      BY <2>1 DEF HandshakeFails, Core, CoreTypes
    <3> QED
      BY <3>1, Zenon DEF SupType
  <2>2. CASE sup.child # c
    BY <2>2 DEF HandshakeFails
  <2> QED
    BY <2>1, <2>2
<1> HIDE DEF c
<1>6. \A j \in Ops : ~ Handshaking(j)'
  BY <1>1, <1>2, OpNames DEF Core, Joins, Active, Handshaking
<1>7. Joins'
  BY <1>1, <1>2, <1>3, <1>4, <1>5, <1>6, OpNames DEF Core, Joins, Active, Handshaking
<1>8. OneClient'
  BY <1>3, <1>4 DEF Core, CoreTypes, OneClient, SupType
<1>9. Dead'
  BY <1>2, <1>3, <1>4 DEF Core, Dead, Disposed
<1> QED
  BY <1>2, <1>3, <1>4, <1>7, <1>8, <1>9 DEF Core, CoreTypes

LEMMA StopEndsKeepsCore ==
    ASSUME Core, StopEnds
    PROVE  Core'
<1>1. /\ sup.stopping /\ sup' = [sup EXCEPT !.stopping = FALSE] /\ UNCHANGED closed
      /\ op' = [k \in Ops |-> IF op[k].stage \in {"stopping", "queued"}
                              THEN [op[k] EXCEPT !.stage = "start"] ELSE op[k]]
      /\ session' = [session EXCEPT !.disposal = IF @ = "stopping" THEN "waiting" ELSE @]
  BY DEF StopEnds
<1>2. /\ sup' \in SupType /\ sup'.stopping = FALSE /\ sup'.next = sup.next
      /\ sup'.child = sup.child
  BY <1>1 DEF Core, CoreTypes, SupType
<1>3. /\ op' \in OpType
      /\ \A k \in Ops : /\ op'[k].client = op[k].client
                        /\ op'[k].stage = IF op[k].stage \in {"stopping", "queued"}
                                          THEN "start" ELSE op[k].stage
  <2>1. \A k \in Ops : /\ op[k] \in [stage : Stages, client : 0..MaxClients]
                       /\ [op[k] EXCEPT !.stage = "start"]
                            \in [stage : Stages, client : 0..MaxClients]
                       /\ [op[k] EXCEPT !.stage = "start"].client = op[k].client
                       /\ [op[k] EXCEPT !.stage = "start"].stage = "start"
    BY DEF Core, CoreTypes, OpType, Stages
  <2>2. op' \in OpType
    BY <1>1, <2>1 DEF OpType
  <2> QED
    BY <1>1, <2>1, <2>2
<1>4. /\ session' \in SessionType /\ session'.client = session.client
      /\ session'.handlers = session.handlers
      /\ session'.disposal = "no" <=> session.disposal = "no"
  BY <1>1 DEF Core, CoreTypes, SessionType
<1>5. session'.lateStart = session.lateStart
  BY <1>1, Zenon DEF Core, CoreTypes, SessionType
<1>6. Joins'
  BY <1>1, <1>2, <1>3, <1>4, OpNames DEF Core, Joins, Active, Handshaking, Disposed
<1>7. OneClient'
  BY <1>1, <1>2, <1>4 DEF Core, OneClient
<1>8. Dead'
  BY <1>2, <1>3, <1>4, <1>5 DEF Core, Dead, Disposed
<1> QED
  BY <1>1, <1>2, <1>3, <1>4, <1>6, <1>7, <1>8 DEF Core, CoreTypes

LEMMA ClientClosesKeepsCore ==
    ASSUME Core, ClientCloses
    PROVE  Core'
<1>1. /\ sup.child # 0 /\ sup' = [sup EXCEPT !.child = 0]
      /\ closed' = closed \cup ({sup.child} \ {0}) /\ UNCHANGED <<session, op>>
  BY DEF ClientCloses, Closes
<1>2. /\ sup' \in SupType /\ sup'.next = sup.next /\ sup'.child = 0
      /\ sup.child \in Clients /\ closed' = closed \cup {sup.child}
  BY <1>1 DEF Core, CoreTypes, SupType, Clients
<1>3. sup'.stopping = sup.stopping
  BY <1>1, Zenon DEF Core, CoreTypes, SupType
<1>4. Joins'
  BY <1>1, <1>2, <1>3 DEF Core, Joins, Active, Handshaking, Disposed
<1>5. OneClient'
  BY <1>1, <1>2 DEF Core, CoreTypes, OneClient, SupType
<1>6. Dead'
  BY <1>1, <1>2 DEF Core, Dead, Disposed
<1> QED
  BY <1>1, <1>2, <1>4, <1>5, <1>6 DEF Core, CoreTypes

LEMMA DisposeEndsKeepsCore ==
    ASSUME Core, DisposeEnds
    PROVE  Core'
<1>1. /\ session' = [session EXCEPT !.disposal = "done"] /\ UNCHANGED <<op, sup, closed>>
      /\ Disposed
  BY DEF DisposeEnds, Disposed
<1>2. /\ session' \in SessionType /\ session'.client = session.client
      /\ session'.handlers = session.handlers /\ Disposed'
  BY <1>1 DEF Core, CoreTypes, SessionType, Disposed
<1>3. session'.lateStart = session.lateStart
  BY <1>1, Zenon DEF Core, CoreTypes, SessionType
<1>4. Joins'
  BY <1>1, <1>2 DEF Core, Joins, Active, Handshaking
<1>5. OneClient' /\ Dead'
  BY <1>1, <1>2, <1>3 DEF Core, OneClient, Dead
<1> QED
  BY <1>1, <1>2, <1>4, <1>5 DEF Core, CoreTypes

LEMMA CoreStep == Core /\ [Next]_vars => Core'
<1> SUFFICES ASSUME Core, [Next]_vars PROVE Core'
  OBVIOUS
<1>1. ASSUME NEW k \in Ops, StartEnds(k) \/ Probed(k) \/ HandshakeFails(k, FALSE)
                            \/ HandshakeFails(k, TRUE)
      PROVE Core'
  BY <1>1, StartEndsKeepsCore, ProbedKeepsCore, HandshakeFailsKeepsCore
<1>2. ASSUME NEW k \in Ops, StartFails(k) \/ Reported(k) PROVE Core'
  <2>1. op' = Ended(k) /\ UNCHANGED <<session, sup, closed>>
    BY <1>2 DEF StartFails, Reported, Fails
  <2> QED
    BY <2>1, EndKeepsCore
<1>3. ASSUME NEW k \in Ops, Initialized(k) PROVE Core'
  <2>1. Handshaking(k) /\ op' = At(k, "probe") /\ UNCHANGED <<session, sup, closed>>
    BY <1>3 DEF Initialized, Handshaking
  <2> QED
    BY <2>1, MoveKeepsCore DEF Stages
<1>4. CASE Restart
  <2>1. /\ op["restart"].stage = "none" /\ op' = At("restart", "waiting")
        /\ UNCHANGED <<session, sup, closed>>
    BY <1>4 DEF Restart
  <2> QED
    BY <2>1, MoveKeepsCore, OpNames DEF Stages
<1>5. CASE RestartGoesOn \/ StopEnds \/ DisposeEnds \/ StopCommand \/ ClientCloses \/ Dispose
           \/ FoundClosed
  BY <1>5, RestartGoesOnKeepsCore, StopEndsKeepsCore, DisposeEndsKeepsCore,
     StopCommandKeepsCore, ClientClosesKeepsCore, DisposeKeepsCore, FoundClosedKeepsCore
<1>6. CASE Initialize
  BY <1>6, BeginsKeepsCore DEF Initialize
<1>7. ASSUME UNCHANGED <<session, op, sup, closed>> PROVE Core'
  BY <1>7 DEF Core, CoreTypes, Joins, OneClient, Dead, Active, Handshaking, Disposed
<1>8. ASSUME NEW l \in Leases, Acquire(l) PROVE Core'
  <2>1. UNCHANGED <<sup, closed>>
    BY <1>8 DEF Acquire
  <2> DEFINE Ls == [lease EXCEPT ![l] = [@ EXCEPT !.stage = "joining", !.joins = Running]]
  <2>2. CASE Begins(Ls)
    BY <2>1, <2>2, BeginsKeepsCore
  <2>3. CASE UNCHANGED <<session, op>>
    BY <2>1, <2>3, <1>7
  <2> QED
    BY <1>8, <2>2, <2>3 DEF Acquire
<1>9. ASSUME NEW l \in Leases,
             \/ StartThread(l) \/ ThreadEnds(l) \/ StartTurn(l) \/ TurnStarts(l)
             \/ TurnFails(l) \/ Detach(l) \/ Unsubscribe(l) \/ Unsubscribed(l) \/ Release(l)
      PROVE Core'
  <2>1. UNCHANGED <<session, op, sup, closed>>
    BY <1>9 DEF StartThread, ThreadEnds, StartTurn, TurnStarts, TurnFails, Detach,
                Unsubscribe, Unsubscribed, Release, Becomes
  <2> QED
    BY <2>1, <1>7
<1>10. ASSUME NEW l \in Leases, NEW t \in TurnNames, Notification(l, t) \/ ToolCall(l, t)
       PROVE Core'
  <2>1. UNCHANGED <<session, op, sup, closed>>
    BY <1>10 DEF Notification, ToolCall, Speaks
  <2> QED
    BY <2>1, <1>7
<1>11. CASE UNCHANGED vars
  BY <1>11, <1>7 DEF vars
<1> QED
  BY <1>1, <1>2, <1>3, <1>4, <1>5, <1>6, <1>8, <1>9, <1>10, <1>11 DEF Next, Progress

LEMMA InitCore == Init => Core
<1> SUFFICES ASSUME Init PROVE Core
  OBVIOUS
<1>0. 0 \in 0..MaxClients /\ 1 \in 1..MaxClients + 1
  OBVIOUS
<1>1. session \in SessionType /\ session.client = 0 /\ ~ Disposed
  BY <1>0 DEF Init, SessionType, Disposed
<1>2. sup \in SupType /\ sup.child = 0 /\ sup.next = 1 /\ sup.stopping = FALSE
  BY <1>0 DEF Init, SupType
<1>3. op \in OpType /\ \A k \in Ops : op[k].stage = "none"
  BY <1>0 DEF Init, OpType, Stages
<1>4. closed = {}
  BY DEF Init
<1> QED
  BY <1>1, <1>2, <1>3, <1>4, OpNames
     DEF Core, CoreTypes, Joins, OneClient, Dead, Active, Handshaking

\* The session's own invariant, for any number of leases and clients.
THEOREM CoreInvariant == Spec => []Core
BY InitCore, CoreStep, PTL DEF Spec

\* A disposed session has no client and gets none, and when dispose is over no child is
\* left unless a start was queued behind a running stop (AppServerSession.dispose,
\* restartInternal, initializeClient).
THEOREM StaysDisposed == Spec => []DisposedForGood
<1>1. Core => DisposedForGood
  BY DEF Core, Dead, DisposedForGood
<1> QED
  BY <1>1, CoreInvariant, PTL

-------------------------------------------------------------------------------
(* The leases: what becomes of one while the session moves *)

\* A lease that was told, or not, and is otherwise the same.
Hears(L2, L, c) ==
    /\ L2.stage = L.stage /\ L2.client = L.client /\ L2.attached = L.attached
    /\ L2.told = IF L.stage = "held" /\ L.client = c /\ L.told = "no"
                 THEN (IF L.attached THEN "heard" ELSE "unheard") ELSE L.told

\* The part that concerns its turn is the same.
SameTurn(L2, L) ==
    /\ L2.attached = L.attached /\ L2.thread = L.thread /\ L2.turn = L.turn
    /\ L2.pending = L.pending /\ L2.active = L.active /\ L2.leaving = L.leaving
    /\ L2.notes = L.notes /\ L2.calls = L.calls

\* The same client, and no more listening than before.
Alike(L2, L) ==
    /\ L2.client = L.client /\ L2.told = L.told
    /\ L2.attached => L.attached /\ L2.stage = "held"
    /\ L2.stage = L.stage \/ L2.stage \in {"released", "refused"}

LEMMA AlikeTold ==
    ASSUME NEW L, Told(L), NEW L2, Alike(L2, L)
    PROVE  Told(L2)
BY DEF Told, Gone, Alike

\* Nothing changes for a lease while its client, open or not, stays what it is.
LEMMA UnmovedTold ==
    ASSUME Core, CoreTypes', NEW n, NEW L \in LeaseType(n), Told(L),
           session'.client = session.client, closed' = closed, sup.next <= sup'.next,
           sup'.child \in {0, sup.child, sup.next}
    PROVE  Told(L)'
<1>1. L.client \in Nat /\ sup.next \in Nat /\ sup'.next \in Nat
  BY DEF LeaseType, Core, CoreTypes, SupType
<1> QED
  BY <1>1 DEF Told, Gone

\* The session lets go of its client, which is not or no longer the child.
LEMMA ClearedTold ==
    ASSUME Core, NEW n, NEW L \in LeaseType(n), Told(L), NEW L2,
           Hears(L2, L, session.client), session'.client = 0, closed \subseteq closed',
           sup'.next = sup.next,
           \/ sup'.child = 0
           \/ sup'.child = sup.child /\ (session.client = 0 \/ session.client \in closed)
    PROVE  Told(L2)'
<1>1. L.told \in {"no", "heard", "unheard"}
  BY DEF LeaseType
<1>2. session.client # 0 /\ session.client \in closed => sup.child # session.client
  BY DEF Core, OneClient
<1>3. L2.client # 0 => session'.client # L2.client
  OBVIOUS
<1> QED
  BY <1>1, <1>2, <1>3 DEF Told, Gone, Hears

\* The child's client closes; the session tells its leases if it listens to it.
LEMMA ClosedTold ==
    ASSUME Core, NEW n, NEW L \in LeaseType(n), Told(L), NEW L2,
           sup.child # 0, sup'.child = 0, sup'.next = sup.next,
           closed' = closed \cup {sup.child}, session'.client = session.client,
           session'.handlers = session.handlers \/ session.client = 0,
           IF session'.handlers = sup.child THEN Hears(L2, L, sup.child) ELSE L2 = L
    PROVE  Told(L2)'
<1>1. L.told \in {"no", "heard", "unheard"}
  BY DEF LeaseType
<1>2. CASE L.client = sup.child
  <2>1. session.client = sup.child /\ sup.child \notin closed
    BY <1>2 DEF Told, Core, OneClient
  <2>2. Hears(L2, L, sup.child)
    BY <2>1 DEF Core, OneClient
  <2> QED
    BY <1>1, <1>2, <2>1, <2>2 DEF Told, Gone, Hears
<1>3. CASE L.client # sup.child
  <2>1. L2.stage = L.stage /\ L2.client = L.client /\ L2.attached = L.attached
        /\ L2.told = L.told
    BY <1>3 DEF Hears
  <2> QED
    BY <1>3, <2>1 DEF Told, Gone
<1> QED
  BY <1>2, <1>3

LEMMA SameKept ==
    ASSUME NEW L, NEW G, Kept(L, G), NEW L2, SameTurn(L2, L), L2.stage = L.stage \/ ~ L.pending
    PROVE  Kept(L2, G)
BY DEF Kept, SameTurn

-------------------------------------------------------------------------------
(* The leases: what the operations of the session make of them *)

WithTold(L, t) == [L EXCEPT !.told = t]
AtStage(L, s, j) == [L EXCEPT !.stage = s, !.joins = j]
Holding(L, c, j) == [L EXCEPT !.stage = "held", !.joins = j, !.client = c]

LEMMA ToldType ==
    ASSUME NEW n, NEW L \in LeaseType(n), NEW t \in {"no", "heard", "unheard"}
    PROVE  /\ WithTold(L, t) \in LeaseType(n)
           /\ WithTold(L, t).told = t
           /\ WithTold(L, t).stage = L.stage /\ WithTold(L, t).client = L.client
           /\ SameTurn(WithTold(L, t), L)
<1>1. WithTold(L, t) \in LeaseType(n)
  BY DEF LeaseType, WithTold
<1>2. /\ WithTold(L, t).told = t
      /\ WithTold(L, t).stage = L.stage /\ WithTold(L, t).client = L.client
  BY Zenon DEF LeaseType, WithTold
<1>3. SameTurn(WithTold(L, t), L)
  BY Zenon DEF LeaseType, SameTurn, WithTold
<1> QED
  BY <1>1, <1>2, <1>3

LEMMA StageType ==
    ASSUME NEW n, NEW L \in LeaseType(n), NEW s \in {"joining", "refused"}, NEW j \in Ops
    PROVE  /\ AtStage(L, s, j) \in LeaseType(n)
           /\ AtStage(L, s, j).stage = s
           /\ AtStage(L, s, j).client = L.client /\ AtStage(L, s, j).told = L.told
           /\ SameTurn(AtStage(L, s, j), L)
<1>1. AtStage(L, s, j) \in LeaseType(n)
  BY DEF LeaseType, AtStage
<1>2. /\ AtStage(L, s, j).stage = s
      /\ AtStage(L, s, j).client = L.client /\ AtStage(L, s, j).told = L.told
  BY Zenon DEF LeaseType, AtStage
<1>3. SameTurn(AtStage(L, s, j), L)
  BY Zenon DEF LeaseType, SameTurn, AtStage
<1> QED
  BY <1>1, <1>2, <1>3

LEMMA HeldType ==
    ASSUME NEW n, NEW L \in LeaseType(n), NEW c \in 0..MaxClients, NEW j \in Ops
    PROVE  /\ Holding(L, c, j) \in LeaseType(n)
           /\ Holding(L, c, j).stage = "held"
           /\ Holding(L, c, j).client = c /\ Holding(L, c, j).told = L.told
           /\ SameTurn(Holding(L, c, j), L)
<1>1. Holding(L, c, j) \in LeaseType(n)
  BY DEF LeaseType, Holding
<1>2. /\ Holding(L, c, j).stage = "held"
      /\ Holding(L, c, j).client = c /\ Holding(L, c, j).told = L.told
  BY Zenon DEF LeaseType, Holding
<1>3. SameTurn(Holding(L, c, j), L)
  BY Zenon DEF LeaseType, SameTurn, Holding
<1> QED
  BY <1>1, <1>2, <1>3

LEMMA Notified ==
    ASSUME NEW n, NEW Ls \in [Leases -> LeaseType(n)], NEW c
    PROVE  /\ NotifyExit(Ls, c) \in [Leases -> LeaseType(n)]
           /\ \A l \in Leases : /\ Hears(NotifyExit(Ls, c)[l], Ls[l], c)
                                /\ SameTurn(NotifyExit(Ls, c)[l], Ls[l])
<1> DEFINE F == NotifyExit(Ls, c)
<1>1. ASSUME NEW l \in Leases
      PROVE  F[l] \in LeaseType(n) /\ Hears(F[l], Ls[l], c) /\ SameTurn(F[l], Ls[l])
  <2> DEFINE L == Ls[l]
             t == IF L.attached THEN "heard" ELSE "unheard"
             hit == L.stage = "held" /\ L.client = c /\ L.told = "no"
  <2>1. L \in LeaseType(n) /\ t \in {"no", "heard", "unheard"}
    OBVIOUS
  <2>2. F[l] = IF hit THEN WithTold(L, t) ELSE L
    BY DEF NotifyExit, WithTold
  <2> HIDE DEF F, L
  <2>3. CASE hit
    <3> HIDE DEF t
    <3>1. /\ F[l] \in LeaseType(n) /\ F[l].told = t
          /\ F[l].stage = L.stage /\ F[l].client = L.client /\ SameTurn(F[l], L)
      BY <2>1, <2>2, <2>3, ToldType
    <3> QED
      BY <2>3, <3>1 DEF Hears, SameTurn, L, t
  <2>4. CASE ~ hit
    BY <2>1, <2>2, <2>4 DEF Hears, SameTurn, L
  <2> QED
    BY <2>3, <2>4
<1>2. F = [l \in Leases |-> F[l]]
  BY DEF NotifyExit
<1> HIDE DEF F
<1>3. F \in [Leases -> LeaseType(n)]
  BY <1>1, <1>2
<1> QED
  BY <1>1, <1>3 DEF F

\* A caller that joined an operation goes on without a client, or with client c.
GoesOn(L2, L, c) ==
    \/ L2 = L
    \/ L.stage = "joining" /\ L2 = AtStage(L, "refused", "init")
    \/ L.stage = "joining" /\ c \notin closed /\ c # 0 /\ L2 = Holding(L, c, "init")

LEMMA SettleGoesOn ==
    ASSUME NEW Ls, NEW k \in Ops
    PROVE  /\ Settle(k, Ls, FALSE) =>
                /\ lease' = [l \in Leases |-> lease'[l]]
                /\ \A l \in Leases : GoesOn(lease'[l], Ls[l], 0)
           /\ Settle(k, Ls, TRUE) /\ op[k].client # 0 =>
                /\ lease' = [l \in Leases |-> lease'[l]]
                /\ \A l \in Leases : GoesOn(lease'[l], Ls[l], op[k].client)
BY DEF Settle, GoesOn, AtStage, Holding

LEMMA GoesOnType ==
    ASSUME NEW n, NEW L \in LeaseType(n), NEW c \in 0..MaxClients, NEW L2, GoesOn(L2, L, c)
    PROVE  /\ L2 \in LeaseType(n) /\ SameTurn(L2, L) /\ L2.told = L.told
           /\ L2.stage = L.stage \/ L.stage = "joining"
           /\ \/ L2.client = L.client /\ (L2.stage = L.stage \/ L2.stage = "refused")
              \/ L.stage = "joining" /\ c \notin closed /\ c # 0
                 /\ L2.stage = "held" /\ L2.client = c
<1>1. CASE L2 = L
  BY <1>1 DEF SameTurn
<1>2. CASE L.stage = "joining" /\ L2 = AtStage(L, "refused", "init")
  BY <1>2, StageType, OpNames
<1>3. CASE L.stage = "joining" /\ c \notin closed /\ c # 0 /\ L2 = Holding(L, c, "init")
  BY <1>3, HeldType, OpNames
<1> QED
  BY <1>1, <1>2, <1>3 DEF GoesOn

\* What a step that hears nothing from the server has to show.
LEMMA UsersFrom ==
    ASSUME IInv, UNCHANGED <<event, given, answered>>,
           lease' \in [Leases -> LeaseType(event)],
           \A l \in Leases : /\ Told(lease[l])' /\ SameTurn(lease'[l], lease[l])
                             /\ lease'[l].stage = lease[l].stage \/ lease[l].stage # "held"
    PROVE  Users'
<1>1. \A l \in Leases : Kept(lease'[l], given[l])
  <2> SUFFICES ASSUME NEW l \in Leases PROVE Kept(lease'[l], given[l])
    OBVIOUS
  <2>1. Kept(lease[l], given[l])
    BY DEF IInv, Users
  <2>2. lease'[l].stage = lease[l].stage \/ ~ lease[l].pending
    BY <2>1 DEF Kept
  <2> QED
    BY <2>1, <2>2, SameKept
<1> QED
  BY <1>1 DEF IInv, Users, UserTypes

LEMMA ClearedAll ==
    ASSUME Core, NEW n, NEW Ls \in [Leases -> LeaseType(n)], \A l \in Leases : Told(Ls[l]),
           lease' = ClearedLeases(Ls), session'.client = 0, closed \subseteq closed',
           sup'.next = sup.next,
           \/ sup'.child = 0
           \/ sup'.child = sup.child /\ (session.client = 0 \/ session.client \in closed)
    PROVE  /\ lease' \in [Leases -> LeaseType(n)]
           /\ \A l \in Leases : /\ Told(lease[l])' /\ SameTurn(lease'[l], Ls[l])
                                /\ lease'[l].stage = Ls[l].stage
<1>1. ASSUME NEW l \in Leases
      PROVE  \/ Hears(lease'[l], Ls[l], session.client) /\ SameTurn(lease'[l], Ls[l])
             \/ session.client = 0 /\ lease'[l] = Ls[l]
  <2>1. CASE session.client = 0
    BY <2>1 DEF ClearedLeases
  <2>2. CASE session.client # 0
    <3>1. lease' = NotifyExit(Ls, session.client)
      BY <2>2 DEF ClearedLeases
    <3> QED
      BY <3>1, Notified
  <2> QED
    BY <2>1, <2>2
<1>2. lease' \in [Leases -> LeaseType(n)]
  BY Notified DEF ClearedLeases
<1>3. ASSUME NEW l \in Leases PROVE Told(lease[l])'
  <2>1. CASE Hears(lease'[l], Ls[l], session.client)
    BY <2>1, ClearedTold
  <2>2. CASE session.client = 0 /\ lease'[l] = Ls[l]
    <3>1. Hears(lease'[l], Ls[l], session.client)
      BY <2>2 DEF Hears, Told
    <3> QED
      BY <3>1, ClearedTold
  <2> QED
    BY <1>1, <2>1, <2>2
<1>4. \A l \in Leases : SameTurn(lease'[l], Ls[l]) /\ lease'[l].stage = Ls[l].stage
  BY <1>1 DEF SameTurn, Hears
<1> QED
  BY <1>2, <1>3, <1>4

LEMMA ClosedAll ==
    ASSUME Core, NEW n, lease \in [Leases -> LeaseType(n)], \A l \in Leases : Told(lease[l]),
           sup.child # 0, Closes(sup.child, lease), sup'.child = 0, sup'.next = sup.next,
           session'.client = session.client,
           session'.handlers = session.handlers \/ session.client = 0
    PROVE  /\ lease' \in [Leases -> LeaseType(n)]
           /\ \A l \in Leases : /\ Told(lease[l])' /\ SameTurn(lease'[l], lease[l])
                                /\ lease'[l].stage = lease[l].stage
<1>0. sup.child \notin closed /\ closed' = closed \cup {sup.child}
  BY DEF Closes, Core, OneClient
<1>1. CASE session'.handlers = sup.child
  <2>1. lease' = NotifyExit(lease, sup.child)
    BY <1>0, <1>1 DEF Closes
  <2>2. /\ lease' \in [Leases -> LeaseType(n)]
        /\ \A l \in Leases : /\ Hears(lease'[l], lease[l], sup.child)
                             /\ SameTurn(lease'[l], lease[l])
    BY <2>1, Notified
  <2>3. \A l \in Leases : Told(lease[l])'
    BY <1>0, <1>1, <2>2, ClosedTold
  <2> QED
    BY <2>2, <2>3 DEF Hears
<1>2. CASE session'.handlers # sup.child
  <2>1. lease' = lease
    BY <1>2 DEF Closes
  <2>2. \A l \in Leases : Told(lease[l])'
    BY <1>0, <1>2, <2>1, ClosedTold
  <2> QED
    BY <2>1, <2>2 DEF SameTurn
<1> QED
  BY <1>1, <1>2

\* A stop of a session that has let go of its client has no one left to tell.
LEMMA StopsCleared ==
    ASSUME Core, NEW ops, NEW Ls, Stops(ops, Ls), session'.handlers = 0
    PROVE  /\ lease' = Ls /\ sup'.child = 0 /\ sup'.next = sup.next /\ closed \subseteq closed'
<1>1. CASE sup.stopping
  BY <1>1 DEF Stops, Core, Joins
<1>2. CASE ~ sup.stopping
  BY <1>2 DEF Stops, Closes, Core, CoreTypes, SupType
<1> QED
  BY <1>1, <1>2

LEMMA ClearingKeepsUsers ==
    ASSUME IInv, Dispose \/ FoundClosed \/ (RestartGoesOn /\ ~ Disposed)
    PROVE  Users'
<1>0. /\ Core /\ lease \in [Leases -> LeaseType(event)] /\ session \in SessionType
      /\ \A l \in Leases : Told(lease[l])
  BY DEF IInv, Users, UserTypes, Core, CoreTypes
<1> DEFINE cleared == ClearedSession(session)
<1>a. session \in SessionType
  BY <1>0
<1>1. cleared \in SessionType /\ cleared.client = 0 /\ cleared.handlers = 0
  BY <1>a, ClearedType
<1>2. lease' = ClearedLeases(lease) /\ session'.client = 0 /\ closed \subseteq closed'
      /\ sup'.next = sup.next /\ UNCHANGED <<event, given, answered>>
      /\ \/ sup'.child = 0
         \/ sup'.child = sup.child /\ session.client \in closed
  <2>1. CASE Dispose
    <3>1. session' = [cleared EXCEPT !.disposal = "stopping",
                        !.lateStart = \E k \in Ops : op[k].stage \in {"stopping", "queued"}]
          /\ Stops(op, ClearedLeases(lease)) /\ UNCHANGED <<event, given, answered>>
      BY <2>1 DEF Dispose
    <3> HIDE DEF cleared
    <3>2. session'.client = 0 /\ session'.handlers = 0
      BY <1>1, <3>1 DEF SessionType
    <3> QED
      BY <1>0, <3>1, <3>2, StopsCleared
  <2>2. CASE RestartGoesOn /\ ~ Disposed
    <3>1. session' = [cleared EXCEPT !.incompatible = FALSE]
          /\ Stops(At("restart", "stopping"), ClearedLeases(lease))
          /\ UNCHANGED <<event, given, answered>>
      BY <2>2 DEF RestartGoesOn
    <3> HIDE DEF cleared
    <3>2. session'.client = 0 /\ session'.handlers = 0
      BY <1>1, <3>1 DEF SessionType
    <3> QED
      BY <1>0, <3>1, <3>2, StopsCleared
  <2>3. CASE FoundClosed
    BY <1>1, <2>3 DEF FoundClosed
  <2> QED
    BY <2>1, <2>2, <2>3
<1>3. /\ lease' \in [Leases -> LeaseType(event)]
      /\ \A l \in Leases : /\ Told(lease[l])' /\ SameTurn(lease'[l], lease[l])
                           /\ lease'[l].stage = lease[l].stage
  BY <1>0, <1>2, ClearedAll
<1> QED
  BY <1>2, <1>3, UsersFrom

LEMMA ClosingKeepsUsers ==
    ASSUME IInv, StopCommand \/ ClientCloses
    PROVE  Users'
<1>0. Core /\ lease \in [Leases -> LeaseType(event)] /\ \A l \in Leases : Told(lease[l])
  BY DEF IInv, Users, UserTypes
<1>a. UNCHANGED <<event, given, answered>> /\ session' = session
  BY DEF StopCommand, ClientCloses
<1>b. sup \in SupType
  BY DEF IInv, Core, CoreTypes
<1>c. Closes(sup.child, lease)
  BY DEF StopCommand, Stops, ClientCloses
<1>1. sup'.child = 0 /\ sup'.next = sup.next
  <2>1. CASE StopCommand
    <3>1. sup' = [sup EXCEPT !.stopping = TRUE, !.child = 0]
      BY <2>1 DEF StopCommand, Stops
    <3> QED
      BY <1>b, <3>1 DEF SupType
  <2>2. CASE ClientCloses
    <3>1. sup' = [sup EXCEPT !.child = 0]
      BY <2>2 DEF ClientCloses
    <3> QED
      BY <1>b, <3>1 DEF SupType
  <2> QED
    BY <2>1, <2>2
<1>2. CASE sup.child # 0
  <2>1. session'.client = session.client /\ session'.handlers = session.handlers
    BY <1>a
  <2>2. /\ lease' \in [Leases -> LeaseType(event)]
        /\ \A l \in Leases : /\ Told(lease[l])' /\ SameTurn(lease'[l], lease[l])
                             /\ lease'[l].stage = lease[l].stage
    BY <1>0, <1>1, <1>2, <1>c, <2>1, ClosedAll
  <2> QED
    BY <1>a, <2>2, UsersFrom
<1>3. CASE sup.child = 0
  <2>1. lease' = lease /\ closed' = closed
    BY <1>c, <1>3 DEF Closes
  <2>2. Core' /\ CoreTypes'
    BY <1>0, StopCommandKeepsCore, ClientClosesKeepsCore DEF Core
  <2>3. sup.next <= sup'.next
    BY <1>1, <1>b DEF SupType
  <2>4. session'.client = session.client
    BY <1>a
  <2>5. \A l \in Leases : Told(lease[l])'
    BY <1>0, <1>1, <1>3, <2>1, <2>2, <2>3, <2>4, UnmovedTold
  <2> QED
    BY <1>0, <1>a, <2>1, <2>5, UsersFrom DEF SameTurn
<1> QED
  BY <1>2, <1>3

\* A step that leaves the session's client and what is closed alone, and settles the
\* callers of an operation or nobody.
LEMMA QuietKeepsUsers ==
    ASSUME IInv, CoreTypes', UNCHANGED <<event, given, answered, closed>>,
           session'.client = session.client, sup.next <= sup'.next,
           sup'.child \in {0, sup.child, sup.next},
           lease' = lease \/ \E k \in Ops : Settle(k, lease, FALSE)
    PROVE  Users'
<1>0. /\ Core /\ CoreTypes /\ lease \in [Leases -> LeaseType(event)]
      /\ \A l \in Leases : Told(lease[l])
  BY DEF IInv, Users, UserTypes, Core
<1>1. /\ lease' = [l \in Leases |-> lease'[l]]
      /\ \A l \in Leases : GoesOn(lease'[l], lease[l], 0)
  <2>1. CASE lease' = lease
    BY <1>0, <2>1 DEF GoesOn
  <2>2. ASSUME NEW k \in Ops, Settle(k, lease, FALSE)
        PROVE  /\ lease' = [l \in Leases |-> lease'[l]]
               /\ \A l \in Leases : GoesOn(lease'[l], lease[l], 0)
    BY <2>2, SettleGoesOn
  <2> QED
    BY <2>1, <2>2
<1>2. ASSUME NEW l \in Leases
      PROVE  /\ lease'[l] \in LeaseType(event) /\ SameTurn(lease'[l], lease[l])
             /\ lease'[l].told = lease[l].told /\ lease'[l].client = lease[l].client
             /\ lease'[l].stage = lease[l].stage \/ lease[l].stage = "joining"
             /\ lease'[l].stage = lease[l].stage \/ lease'[l].stage = "refused"
  <2>1. 0 \in 0..MaxClients /\ lease[l] \in LeaseType(event)
        /\ GoesOn(lease'[l], lease[l], 0)
    BY <1>0, <1>1
  <2> QED
    BY <2>1, GoesOnType
<1>3. ASSUME NEW l \in Leases PROVE Told(lease[l])'
  <2>1. Alike(lease'[l], lease[l])
    BY <1>0, <1>2 DEF Alike, SameTurn, Told
  <2>2. Told(lease'[l])
    BY <1>0, <2>1, AlikeTold
  <2>3. lease'[l] \in LeaseType(event)
    BY <1>2
  <2>4. closed' = closed
    OBVIOUS
  <2> QED
    BY <1>0, <2>2, <2>3, <2>4, UnmovedTold
<1>4. lease' \in [Leases -> LeaseType(event)]
  BY <1>1, <1>2
<1> QED
  BY <1>2, <1>3, <1>4, UsersFrom

LEMMA StartEndsKeepsUsers ==
    ASSUME IInv, NEW k \in Ops, StartEnds(k)
    PROVE  Users'
<1>0. Core /\ Core' /\ CoreTypes'
  BY StartEndsKeepsCore DEF IInv, Core
<1>1. /\ sup \in SupType /\ session \in SessionType
      /\ UNCHANGED <<event, given, answered, closed>>
  BY <1>0 DEF StartEnds, Core, CoreTypes
<1>2. session'.client = session.client
  <2>1. session' = session \/ session' = [session EXCEPT !.handlers = sup'.child]
    BY DEF StartEnds
  <2> QED
    BY <1>1, <2>1 DEF SessionType
<1>3. sup.next <= sup'.next /\ sup'.child \in {0, sup.child, sup.next}
  <2> DEFINE t == [sup EXCEPT !.child = sup.next, !.next = sup.next + 1]
  <2>1. sup' = sup \/ sup' = t
    BY DEF StartEnds
  <2>2. sup.next \in Nat /\ t.child = sup.next /\ t.next = sup.next + 1
    BY <1>1 DEF SupType
  <2> HIDE DEF t
  <2> QED
    BY <2>1, <2>2
<1>4. lease' = lease \/ \E j \in Ops : Settle(j, lease, FALSE)
  BY DEF StartEnds, Fails
<1> QED
  BY <1>0, <1>1, <1>2, <1>3, <1>4, QuietKeepsUsers

LEMMA EndsKeepsUsers ==
    ASSUME IInv, Core',
           \/ \E k \in Ops : StartFails(k) \/ Reported(k) \/ Initialized(k)
           \/ RestartGoesOn /\ Disposed
           \/ Restart \/ StopEnds \/ DisposeEnds
    PROVE  Users'
<1>0. Core /\ CoreTypes' /\ sup \in SupType /\ session \in SessionType
  BY DEF IInv, Core, CoreTypes
<1>1. UNCHANGED <<event, given, answered, closed>>
  BY DEF StartFails, Reported, Initialized, RestartGoesOn, Restart, StopEnds, DisposeEnds
<1>2. session'.client = session.client
  <2>1. \/ session' = session
        \/ session' = [session EXCEPT !.disposal = IF @ = "stopping" THEN "waiting" ELSE @]
        \/ session' = [session EXCEPT !.disposal = "done"]
    BY DEF StartFails, Reported, Initialized, RestartGoesOn, Restart, StopEnds, DisposeEnds
  <2> QED
    BY <1>0, <2>1 DEF SessionType
<1>3. sup.next <= sup'.next /\ sup'.child = sup.child
  <2>1. sup' = sup \/ sup' = [sup EXCEPT !.stopping = FALSE]
    BY DEF StartFails, Reported, Initialized, RestartGoesOn, Restart, StopEnds, DisposeEnds
  <2> QED
    BY <1>0, <2>1 DEF SupType
<1>4. lease' = lease \/ \E j \in Ops : Settle(j, lease, FALSE)
  BY OpNames DEF StartFails, Reported, Initialized, RestartGoesOn, Restart, StopEnds,
                 DisposeEnds, Fails
<1> QED
  BY <1>0, <1>1, <1>2, <1>3, <1>4, QuietKeepsUsers

\* The session's new client: no older lease is of it, and those that join it are.
LEMMA ProbedKeepsUsers ==
    ASSUME IInv, NEW k \in Ops, Probed(k)
    PROVE  Users'
<1> DEFINE c == op[k].client
<1>0. /\ Core /\ CoreTypes /\ lease \in [Leases -> LeaseType(event)]
      /\ \A l \in Leases : Told(lease[l])
  BY DEF IInv, Users, UserTypes, Core
<1>1. /\ op[k].stage = "probe" /\ Settle(k, lease, TRUE)
      /\ UNCHANGED <<sup, closed, event, given, answered>>
      /\ session' = [session EXCEPT !.client = c]
  BY DEF Probed
<1>2. /\ c # 0 /\ c \in 0..MaxClients /\ c < sup.next /\ session.client = 0
      /\ c = sup.child \/ c \in closed
  BY <1>0, <1>1 DEF Core, CoreTypes, OpType, Joins, Handshaking, Active
<1>3. session'.client = c
  BY <1>0, <1>1, <1>2 DEF CoreTypes, SessionType
<1>a. /\ lease' = [l \in Leases |-> lease'[l]]
      /\ \A l \in Leases : GoesOn(lease'[l], lease[l], c)
  BY <1>1, <1>2, SettleGoesOn
<1> HIDE DEF c
<1>b. ASSUME NEW l \in Leases
      PROVE  /\ lease'[l] \in LeaseType(event) /\ SameTurn(lease'[l], lease[l])
             /\ lease'[l].told = lease[l].told
             /\ lease'[l].stage = lease[l].stage \/ lease[l].stage = "joining"
             /\ \/ /\ lease'[l].client = lease[l].client
                   /\ lease'[l].stage = lease[l].stage \/ lease'[l].stage = "refused"
                \/ /\ lease[l].stage = "joining" /\ c \notin closed
                   /\ lease'[l].stage = "held" /\ lease'[l].client = c
  <2>1. lease[l] \in LeaseType(event) /\ GoesOn(lease'[l], lease[l], c)
    BY <1>0, <1>a
  <2> QED
    BY <1>2, <2>1, GoesOnType
<1>4. lease' \in [Leases -> LeaseType(event)]
  BY <1>a, <1>b
<1>5. ASSUME NEW l \in Leases PROVE Told(lease[l])'
  <2>0. Told(lease[l]) /\ lease[l] \in LeaseType(event)
    BY <1>0
  <2>a. lease[l].client # 0 /\ lease[l].client = c => c \in closed
    BY <1>2, <2>0 DEF Told
  <2>1. CASE /\ lease'[l].client = lease[l].client
             /\ lease'[l].stage = lease[l].stage \/ lease'[l].stage = "refused"
    <3>1. Alike(lease'[l], lease[l])
      BY <1>b, <2>0, <2>1 DEF Alike, SameTurn, Told
    <3>2. Told(lease'[l])
      BY <2>0, <3>1, AlikeTold
    <3> QED
      BY <1>1, <1>2, <1>3, <2>a, <2>1, <3>2 DEF Told, Gone
  <2>2. CASE /\ lease[l].stage = "joining" /\ c \notin closed
             /\ lease'[l].stage = "held" /\ lease'[l].client = c
    <3>1. lease'[l].told = "no" /\ ~ lease'[l].attached
      BY <1>b, <2>0, <2>2 DEF Told, SameTurn
    <3> QED
      BY <1>1, <1>2, <1>3, <2>2, <3>1 DEF Told, Gone
  <2> QED
    BY <1>b, <2>1, <2>2
<1> QED
  BY <1>1, <1>b, <1>4, <1>5, UsersFrom

LEMMA HandshakeFailsKeepsUsers ==
    ASSUME IInv, NEW k \in Ops, NEW inc \in BOOLEAN, HandshakeFails(k, inc)
    PROVE  Users'
<1>0. /\ Core /\ CoreTypes /\ lease \in [Leases -> LeaseType(event)]
      /\ \A l \in Leases : Told(lease[l])
  BY DEF IInv, Users, UserTypes, Core
<1>a. CoreTypes' /\ UNCHANGED <<event, given, answered>>
  BY <1>0, HandshakeFailsKeepsCore DEF Core, HandshakeFails
<1>b. sup \in SupType /\ session \in SessionType
  BY <1>0 DEF CoreTypes
<1>1. session.client = 0 /\ op[k].client # 0
  BY <1>0 DEF HandshakeFails, Core, Joins, Active, Handshaking
<1>2. session'.client = 0
  <2> DEFINE cleared == ClearedSession(session)
  <2>1. cleared \in SessionType /\ cleared.client = 0
    BY <1>b, ClearedType
  <2>2. session' = [cleared EXCEPT !.incompatible = TRUE]
        \/ session' = [session EXCEPT !.handlers = 0]
    BY DEF HandshakeFails
  <2> HIDE DEF cleared
  <2> QED
    BY <1>1, <1>b, <2>1, <2>2 DEF SessionType
<1>3. CASE sup.child = op[k].client
  <2>1. sup' = [sup EXCEPT !.child = 0] /\ Closes(sup.child, lease)
    BY <1>3 DEF HandshakeFails
  <2>2. sup'.child = 0 /\ sup'.next = sup.next
    BY <1>b, <2>1 DEF SupType
  <2>3. /\ lease' \in [Leases -> LeaseType(event)]
        /\ \A l \in Leases : /\ Told(lease[l])' /\ SameTurn(lease'[l], lease[l])
                             /\ lease'[l].stage = lease[l].stage
    BY <1>0, <1>1, <1>2, <1>3, <2>1, <2>2, ClosedAll
  <2> QED
    BY <1>a, <2>3, UsersFrom
<1>4. CASE sup.child # op[k].client
  <2>1. UNCHANGED <<sup, closed, lease>>
    BY <1>4 DEF HandshakeFails
  <2>2. sup.next <= sup'.next /\ sup'.child = sup.child
    BY <1>b, <2>1 DEF SupType
  <2> QED
    BY <1>1, <1>2, <1>a, <2>1, <2>2, QuietKeepsUsers
<1> QED
  BY <1>3, <1>4

LEMMA BeginsAll ==
    ASSUME Core, CoreTypes, CoreTypes', NEW n, NEW Ls \in [Leases -> LeaseType(n)],
           \A l \in Leases : Told(Ls[l]), Begins(Ls), UNCHANGED <<sup, closed>>
    PROVE  /\ lease' \in [Leases -> LeaseType(n)]
           /\ \A l \in Leases : /\ Told(lease[l])' /\ SameTurn(lease'[l], Ls[l])
                                /\ lease'[l].stage = Ls[l].stage
<1>0. /\ closed' = closed /\ sup'.child = sup.child /\ sup'.next = sup.next
      /\ sup.next <= sup'.next
  BY DEF CoreTypes, SupType
<1>1. CASE op[Running].stage # "none"
  <2>1. lease' = Ls /\ session' = session
    BY <1>1 DEF Begins
  <2>2. \A l \in Leases : Ls[l] \in LeaseType(n)
    OBVIOUS
  <2>3. session'.client = session.client
    BY <2>1
  <2>4. \A l \in Leases : Told(lease[l])'
    BY <1>0, <2>1, <2>2, <2>3, UnmovedTold
  <2> QED
    BY <2>1, <2>4 DEF SameTurn
<1>2. CASE op[Running].stage = "none"
  <2>1. session.client = 0 \/ session.client \in closed
    BY <1>2 DEF Begins, Running, Refuses, Ready
  <2>2. lease' = ClearedLeases(Ls) /\ session' = ClearedSession(session)
    BY <1>2 DEF Begins
  <2>3. session'.client = 0
    BY <2>2, ClearedType DEF CoreTypes
  <2> QED
    BY <1>0, <2>1, <2>2, <2>3, ClearedAll
<1> QED
  BY <1>1, <1>2

\* The fields of a lease that its user is refused or given.
RefusedOne(L) == [L EXCEPT !.stage = "refused"]
GivenOne(L, c) == [L EXCEPT !.stage = "held", !.client = c]

LEMMA RefusedType ==
    ASSUME NEW n, NEW L \in LeaseType(n)
    PROVE  /\ RefusedOne(L) \in LeaseType(n) /\ RefusedOne(L).stage = "refused"
           /\ RefusedOne(L).client = L.client /\ RefusedOne(L).told = L.told
           /\ SameTurn(RefusedOne(L), L)
<1>1. RefusedOne(L) \in LeaseType(n)
  BY DEF LeaseType, RefusedOne
<1>2. /\ RefusedOne(L).stage = "refused"
      /\ RefusedOne(L).client = L.client /\ RefusedOne(L).told = L.told
  BY Zenon DEF LeaseType, RefusedOne
<1>3. SameTurn(RefusedOne(L), L)
  BY Zenon DEF LeaseType, SameTurn, RefusedOne
<1> QED
  BY <1>1, <1>2, <1>3

LEMMA GivenType ==
    ASSUME NEW n, NEW L \in LeaseType(n), NEW c \in 0..MaxClients
    PROVE  /\ GivenOne(L, c) \in LeaseType(n) /\ GivenOne(L, c).stage = "held"
           /\ GivenOne(L, c).client = c /\ GivenOne(L, c).told = L.told
           /\ SameTurn(GivenOne(L, c), L)
<1>1. GivenOne(L, c) \in LeaseType(n)
  BY DEF LeaseType, GivenOne
<1>2. /\ GivenOne(L, c).stage = "held"
      /\ GivenOne(L, c).client = c /\ GivenOne(L, c).told = L.told
  BY Zenon DEF LeaseType, GivenOne
<1>3. SameTurn(GivenOne(L, c), L)
  BY Zenon DEF LeaseType, SameTurn, GivenOne
<1> QED
  BY <1>1, <1>2, <1>3

LEMMA AcquireKeepsUsers ==
    ASSUME IInv, NEW l \in Leases, Acquire(l)
    PROVE  Users'
<1> DEFINE L == lease[l]
           R == RefusedOne(L)
           H == GivenOne(L, session.client)
           J == AtStage(L, "joining", Running)
<1>0. /\ Core /\ CoreTypes /\ lease \in [Leases -> LeaseType(event)]
      /\ \A m \in Leases : Told(lease[m])
  BY DEF IInv, Users, UserTypes, Core
<1>a. Core' /\ CoreTypes'
  <2>1. Next
    BY DEF Next
  <2> QED
    BY <1>0, <2>1, CoreStep DEF Core
<1>1. /\ L.stage = "new" /\ UNCHANGED <<sup, closed, event, given, answered>>
      /\ L \in LeaseType(event) /\ Told(L)
  BY <1>0 DEF Acquire
<1>2. L.client = 0 /\ L.told = "no" /\ ~ L.attached
  BY <1>1 DEF Told
<1>b. /\ session.client \in 0..MaxClients
      /\ closed' = closed /\ sup'.child = sup.child /\ sup'.next = sup.next
      /\ sup.next <= sup'.next
  BY <1>0, <1>1 DEF CoreTypes, SessionType, SupType
<1>3. CASE Refuses /\ lease' = [lease EXCEPT ![l] = R] /\ UNCHANGED <<session, op>>
  <2>1. R \in LeaseType(event) /\ R.stage = "refused" /\ R.client = 0 /\ R.told = "no"
        /\ SameTurn(R, L)
    BY <1>1, <1>2, RefusedType
  <2>2. R.attached = L.attached
    BY <2>1 DEF SameTurn
  <2> HIDE DEF R, L
  <2>3. Told(R)
    BY <1>1, <1>2, <2>1, <2>2 DEF Told
  <2>4. lease' \in [Leases -> LeaseType(event)]
    BY <1>0, <1>3, <2>1
  <2>5. ASSUME NEW m \in Leases
        PROVE  Told(lease'[m]) /\ SameTurn(lease'[m], lease[m])
               /\ (lease'[m].stage = lease[m].stage \/ lease[m].stage # "held")
    BY <1>0, <1>1, <1>3, <2>1, <2>3 DEF SameTurn, L
  <2>6. session'.client = session.client
    BY <1>3
  <2>7. \A m \in Leases : Told(lease[m])'
    BY <1>0, <1>a, <1>b, <2>4, <2>5, <2>6, UnmovedTold
  <2> QED
    BY <1>1, <2>4, <2>5, <2>7, UsersFrom
<1>4. CASE Ready /\ lease' = [lease EXCEPT ![l] = H] /\ UNCHANGED <<session, op>>
  <2>1. H \in LeaseType(event) /\ H.stage = "held" /\ H.client = session.client
        /\ H.told = "no" /\ SameTurn(H, L)
    <3> DEFINE c == session.client
    <3>1. L \in LeaseType(event) /\ c \in 0..MaxClients /\ H = GivenOne(L, c)
      BY <1>1, <1>b
    <3> HIDE DEF L, H, c
    <3>2. H \in LeaseType(event) /\ H.stage = "held" /\ H.client = c /\ H.told = L.told
          /\ SameTurn(H, L)
      BY <3>1, GivenType
    <3> QED
      BY <1>2, <3>2 DEF c
  <2>2. H.attached = L.attached
    BY <2>1 DEF SameTurn
  <2> HIDE DEF H, L
  <2>3. Told(H)
    BY <1>0, <1>2, <1>4, <2>1, <2>2 DEF Told, Gone, Ready, Core, OneClient
  <2>4. lease' \in [Leases -> LeaseType(event)]
    BY <1>0, <1>4, <2>1
  <2>5. ASSUME NEW m \in Leases
        PROVE  Told(lease'[m]) /\ SameTurn(lease'[m], lease[m])
               /\ (lease'[m].stage = lease[m].stage \/ lease[m].stage # "held")
    BY <1>0, <1>1, <1>4, <2>1, <2>3 DEF SameTurn, L
  <2>6. session'.client = session.client
    BY <1>4
  <2>7. \A m \in Leases : Told(lease[m])'
    BY <1>0, <1>a, <1>b, <2>4, <2>5, <2>6, UnmovedTold
  <2> QED
    BY <1>1, <2>4, <2>5, <2>7, UsersFrom
<1>5. CASE Begins([lease EXCEPT ![l] = J])
  <2> DEFINE Ls == [lease EXCEPT ![l] = J]
  <2>1. Running \in Ops
    BY OpNames DEF Running
  <2>2. J \in LeaseType(event) /\ J.stage = "joining" /\ J.client = 0 /\ J.told = "no"
        /\ SameTurn(J, L)
    BY <1>1, <1>2, <2>1, StageType
  <2>3. J.attached = L.attached
    BY <2>2 DEF SameTurn
  <2> HIDE DEF J, L
  <2>4. Told(J)
    BY <1>1, <1>2, <2>2, <2>3 DEF Told
  <2>5. Ls \in [Leases -> LeaseType(event)]
    BY <1>0, <2>2
  <2>6. ASSUME NEW m \in Leases
        PROVE  Told(Ls[m]) /\ SameTurn(Ls[m], lease[m])
               /\ (Ls[m].stage = lease[m].stage \/ lease[m].stage # "held")
    BY <1>0, <1>1, <2>2, <2>4 DEF SameTurn, L
  <2> HIDE DEF Ls
  <2>7. /\ lease' \in [Leases -> LeaseType(event)]
        /\ \A m \in Leases : /\ Told(lease[m])' /\ SameTurn(lease'[m], Ls[m])
                             /\ lease'[m].stage = Ls[m].stage
    BY <1>0, <1>1, <1>5, <1>a, <2>5, <2>6, BeginsAll DEF Ls
  <2>8. \A m \in Leases : SameTurn(lease'[m], lease[m])
    BY <2>6, <2>7 DEF SameTurn
  <2> QED
    BY <1>1, <2>6, <2>7, <2>8, UsersFrom
<1> QED
  BY <1>3, <1>4, <1>5 DEF Acquire, AtStage, RefusedOne, GivenOne

LEMMA InitializeKeepsUsers ==
    ASSUME IInv, Initialize
    PROVE  Users'
<1>0. /\ Core /\ CoreTypes /\ lease \in [Leases -> LeaseType(event)]
      /\ \A m \in Leases : Told(lease[m])
  BY DEF IInv, Users, UserTypes, Core
<1>1. Begins(lease) /\ UNCHANGED <<sup, closed>> /\ UNCHANGED <<event, given, answered>>
  BY DEF Initialize
<1>2. CoreTypes'
  BY <1>0, <1>1, BeginsKeepsCore DEF Core
<1>3. /\ lease' \in [Leases -> LeaseType(event)]
      /\ \A l \in Leases : /\ Told(lease[l])' /\ SameTurn(lease'[l], lease[l])
                           /\ lease'[l].stage = lease[l].stage
  BY <1>0, <1>1, <1>2, BeginsAll
<1> QED
  BY <1>1, <1>3, UsersFrom

-------------------------------------------------------------------------------
(* The leases: what their users do *)

\* The events of n lines are among those of more.
LEMMA Wider ==
    ASSUME NEW n \in Nat, NEW m \in Nat, n <= m
    PROVE  /\ LeaseType(n) \subseteq LeaseType(m)
           /\ Seq(1..n) \subseteq Seq(1..m)
<1>1. 1..n \subseteq 1..m
  OBVIOUS
<1>2. Seq(1..n) \subseteq Seq(1..m)
  BY <1>1
<1>3. Buffers(n) \subseteq Buffers(m)
  BY <1>2 DEF Buffers
<1> QED
  BY <1>2, <1>3 DEF LeaseType

LEMMA BufferedType ==
    ASSUME NEW n, NEW L \in LeaseType(n)
    PROVE  Buffered(L) \subseteq 1..n
<1>1. \A t \in TurnNames : L.calls[t] \in Seq(1..n)
  BY DEF LeaseType, Buffers
<1>2. ASSUME NEW q \in Seq(1..n) PROVE ToSet(q) \subseteq 1..n
  <2> DEFINE X == 1..n
  <2>1. q \in Seq(X)
    OBVIOUS
  <2> HIDE DEF X
  <2>2. \A i \in DOMAIN q : q[i] \in X
    BY <2>1
  <2> QED
    BY <2>2 DEF ToSet, X
<1> QED
  BY <1>1, <1>2 DEF Buffered

\* What the user of one lease does to it.
LEMMA OneLease ==
    ASSUME IInv, NEW l \in Leases, NEW L2 \in LeaseType(event), Becomes(l, L2),
           Told(L2), answered' \subseteq 1..event,
           given' \in [Leases -> [came : Seq(1..event), heard : Seq(1..event)]],
           \A m \in Leases : m # l => given'[m] = given[m],
           Kept(L2, given'[l])
    PROVE  Users'
<1>0. /\ UserTypes /\ CoreTypes
      /\ \A m \in Leases : Told(lease[m]) /\ Kept(lease[m], given[m])
  BY DEF IInv, Users, Core
<1>1. /\ UNCHANGED <<session, op, sup, closed, event>>
      /\ lease' = [lease EXCEPT ![l] = L2]
  BY DEF Becomes
<1>2. UserTypes'
  BY <1>0, <1>1 DEF UserTypes
<1>3. \A m \in Leases : lease'[m] = IF m = l THEN L2 ELSE lease[m]
  BY <1>0, <1>1 DEF UserTypes
<1>4. \A m \in Leases : Told(lease'[m]) /\ Kept(lease'[m], given'[m])
  BY <1>0, <1>3
<1>5. \A m \in Leases : Told(lease[m])'
  BY <1>1, <1>4 DEF Told, Gone
<1>6. \A m \in Leases : Kept(lease[m], given[m])'
  BY <1>4
<1> QED
  BY <1>2, <1>5, <1>6 DEF Users

\* The facts each of the following starts from.
LEMMA UserFacts ==
    ASSUME IInv, NEW l \in Leases
    PROVE  /\ lease[l] \in LeaseType(event) /\ Told(lease[l]) /\ Kept(lease[l], given[l])
           /\ answered \subseteq 1..event
           /\ given \in [Leases -> [came : Seq(1..event), heard : Seq(1..event)]]
BY DEF IInv, Users, UserTypes

\* Nothing is buffered in any turn.
LEMMA NothingType == \A n : Nothing \in Buffers(n) /\ \A t \in TurnNames : Nothing[t] = <<>>
BY DEF Nothing, Buffers

LEMMA DroppedType ==
    ASSUME NEW n, NEW L \in LeaseType(n)
    PROVE  /\ Dropped(L) \in LeaseType(n)
           /\ Dropped(L).notes = Nothing /\ Dropped(L).calls = Nothing
           /\ Dropped(L).stage = L.stage /\ Dropped(L).client = L.client
           /\ Dropped(L).told = L.told /\ Dropped(L).attached = L.attached
           /\ Dropped(L).thread = L.thread /\ Dropped(L).turn = L.turn
           /\ Dropped(L).active = L.active /\ Dropped(L).leaving = L.leaving
<1>1. Dropped(L) \in LeaseType(n)
  BY NothingType DEF LeaseType, Dropped
<1>2. /\ Dropped(L).notes = Nothing /\ Dropped(L).calls = Nothing
      /\ Dropped(L).stage = L.stage /\ Dropped(L).client = L.client
      /\ Dropped(L).told = L.told /\ Dropped(L).attached = L.attached
      /\ Dropped(L).thread = L.thread /\ Dropped(L).turn = L.turn
      /\ Dropped(L).active = L.active /\ Dropped(L).leaving = L.leaving
  BY Zenon DEF LeaseType, Dropped
<1> QED
  BY <1>1, <1>2

LEMMA StartThreadKeepsUsers ==
    ASSUME IInv, NEW l \in Leases, StartThread(l)
    PROVE  Users'
<1> DEFINE L == lease[l]
           L2 == [L EXCEPT !.thread = "asked"]
<1>0. L \in LeaseType(event) /\ Told(L) /\ Kept(L, given[l])
      /\ answered \subseteq 1..event
      /\ given \in [Leases -> [came : Seq(1..event), heard : Seq(1..event)]]
  BY UserFacts
<1>1. L.thread = "none" /\ Becomes(l, L2) /\ UNCHANGED <<given, answered>>
  BY DEF StartThread
<1> HIDE DEF L
<1>2. L2 \in LeaseType(event)
  BY <1>0 DEF LeaseType
<1>3. /\ L2.thread = "asked" /\ L2.stage = L.stage /\ L2.client = L.client
      /\ L2.told = L.told /\ L2.attached = L.attached
      /\ L2.turn = L.turn /\ L2.pending = L.pending /\ L2.active = L.active
      /\ L2.leaving = L.leaving /\ L2.notes = L.notes /\ L2.calls = L.calls
  BY <1>0, Zenon DEF LeaseType
<1> HIDE DEF L2
<1>4. Told(L2)
  BY <1>0, <1>3 DEF Told, Gone
<1>5. Kept(L2, given[l])
  BY <1>0, <1>1, <1>3 DEF Kept
<1> QED
  BY <1>0, <1>1, <1>2, <1>4, <1>5, OneLease

LEMMA StartTurnKeepsUsers ==
    ASSUME IInv, NEW l \in Leases, StartTurn(l)
    PROVE  Users'
<1> DEFINE L == lease[l]
           L2 == [L EXCEPT !.turn = "asked", !.pending = TRUE]
<1>0. /\ L \in LeaseType(event) /\ Told(L) /\ Kept(L, given[l]) /\ answered \subseteq 1..event
      /\ given \in [Leases -> [came : Seq(1..event), heard : Seq(1..event)]]
  BY UserFacts
<1>1. /\ L.stage = "held" /\ L.thread = "known" /\ L.turn = "none"
      /\ Becomes(l, L2) /\ UNCHANGED given
      /\ UNCHANGED answered
  BY DEF StartTurn, Usable, Held
<1>a. answered' \subseteq 1..event
  BY <1>0, <1>1
<1> HIDE DEF L
<1>2. L2 \in LeaseType(event)
  BY <1>0 DEF LeaseType
<1>3. /\ L2.stage = L.stage /\ L2.client = L.client /\ L2.told = L.told
      /\ L2.attached = L.attached /\ L2.thread = L.thread /\ L2.turn = "asked"
      /\ L2.pending = TRUE /\ L2.active = L.active /\ L2.leaving = L.leaving
      /\ L2.notes = L.notes /\ L2.calls = L.calls
  BY <1>0, Zenon DEF LeaseType
<1> HIDE DEF L2
<1>4. Told(L2)
  BY <1>0, <1>1, <1>3 DEF Told, Gone
<1>5. Kept(L2, given'[l])
  BY <1>0, <1>1, <1>3 DEF Kept
<1> QED
  BY <1>0, <1>1, <1>2, <1>4, <1>5, <1>a, OneLease

LEMMA TurnFailsKeepsUsers ==
    ASSUME IInv, NEW l \in Leases, TurnFails(l)
    PROVE  Users'
<1> DEFINE L == lease[l]
           D == Dropped(L)
           L2 == [D EXCEPT !.turn = "failed", !.pending = FALSE]
<1>0. /\ L \in LeaseType(event) /\ Told(L) /\ Kept(L, given[l]) /\ answered \subseteq 1..event
      /\ given \in [Leases -> [came : Seq(1..event), heard : Seq(1..event)]]
  BY UserFacts
<1>1. /\ L.turn = "asked"
      /\ Becomes(l, L2) /\ UNCHANGED given
      /\ answered' = answered \cup (Buffered(L) \ Buffered(L2))
  BY DEF TurnFails, AnswersRest, Held
<1>a. answered' \subseteq 1..event
  BY <1>0, <1>1, BufferedType
<1> HIDE DEF L
<1>b. /\ D \in LeaseType(event) /\ D.notes = Nothing /\ D.calls = Nothing
      /\ D.stage = L.stage /\ D.client = L.client /\ D.told = L.told
      /\ D.attached = L.attached /\ D.thread = L.thread /\ D.turn = L.turn
      /\ D.active = L.active /\ D.leaving = L.leaving
  BY <1>0, DroppedType
<1> HIDE DEF D
<1>2. L2 \in LeaseType(event)
  BY <1>b DEF LeaseType
<1>3. /\ L2.stage = D.stage /\ L2.client = D.client /\ L2.told = D.told
      /\ L2.attached = D.attached /\ L2.thread = D.thread /\ L2.turn = "failed"
      /\ L2.pending = FALSE /\ L2.active = D.active /\ L2.leaving = D.leaving
      /\ L2.notes = D.notes /\ L2.calls = D.calls
  BY <1>b, Zenon DEF LeaseType
<1> HIDE DEF L2
<1>4. Told(L2)
  BY <1>0, <1>1, <1>3, <1>b DEF Told, Gone
<1>5. Kept(L2, given'[l])
  BY <1>0, <1>1, <1>3, <1>b DEF Kept
<1> QED
  BY <1>0, <1>1, <1>2, <1>4, <1>5, <1>a, OneLease

LEMMA DetachKeepsUsers ==
    ASSUME IInv, NEW l \in Leases, Detach(l)
    PROVE  Users'
<1> DEFINE L == lease[l]
           L2 == [L EXCEPT !.attached = FALSE]
<1>0. /\ L \in LeaseType(event) /\ Told(L) /\ Kept(L, given[l]) /\ answered \subseteq 1..event
      /\ given \in [Leases -> [came : Seq(1..event), heard : Seq(1..event)]]
  BY UserFacts
<1>1. /\ L.stage = "held" /\ L.attached
      /\ Becomes(l, L2) /\ UNCHANGED given
      /\ UNCHANGED answered
  BY DEF Detach, Held
<1>a. answered' \subseteq 1..event
  BY <1>0, <1>1
<1> HIDE DEF L
<1>2. L2 \in LeaseType(event)
  BY <1>0 DEF LeaseType
<1>3. /\ L2.stage = L.stage /\ L2.client = L.client /\ L2.told = L.told
      /\ L2.attached = FALSE /\ L2.thread = L.thread /\ L2.turn = L.turn
      /\ L2.pending = L.pending /\ L2.active = L.active
      /\ L2.leaving = L.leaving /\ L2.notes = L.notes /\ L2.calls = L.calls
  BY <1>0, Zenon DEF LeaseType
<1> HIDE DEF L2
<1>4. Told(L2)
  BY <1>0, <1>1, <1>3 DEF Told, Gone
<1>5. Kept(L2, given'[l])
  BY <1>0, <1>1, <1>3 DEF Kept
<1> QED
  BY <1>0, <1>1, <1>2, <1>4, <1>5, <1>a, OneLease

LEMMA UnsubscribeKeepsUsers ==
    ASSUME IInv, NEW l \in Leases, Unsubscribe(l)
    PROVE  Users'
<1> DEFINE L == lease[l]
           D == Dropped(L)
           L2 == [D EXCEPT !.pending = FALSE, !.leaving = TRUE]
<1>0. /\ L \in LeaseType(event) /\ Told(L) /\ Kept(L, given[l]) /\ answered \subseteq 1..event
      /\ given \in [Leases -> [came : Seq(1..event), heard : Seq(1..event)]]
  BY UserFacts
<1>1. /\ L.stage = "held" /\ L.thread = "known"
      /\ Becomes(l, L2) /\ UNCHANGED given
      /\ answered' = answered \cup (Buffered(L) \ Buffered(L2))
  BY DEF Unsubscribe, AnswersRest, Held
<1>a. answered' \subseteq 1..event
  BY <1>0, <1>1, BufferedType
<1> HIDE DEF L
<1>b. /\ D \in LeaseType(event) /\ D.notes = Nothing /\ D.calls = Nothing
      /\ D.stage = L.stage /\ D.client = L.client /\ D.told = L.told
      /\ D.attached = L.attached /\ D.thread = L.thread /\ D.turn = L.turn
      /\ D.active = L.active /\ D.leaving = L.leaving
  BY <1>0, DroppedType
<1> HIDE DEF D
<1>2. L2 \in LeaseType(event)
  BY <1>b DEF LeaseType
<1>3. /\ L2.stage = D.stage /\ L2.client = D.client /\ L2.told = D.told
      /\ L2.attached = D.attached /\ L2.thread = D.thread /\ L2.turn = D.turn
      /\ L2.pending = FALSE /\ L2.active = D.active /\ L2.leaving = TRUE
      /\ L2.notes = D.notes /\ L2.calls = D.calls
  BY <1>b, Zenon DEF LeaseType
<1> HIDE DEF L2
<1>4. Told(L2)
  BY <1>0, <1>1, <1>3, <1>b DEF Told, Gone
<1>5. Kept(L2, given'[l])
  BY <1>0, <1>1, <1>3, <1>b DEF Kept
<1> QED
  BY <1>0, <1>1, <1>2, <1>4, <1>5, <1>a, OneLease

LEMMA UnsubscribedKeepsUsers ==
    ASSUME IInv, NEW l \in Leases, Unsubscribed(l)
    PROVE  Users'
<1> DEFINE L == lease[l]
           L2 == [L EXCEPT !.thread = "gone", !.active = FALSE]
<1>0. /\ L \in LeaseType(event) /\ Told(L) /\ Kept(L, given[l]) /\ answered \subseteq 1..event
      /\ given \in [Leases -> [came : Seq(1..event), heard : Seq(1..event)]]
  BY UserFacts
<1>1. /\ L.stage = "held" /\ L.leaving /\ L.thread = "known"
      /\ Becomes(l, L2) /\ UNCHANGED given
      /\ UNCHANGED answered
  BY DEF Unsubscribed, Held
<1>a. answered' \subseteq 1..event
  BY <1>0, <1>1
<1> HIDE DEF L
<1>2. L2 \in LeaseType(event)
  BY <1>0 DEF LeaseType
<1>3. /\ L2.stage = L.stage /\ L2.client = L.client /\ L2.told = L.told
      /\ L2.attached = L.attached /\ L2.thread = "gone" /\ L2.turn = L.turn
      /\ L2.pending = L.pending /\ L2.active = FALSE /\ L2.leaving = L.leaving
      /\ L2.notes = L.notes /\ L2.calls = L.calls
  BY <1>0, Zenon DEF LeaseType
<1> HIDE DEF L2
<1>4. Told(L2)
  BY <1>0, <1>1, <1>3 DEF Told, Gone
<1>5. Kept(L2, given'[l])
  BY <1>0, <1>1, <1>3 DEF Kept
<1> QED
  BY <1>0, <1>1, <1>2, <1>4, <1>5, <1>a, OneLease

LEMMA ReleaseKeepsUsers ==
    ASSUME IInv, NEW l \in Leases, Release(l)
    PROVE  Users'
<1> DEFINE L == lease[l]
           D == Dropped(L)
           L2 == [D EXCEPT !.stage = "released", !.pending = FALSE, !.active = FALSE, !.attached = FALSE]
<1>0. /\ L \in LeaseType(event) /\ Told(L) /\ Kept(L, given[l]) /\ answered \subseteq 1..event
      /\ given \in [Leases -> [came : Seq(1..event), heard : Seq(1..event)]]
  BY UserFacts
<1>1. /\ L.stage = "held"
      /\ Becomes(l, L2) /\ UNCHANGED given
      /\ answered' = answered \cup (Buffered(L) \ Buffered(L2))
  BY DEF Release, AnswersRest, Held
<1>a. answered' \subseteq 1..event
  BY <1>0, <1>1, BufferedType
<1> HIDE DEF L
<1>b. /\ D \in LeaseType(event) /\ D.notes = Nothing /\ D.calls = Nothing
      /\ D.stage = L.stage /\ D.client = L.client /\ D.told = L.told
      /\ D.attached = L.attached /\ D.thread = L.thread /\ D.turn = L.turn
      /\ D.active = L.active /\ D.leaving = L.leaving
  BY <1>0, DroppedType
<1> HIDE DEF D
<1>2. L2 \in LeaseType(event)
  BY <1>b DEF LeaseType
<1>3. /\ L2.stage = "released" /\ L2.client = D.client /\ L2.told = D.told
      /\ L2.attached = FALSE /\ L2.thread = D.thread /\ L2.turn = D.turn
      /\ L2.pending = FALSE /\ L2.active = FALSE /\ L2.leaving = D.leaving
      /\ L2.notes = D.notes /\ L2.calls = D.calls
  BY <1>b, Zenon DEF LeaseType
<1> HIDE DEF L2
<1>4. Told(L2)
  BY <1>0, <1>1, <1>3, <1>b DEF Told, Gone
<1>5. Kept(L2, given'[l])
  BY <1>0, <1>1, <1>3, <1>b DEF Kept
<1> QED
  BY <1>0, <1>1, <1>2, <1>4, <1>5, <1>a, OneLease

LEMMA ThreadEndsKeepsUsers ==
    ASSUME IInv, NEW l \in Leases, ThreadEnds(l)
    PROVE  Users'
<1> DEFINE L == lease[l]
           K == [L EXCEPT !.thread = "known", !.attached = TRUE]
           F == [L EXCEPT !.thread = "failed"]
<1>0. /\ L \in LeaseType(event) /\ Told(L) /\ Kept(L, given[l]) /\ answered \subseteq 1..event
      /\ given \in [Leases -> [came : Seq(1..event), heard : Seq(1..event)]]
  BY UserFacts
<1>1. /\ L.thread = "asked" /\ UNCHANGED <<given, answered>>
      /\ (Usable(l) /\ Becomes(l, K)) \/ Becomes(l, F)
  BY DEF ThreadEnds
<1>a. Usable(l) => L.stage = "held" /\ session.client = L.client /\ L.client \notin closed
  BY DEF Usable, Held
<1>b. ~ L.pending /\ ~ L.active /\ L.turn = "none" /\ given[l].came = <<>>
      /\ given[l].heard = <<>> /\ L.notes = Nothing /\ L.calls = Nothing
  BY <1>0, <1>1 DEF Kept
<1> HIDE DEF L
<1>2. CASE Becomes(l, F)
  <2>1. F \in LeaseType(event)
    BY <1>0 DEF LeaseType
  <2>2. /\ F.thread = "failed" /\ F.stage = L.stage /\ F.client = L.client /\ F.told = L.told
        /\ F.attached = L.attached /\ F.turn = L.turn /\ F.pending = L.pending
        /\ F.active = L.active /\ F.leaving = L.leaving /\ F.notes = L.notes
        /\ F.calls = L.calls
    BY <1>0, Zenon DEF LeaseType
  <2> HIDE DEF F
  <2>3. Told(F)
    BY <1>0, <2>2 DEF Told, Gone
  <2>4. Kept(F, given'[l])
    BY <1>0, <1>1, <2>2 DEF Kept
  <2> QED
    BY <1>0, <1>1, <1>2, <2>1, <2>3, <2>4, OneLease
<1>3. CASE Usable(l) /\ Becomes(l, K)
  <2>1. K \in LeaseType(event)
    BY <1>0 DEF LeaseType
  <2>2. /\ K.thread = "known" /\ K.stage = L.stage /\ K.client = L.client /\ K.told = L.told
        /\ K.attached = TRUE /\ K.turn = L.turn /\ K.pending = L.pending
        /\ K.active = L.active /\ K.leaving = L.leaving /\ K.notes = L.notes
        /\ K.calls = L.calls
    BY <1>0, Zenon DEF LeaseType
  <2> HIDE DEF K
  <2>3. Told(K)
    BY <1>0, <1>3, <1>a, <2>2 DEF Told, Gone
  <2>4. K.notes["own"] = <<>>
    BY <1>b, <2>2, NothingType DEF TurnNames
  <2>5. <<>> = <<>> \o <<>>
    OBVIOUS
  <2>6. Kept(K, given'[l])
    BY <1>1, <1>b, <2>2, <2>4, <2>5 DEF Kept
  <2> QED
    BY <1>0, <1>1, <1>3, <2>1, <2>3, <2>6, OneLease
<1> QED
  BY <1>1, <1>2, <1>3

\* turn/start is answered: what was buffered for the turn is heard, in order, before
\* anything that follows.
LEMMA TurnStartsKeepsUsers ==
    ASSUME IInv, NEW l \in Leases, TurnStarts(l)
    PROVE  Users'
<1> DEFINE L == lease[l]
           D == Dropped(L)
           L2 == [D EXCEPT !.turn = "done", !.pending = FALSE, !.active = TRUE]
           G == given[l]
           G2 == given'[l]
           heard == IF L.attached THEN G.heard \o L.notes["own"] ELSE G.heard
<1>0. /\ L \in LeaseType(event) /\ Told(L) /\ Kept(L, G) /\ answered \subseteq 1..event
      /\ given \in [Leases -> [came : Seq(1..event), heard : Seq(1..event)]]
  BY UserFacts
<1>1. /\ L.turn = "asked" /\ Becomes(l, L2) /\ given' = [given EXCEPT ![l].heard = heard]
      /\ answered' = answered \cup (Buffered(L) \ Buffered(L2))
  BY DEF TurnStarts, AnswersRest, Flushed
<1>2. answered' \subseteq 1..event
  BY <1>0, <1>1, BufferedType
<1>3. G.heard \in Seq(1..event) /\ L.notes["own"] \in Seq(1..event)
  BY <1>0 DEF LeaseType, Buffers, TurnNames
<1>4. heard \in Seq(1..event)
  <2> DEFINE X == 1..event
             q == G.heard
             r == L.notes["own"]
  <2>1. q \in Seq(X) /\ r \in Seq(X)
    BY <1>3
  <2> HIDE DEF X, q, r
  <2>2. q \o r \in Seq(X)
    BY <2>1
  <2> QED
    BY <2>1, <2>2 DEF X, q, r
<1> HIDE DEF heard
<1>5. /\ given' \in [Leases -> [came : Seq(1..event), heard : Seq(1..event)]]
      /\ \A m \in Leases : m # l => given'[m] = given[m]
      /\ G2.came = G.came /\ G2.heard = heard
  BY <1>0, <1>1, <1>4
<1> HIDE DEF L
<1>6. /\ D \in LeaseType(event) /\ D.notes = Nothing /\ D.calls = Nothing
      /\ D.stage = L.stage /\ D.client = L.client /\ D.told = L.told
      /\ D.attached = L.attached /\ D.thread = L.thread /\ D.turn = L.turn
      /\ D.active = L.active /\ D.leaving = L.leaving
  BY <1>0, DroppedType
<1> HIDE DEF D
<1>7. L2 \in LeaseType(event)
  BY <1>6 DEF LeaseType
<1>8. /\ L2.stage = D.stage /\ L2.client = D.client /\ L2.told = D.told
      /\ L2.attached = D.attached /\ L2.thread = D.thread /\ L2.turn = "done"
      /\ L2.pending = FALSE /\ L2.active = TRUE /\ L2.leaving = D.leaving
      /\ L2.notes = D.notes /\ L2.calls = D.calls
  BY <1>6, Zenon DEF LeaseType
<1> HIDE DEF L2, G, G2
<1>9. Told(L2)
  BY <1>0, <1>6, <1>8 DEF Told, Gone
<1>10. L2.notes["own"] = <<>> /\ heard \o <<>> = heard
  BY <1>4, <1>6, <1>8, NothingType DEF TurnNames
<1>11. L.attached /\ ~ L.leaving => G.came = heard
  BY <1>0, <1>1 DEF Kept, heard
<1>12. L.thread \notin {"none", "asked", "failed"}
  BY <1>0, <1>1 DEF Kept
<1>13. Kept(L2, G2)
  BY <1>5, <1>6, <1>8, <1>10, <1>11, <1>12 DEF Kept
<1> QED
  BY <1>1, <1>2, <1>5, <1>7, <1>9, <1>13, OneLease DEF G2

-------------------------------------------------------------------------------
(* The leases: what the server sends *)

HistoryType(n) == [Leases -> [came : Seq(1..n), heard : Seq(1..n)]]

\* An event for one lease.
LEMMA OneEvent ==
    ASSUME IInv, NEW l \in Leases, Speaks(l), NEW L2 \in LeaseType(event'),
           lease' = [lease EXCEPT ![l] = L2], Told(L2),
           given' \in HistoryType(event'), \A m \in Leases : m # l => given'[m] = given[m],
           Kept(L2, given'[l]), answered' \subseteq answered \cup {event'}
    PROVE  Users'
<1>0. /\ UserTypes /\ CoreTypes
      /\ \A m \in Leases : Told(lease[m]) /\ Kept(lease[m], given[m])
  BY DEF IInv, Users, Core
<1>1. /\ UNCHANGED <<session, op, sup, closed>> /\ event < MaxEvents /\ event' = event + 1
  BY DEF Speaks
<1>2. event \in Nat /\ event' \in Nat /\ event <= event' /\ event' \in 0..MaxEvents
  BY <1>0, <1>1 DEF UserTypes
<1>3. lease' \in [Leases -> LeaseType(event')]
  <2>1. \A m \in Leases : lease[m] \in LeaseType(event')
    BY <1>0, <1>2, Wider DEF UserTypes
  <2>2. lease \in [Leases -> LeaseType(event')]
    BY <1>0, <2>1 DEF UserTypes
  <2> QED
    BY <2>2
<1>4. answered' \subseteq 1..event'
  <2>1. answered \subseteq 1..event
    BY <1>0 DEF UserTypes
  <2> QED
    BY <1>1, <1>2, <2>1
<1>5. UserTypes'
  BY <1>2, <1>3, <1>4 DEF UserTypes, HistoryType
<1>6. \A m \in Leases : lease'[m] = IF m = l THEN L2 ELSE lease[m]
  BY <1>0 DEF UserTypes
<1>7. \A m \in Leases : Told(lease'[m]) /\ Kept(lease'[m], given'[m])
  BY <1>0, <1>6
<1>8. \A m \in Leases : Told(lease[m])'
  BY <1>1, <1>7 DEF Told, Gone
<1>9. \A m \in Leases : Kept(lease[m], given[m])'
  BY <1>7
<1> QED
  BY <1>5, <1>8, <1>9 DEF Users

\* What is there of a lease when the server speaks.
LEMMA EventFacts ==
    ASSUME IInv, NEW l \in Leases, Speaks(l)
    PROVE  /\ lease[l] \in LeaseType(event) /\ lease[l] \in LeaseType(event')
           /\ Told(lease[l]) /\ Kept(lease[l], given[l])
           /\ lease = [lease EXCEPT ![l] = lease[l]]
           /\ given \in HistoryType(event')
           /\ event' \in 1..event'
<1>0. /\ UserTypes /\ \A m \in Leases : Told(lease[m]) /\ Kept(lease[m], given[m])
  BY DEF IInv, Users
<1>1. event \in Nat /\ event' \in Nat /\ event <= event' /\ event' \in 1..event'
  BY <1>0 DEF UserTypes, Speaks
<1>2. LeaseType(event) \subseteq LeaseType(event') /\ Seq(1..event) \subseteq Seq(1..event')
  BY <1>1, Wider
<1>3. lease[l] \in LeaseType(event) /\ lease[l] \in LeaseType(event')
      /\ lease = [lease EXCEPT ![l] = lease[l]]
  BY <1>0, <1>2 DEF UserTypes
<1>4. given \in HistoryType(event')
  BY <1>0, <1>2 DEF UserTypes, HistoryType
<1> QED
  BY <1>0, <1>1, <1>3, <1>4

LEMMA AppendConcat ==
    ASSUME NEW X, NEW q \in Seq(X), NEW r \in Seq(X), NEW x \in X
    PROVE  /\ Append(q, x) \in Seq(X)
           /\ Append(q \o r, x) = q \o Append(r, x)
           /\ q \o <<>> = q
OBVIOUS

LEMMA ToolCallKeepsUsers ==
    ASSUME IInv, NEW l \in Leases, NEW t \in TurnNames, ToolCall(l, t)
    PROVE  Users'
<1> DEFINE L == lease[l]
           c == [L.calls EXCEPT ![t] = Append(L.calls[t], event')]
           L2 == [L EXCEPT !.calls = c]
<1>0. Speaks(l) /\ given' = given
  BY DEF ToolCall
<1>1. /\ L \in LeaseType(event') /\ Told(L) /\ Kept(L, given[l])
      /\ lease = [lease EXCEPT ![l] = L] /\ given \in HistoryType(event')
      /\ event' \in 1..event'
  BY <1>0, EventFacts
<1>2. CASE ToBuffer(l, t)
  <2>1. lease' = lease \/ lease' = [lease EXCEPT ![l] = L2]
    BY DEF ToolCall
  <2>2. L.pending /\ answered' \subseteq answered \cup {event'}
    BY <1>2 DEF ToBuffer, ToolCall
  <2>3. c \in Buffers(event')
    <3> DEFINE X == 1..event'
    <3>1. L.calls \in [TurnNames -> Seq(X)] /\ event' \in X
      BY <1>1 DEF LeaseType, Buffers
    <3> HIDE DEF X, L
    <3>2. Append(L.calls[t], event') \in Seq(X)
      BY <3>1, AppendConcat
    <3>3. c \in [TurnNames -> Seq(X)]
      BY <3>1, <3>2
    <3> QED
      BY <3>3 DEF Buffers, X
  <2> HIDE DEF L, c
  <2>4. L2 \in LeaseType(event')
    BY <1>1, <2>3 DEF LeaseType
  <2>5. /\ L2.stage = L.stage /\ L2.client = L.client /\ L2.told = L.told
        /\ L2.attached = L.attached /\ L2.thread = L.thread /\ L2.turn = L.turn
        /\ L2.pending = L.pending /\ L2.active = L.active /\ L2.leaving = L.leaving
        /\ L2.notes = L.notes
    BY <1>1, Zenon DEF LeaseType
  <2> HIDE DEF L2
  <2>6. Told(L2)
    BY <1>1, <2>5 DEF Told, Gone
  <2>7. Kept(L2, given'[l])
    BY <1>0, <1>1, <2>2, <2>5 DEF Kept
  <2>8. CASE lease' = lease
    BY <1>0, <1>1, <2>2, <2>8, OneEvent
  <2>9. CASE lease' = [lease EXCEPT ![l] = L2]
    BY <1>0, <1>1, <2>2, <2>4, <2>6, <2>7, <2>9, OneEvent
  <2> QED
    BY <2>1, <2>8, <2>9
<1>3. CASE ~ ToBuffer(l, t)
  <2>1. lease' = lease /\ answered' \subseteq answered \cup {event'}
    BY <1>3 DEF ToolCall
  <2> QED
    BY <1>0, <1>1, <2>1, OneEvent
<1> QED
  BY <1>2, <1>3

LEMMA NotificationKeepsUsers ==
    ASSUME IInv, NEW l \in Leases, NEW t \in TurnNames, Notification(l, t)
    PROVE  Users'
<1> DEFINE L == lease[l]
           G == given[l]
           X == 1..event'
           n == [L.notes EXCEPT ![t] = Append(L.notes[t], event')]
           L2 == [L EXCEPT !.notes = n]
           came == IF (ToHandlers(l, t) \/ ToBuffer(l, t)) /\ t = "own"
                   THEN Append(G.came, event') ELSE G.came
           heard == IF ToHandlers(l, t) /\ L.attached
                    THEN Append(G.heard, event') ELSE G.heard
           G2 == [came |-> came, heard |-> heard]
<1>0. /\ Speaks(l) /\ UNCHANGED answered
      /\ lease' = IF ToBuffer(l, t) THEN [lease EXCEPT ![l] = L2] ELSE lease
      /\ given' = [given EXCEPT ![l] = G2]
  BY DEF Notification
<1>1. /\ L \in LeaseType(event') /\ Told(L) /\ Kept(L, G)
      /\ lease = [lease EXCEPT ![l] = L] /\ given \in HistoryType(event')
      /\ event' \in X
  BY <1>0, EventFacts
<1>2. /\ G.came \in Seq(X) /\ G.heard \in Seq(X) /\ "own" \in TurnNames
      /\ L.notes \in [TurnNames -> Seq(X)]
  BY <1>1 DEF HistoryType, LeaseType, Buffers, TurnNames
<1>3. /\ ToHandlers(l, t) => t = "own" /\ L.active /\ ~ ToBuffer(l, t)
      /\ ToBuffer(l, t) => L.pending
      /\ ToHandlers(l, t) \/ ToBuffer(l, t) => L.stage = "held" /\ L.thread = "known"
  BY DEF ToHandlers, ToBuffer, Candidate, Held
<1> HIDE DEF X
<1>4. /\ Append(G.came, event') \in Seq(X) /\ Append(G.heard, event') \in Seq(X)
      /\ Append(L.notes[t], event') \in Seq(X) /\ L.notes["own"] \in Seq(X)
      /\ G.came \o <<>> = G.came /\ G.heard \o <<>> = G.heard
      /\ Append(G.heard, event') \o <<>> = Append(G.heard, event')
      /\ Append(G.heard \o L.notes["own"], event') = G.heard \o Append(L.notes["own"], event')
  <2> HIDE DEF L, G
  <2>1. /\ Append(G.came, event') \in Seq(X) /\ Append(G.heard, event') \in Seq(X)
        /\ Append(L.notes[t], event') \in Seq(X) /\ L.notes["own"] \in Seq(X)
        /\ G.came \o <<>> = G.came /\ G.heard \o <<>> = G.heard
    BY <1>1, <1>2, AppendConcat
  <2>2. Append(G.heard, event') \o <<>> = Append(G.heard, event')
    BY <1>1, <2>1, AppendConcat
  <2>3. Append(G.heard \o L.notes["own"], event') = G.heard \o Append(L.notes["own"], event')
    <3> DEFINE q == G.heard
               r == L.notes["own"]
    <3>1. q \in Seq(X) /\ r \in Seq(X) /\ event' \in X
      BY <1>1, <1>2, <2>1
    <3> HIDE DEF q, r
    <3>2. \A x \in X : Append(q \o r, x) = q \o Append(r, x)
      BY <3>1
    <3> QED
      BY <3>1, <3>2 DEF q, r
  <2> QED
    BY <2>1, <2>2, <2>3
<1>5. came \in Seq(X) /\ heard \in Seq(X)
  BY <1>2, <1>4
<1> HIDE DEF came, heard
<1>6. /\ given' \in HistoryType(event') /\ \A m \in Leases : m # l => given'[m] = given[m]
      /\ given'[l].came = came /\ given'[l].heard = heard
  BY <1>0, <1>1, <1>5 DEF HistoryType, X
<1> HIDE DEF L, G, G2
<1>7. CASE ToBuffer(l, t)
  <2>1. n \in [TurnNames -> Seq(X)] /\ n["own"] = IF t = "own" THEN Append(L.notes["own"], event')
                                                  ELSE L.notes["own"]
    BY <1>2, <1>4
  <2>2. n \in Buffers(event')
    BY <2>1 DEF Buffers, X
  <2> HIDE DEF n
  <2>3. L2 \in LeaseType(event')
    BY <1>1, <2>2 DEF LeaseType
  <2>4. /\ L2.stage = L.stage /\ L2.client = L.client /\ L2.told = L.told
        /\ L2.attached = L.attached /\ L2.thread = L.thread /\ L2.turn = L.turn
        /\ L2.pending = L.pending /\ L2.active = L.active /\ L2.leaving = L.leaving
        /\ L2.calls = L.calls
    BY <1>1, Zenon DEF LeaseType
  <2>5. L2.notes = n
    BY <1>1 DEF LeaseType
  <2> HIDE DEF L2
  <2>6. Told(L2)
    BY <1>1, <2>4 DEF Told, Gone
  <2>7. /\ heard = G.heard
        /\ came = IF t = "own" THEN Append(G.came, event') ELSE G.came
    BY <1>3, <1>7 DEF came, heard, L, G
  <2>8. L.attached /\ L.turn # "failed" /\ ~ L.leaving => came = heard \o n["own"]
    BY <1>1, <1>4, <2>1, <2>7 DEF Kept
  <2>9. Kept(L2, given'[l])
    BY <1>1, <1>3, <1>6, <1>7, <2>4, <2>5, <2>8 DEF Kept
  <2>10. lease' = [lease EXCEPT ![l] = L2]
    BY <1>0, <1>7
  <2> QED
    BY <1>0, <1>6, <2>3, <2>6, <2>9, <2>10, OneEvent
<1>8. CASE ~ ToBuffer(l, t)
  <2>1. L.attached /\ L.turn # "failed" /\ ~ L.leaving => came = heard \o L.notes["own"]
    <3>1. CASE ToHandlers(l, t)
      <4>1. L.notes["own"] = <<>>
        BY <1>1, <1>2, <1>3, <3>1, NothingType DEF Kept
      <4>2. came = Append(G.came, event')
        BY <1>3, <3>1 DEF came
      <4>3. L.attached => heard = Append(G.heard, event')
        BY <3>1 DEF heard, L, G
      <4> QED
        BY <1>1, <1>4, <4>1, <4>2, <4>3 DEF Kept
    <3>2. CASE ~ ToHandlers(l, t)
      <4>1. came = G.came /\ heard = G.heard
        BY <1>8, <3>2 DEF came, heard
      <4> QED
        BY <1>1, <4>1 DEF Kept
    <3> QED
      BY <3>1, <3>2
  <2>2. L.thread \in {"none", "asked", "failed"} => came = <<>> /\ heard = <<>>
    BY <1>1, <1>3 DEF Kept, came, heard
  <2>3. Kept(L, given'[l])
    BY <1>1, <1>6, <2>1, <2>2 DEF Kept
  <2>4. lease' = [lease EXCEPT ![l] = L]
    BY <1>0, <1>1, <1>8
  <2> QED
    BY <1>0, <1>1, <1>6, <2>3, <2>4, OneEvent
<1> QED
  BY <1>7, <1>8

-------------------------------------------------------------------------------
(* The invariant and what follows from it *)

LEMMA InitUsers == Init => Users
<1> SUFFICES ASSUME Init PROVE Users
  OBVIOUS
<1> DEFINE G == [came |-> <<>>, heard |-> <<>>]
<1>1. \A l \in Leases : lease[l] = NewLease /\ given[l] = G
  BY DEF Init
<1>2. /\ event = 0 /\ answered = {} /\ event \in 0..MaxEvents
      /\ session.client = 0 /\ sup.child = 0 /\ sup.next = 1 /\ closed = {}
  BY DEF Init
<1>3. NewLease \in LeaseType(event)
  <2>1. 0 \in 0..MaxClients /\ Nothing \in Buffers(event)
    BY NothingType
  <2> QED
    BY <2>1, OpNames DEF NewLease, LeaseType
<1>4. lease = [l \in Leases |-> NewLease] /\ given = [l \in Leases |-> G]
  BY DEF Init
<1>5. G \in [came : Seq(1..event), heard : Seq(1..event)]
  OBVIOUS
<1>6. UserTypes
  BY <1>2, <1>3, <1>4, <1>5 DEF UserTypes
<1>7. Told(NewLease)
  BY <1>2 DEF Told, Gone, NewLease
<1>8. Kept(NewLease, G)
  BY DEF Kept, NewLease
<1> QED
  BY <1>1, <1>6, <1>7, <1>8 DEF Users

LEMMA StutterKeepsUsers ==
    ASSUME Users, UNCHANGED vars
    PROVE  Users'
<1>1. UNCHANGED <<session, sup, closed, lease, event, given, answered>>
  BY DEF vars
<1>2. UserTypes'
  BY <1>1 DEF Users, UserTypes
<1>3. \A l \in Leases : Told(lease[l])' /\ Kept(lease[l], given[l])'
  BY <1>1 DEF Users, Told, Gone, Kept
<1> QED
  BY <1>2, <1>3 DEF Users

LEMMA IInvStep == IInv /\ [Next]_vars => IInv'
<1> SUFFICES ASSUME IInv, [Next]_vars, Core' PROVE Users'
  BY CoreStep DEF IInv
<1>0. Core'
  OBVIOUS
<1>1. ASSUME NEW k \in Ops, StartEnds(k) \/ Probed(k) PROVE Users'
  BY <1>1, StartEndsKeepsUsers, ProbedKeepsUsers
<1>2. ASSUME NEW k \in Ops, NEW inc \in BOOLEAN, HandshakeFails(k, inc) PROVE Users'
  BY <1>2, HandshakeFailsKeepsUsers
<1>3. ASSUME NEW k \in Ops, StartFails(k) \/ Reported(k) \/ Initialized(k) PROVE Users'
  BY <1>0, <1>3, EndsKeepsUsers
<1>4. CASE Restart \/ StopEnds \/ DisposeEnds \/ (RestartGoesOn /\ Disposed)
  BY <1>0, <1>4, EndsKeepsUsers
<1>5. CASE Dispose \/ FoundClosed \/ (RestartGoesOn /\ ~ Disposed)
  BY <1>5, ClearingKeepsUsers
<1>6. CASE StopCommand \/ ClientCloses
  BY <1>6, ClosingKeepsUsers
<1>7. CASE Initialize
  BY <1>7, InitializeKeepsUsers
<1>8. ASSUME NEW l \in Leases,
             \/ Acquire(l) \/ StartThread(l) \/ ThreadEnds(l) \/ StartTurn(l) \/ TurnStarts(l)
             \/ TurnFails(l) \/ Detach(l) \/ Unsubscribe(l) \/ Unsubscribed(l) \/ Release(l)
      PROVE  Users'
  BY <1>8, AcquireKeepsUsers, StartThreadKeepsUsers, ThreadEndsKeepsUsers,
     StartTurnKeepsUsers, TurnStartsKeepsUsers, TurnFailsKeepsUsers, DetachKeepsUsers,
     UnsubscribeKeepsUsers, UnsubscribedKeepsUsers, ReleaseKeepsUsers
<1>9. ASSUME NEW l \in Leases, NEW t \in TurnNames, Notification(l, t) \/ ToolCall(l, t)
      PROVE  Users'
  BY <1>9, NotificationKeepsUsers, ToolCallKeepsUsers
<1>10. CASE UNCHANGED vars
  BY <1>10, StutterKeepsUsers DEF IInv
<1> QED
  BY <1>0, <1>1, <1>2, <1>3, <1>4, <1>5, <1>6, <1>7, <1>8, <1>9, <1>10
     DEF Next, Progress

\* The whole invariant, session and leases.
THEOREM Invariant == Spec => []IInv
<1>1. Init => IInv
  BY InitCore, InitUsers DEF IInv
<1> QED
  BY <1>1, IInvStep, PTL DEF Spec

\* The session's fields and its leases have their types, and an initialization and a
\* restart never talk to clients at once (initializeInternal, restartInternal).
THEOREM TypeCorrect == Spec => []TypeOK
<1>1. IInv => TypeOK
  <2> SUFFICES ASSUME IInv PROVE TypeOK
    OBVIOUS
  <2>1. Core /\ CoreTypes /\ UserTypes /\ Joins
    BY DEF IInv, Core, Users
  <2>2. /\ sup.child \in 0..MaxClients /\ sup.next \in 1..MaxClients + 1
        /\ sup.stopping \in BOOLEAN
    BY <2>1, Zenon DEF CoreTypes, SupType
  <2>3. \A l \in Leases : /\ lease[l].stage \in {"new", "joining", "held", "released", "refused"}
                          /\ lease[l].told \in {"no", "heard", "unheard"}
    BY <2>1 DEF UserTypes, LeaseType
  <2>4. /\ ~ (Handshaking("init") /\ Handshaking("restart"))
        /\ \A k \in Ops : Handshaking(k) /\ ~ Disposed =>
             session.handlers = op[k].client /\ session.client = 0
    BY <2>1 DEF Joins, Active, Handshaking
  <2> QED
    BY <2>1, <2>2, <2>3, <2>4 DEF TypeOK, CoreTypes, SessionType, UserTypes
<1> QED
  BY <1>1, Invariant, PTL

\* Every listening user of a lease whose client is gone has been told, and none is told
\* for another generation's process (notifyTransportProcessExit, clearInitializedState,
\* the generation checks of the termination handler).
THEOREM ExitIsHeard == Spec => []EveryLeaseHearsExit
<1>1. IInv => EveryLeaseHearsExit
  BY DEF IInv, Users, Told, Gone, EveryLeaseHearsExit
<1> QED
  BY <1>1, Invariant, PTL

\* What the server sends before turn/start answers is neither lost nor reordered, and
\* a buffered tool call has a turn/start in flight that will settle it
\* (dispatchTransportNotification, dispatchTransportToolCall, flushPreResponseEvents).
THEOREM EventsKept == Spec => []NoEventLost
<1>1. IInv => NoEventLost
  <2> SUFFICES ASSUME IInv, NEW l \in Leases
               PROVE  /\ Buffered(lease[l]) # {} =>
                           Held(l) /\ lease[l].pending /\ lease[l].turn = "asked"
                      /\ lease[l].attached /\ lease[l].turn # "failed" /\ ~ lease[l].leaving
                           => given[l].came = given[l].heard \o lease[l].notes["own"]
    BY DEF NoEventLost
  <2>1. Kept(lease[l], given[l])
    BY DEF IInv, Users
  <2>2. lease[l].calls = Nothing => Buffered(lease[l]) = {}
    BY NothingType DEF Buffered, ToSet
  <2> QED
    BY <2>1, <2>2 DEF Kept, Held
<1> QED
  BY <1>1, Invariant, PTL

===============================================================================
