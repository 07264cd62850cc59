------------------------- MODULE ProcessSupervisorProofs -------------------------
(***************************************************************************)
(* Proofs about ProcessSupervisor for any number of callers and children.   *)
(* Sound(S) collects what holds of the supervisor's fields between any two  *)
(* steps; each operation on the fields keeps it, hence each action does.    *)
(***************************************************************************)
EXTENDS ProcessSupervisor, TLAPS

Fields == [ rec : [Generations -> Record], current : 0..MaxGen, next : 1..MaxGen + 1,
            failures : Nat, breaker : BOOLEAN ]

\* One child: a process is that of the current record, which has not exited; a
\* spawn that settled and no exit mean a process; an open client has a process and
\* no termination has begun.
SoundRecord(R) ==
    /\ R.alive => ~ R.exited /\ R.state # "none"
    /\ R.settled /\ ~ R.exited => R.alive
    /\ R.client = "open" => R.alive /\ R.state = "running" /\ R.term = "none"

Sound(S) ==
    /\ S \in Fields
    /\ \A n \in Generations : SoundRecord(S.rec[n])
    /\ \A n \in Generations : S.rec[n].alive => S.current = n

InFlight ==
    /\ starting.rec \in 0..MaxGen
    /\ starting.stage \in {"clearing", "spawned", "failing"} => starting.rec \in Generations

IInv == Sound(sup) /\ InFlight

-------------------------------------------------------------------------------
(* The operations on the fields *)

\* Replacing the record of one child keeps Sound if the new record is sound and does
\* not come alive.
LEMMA SoundUpdate ==
    ASSUME NEW S, Sound(S), NEW n \in Generations, NEW R \in Record,
           SoundRecord(R), R.alive => S.rec[n].alive
    PROVE  Sound([S EXCEPT !.rec[n] = R])
<1> DEFINE T == [S EXCEPT !.rec[n] = R]
<1>1. T \in Fields
  BY DEF Sound, Fields
<1>2. \A m \in Generations : T.rec[m] = IF m = n THEN R ELSE S.rec[m]
  BY DEF Sound, Fields
<1>3. T.current = S.current
  BY DEF Sound, Fields
<1> QED
  BY <1>1, <1>2, <1>3 DEF Sound

\* recordFailure keeps Sound.
LEMMA RecordFailureSound ==
    ASSUME NEW S, Sound(S), NEW n \in 0..MaxGen
    PROVE  /\ Sound(RecordFailure(S, n))
           /\ RecordFailure(S, n).current = S.current
           /\ RecordFailure(S, n).next = S.next
           /\ \A m \in Generations : RecordFailure(S, n).rec[m].alive = S.rec[m].alive
<1>1. CASE n # 0 /\ (S.rec[n].intentional \/ S.rec[n].counted)
  BY <1>1 DEF RecordFailure
<1>2. CASE ~ (n # 0 /\ (S.rec[n].intentional \/ S.rec[n].counted))
  <2> DEFINE T == [S EXCEPT !.failures = @ + 1,
                   !.breaker = @ \/ S.failures + 1 >= 2,
                   !.rec = [m \in Generations |->
                        IF m = n THEN [@[m] EXCEPT !.counted = TRUE] ELSE @[m]]]
  <2>1. RecordFailure(S, n) = T
    BY <1>2 DEF RecordFailure
  <2>2. \A m \in Generations :
           T.rec[m] = IF m = n THEN [S.rec[m] EXCEPT !.counted = TRUE] ELSE S.rec[m]
    BY DEF Sound, Fields
  <2>3. \A m \in Generations :
           /\ T.rec[m] \in Record
           /\ SoundRecord(T.rec[m])
           /\ T.rec[m].alive = S.rec[m].alive
    <3> TAKE m \in Generations
    <3> DEFINE O == S.rec[m]
               R == [O EXCEPT !.counted = TRUE]
    <3>1. O \in Record /\ SoundRecord(O)
      BY DEF Sound, Fields
    <3>2. R \in Record
      BY <3>1 DEF Record
    <3>3. SoundRecord(R) /\ R.alive = O.alive
      BY <3>1 DEF Record, SoundRecord
    <3> QED
      BY <2>2, <3>1, <3>2, <3>3
  <2>4. /\ T.current = S.current /\ T.next = S.next
        /\ T.failures \in Nat /\ T.breaker \in BOOLEAN
    BY DEF Sound, Fields
  <2>5. T \in Fields
    BY <2>3, <2>4 DEF Sound, Fields
  <2> QED
    BY <2>1, <2>3, <2>4, <2>5 DEF Sound
<1> QED
  BY <1>1, <1>2

\* terminateRecord keeps Sound.
LEMMA TerminateRecordSound ==
    ASSUME NEW S, Sound(S), NEW n \in Generations, NEW intentional \in BOOLEAN
    PROVE  /\ Sound(TerminateRecord(S, n, intentional))
           /\ TerminateRecord(S, n, intentional).current = S.current
           /\ \A m \in Generations :
                TerminateRecord(S, n, intentional).rec[m].alive = S.rec[m].alive
<1>1. CASE S.rec[n].term # "none"
  BY <1>1 DEF TerminateRecord
<1>2. CASE S.rec[n].term = "none"
  <2> DEFINE O == S.rec[n]
             R == Terminating(O, intentional)
  <2>1. TerminateRecord(S, n, intentional) = [S EXCEPT !.rec[n] = R]
    BY <1>2 DEF TerminateRecord
  <2>2. O \in Record /\ SoundRecord(O)
    BY DEF Sound, Fields
  <2>a. O.intentional \/ intentional \in BOOLEAN
    OBVIOUS
  <2>3. R \in Record /\ R.alive = O.alive /\ SoundRecord(R)
    <3>1. R \in Record
      BY <2>2, <2>a DEF Record, Terminating
    <3>2. R.alive = O.alive /\ SoundRecord(R)
      BY <2>2 DEF Record, SoundRecord, Terminating
    <3> QED
      BY <3>1, <3>2
  <2>4. Sound([S EXCEPT !.rec[n] = R])
    BY <2>3, SoundUpdate
  <2>5. /\ [S EXCEPT !.rec[n] = R].current = S.current
        /\ \A m \in Generations : [S EXCEPT !.rec[n] = R].rec[m].alive = S.rec[m].alive
    BY <2>3 DEF Sound, Fields
  <2> QED
    BY <2>1, <2>4, <2>5
<1> QED
  BY <1>1, <1>2

\* Counting a failure and terminating the child keeps Sound.
LEMMA FailingSound ==
    ASSUME NEW S, Sound(S), NEW n \in Generations
    PROVE  /\ Sound(Failing(S, n))
           /\ Failing(S, n).current = S.current
           /\ \A m \in Generations : Failing(S, n).rec[m].alive = S.rec[m].alive
<1> DEFINE T == RecordFailure(S, n)
<1>1. n \in 0..MaxGen
  BY DEF Generations
<1>2. /\ Sound(T) /\ T.current = S.current
      /\ \A m \in Generations : T.rec[m].alive = S.rec[m].alive
  BY <1>1, RecordFailureSound
<1> HIDE DEF T
<1>3. /\ Sound(TerminateRecord(T, n, FALSE))
      /\ TerminateRecord(T, n, FALSE).current = T.current
      /\ \A m \in Generations : TerminateRecord(T, n, FALSE).rec[m].alive = T.rec[m].alive
  BY <1>2, TerminateRecordSound
<1>4. Failing(S, n) = TerminateRecord(T, n, FALSE)
  BY DEF Failing, T
<1> QED
  BY <1>2, <1>3, <1>4

\* Dropping a record whose process is gone keeps Sound.
LEMMA DroppedSound ==
    ASSUME NEW S, Sound(S), NEW n \in Generations, ~ S.rec[n].alive
    PROVE  Sound(Dropped(S, n))
<1>1. /\ Dropped(S, n).rec = S.rec
      /\ Dropped(S, n).current = IF S.current = n THEN 0 ELSE S.current
      /\ Dropped(S, n) \in Fields
  BY SupervisorAssumption DEF Dropped, Sound, Fields
<1> QED
  BY <1>1 DEF Sound

-------------------------------------------------------------------------------
(* The invariant *)

LEMMA InitIInv == Init => IInv
<1> SUFFICES ASSUME Init PROVE IInv
  OBVIOUS
<1>1. NoRecord \in Record /\ SoundRecord(NoRecord) /\ ~ NoRecord.alive
  BY DEF NoRecord, Record, SoundRecord
<1>2. sup \in Fields
  BY <1>1, SupervisorAssumption DEF Init, Fields
<1>3. \A n \in Generations : sup.rec[n] = NoRecord
  BY DEF Init
<1>4. InFlight
  BY SupervisorAssumption DEF Init, InFlight
<1> QED
  BY <1>1, <1>2, <1>3, <1>4 DEF IInv, Sound

\* A spawn, which happens only without a current child, keeps the invariant.
LEMMA SpawnsIInv ==
    ASSUME IInv, sup.current = 0, Spawns
    PROVE  IInv'
<1> USE SupervisorAssumption
<1>1. CASE sup' = RecordFailure(sup, 0) /\ starting' = [stage |-> "rejected", rec |-> 0]
  <2>1. Sound(sup')
    BY <1>1, RecordFailureSound DEF IInv
  <2>2. InFlight'
    BY <1>1 DEF InFlight
  <2> QED
    BY <2>1, <2>2 DEF IInv
<1>2. ASSUME sup.next <= MaxGen, NEW ok \in BOOLEAN, NEW broken \in BOOLEAN,
             sup' = [sup EXCEPT
                !.rec[sup.next] = [NoRecord EXCEPT !.state = "starting", !.alive = ok,
                                                   !.broken = broken],
                !.current = sup.next, !.next = @ + 1],
             starting' = [stage |-> "spawned", rec |-> sup.next]
      PROVE  IInv'
  <2> DEFINE k == sup.next
             R == [NoRecord EXCEPT !.state = "starting", !.alive = ok, !.broken = broken]
  <2>1. k \in Generations /\ sup \in Fields
    BY <1>2 DEF IInv, Sound, Fields, Generations
  <2>2. R \in Record /\ SoundRecord(R)
    BY DEF NoRecord, Record, SoundRecord
  <2>3. /\ sup' \in Fields /\ sup'.current = k
        /\ \A m \in Generations : sup'.rec[m] = IF m = k THEN R ELSE sup.rec[m]
    <3> HIDE DEF R
    <3>1. sup' = [sup EXCEPT !.rec[k] = R, !.current = k, !.next = k + 1]
      BY <1>2 DEF R
    <3>2. k \in 1..MaxGen /\ k + 1 \in 1..MaxGen + 1
      BY <2>1 DEF Generations
    <3>3. sup'.rec = [sup.rec EXCEPT ![k] = R]
      BY <3>1, <2>1 DEF Fields
    <3>4. sup'.current = k /\ sup'.next = k + 1
      BY <3>1, <2>1 DEF Fields
    <3>5. sup'.rec \in [Generations -> Record]
      BY <3>3, <2>1, <2>2 DEF Fields
    <3>6. sup' \in Fields
      <4>1. k \in 0..MaxGen
        BY <3>2
      <4> DEFINE F == [sup.rec EXCEPT ![k] = R]
      <4>2. F \in [Generations -> Record]
        BY <3>3, <3>5
      <4> HIDE DEF F, Generations, Record
      <4>3. [sup EXCEPT !.rec = F, !.current = k, !.next = k + 1] \in Fields
        BY <4>1, <4>2, <3>2, <2>1 DEF Fields
      <4>4. sup' = [sup EXCEPT !.rec = F, !.current = k, !.next = k + 1]
        BY <3>1 DEF F
      <4> QED
        BY <4>3, <4>4
    <3>7. \A m \in Generations : sup'.rec[m] = IF m = k THEN R ELSE sup.rec[m]
      BY <3>3, <2>1 DEF Fields
    <3> QED
      BY <3>4, <3>6, <3>7
  <2>4. \A m \in Generations : ~ sup.rec[m].alive
    BY DEF IInv, Sound, Generations
  <2>5. Sound(sup')
    BY <2>2, <2>3, <2>4 DEF IInv, Sound
  <2>6. InFlight'
    BY <1>2, <2>1 DEF InFlight, Generations
  <2> QED
    BY <2>5, <2>6 DEF IInv
<1> QED
  BY <1>1, <1>2 DEF Spawns

\* start(), whichever branch it takes, keeps the invariant.
LEMMA StartIInv ==
    ASSUME IInv, NEW S, StartNow(S) \/ Start(S)
    PROVE  IInv'
<1> USE SupervisorAssumption
<1>1. ASSUME StartInternal PROVE IInv'
  <2>1. CASE sup.current = 0
    BY <1>1, <2>1, SpawnsIInv DEF StartInternal
  <2>2. CASE sup.current # 0
    <3>1. sup.current \in Generations
      BY <2>2 DEF IInv, Sound, Fields, Generations
    <3>2. Sound(sup')
      BY <1>1, <2>2, <3>1, TerminateRecordSound DEF StartInternal, IInv
    <3>3. InFlight'
      BY <1>1, <2>2, <3>1 DEF StartInternal, InFlight, Generations
    <3> QED
      BY <3>2, <3>3 DEF IInv
  <2> QED
    BY <2>1, <2>2
<1>2. ASSUME UNCHANGED <<sup, starting>> PROVE IInv'
  BY <1>2 DEF IInv, InFlight
<1> QED
  BY <1>1, <1>2 DEF Start, StartNow

\* stop() keeps the invariant.
LEMMA StopIInv ==
    ASSUME IInv, NEW S, Sound(S), Stop(S), UNCHANGED starting
    PROVE  IInv'
<1>1. S.current # 0 => S.current \in Generations
  BY SupervisorAssumption DEF Sound, Fields, Generations
<1>2. Sound(sup')
  BY <1>1, TerminateRecordSound DEF Stop
<1> QED
  BY <1>2 DEF IInv, InFlight

LEMMA NextIInv == IInv /\ [Next]_vars => IInv'
<1> SUFFICES ASSUME IInv, [Next]_vars PROVE IInv'
  OBVIOUS
<1> USE SupervisorAssumption
<1>0. UNCHANGED starting => InFlight'
  BY DEF IInv, InFlight
<1>u. ASSUME UNCHANGED <<sup, starting>> PROVE IInv'
  BY <1>u DEF IInv, InFlight
<1>n. \A n \in Generations : n \in 0..MaxGen /\ n # 0
  BY DEF Generations
<1>r. ASSUME NEW n \in Generations
      PROVE  sup.rec[n] \in Record /\ SoundRecord(sup.rec[n])
  BY DEF IInv, Sound, Fields
\* The step replaces the record of one child.
<1>w. ASSUME NEW n \in Generations, NEW R \in Record, SoundRecord(R),
             R.alive => sup.rec[n].alive, sup' = [sup EXCEPT !.rec[n] = R],
             UNCHANGED starting
      PROVE  IInv'
  BY <1>w, <1>0, SoundUpdate DEF IInv
<1>1. ASSUME NEW c \in Calls, CallStart(c) PROVE IInv'
  BY <1>1, StartIInv DEF CallStart
<1>2. ASSUME NEW c \in Calls, CallStop(c) PROVE IInv'
  BY <1>2, StopIInv DEF CallStop, IInv
<1>3. ASSUME NEW c \in Calls, CallRestart(c) PROVE IInv'
  <2>1. Sound([sup EXCEPT !.breaker = FALSE, !.failures = 0])
    BY DEF IInv, Sound, Fields
  <2> QED
    BY <1>3, <2>1, StopIInv DEF CallRestart
<1>4. ASSUME NEW c \in Calls, RestartStarts(c) PROVE IInv'
  BY <1>4, StartIInv DEF RestartStarts
<1>5. CASE Cleared
  <2>1. CASE UNCHANGED sup /\ starting' = [stage |-> "rejected", rec |-> 0]
    BY <2>1 DEF IInv, InFlight
  <2>2. CASE Spawns /\ sup.current = 0
    BY <2>2, SpawnsIInv
  <2> QED
    BY <1>5, <2>1, <2>2 DEF Cleared
<1>6. CASE SpawnChecked
  <2> DEFINE n == starting.rec
             R == [sup.rec[n] EXCEPT !.client = "open", !.state = "running"]
  <2>1. n \in Generations
    BY <1>6 DEF SpawnChecked, IInv, InFlight
  <2>2. starting' \in {[starting EXCEPT !.stage = "resolved"],
                       [starting EXCEPT !.stage = "failing"]}
    BY <1>6 DEF SpawnChecked
  <2>3. InFlight'
    <3>1. starting'.rec = n \/ starting' = [starting EXCEPT !.stage = "resolved"]
                            \/ starting' = [starting EXCEPT !.stage = "failing"]
      BY <2>2
    <3>2. CASE starting' = [starting EXCEPT !.stage = "resolved"]
      BY <3>2, <2>1, <1>n, <1>6 DEF InFlight, IInv, SpawnChecked
    <3>3. CASE starting' = [starting EXCEPT !.stage = "failing"]
      BY <3>3, <2>1, <1>n, <1>6 DEF InFlight, IInv, SpawnChecked
    <3> QED
      BY <2>2, <3>2, <3>3
  <2>4. CASE /\ sup' = [sup EXCEPT !.rec[n].client = "open", !.rec[n].state = "running"]
             /\ ~ sup.rec[n].exited /\ sup.rec[n].term = "none"
    <3>1. sup' = [sup EXCEPT !.rec[n] = R]
      BY <2>1, <2>4, <1>r DEF IInv, Sound, Fields, Record
    <3>2. sup.rec[n].settled
      BY <1>6 DEF SpawnChecked
    <3> DEFINE O == sup.rec[n]
    <3>a. O \in Record /\ O.alive /\ ~ O.exited /\ O.term = "none"
      BY <2>1, <2>4, <3>2, <1>r DEF SoundRecord
    <3> HIDE DEF O
    <3>b. [O EXCEPT !.client = "open", !.state = "running"] \in Record
      BY <3>a DEF Record
    <3>c. SoundRecord([O EXCEPT !.client = "open", !.state = "running"])
      BY <3>a DEF Record, SoundRecord
    <3>d. [O EXCEPT !.client = "open", !.state = "running"].alive = O.alive
      BY <3>a DEF Record
    <3>3. R \in Record /\ SoundRecord(R) /\ R.alive = sup.rec[n].alive
      BY <3>b, <3>c, <3>d DEF O
    <3>4. Sound(sup')
      BY <2>1, <3>1, <3>3, SoundUpdate DEF IInv
    <3> QED
      BY <2>3, <3>4 DEF IInv
  <2>5. CASE sup' = Failing(sup, n)
    BY <2>1, <2>3, <2>5, FailingSound DEF IInv
  <2> QED
    BY <1>6, <2>4, <2>5 DEF SpawnChecked
<1>7. CASE StartFailed
  BY <1>7 DEF StartFailed, IInv, InFlight
<1>8. CASE StartSettles
  BY <1>8 DEF StartSettles, IInv, InFlight
<1>9. CASE StopSettles
  BY <1>9, <1>u DEF StopSettles
<1>10. CASE LaterStarts
  BY <1>10, <1>u, StartIInv DEF LaterStarts
<1>11. ASSUME NEW n \in Generations, Spawned(n) PROVE IInv'
  <2> DEFINE R == [sup.rec[n] EXCEPT !.settled = TRUE]
  <2>1. sup' = [sup EXCEPT !.rec[n] = R] /\ UNCHANGED starting
    BY <1>11, <1>r DEF Spawned, IInv, Sound, Fields, Record
  <2>2. R \in Record /\ SoundRecord(R) /\ R.alive = sup.rec[n].alive
    BY <1>11, <1>r DEF Spawned, Record, SoundRecord
  <2> QED
    BY <2>1, <2>2, <1>w
<1>12. ASSUME NEW n \in Generations, SpawnError(n) PROVE IInv'
  <2> DEFINE S == IF Unheard(n) THEN sup ELSE Failing(sup, n)
             R == [S.rec[n] EXCEPT !.settled = TRUE, !.exited = TRUE, !.state = "exited"]
             T == [S EXCEPT !.rec[n] = R]
  <2>1. Sound(S) /\ ~ S.rec[n].alive
    BY <1>12, FailingSound DEF SpawnError, IInv
  <2>2. sup' = Dropped(T, n) /\ UNCHANGED starting
    BY <1>12 DEF SpawnError
  <2>3. S.rec[n] \in Record /\ SoundRecord(S.rec[n])
    BY <2>1 DEF Sound, Fields
  <2>4. R \in Record /\ SoundRecord(R) /\ ~ R.alive
    BY <2>1, <2>3 DEF Record, SoundRecord
  <2>5. Sound(T)
    BY <2>1, <2>4, SoundUpdate
  <2>6. ~ T.rec[n].alive
    BY <2>1, <2>4 DEF Sound, Fields
  <2> QED
    BY <2>2, <2>5, <2>6, <1>0, DroppedSound DEF IInv
<1>13. ASSUME NEW n \in Generations, Exit(n) PROVE IInv'
  <2> DEFINE R == Exited(sup.rec[n])
             T == [sup EXCEPT !.rec[n] = R]
  <2>1. sup' = Dropped(RecordFailure(T, n), n) /\ UNCHANGED starting
    BY <1>13 DEF Exit
  <2>2. R \in Record /\ SoundRecord(R) /\ ~ R.alive
    BY <1>r DEF Record, SoundRecord, Exited
  <2>3. Sound(T) /\ ~ T.rec[n].alive
    BY <2>2, SoundUpdate DEF IInv, Sound, Fields
  <2>4. Sound(RecordFailure(T, n)) /\ ~ RecordFailure(T, n).rec[n].alive
    <3> HIDE DEF T
    <3> QED
      BY <2>3, <1>n, RecordFailureSound
  <2> QED
    BY <2>1, <2>4, <1>0, DroppedSound DEF IInv
<1>14. ASSUME NEW n \in Generations, ChildFault(n) PROVE IInv'
  BY <1>14, <1>0, FailingSound DEF ChildFault, IInv
<1>15. ASSUME NEW n \in Generations, StreamCloses(n) PROVE IInv'
  <2> DEFINE R == [sup.rec[n] EXCEPT !.broken = TRUE]
  <2>1. sup' = [sup EXCEPT !.rec[n] = R] /\ UNCHANGED starting
    BY <1>15, <1>r DEF StreamCloses, IInv, Sound, Fields, Record
  <2>2. R \in Record /\ SoundRecord(R) /\ R.alive = sup.rec[n].alive
    BY <1>r DEF Record, SoundRecord
  <2> QED
    BY <2>1, <2>2, <1>w
<1>16. ASSUME NEW n \in Generations, ClientTerminated(n) PROVE IInv'
  <2> DEFINE R == [sup.rec[n] EXCEPT !.client = "closed"]
             S == [sup EXCEPT !.rec[n] = R]
             T == IF sup.current = n THEN RecordFailure(S, n) ELSE S
  <2>1. [sup EXCEPT !.rec[n].client = "closed"] = S
    BY <1>r DEF IInv, Sound, Fields, Record
  <2>2. sup' = TerminateRecord(T, n, FALSE) /\ UNCHANGED starting
    BY <1>16, <2>1 DEF ClientTerminated
  <2>3. R \in Record /\ SoundRecord(R) /\ R.alive = sup.rec[n].alive
    BY <1>r DEF Record, SoundRecord
  <2>4. Sound(S)
    BY <2>3, SoundUpdate DEF IInv
  <2>5. Sound(T)
    BY <2>4, <1>n, RecordFailureSound
  <2> QED
    BY <2>2, <2>5, <1>0, TerminateRecordSound DEF IInv
<1>17. ASSUME NEW n \in Generations, TerminationEnds(n) PROVE IInv'
  <2> DEFINE R == [sup.rec[n] EXCEPT !.term = "done"]
  <2>1. sup' = [sup EXCEPT !.rec[n] = R] /\ UNCHANGED starting
    BY <1>17, <1>r DEF TerminationEnds, IInv, Sound, Fields, Record
  <2>2. R \in Record /\ SoundRecord(R) /\ R.alive = sup.rec[n].alive
    BY <1>17, <1>r DEF TerminationEnds, Record, SoundRecord
  <2> QED
    BY <2>1, <2>2, <1>w
<1>18. ASSUME NEW n \in Generations, Escalates(n) PROVE IInv'
  <2>1. UNCHANGED starting /\ sup.rec[n].term # "none"
    BY <1>18 DEF Escalates
  <2>2. ASSUME NEW next \in {"killed", "forced", "failed"},
               NEW state \in {sup.rec[n].state, "stuck"},
               sup' = [sup EXCEPT !.rec[n] =
                         [sup.rec[n] EXCEPT !.term = next, !.state = state]],
               state # sup.rec[n].state => ~ sup.rec[n].client = "open"
        PROVE  IInv'
    <3> DEFINE O == sup.rec[n]
               R == [O EXCEPT !.term = next, !.state = state]
    <3>1. O \in Record /\ SoundRecord(O) /\ O.term # "none"
      BY <2>1, <1>r
    <3> HIDE DEF O
    <3>2. state \in {"none", "starting", "running", "terminating", "stuck", "exited"}
      BY <2>2, <3>1 DEF O, Record
    <3>3. R \in Record
      BY <3>1, <3>2 DEF Record
    <3>4. R.alive = O.alive /\ R.state = state /\ R.client = O.client
          /\ R.exited = O.exited /\ R.settled = O.settled
      BY <3>1 DEF Record
    <3>5. SoundRecord(R)
      BY <2>2, <3>1, <3>4 DEF SoundRecord, O
    <3> HIDE DEF R
    <3>6. sup' = [sup EXCEPT !.rec[n] = R] /\ R.alive => sup.rec[n].alive
      BY <2>2, <3>4 DEF O, R
    <3> QED
      BY <2>1, <2>2, <3>3, <3>4, <3>5, <3>6, <1>w DEF O, R
  <2>3. sup.rec[n].client # "open"
    BY <2>1, <1>r DEF SoundRecord
  <2>4. ASSUME NEW next, sup' = [sup EXCEPT !.rec[n].term = next]
        PROVE  sup' = [sup EXCEPT !.rec[n] =
                         [sup.rec[n] EXCEPT !.term = next, !.state = sup.rec[n].state]]
    BY <2>4, <1>r DEF IInv, Sound, Fields, Record
  <2>5. CASE sup' = [sup EXCEPT !.rec[n].term = "killed"]
    BY <2>2, <2>4, <2>5
  <2>6. CASE sup' = [sup EXCEPT !.rec[n].term = "forced"]
    BY <2>2, <2>4, <2>6
  <2>7. CASE sup' = [sup EXCEPT !.rec[n].term = "failed", !.rec[n].state = "stuck"]
    <3>1. sup' = [sup EXCEPT !.rec[n] =
                    [sup.rec[n] EXCEPT !.term = "failed", !.state = "stuck"]]
      BY <2>7, <1>r DEF IInv, Sound, Fields, Record
    <3> QED
      BY <2>2, <2>3, <3>1
  <2> QED
    BY <1>18, <2>5, <2>6, <2>7 DEF Escalates
<1>19. ASSUME NEW n \in Generations, ReportInitializationSuccess(n) PROVE IInv'
  BY <1>19, <1>0 DEF ReportInitializationSuccess, IInv, Sound, Fields
<1>20. ASSUME NEW n \in Generations, ReportInitializationFailure(n) PROVE IInv'
  BY <1>20, <1>0, FailingSound DEF ReportInitializationFailure, IInv
<1>21. CASE UNCHANGED vars
  BY <1>21, <1>u DEF vars
<1> QED
  BY <1>1, <1>2, <1>3, <1>4, <1>5, <1>6, <1>7, <1>8, <1>9, <1>10, <1>11, <1>12, <1>13,
     <1>14, <1>15, <1>16, <1>17, <1>18, <1>19, <1>20, <1>21 DEF Next, Continuations

-------------------------------------------------------------------------------
(* The breaker's count *)

(***************************************************************************)
(* What NoThirdTry and StopStops need on top of IInv.  A child is Excused    *)
(* once its failure is counted or it is terminated on purpose; one that is   *)
(* not is the current child, and the breaker has room for its failure.       *)
(***************************************************************************)
Excused(R) == R.counted \/ R.intentional

Serving(R) == R.state = "running" /\ R.client = "open"

Judged(R) ==
    /\ R.exited \/ R.term # "none" \/ R.client = "closed" => Excused(R)
    /\ R.state \in {"terminating", "stuck", "exited"} => Excused(R)
    /\ R.term = "done" => R.exited
    /\ R.state = "none" => ~ R.settled /\ R.client = "none"

Tallied(S) ==
    /\ S.failures \in 0..2
    /\ S.breaker <=> S.failures = 2
    /\ \A n \in Generations : Judged(S.rec[n])
    /\ \A n \in Generations :
         S.rec[n].state # "none" /\ ~ Excused(S.rec[n]) => S.current = n /\ S.failures < 2

\* A start in flight owns the current child; between starts the current child is
\* usable or excused; a start that clears the way cannot open the breaker.
StartOwns ==
    /\ starting.stage \in {"spawned", "clearing"} => sup.current \in {0, starting.rec}
    /\ starting.stage # "spawned" /\ sup.current # 0 =>
         Excused(sup.rec[sup.current]) \/ Serving(sup.rec[sup.current])
    /\ starting.stage = "clearing" => Excused(sup.rec[starting.rec]) /\ ~ sup.breaker

\* While a stop runs there is no child but the one it terminates.
StopOwns == stopping.on => sup.current \in {0, stopping.rec}

Count == Tallied(sup) /\ StartOwns /\ StopOwns

\* What a step that neither starts a child nor resets the count may do.
Progress(S, T) ==
    /\ T.current \in {0, S.current}
    /\ T.next = S.next
    /\ \A n \in Generations :
         /\ Excused(S.rec[n]) => Excused(T.rec[n])
         /\ Serving(S.rec[n]) => Serving(T.rec[n]) \/ Excused(T.rec[n])
    /\ T.breaker /\ ~ S.breaker => S.current # 0 /\ ~ Excused(S.rec[S.current])

LEMMA ProgressTransitive ==
    ASSUME NEW S, NEW T, NEW U, S.current \in 0..MaxGen, Progress(S, T), Progress(T, U)
    PROVE  Progress(S, U)
<1>1. \A n \in Generations :
         /\ Excused(S.rec[n]) => Excused(U.rec[n])
         /\ Serving(S.rec[n]) => Serving(U.rec[n]) \/ Excused(U.rec[n])
  BY DEF Progress
<1>2. U.breaker /\ ~ S.breaker => S.current # 0 /\ ~ Excused(S.rec[S.current])
  BY SupervisorAssumption DEF Progress, Generations
<1> QED
  BY <1>1, <1>2 DEF Progress

\* The record of one child is replaced.
LEMMA TalliedUpdate ==
    ASSUME NEW S, Sound(S), Tallied(S), NEW n \in Generations, NEW R \in Record,
           Judged(R),
           R.state # "none" /\ ~ Excused(R) => S.current = n /\ S.failures < 2,
           Excused(S.rec[n]) => Excused(R),
           Serving(S.rec[n]) => Serving(R) \/ Excused(R)
    PROVE  Tallied([S EXCEPT !.rec[n] = R]) /\ Progress(S, [S EXCEPT !.rec[n] = R])
<1> DEFINE T == [S EXCEPT !.rec[n] = R]
<1>1. \A m \in Generations : T.rec[m] = IF m = n THEN R ELSE S.rec[m]
  BY DEF Sound, Fields
<1>2. /\ T.current = S.current /\ T.next = S.next /\ T.failures = S.failures
      /\ T.breaker = S.breaker
  BY DEF Sound, Fields
<1> HIDE DEF T
<1>3. Tallied(T)
  BY <1>1, <1>2 DEF Tallied
<1>4. Progress(S, T)
  BY <1>1, <1>2 DEF Progress
<1> QED
  BY <1>3, <1>4 DEF T

\* recordFailure after the record of a child has changed: the child is excused, and
\* if this was news it had been the current one.
LEMMA FailureRecorded ==
    ASSUME NEW S, Sound(S), Tallied(S), NEW n \in Generations, NEW R \in Record,
           Excused(R) <=> Excused(S.rec[n]),
           S.rec[n].state # "none", R.state # "none",
           R.term = "done" => R.exited
    PROVE  LET T == RecordFailure([S EXCEPT !.rec[n] = R], n)
           IN  Tallied(T) /\ Progress(S, T) /\ Excused(T.rec[n])
<1> DEFINE Q == [S EXCEPT !.rec[n] = R]
<1>1. /\ \A m \in Generations : Q.rec[m] = IF m = n THEN R ELSE S.rec[m]
      /\ Q.current = S.current /\ Q.next = S.next /\ Q.failures = S.failures
      /\ Q.breaker = S.breaker
      /\ Q \in Fields
  BY DEF Sound, Fields
<1> HIDE DEF Q
<1>2. n # 0
  BY DEF Generations
<1>3. CASE Excused(R)
  <2>1. RecordFailure(Q, n) = Q
    BY <1>1, <1>2, <1>3 DEF RecordFailure, Excused
  <2>2. Judged(R)
    BY <1>3 DEF Judged
  <2>3. Tallied(Q) /\ Progress(S, Q)
    BY <1>3, <2>2, TalliedUpdate DEF Q
  <2> QED
    BY <1>1, <1>3, <2>1, <2>3 DEF Q
<1>4. CASE ~ Excused(R)
  <2> DEFINE T == [Q EXCEPT !.failures = @ + 1,
                   !.breaker = @ \/ Q.failures + 1 >= 2,
                   !.rec = [m \in Generations |->
                        IF m = n THEN [@[m] EXCEPT !.counted = TRUE] ELSE @[m]]]
             C == [R EXCEPT !.counted = TRUE]
  <2>1. RecordFailure(Q, n) = T
    BY <1>1, <1>4 DEF RecordFailure, Excused
  <2>2. /\ \A m \in Generations : T.rec[m] = IF m = n THEN C ELSE S.rec[m]
        /\ T.current = S.current /\ T.next = S.next
        /\ T.failures = S.failures + 1
    BY <1>1 DEF Fields
  <2>3. T.breaker = (S.breaker \/ S.failures + 1 >= 2)
    BY <1>1 DEF Fields
  <2>4. Excused(C) /\ Judged(C)
    BY DEF Record, Excused, Judged
  <2>5. S.current = n /\ S.failures \in 0..1 /\ ~ S.breaker /\ ~ Excused(S.rec[n])
    BY <1>4 DEF Tallied
  <2> HIDE DEF T, C
  <2>6. T.failures \in 0..2 /\ (T.breaker <=> T.failures = 2)
    <3>1. T.breaker <=> S.failures + 1 >= 2
      BY <2>3, <2>5, Zenon
    <3>2. T.failures = S.failures + 1 /\ S.failures \in 0..1
      BY <2>2, <2>5
    <3> QED
      BY <3>1, <3>2
  <2>7. Tallied(T)
    BY <2>2, <2>4, <2>5, <2>6 DEF Tallied
  <2>8. Progress(S, T)
    BY <1>2, <2>2, <2>4, <2>5 DEF Progress
  <2> QED
    BY <2>1, <2>2, <2>4, <2>7, <2>8 DEF Q
<1> QED
  BY <1>3, <1>4

\* terminateRecord of a child that is excused, or by a stop.
LEMMA TerminateTallied ==
    ASSUME NEW S, Sound(S), Tallied(S), NEW n \in Generations,
           NEW intentional \in BOOLEAN, intentional \/ Excused(S.rec[n])
    PROVE  LET T == TerminateRecord(S, n, intentional)
           IN  Tallied(T) /\ Progress(S, T) /\ Excused(T.rec[n]) /\ T.current = S.current
<1>0. /\ S.rec[n] \in Record /\ Judged(S.rec[n])
      /\ \A R : [S EXCEPT !.rec[n] = R].rec[n] = R /\ [S EXCEPT !.rec[n] = R].current = S.current
  BY DEF Sound, Fields, Tallied
<1>1. CASE S.rec[n].term # "none"
  BY <1>0, <1>1 DEF TerminateRecord, Judged, Progress
<1>2. CASE S.rec[n].term = "none"
  <2> DEFINE O == S.rec[n]
             R == Terminating(O, intentional)
  <2>1. TerminateRecord(S, n, intentional) = [S EXCEPT !.rec[n] = R]
    BY <1>2 DEF TerminateRecord
  <2>2. O.intentional \/ intentional \in BOOLEAN
    OBVIOUS
  <2>3. R \in Record
    BY <1>0, <2>2 DEF Record, Terminating
  <2>4. Excused(R)
    BY <1>0 DEF Record, Terminating, Excused
  <2>5. Judged(R)
    <3>1. R.term = "done" => R.exited
      BY <1>0 DEF Record, Terminating
    <3>2. R.state = "terminating"
      BY <1>0 DEF Record, Terminating
    <3> QED
      BY <2>4, <3>1, <3>2 DEF Judged
  <2> HIDE DEF R
  <2>6. Tallied([S EXCEPT !.rec[n] = R]) /\ Progress(S, [S EXCEPT !.rec[n] = R])
    BY <2>3, <2>4, <2>5, TalliedUpdate
  <2> QED
    BY <1>0, <2>1, <2>4, <2>6
<1> QED
  BY <1>1, <1>2

\* A child that fails on its own is counted and terminated.
LEMMA FailingTallied ==
    ASSUME NEW S, Sound(S), Tallied(S), NEW n \in Generations, S.rec[n].state # "none"
    PROVE  Tallied(Failing(S, n)) /\ Progress(S, Failing(S, n)) /\ Excused(Failing(S, n).rec[n])
<1> DEFINE T == RecordFailure(S, n)
<1>1. [S EXCEPT !.rec[n] = S.rec[n]] = S
  BY DEF Sound, Fields
<1>2. S.rec[n] \in Record /\ Judged(S.rec[n])
  BY DEF Sound, Fields, Tallied
<1>3. Tallied(T) /\ Progress(S, T) /\ Excused(T.rec[n])
  BY <1>1, <1>2, FailureRecorded DEF Judged
<1>4. n \in 0..MaxGen
  BY DEF Generations
<1>5. Sound(T)
  BY <1>4, RecordFailureSound
<1> HIDE DEF T
<1>6. /\ Tallied(TerminateRecord(T, n, FALSE))
      /\ Progress(T, TerminateRecord(T, n, FALSE))
      /\ Excused(TerminateRecord(T, n, FALSE).rec[n])
  BY <1>3, <1>5, TerminateTallied
<1>7. Failing(S, n) = TerminateRecord(T, n, FALSE)
  BY DEF Failing, T
<1>8. S.current \in 0..MaxGen
  BY DEF Sound, Fields
<1> QED
  BY <1>3, <1>6, <1>7, <1>8, ProgressTransitive

\* A record that is dropped must be excused.
LEMMA DroppedTallied ==
    ASSUME NEW S, Sound(S), Tallied(S), NEW n \in Generations, Excused(S.rec[n])
    PROVE  Tallied(Dropped(S, n)) /\ Progress(S, Dropped(S, n))
<1>1. LET T == Dropped(S, n)
      IN  /\ T.rec = S.rec /\ T.next = S.next /\ T.failures = S.failures
          /\ T.breaker = S.breaker
          /\ T.current = IF S.current = n THEN 0 ELSE S.current
  BY DEF Dropped, Sound, Fields
<1> QED
  BY <1>1 DEF Tallied, Progress

LEMMA InitCount == Init => Count
<1> SUFFICES ASSUME Init PROVE Count
  OBVIOUS
<1>1. Judged(NoRecord) /\ NoRecord.state = "none"
  BY DEF NoRecord, Judged
<1>2. Tallied(sup)
  BY <1>1 DEF Init, Tallied
<1>3. StartOwns /\ StopOwns
  BY DEF Init, StartOwns, StopOwns
<1> QED
  BY <1>2, <1>3 DEF Count

\* A step that makes progress without moving the promises keeps the count.
LEMMA ProgressCount ==
    ASSUME IInv, Count, Tallied(sup'), Progress(sup, sup'), UNCHANGED <<starting, stopping>>
    PROVE  Count' /\ sup'.next = sup.next
<1>1. /\ sup.current \in 0..MaxGen
      /\ starting.stage \in {"clearing", "spawned"} => starting.rec \in Generations
  BY DEF IInv, Sound, Fields, InFlight
<1>2. \A n \in 0..MaxGen : n = 0 \/ n \in Generations
  BY SupervisorAssumption DEF Generations
<1>3. sup'.current \in {0, sup.current} /\ sup'.next = sup.next
  BY DEF Progress
<1>4. starting'.stage \in {"spawned", "clearing"} => sup'.current \in {0, starting'.rec}
  BY <1>3 DEF Count, StartOwns
<1>5. starting'.stage # "spawned" /\ sup'.current # 0 =>
         Excused(sup'.rec[sup'.current]) \/ Serving(sup'.rec[sup'.current])
  BY <1>1, <1>2, <1>3 DEF Count, StartOwns, Progress
<1>6. starting'.stage = "clearing" => Excused(sup'.rec[starting'.rec]) /\ ~ sup'.breaker
  <2> SUFFICES ASSUME starting.stage = "clearing"
               PROVE  Excused(sup'.rec[starting.rec]) /\ ~ sup'.breaker
    OBVIOUS
  <2>1. /\ starting.rec \in Generations /\ Excused(sup.rec[starting.rec]) /\ ~ sup.breaker
        /\ sup.current \in {0, starting.rec}
    BY <1>1 DEF Count, StartOwns
  <2>2. Excused(sup'.rec[starting.rec])
    BY <2>1 DEF Progress
  <2>3. ~ sup'.breaker
    BY <2>1 DEF Progress
  <2> QED
    BY <2>2, <2>3
<1>7. StartOwns'
  BY <1>4, <1>5, <1>6 DEF StartOwns
<1>8. StopOwns'
  BY <1>3 DEF Count, StopOwns
<1> QED
  BY <1>3, <1>7, <1>8 DEF Count

\* A start without a child, while no stop runs and the breaker is closed.
LEMMA SpawnsCount ==
    ASSUME IInv, Count, Spawns, sup.current = 0, ~ stopping.on, ~ sup.breaker,
           UNCHANGED stopping
    PROVE  Count' /\ sup.failures < 2
<1>1. sup.failures \in 0..1
  BY DEF Count, Tallied
<1>2. \A m \in Generations : sup.rec[m].state = "none" \/ Excused(sup.rec[m])
  BY DEF Count, Tallied, Generations
<1>3. CASE sup' = RecordFailure(sup, 0) /\ starting' = [stage |-> "rejected", rec |-> 0]
  <2>1. /\ sup'.failures = sup.failures + 1 /\ sup'.current = 0
        /\ sup'.rec = [m \in Generations |->
                        IF m = 0 THEN [sup.rec[m] EXCEPT !.counted = TRUE] ELSE sup.rec[m]]
    BY <1>3 DEF RecordFailure, IInv, Sound, Fields
  <2>2. sup'.breaker <=> sup.failures + 1 >= 2
    <3>1. sup'.breaker = (sup.breaker \/ sup.failures + 1 >= 2)
      BY <1>3 DEF RecordFailure, IInv, Sound, Fields
    <3> QED
      BY <3>1, Zenon
  <2>3. \A m \in Generations : sup'.rec[m] = sup.rec[m]
    BY <2>1 DEF Generations
  <2>4. sup'.failures \in 0..2 /\ (sup'.breaker <=> sup'.failures = 2)
    BY <1>1, <2>1, <2>2
  <2>5. Tallied(sup')
    BY <1>2, <2>3, <2>4 DEF Count, Tallied
  <2>6. StartOwns' /\ StopOwns'
    BY <1>3, <2>1 DEF StartOwns, StopOwns
  <2> QED
    BY <1>1, <2>5, <2>6 DEF Count
<1>4. ASSUME sup.next <= MaxGen, NEW ok \in BOOLEAN, NEW broken \in BOOLEAN,
             sup' = [sup EXCEPT
                !.rec[sup.next] = [NoRecord EXCEPT !.state = "starting", !.alive = ok,
                                                   !.broken = broken],
                !.current = sup.next, !.next = @ + 1],
             starting' = [stage |-> "spawned", rec |-> sup.next]
      PROVE  Count'
  <2> DEFINE k == sup.next
             R == [NoRecord EXCEPT !.state = "starting", !.alive = ok, !.broken = broken]
  <2>1. Judged(R)
    BY DEF NoRecord, Judged
  <2> HIDE DEF R
  <2>2. sup' = [sup EXCEPT !.rec[k] = R, !.current = k, !.next = k + 1]
    BY <1>4 DEF R
  <2>3. /\ \A m \in Generations : sup'.rec[m] = IF m = k THEN R ELSE sup.rec[m]
        /\ sup'.current = k /\ sup'.failures = sup.failures /\ sup'.breaker = sup.breaker
    BY <2>2 DEF IInv, Sound, Fields
  <2>4. Tallied(sup')
    BY <1>1, <1>2, <2>1, <2>3 DEF Count, Tallied
  <2>5. StartOwns' /\ StopOwns'
    BY <1>4, <2>3 DEF StartOwns, StopOwns
  <2> QED
    BY <2>4, <2>5 DEF Count
<1>5. Count'
  BY <1>3, <1>4 DEF Spawns
<1> QED
  BY <1>1, <1>5

\* start(), whichever branch it takes.
LEMMA StartCount ==
    ASSUME IInv, Count, NEW S, (StartNow(S) /\ ~ stopping.on) \/ Start(S)
    PROVE  Count' /\ (sup'.next # sup.next => sup.failures < 2)
<1>1. CASE UNCHANGED <<sup, starting, stopping>>
  BY <1>1 DEF Count, StartOwns, StopOwns
<1>2. CASE /\ starting.stage = "none" /\ ~ sup.breaker /\ ~ Usable(sup.current)
           /\ ~ stopping.on /\ UNCHANGED stopping /\ StartInternal
  <2>1. CASE sup.current = 0
    BY <1>2, <2>1, SpawnsCount DEF StartInternal
  <2>2. CASE sup.current # 0
    <3> DEFINE k == sup.current
    <3>1. k \in Generations /\ Sound(sup)
      BY <2>2, SupervisorAssumption DEF IInv, Sound, Fields, Generations
    <3>2. Excused(sup.rec[k])
      BY <1>2, <2>2 DEF Count, StartOwns, Usable, Serving
    <3>3. /\ Tallied(sup') /\ Progress(sup, sup') /\ Excused(sup'.rec[k])
          /\ sup'.current = k
      BY <1>2, <2>2, <3>1, <3>2, TerminateTallied DEF StartInternal, Count
    <3>4. starting' = [stage |-> "clearing", rec |-> k]
      BY <1>2, <2>2 DEF StartInternal
    <3>5. ~ sup'.breaker
      BY <1>2, <3>2, <3>3 DEF Progress
    <3>6. StartOwns' /\ StopOwns'
      BY <1>2, <3>3, <3>4, <3>5 DEF StartOwns, StopOwns
    <3>7. sup'.next = sup.next
      BY <3>3 DEF Progress
    <3> QED
      BY <3>3, <3>6, <3>7 DEF Count
  <2> QED
    BY <2>1, <2>2
<1> QED
  BY <1>1, <1>2 DEF Start, StartNow

\* stop(), also the one of a restart that has reset the count.
LEMMA StopCount ==
    ASSUME IInv, Count, NEW S, Sound(S), Tallied(S), Progress(sup, S),
           S.current = sup.current, Stop(S), UNCHANGED starting
    PROVE  Count' /\ sup'.next = sup.next
<1>1. S.current = 0 \/ S.current \in Generations
  BY SupervisorAssumption DEF Sound, Fields, Generations
<1>2. Tallied(sup') /\ Progress(S, sup') /\ sup'.current = S.current
  <2>1. Progress(S, S)
    BY DEF Progress
  <2>2. CASE sup' = S
    BY <2>1, <2>2
  <2>3. CASE S.current # 0 /\ sup' = TerminateRecord(S, S.current, TRUE)
    BY <1>1, <2>3, TerminateTallied
  <2> QED
    BY <2>2, <2>3 DEF Stop
<1>3. Progress(sup, sup')
  <2>1. sup.current \in 0..MaxGen
    BY DEF IInv, Sound, Fields
  <2> QED
    BY <1>2, <2>1, ProgressTransitive
<1>4. CASE UNCHANGED stopping
  BY <1>2, <1>3, <1>4, ProgressCount
<1>5. CASE stopping' = [on |-> TRUE, rec |-> S.current]
  <2>1. StopOwns'
    BY <1>2, <1>5 DEF StopOwns
  <2>2. StartOwns' /\ sup'.next = sup.next
    \* ProgressCount does not look at the other promise.
    <3>1. /\ sup.current \in 0..MaxGen
          /\ starting.stage \in {"clearing", "spawned"} => starting.rec \in Generations
      BY DEF IInv, Sound, Fields, InFlight
    <3>2. \A n \in 0..MaxGen : n = 0 \/ n \in Generations
      BY SupervisorAssumption DEF Generations
    <3>3. sup'.current = sup.current /\ sup'.next = sup.next
      BY <1>2, <1>3 DEF Progress
    <3>4. starting.stage = "clearing" => Excused(sup'.rec[starting.rec]) /\ ~ sup'.breaker
      BY <1>3, <3>1 DEF Count, StartOwns, Progress
    <3>5. starting.stage # "spawned" /\ sup'.current # 0 =>
             Excused(sup'.rec[sup'.current]) \/ Serving(sup'.rec[sup'.current])
      BY <1>3, <3>1, <3>2, <3>3 DEF Count, StartOwns, Progress
    <3> QED
      BY <3>3, <3>4, <3>5 DEF Count, StartOwns
  <2> QED
    BY <1>2, <2>1, <2>2 DEF Count
<1> QED
  BY <1>4, <1>5 DEF Stop

\* Every step keeps the count and, if it spawns a child, finds the breaker closed.
LEMMA NextCount ==
    ASSUME IInv, Count, [Next]_vars
    PROVE  Count' /\ (sup'.next # sup.next => sup.failures < 2)
<1> DEFINE Goal == Count' /\ (sup'.next # sup.next => sup.failures < 2)
<1> SUFFICES Goal
  OBVIOUS
<1>s. Sound(sup) /\ Tallied(sup) /\ sup \in Fields
  BY DEF IInv, Sound, Count
<1>c. sup.current \in 0..MaxGen
  BY <1>s DEF Fields
<1>r. ASSUME NEW n \in Generations
      PROVE  sup.rec[n] \in Record /\ SoundRecord(sup.rec[n]) /\ Judged(sup.rec[n])
  BY <1>s DEF Sound, Fields, Tallied
<1>p. ASSUME Tallied(sup'), Progress(sup, sup'), UNCHANGED <<starting, stopping>> PROVE Goal
  BY <1>p, ProgressCount
<1>u. ASSUME UNCHANGED <<sup, starting, stopping>> PROVE Goal
  BY <1>u DEF Count, StartOwns, StopOwns
\* A start that gives up leaves the child it may have had alone.
<1>g. ASSUME UNCHANGED <<sup, stopping>>, starting'.stage \in {"rejected", "none"},
             starting.stage # "spawned"
      PROVE  Goal
  BY <1>g DEF Count, StartOwns, StopOwns
\* The step replaces the record of one child.
<1>w. ASSUME NEW n \in Generations, NEW R \in Record, Judged(R),
             R.state # "none", Excused(R) <=> Excused(sup.rec[n]), sup.rec[n].state # "none",
             R.state = sup.rec[n].state \/ Excused(sup.rec[n]), R.client = sup.rec[n].client,
             sup' = [sup EXCEPT !.rec[n] = R], UNCHANGED <<starting, stopping>>
      PROVE  Goal
  <2>1. R.state # "none" /\ ~ Excused(R) => sup.current = n /\ sup.failures < 2
    BY <1>w, <1>s DEF Tallied
  <2>2. Serving(sup.rec[n]) => Serving(R) \/ Excused(R)
    BY <1>w DEF Serving
  <2> QED
    BY <1>w, <1>s, <1>p, <2>1, <2>2, TalliedUpdate
<1>1. ASSUME NEW c \in Calls, CallStart(c) PROVE Goal
  BY <1>1, StartCount DEF CallStart
<1>2. ASSUME NEW c \in Calls, CallStop(c) PROVE Goal
  <2>1. Progress(sup, sup)
    BY DEF Progress
  <2> QED
    BY <1>2, <1>s, <2>1, StopCount DEF CallStop
<1>3. ASSUME NEW c \in Calls, CallRestart(c) PROVE Goal
  <2> DEFINE S == [sup EXCEPT !.breaker = FALSE, !.failures = 0]
  <2>1. /\ S.rec = sup.rec /\ S.current = sup.current /\ S.next = sup.next
        /\ S.failures = 0 /\ ~ S.breaker
    BY <1>s DEF Fields
  <2>2. Sound(S)
    BY <1>s DEF Sound, Fields
  <2> HIDE DEF S
  <2>3. Tallied(S) /\ Progress(sup, S)
    BY <1>s, <2>1 DEF Tallied, Progress
  <2>4. Stop(S) /\ UNCHANGED starting
    BY <1>3 DEF CallRestart, S
  <2> QED
    BY <2>1, <2>2, <2>3, <2>4, StopCount
<1>4. ASSUME NEW c \in Calls, RestartStarts(c) PROVE Goal
  BY <1>4, StartCount DEF RestartStarts
<1>5. CASE Cleared
  <2>1. CASE UNCHANGED sup /\ starting' = [stage |-> "rejected", rec |-> 0]
    BY <1>5, <1>g, <2>1 DEF Cleared
  <2>2. CASE Spawns /\ sup.current = 0 /\ ~ stopping.on
    BY <1>5, <2>2, SpawnsCount DEF Cleared, Count, StartOwns
  <2> QED
    BY <1>5, <2>1, <2>2 DEF Cleared
<1>6. CASE SpawnChecked
  <2> DEFINE n == starting.rec
             O == sup.rec[n]
             R == [O EXCEPT !.client = "open", !.state = "running"]
  <2>1. n \in Generations /\ starting.stage = "spawned" /\ UNCHANGED stopping
    BY <1>6 DEF SpawnChecked, IInv, InFlight
  <2>2. O \in Record /\ Judged(O) /\ O.state # "none"
    BY <1>6, <1>r, <2>1 DEF SpawnChecked, Judged
  <2>3. sup.current \in {0, n}
    BY <2>1 DEF Count, StartOwns
  <2>4. CASE /\ sup' = [sup EXCEPT !.rec[n].client = "open", !.rec[n].state = "running"]
             /\ sup.current = n
             /\ ~ O.exited /\ O.term = "none"
             /\ starting' = [starting EXCEPT !.stage = "resolved"]
    <3>1. sup' = [sup EXCEPT !.rec[n] = R]
      BY <2>1, <2>4, <1>r DEF IInv, Sound, Fields, Record
    <3> HIDE DEF O
    <3>2. R \in Record /\ R.state = "running" /\ R.client = "open"
      BY <2>2 DEF Record
    <3>3. R.exited = O.exited /\ R.term = O.term
      BY <2>2 DEF Record
    <3>4. R.counted = O.counted /\ R.intentional = O.intentional
      BY <2>2 DEF Record
    <3>5. Judged(R)
      BY <2>4, <3>2, <3>3 DEF Judged
    <3>6. Excused(R) <=> Excused(O)
      BY <3>4, Zenon DEF Excused
    <3> HIDE DEF R, n
    <3>7. /\ Serving(R)
          /\ ~ Excused(R) => sup.current = n /\ sup.failures < 2
      BY <1>s, <2>1, <2>2, <3>2, <3>6 DEF Serving, Tallied, O
    <3>8. Tallied(sup') /\ Progress(sup, sup')
      BY <1>s, <2>1, <3>1, <3>2, <3>5, <3>6, <3>7, TalliedUpdate DEF O
    <3>9. sup'.current = n /\ sup'.rec[n] = R
      <4>1. sup.current = n
        BY <2>4
      <4> QED
        BY <1>s, <2>1, <3>1, <4>1 DEF Fields
    <3>10. starting'.stage # "spawned" /\ starting'.stage # "clearing"
      <4>1. CASE "stage" \in DOMAIN starting
        BY <2>4, <4>1
      <4>2. CASE "stage" \notin DOMAIN starting
        BY <2>1, <2>4, <4>2
      <4> QED
        BY <4>1, <4>2
    <3>11. StartOwns' /\ StopOwns'
      BY <2>1, <2>4, <3>7, <3>9, <3>10 DEF StartOwns, StopOwns, Count
    <3> QED
      BY <3>8, <3>11 DEF Count, Progress
  <2>5. CASE sup' = Failing(sup, n) /\ starting' = [starting EXCEPT !.stage = "failing"]
    <3>1. Tallied(sup') /\ Progress(sup, sup') /\ Excused(sup'.rec[n])
      BY <1>s, <2>1, <2>2, <2>5, FailingTallied
    <3>2. starting'.stage # "spawned" /\ starting'.stage # "clearing"
      BY <2>1, <2>5
    <3>3. sup'.current \in {0, n}
      BY <2>3, <3>1 DEF Progress
    <3>4. StopOwns'
      BY <2>1, <3>1 DEF StopOwns, Count, Progress
    <3>5. StartOwns'
      BY <3>1, <3>2, <3>3 DEF StartOwns
    <3> QED
      BY <3>1, <3>4, <3>5 DEF Count, Progress
  <2> QED
    BY <1>6, <2>1, <2>4, <2>5 DEF SpawnChecked
<1>7. CASE StartFailed
  BY <1>7, <1>g DEF StartFailed
<1>8. CASE StartSettles
  BY <1>8, <1>g DEF StartSettles
<1>9. CASE StopSettles
  <2>1. UNCHANGED <<sup, starting>> /\ stopping' = [on |-> FALSE, rec |-> 0]
    BY <1>9 DEF StopSettles
  <2> QED
    BY <2>1 DEF Count, StartOwns, StopOwns
<1>10. CASE LaterStarts
  <2>1. CASE UNCHANGED <<sup, starting, stopping>>
    BY <2>1, <1>u
  <2>2. CASE ~ stopping.on /\ StartNow({k \in Calls : call[k].waits = "later"})
    BY <2>2, StartCount
  <2> QED
    BY <1>10, <2>1, <2>2 DEF LaterStarts
<1>11. ASSUME NEW n \in Generations, Spawned(n) PROVE Goal
  <2> DEFINE O == sup.rec[n]
             R == [O EXCEPT !.settled = TRUE]
  <2>1. sup' = [sup EXCEPT !.rec[n] = R] /\ UNCHANGED <<starting, stopping>>
    BY <1>11, <1>r DEF Spawned, IInv, Sound, Fields, Record
  <2>2. O \in Record /\ Judged(O) /\ O.state # "none"
    BY <1>11, <1>r DEF Spawned, SoundRecord
  <2> HIDE DEF O
  <2>3. /\ R \in Record /\ R.state = O.state /\ R.client = O.client /\ R.term = O.term
    BY <2>2 DEF Record
  <2>4. R.exited = O.exited /\ R.counted = O.counted /\ R.intentional = O.intentional
    BY <2>2 DEF Record
  <2>5. Excused(R) <=> Excused(O)
    BY <2>4, Zenon DEF Excused
  <2>6. Judged(R)
    BY <2>2, <2>3, <2>4, <2>5 DEF Judged
  <2> QED
    BY <2>1, <2>2, <2>3, <2>5, <2>6, <1>w DEF O
<1>12. ASSUME NEW n \in Generations, SpawnError(n) PROVE Goal
  <2> DEFINE S == IF Unheard(n) THEN sup ELSE Failing(sup, n)
             O == S.rec[n]
             R == [O EXCEPT !.settled = TRUE, !.exited = TRUE, !.state = "exited"]
             T == [S EXCEPT !.rec[n] = R]
  <2>1. sup.rec[n].state # "none" /\ Judged(sup.rec[n])
    BY <1>12, <1>r DEF SpawnError
  <2>2. sup' = Dropped(T, n) /\ UNCHANGED <<starting, stopping>>
    BY <1>12 DEF SpawnError
  <2>3. Sound(S) /\ Tallied(S) /\ Progress(sup, S) /\ Excused(S.rec[n]) /\ ~ S.rec[n].alive
    <3>1. CASE Unheard(n)
      <4>1. S = sup
        BY <3>1
      <4>2. Excused(sup.rec[n])
        BY <3>1, <2>1 DEF Unheard, Judged, Excused
      <4> QED
        BY <4>1, <4>2, <1>s, <1>12 DEF Progress, SpawnError
    <3>2. CASE ~ Unheard(n)
      BY <3>2, <1>s, <2>1, <1>12, FailingSound, FailingTallied DEF SpawnError
    <3> QED
      BY <3>1, <3>2
  <2>4. O \in Record /\ Judged(O) /\ SoundRecord(O)
    BY <2>3 DEF Sound, Fields, Tallied
  <2> HIDE DEF O
  <2>5. R \in Record /\ R.state = "exited" /\ R.exited /\ R.client = O.client
    BY <2>4 DEF Record
  <2>6. R.counted = O.counted /\ R.intentional = O.intentional /\ R.alive = O.alive
    BY <2>4 DEF Record
  <2>7. Excused(R) <=> Excused(O)
    BY <2>6, Zenon DEF Excused
  <2>8. Excused(R) /\ Judged(R)
    BY <2>3, <2>5, <2>7 DEF Judged, O
  <2>9. SoundRecord(R) /\ ~ R.alive
    BY <2>3, <2>4, <2>5, <2>6 DEF SoundRecord, O
  <2> HIDE DEF S, R
  <2>10. Tallied(T) /\ Progress(S, T)
    BY <2>3, <2>5, <2>8, TalliedUpdate
  <2>11. Sound(T)
    BY <2>3, <2>5, <2>9, SoundUpdate
  <2>12. T.rec[n] = R /\ T.current = S.current
    BY <2>3 DEF Sound, Fields
  <2> HIDE DEF T
  <2>13. Tallied(sup') /\ Progress(T, sup')
    BY <2>2, <2>8, <2>10, <2>11, <2>12, DroppedTallied
  <2>14. Progress(sup, T)
    BY <1>c, <2>3, <2>10, ProgressTransitive
  <2> QED
    BY <1>c, <1>p, <2>2, <2>13, <2>14, ProgressTransitive
<1>13. ASSUME NEW n \in Generations, Exit(n) PROVE Goal
  <2> DEFINE O == sup.rec[n]
             R == Exited(O)
             Q == [sup EXCEPT !.rec[n] = R]
             T == RecordFailure(Q, n)
  <2>1. sup' = Dropped(T, n) /\ UNCHANGED <<starting, stopping>>
    BY <1>13 DEF Exit
  <2>2. O \in Record /\ Judged(O) /\ O.state # "none"
    BY <1>13, <1>r DEF Exit, SoundRecord
  <2> HIDE DEF O
  <2>3. R \in Record /\ SoundRecord(R) /\ ~ R.alive /\ R.state # "none" /\ R.exited
    BY <2>2 DEF Record, SoundRecord, Exited
  <2>4. R.counted = O.counted /\ R.intentional = O.intentional
    BY <2>2 DEF Record, Exited
  <2>5. Excused(R) <=> Excused(O)
    BY <2>4, Zenon DEF Excused
  <2> HIDE DEF R
  <2>6. Tallied(T) /\ Progress(sup, T) /\ Excused(T.rec[n])
    BY <1>s, <2>2, <2>3, <2>5, FailureRecorded DEF O
  <2>7. Sound(Q)
    BY <1>s, <2>3, SoundUpdate
  <2> HIDE DEF Q
  <2>8. Sound(T)
    BY <2>7, RecordFailureSound DEF Generations
  <2> HIDE DEF T
  <2>9. Tallied(sup') /\ Progress(T, sup')
    BY <2>1, <2>6, <2>8, DroppedTallied
  <2> QED
    BY <1>c, <1>p, <2>1, <2>6, <2>9, ProgressTransitive
<1>14. ASSUME NEW n \in Generations, ChildFault(n) PROVE Goal
  <2>1. sup.rec[n].state # "none"
    BY <1>14, <1>r DEF ChildFault, SoundRecord
  <2> QED
    BY <1>14, <1>s, <1>p, <2>1, FailingTallied DEF ChildFault
<1>15. ASSUME NEW n \in Generations, StreamCloses(n) PROVE Goal
  <2> DEFINE O == sup.rec[n]
             R == [O EXCEPT !.broken = TRUE]
  <2>1. sup' = [sup EXCEPT !.rec[n] = R] /\ UNCHANGED <<starting, stopping>>
    BY <1>15, <1>r DEF StreamCloses, IInv, Sound, Fields, Record
  <2>2. O \in Record /\ Judged(O) /\ O.state # "none"
    BY <1>15, <1>r DEF StreamCloses
  <2> HIDE DEF O
  <2>3. R \in Record /\ R.state = O.state /\ R.client = O.client /\ R.term = O.term
    BY <2>2 DEF Record
  <2>4. R.exited = O.exited /\ R.counted = O.counted /\ R.intentional = O.intentional
    BY <2>2 DEF Record
  <2>5. Excused(R) <=> Excused(O)
    BY <2>4, Zenon DEF Excused
  <2>6. Judged(R)
    BY <2>2, <2>3, <2>4, <2>5 DEF Judged
  <2> QED
    BY <2>1, <2>2, <2>3, <2>5, <2>6, <1>w DEF O
<1>16. ASSUME NEW n \in Generations, ClientTerminated(n) PROVE Goal
  <2> DEFINE O == sup.rec[n]
             R == [O EXCEPT !.client = "closed"]
             S == [sup EXCEPT !.rec[n] = R]
             T == RecordFailure(S, n)
  <2>1. O \in Record /\ Judged(O) /\ O.alive /\ O.state # "none"
    BY <1>16, <1>r DEF ClientTerminated, SoundRecord
  <2>2. sup.current = n
    BY <1>s, <2>1 DEF Sound
  <2>3. [sup EXCEPT !.rec[n].client = "closed"] = S
    BY <1>r DEF IInv, Sound, Fields, Record
  <2>4. sup' = TerminateRecord(T, n, FALSE) /\ UNCHANGED <<starting, stopping>>
    BY <1>16, <2>2, <2>3 DEF ClientTerminated
  <2>5. SoundRecord(O)
    BY <1>r
  <2> HIDE DEF O
  <2>6. R \in Record /\ R.state = O.state /\ R.term = O.term /\ R.client = "closed"
    BY <2>1 DEF Record
  <2>7. /\ R.exited = O.exited /\ R.counted = O.counted /\ R.intentional = O.intentional
        /\ R.alive = O.alive /\ R.settled = O.settled
    BY <2>1 DEF Record
  <2>8. Excused(R) <=> Excused(O)
    BY <2>7, Zenon DEF Excused
  <2>9. R.term = "done" => R.exited
    BY <2>1, <2>6, <2>7 DEF Judged
  <2>10. SoundRecord(R) /\ (R.alive => O.alive)
    BY <2>1, <2>5, <2>6, <2>7 DEF SoundRecord
  <2> HIDE DEF R
  <2>11. Tallied(T) /\ Progress(sup, T) /\ Excused(T.rec[n])
    BY <1>s, <2>1, <2>6, <2>8, <2>9, FailureRecorded DEF O
  <2>12. Sound(S)
    BY <1>s, <2>6, <2>10, SoundUpdate DEF O
  <2> HIDE DEF S
  <2>13. Sound(T)
    BY <2>12, RecordFailureSound DEF Generations
  <2> HIDE DEF T
  <2>14. Tallied(sup') /\ Progress(T, sup')
    BY <2>4, <2>11, <2>13, TerminateTallied
  <2> QED
    BY <1>c, <1>p, <2>4, <2>11, <2>14, ProgressTransitive
<1>17. ASSUME NEW n \in Generations, TerminationEnds(n) PROVE Goal
  <2> DEFINE O == sup.rec[n]
             R == [O EXCEPT !.term = "done"]
  <2>1. sup' = [sup EXCEPT !.rec[n] = R] /\ UNCHANGED <<starting, stopping>>
    BY <1>17, <1>r DEF TerminationEnds, IInv, Sound, Fields, Record
  <2>2. O \in Record /\ Judged(O) /\ O.exited /\ Excused(O)
    BY <1>17, <1>r DEF TerminationEnds, Judged
  <2>2a. SoundRecord(O)
    BY <1>r
  <2> HIDE DEF O
  <2>3. R \in Record /\ R.state = O.state /\ R.client = O.client
    BY <2>2 DEF Record
  <2>4. /\ R.exited = O.exited /\ R.counted = O.counted /\ R.intentional = O.intentional
        /\ R.settled = O.settled
    BY <2>2 DEF Record
  <2>5. Excused(R) <=> Excused(O)
    BY <2>4, Zenon DEF Excused
  <2>6. Judged(R)
    BY <2>2, <2>3, <2>4, <2>5 DEF Judged
  <2>7. Serving(sup.rec[n]) => Serving(R) \/ Excused(R)
    BY <2>2, <2>5
  <2>8. Tallied(sup') /\ Progress(sup, sup')
    BY <1>s, <2>1, <2>2, <2>3, <2>5, <2>6, TalliedUpdate
  <2> QED
    BY <2>1, <2>8, <1>p
<1>18. ASSUME NEW n \in Generations, Escalates(n) PROVE Goal
  <2> DEFINE O == sup.rec[n]
  <2>1. /\ UNCHANGED <<starting, stopping>>
        /\ O \in Record /\ Judged(O) /\ O.term # "none" /\ Excused(O) /\ ~ O.exited
    BY <1>18, <1>r DEF Escalates, Judged
  <2>2. ASSUME NEW next \in {"killed", "forced", "failed"},
               NEW state \in {O.state, "stuck"},
               sup' = [sup EXCEPT !.rec[n] = [O EXCEPT !.term = next, !.state = state]]
        PROVE  Goal
    <3> DEFINE R == [O EXCEPT !.term = next, !.state = state]
    <3> HIDE DEF O
    <3>1. state \in {"none", "starting", "running", "terminating", "stuck", "exited"}
      BY <2>1, <2>2 DEF Record
    <3>2. R \in Record /\ R.term = next /\ R.state = state /\ R.client = O.client
      BY <2>1, <3>1 DEF Record
    <3>3. /\ R.exited = O.exited /\ R.counted = O.counted /\ R.intentional = O.intentional
          /\ R.settled = O.settled
      BY <2>1 DEF Record
    <3>4. Excused(R) <=> Excused(O)
      BY <3>3, Zenon DEF Excused
    <3>5. Judged(R)
      BY <2>1, <2>2, <3>2, <3>3, <3>4 DEF Judged
    <3> HIDE DEF R
    <3>6. sup' = [sup EXCEPT !.rec[n] = R]
      BY <2>2 DEF R
    <3>7. Tallied(sup') /\ Progress(sup, sup')
      BY <1>s, <2>1, <3>2, <3>4, <3>5, <3>6, TalliedUpdate
    <3> QED
      BY <2>1, <3>7, <1>p
  <2>3. ASSUME NEW next, sup' = [sup EXCEPT !.rec[n].term = next]
        PROVE  sup' = [sup EXCEPT !.rec[n] = [O EXCEPT !.term = next, !.state = O.state]]
    BY <2>3, <1>r DEF IInv, Sound, Fields, Record
  <2>4. CASE sup' = [sup EXCEPT !.rec[n].term = "killed"]
    BY <2>2, <2>3, <2>4
  <2>5. CASE sup' = [sup EXCEPT !.rec[n].term = "forced"]
    BY <2>2, <2>3, <2>5
  <2>6. CASE sup' = [sup EXCEPT !.rec[n].term = "failed", !.rec[n].state = "stuck"]
    <3>1. sup' = [sup EXCEPT !.rec[n] = [O EXCEPT !.term = "failed", !.state = "stuck"]]
      BY <2>6, <1>r DEF IInv, Sound, Fields, Record
    <3> QED
      BY <2>2, <3>1
  <2> QED
    BY <1>18, <2>4, <2>5, <2>6 DEF Escalates
<1>19. ASSUME NEW n \in Generations, ReportInitializationSuccess(n) PROVE Goal
  <2>1. /\ sup'.rec = sup.rec /\ sup'.current = sup.current /\ sup'.next = sup.next
        /\ sup'.failures = 0 /\ ~ sup'.breaker
    BY <1>19, <1>s DEF ReportInitializationSuccess, Fields
  <2>2. Tallied(sup') /\ Progress(sup, sup')
    BY <1>s, <2>1 DEF Tallied, Progress
  <2> QED
    BY <1>19, <2>2, <1>p DEF ReportInitializationSuccess
<1>20. ASSUME NEW n \in Generations, ReportInitializationFailure(n) PROVE Goal
  <2>1. sup.rec[n].state # "none"
    BY <1>20, <1>r DEF ReportInitializationFailure, GivenOut, Judged
  <2> QED
    BY <1>20, <1>s, <1>p, <2>1, FailingTallied DEF ReportInitializationFailure
<1>21. CASE UNCHANGED vars
  BY <1>21, <1>u DEF vars
<1> HIDE DEF Goal
<1> QED
  BY <1>1, <1>2, <1>3, <1>4, <1>5, <1>6, <1>7, <1>8, <1>9, <1>10, <1>11, <1>12, <1>13,
     <1>14, <1>15, <1>16, <1>17, <1>18, <1>19, <1>20, <1>21 DEF Next, Continuations

-------------------------------------------------------------------------------
(* The callers and the promises *)

CallTypes ==
    [ waits : {"idle", "start", "later", "stop", "restarting", "restart", "done"},
      result : {"none", "resolved", "rejected"} ]

\* The promises have their types, and a call that still waits has no result.
Callers ==
    /\ starting \in [ stage : {"none", "clearing", "spawned", "failing", "resolved", "rejected"},
                      rec : 0..MaxGen ]
    /\ stopping \in [on : BOOLEAN, rec : 0..MaxGen]
    /\ later \in {"none", "waiting", "due"}
    /\ call \in [Calls -> CallTypes]
    /\ \A c \in Calls : call[c].waits # "done" => call[c].result = "none"

\* The calls of S are answered, or wait for something else.
LEMMA CallsUpdate ==
    ASSUME Callers, NEW S,
           \/ \E result \in {"resolved", "rejected"} : Settled(S, result)
           \/ \E for \in {"start", "later", "stop", "restarting"} :
                Waiting(S, for) /\ \A c \in S \cap Calls : call[c].waits # "done"
    PROVE  /\ call' \in [Calls -> CallTypes]
           /\ \A c \in Calls : call'[c].waits # "done" => call'[c].result = "none"
           /\ \A c \in Calls \ S : call'[c] = call[c]
<1>r. ASSUME NEW c \in Calls PROVE call[c] \in CallTypes
  BY DEF Callers
<1>1. ASSUME NEW result \in {"resolved", "rejected"}, Settled(S, result)
      PROVE  /\ call' \in [Calls -> CallTypes]
             /\ \A c \in Calls : call'[c].waits # "done" => call'[c].result = "none"
             /\ \A c \in Calls \ S : call'[c] = call[c]
  <2>1. ASSUME NEW c \in Calls
        PROVE  Done(c, result) \in CallTypes /\ Done(c, result).waits = "done"
    BY <1>r, <2>1 DEF Done, CallTypes
  <2>2. \A c \in Calls : call'[c] = IF c \in S THEN Done(c, result) ELSE call[c]
    BY <1>1 DEF Settled
  <2>3. call' = [c \in Calls |-> IF c \in S THEN Done(c, result) ELSE call[c]]
    BY <1>1 DEF Settled
  <2> QED
    BY <1>r, <2>1, <2>2, <2>3 DEF Callers
<1>2. ASSUME NEW for \in {"start", "later", "stop", "restarting"}, Waiting(S, for),
             \A c \in S \cap Calls : call[c].waits # "done"
      PROVE  /\ call' \in [Calls -> CallTypes]
             /\ \A c \in Calls : call'[c].waits # "done" => call'[c].result = "none"
             /\ \A c \in Calls \ S : call'[c] = call[c]
  <2> DEFINE W(c) == [call[c] EXCEPT !.waits = for]
  <2>1. ASSUME NEW c \in Calls
        PROVE  W(c) \in CallTypes /\ W(c).waits = for /\ W(c).result = call[c].result
    BY <1>r, <2>1 DEF CallTypes
  <2>2. call' = [c \in Calls |-> IF c \in S THEN W(c) ELSE call[c]]
    BY <1>2 DEF Waiting
  <2> HIDE DEF W
  <2> QED
    BY <1>r, <1>2, <2>1, <2>2 DEF Callers
<1> QED
  BY <1>1, <1>2

LEMMA InitCallers == Init => Callers
  BY SupervisorAssumption DEF Init, Callers, CallTypes

\* What every step does to the promises and the callers; a stop that returns
\* returns because stopPromise settled.
LEMMA NextCallers ==
    ASSUME IInv, Callers, [Next]_vars
    PROVE  /\ Callers'
           /\ \A c \in Calls :
                call[c].waits = "stop" /\ call'[c].result = "resolved" => StopSettles
<1> USE SupervisorAssumption
<1> DEFINE Stages == {"none", "clearing", "spawned", "failing", "resolved", "rejected"}
           Promises == /\ starting' \in [stage : Stages, rec : 0..MaxGen]
                       /\ stopping' \in [on : BOOLEAN, rec : 0..MaxGen]
                       /\ later' \in {"none", "waiting", "due"}
           Goal == /\ Callers'
                   /\ \A c \in Calls :
                        call[c].waits = "stop" /\ call'[c].result = "resolved" => StopSettles
<1> SUFFICES Goal
  OBVIOUS
<1>c. sup.current \in 0..MaxGen /\ sup.next \in 1..MaxGen + 1
  BY DEF IInv, Sound, Fields
<1>p. UNCHANGED <<starting, stopping, later>> => Promises
  BY DEF Callers
\* The callers in S, none of which waits for a stop or is done, move on.
<1>s. ASSUME Promises, NEW S, \A c \in S \cap Calls : call[c].waits \notin {"stop", "done"},
             \/ \E result \in {"resolved", "rejected"} : Settled(S, result)
             \/ \E for \in {"start", "later", "stop", "restarting"} : Waiting(S, for)
      PROVE  Goal
  <2>1. /\ call' \in [Calls -> CallTypes]
        /\ \A c \in Calls : call'[c].waits # "done" => call'[c].result = "none"
        /\ \A c \in Calls \ S : call'[c] = call[c]
    BY <1>s, CallsUpdate
  <2>2. \A c \in Calls : call[c].waits = "stop" => call'[c].result = "none"
    BY <1>s, <2>1 DEF Callers
  <2> QED
    BY <1>s, <2>1, <2>2 DEF Callers
\* No caller moves.
<1>u. ASSUME Promises, UNCHANGED call PROVE Goal
  BY <1>u DEF Callers
\* Where startInternal may leave its promise.
<1>n. ASSUME Spawns \/ StartInternal PROVE starting' \in [stage : Stages, rec : 0..MaxGen]
  <2>1. \A n \in 0..MaxGen, stage \in Stages :
           [stage |-> stage, rec |-> n] \in [stage : Stages, rec : 0..MaxGen]
    OBVIOUS
  <2>2. \/ starting' = [stage |-> "rejected", rec |-> 0]
        \/ sup.next <= MaxGen /\ starting' = [stage |-> "spawned", rec |-> sup.next]
        \/ starting' = [stage |-> "clearing", rec |-> sup.current]
    BY <1>n DEF StartInternal, Spawns
  <2>3. sup.next <= MaxGen => sup.next \in 0..MaxGen
    BY <1>c
  <2> QED
    BY <1>c, <2>1, <2>2, <2>3
<1>m. ASSUME NEW S, \A c \in S \cap Calls : call[c].waits \notin {"stop", "done"},
             StartNow(S), later' \in {"none", "waiting", "due"}
      PROVE  Goal
  <2>1. CASE UNCHANGED <<starting, stopping>>
    <3>1. Promises
      BY <1>m, <2>1 DEF Callers
    <3>2. \/ \E result \in {"resolved", "rejected"} : Settled(S, result)
          \/ \E for \in {"start", "later", "stop", "restarting"} : Waiting(S, for)
      BY <1>m DEF StartNow
    <3> HIDE DEF Promises, Goal
    <3> QED
      BY <1>m, <1>s, <3>1, <3>2
  <2>2. CASE StartInternal /\ Waiting(S, "start") /\ UNCHANGED stopping
    <3>1. starting' \in [stage : Stages, rec : 0..MaxGen]
      BY <2>2, <1>n
    <3>2. Promises
      BY <1>m, <2>2, <3>1 DEF Callers
    <3> HIDE DEF Promises, Goal
    <3> QED
      BY <1>m, <1>s, <2>2, <3>2
  <2> QED
    BY <1>m, <2>1, <2>2 DEF StartNow
<1>t. ASSUME NEW S, \A c \in S \cap Calls : call[c].waits \notin {"stop", "done"}, Start(S)
      PROVE  Goal
  <2>1. CASE /\ later' = IF later = "none" THEN "waiting" ELSE later
             /\ Waiting(S, "later") /\ UNCHANGED <<sup, starting, stopping>>
    <3>1. Promises
      BY <2>1 DEF Callers
    <3> HIDE DEF Promises, Goal
    <3> QED
      BY <1>t, <1>s, <2>1, <3>1
  <2>2. CASE StartNow(S) /\ UNCHANGED later
    <3>1. later' \in {"none", "waiting", "due"}
      BY <2>2 DEF Callers
    <3> HIDE DEF Goal
    <3> QED
      BY <1>t, <1>m, <2>2, <3>1
  <2> QED
    BY <1>t, <2>1, <2>2 DEF Start
<1>o. ASSUME NEW S, S.current \in 0..MaxGen, Stop(S), UNCHANGED <<starting, later>>
      PROVE  Promises
  <2>1. CASE stopping' = [on |-> TRUE, rec |-> S.current]
    <3>1. stopping' \in [on : BOOLEAN, rec : 0..MaxGen]
      BY <1>o, <2>1
    <3> QED
      BY <1>o, <3>1 DEF Callers
  <2>2. CASE UNCHANGED stopping
    BY <1>o, <2>2 DEF Callers
  <2> QED
    BY <1>o, <2>1, <2>2 DEF Stop
<1>1. ASSUME NEW c \in Calls, CallStart(c) \/ RestartStarts(c) PROVE Goal
  <2>1. \A k \in {c} \cap Calls : call[k].waits \notin {"stop", "done"}
    BY <1>1 DEF CallStart, RestartStarts
  <2> HIDE DEF Goal
  <2> QED
    BY <1>1, <1>t, <2>1 DEF CallStart, RestartStarts
<1>2. ASSUME NEW c \in Calls, CallStop(c) PROVE Goal
  <2>1. Promises
    BY <1>2, <1>c, <1>o DEF CallStop
  <2> HIDE DEF Goal, Promises
  <2>2. \A k \in {c} \cap Calls : call[k].waits \notin {"stop", "done"}
    BY <1>2 DEF CallStop
  <2> QED
    BY <1>2, <1>s, <2>1, <2>2 DEF CallStop
<1>3. ASSUME NEW c \in Calls, CallRestart(c) PROVE Goal
  <2>1. Promises
    <3>1. [sup EXCEPT !.breaker = FALSE, !.failures = 0].current \in 0..MaxGen
      BY DEF IInv, Sound, Fields
    <3> QED
      BY <1>3, <1>o, <3>1 DEF CallRestart
  <2> HIDE DEF Goal, Promises
  <2>2. \A k \in {c} \cap Calls : call[k].waits \notin {"stop", "done"}
    BY <1>3 DEF CallRestart
  <2> QED
    BY <1>3, <1>s, <2>1, <2>2 DEF CallRestart
<1>5. CASE Cleared
  <2>1. starting' \in [stage : Stages, rec : 0..MaxGen]
    <3>1. CASE Spawns
      BY <3>1, <1>n
    <3>2. CASE starting' = [stage |-> "rejected", rec |-> 0]
      BY <3>2
    <3> QED
      BY <1>5, <3>1, <3>2 DEF Cleared
  <2>2. Promises /\ UNCHANGED call
    BY <1>5, <2>1 DEF Cleared, Callers
  <2> QED
    BY <2>2, <1>u
<1>6. CASE SpawnChecked
  <2>1. starting' \in [stage : Stages, rec : 0..MaxGen]
    BY <1>6 DEF SpawnChecked, Callers
  <2>2. Promises /\ UNCHANGED call
    BY <1>6, <2>1 DEF SpawnChecked, Callers
  <2> QED
    BY <2>2, <1>u
<1>7. CASE StartFailed
  <2>1. Promises /\ UNCHANGED call
    BY <1>7 DEF StartFailed, Callers
  <2> QED
    BY <2>1, <1>u
<1>8. CASE StartSettles
  <2>1. Promises
    BY <1>8 DEF StartSettles, Callers
  <2>2. /\ starting.stage \in {"resolved", "rejected"}
        /\ Settled({k \in Calls : call[k].waits = "start"}, starting.stage)
    BY <1>8 DEF StartSettles
  <2> HIDE DEF Goal, Promises
  <2> QED
    BY <1>s, <2>1, <2>2
<1>9. CASE StopSettles
  <2> DEFINE F(k) == CASE call[k].waits = "stop" ->
                             Done(k, IF stopping.rec # 0 /\ sup.rec[stopping.rec].term = "failed"
                                     THEN "rejected" ELSE "resolved")
                       [] call[k].waits = "restarting"
                          /\ stopping.rec # 0 /\ sup.rec[stopping.rec].term = "failed" ->
                             Done(k, "rejected")
                       [] call[k].waits = "restarting" -> [call[k] EXCEPT !.waits = "restart"]
                       [] call[k].waits = "later" /\ later = "waiting"
                          /\ stopping.rec # 0 /\ sup.rec[stopping.rec].term = "failed" ->
                             Done(k, "rejected")
                       [] OTHER -> call[k]
  <2>1. call' = [k \in Calls |-> F(k)]
    BY <1>9 DEF StopSettles
  <2>2. ASSUME NEW k \in Calls
        PROVE  F(k) \in CallTypes /\ (F(k).waits # "done" => F(k).result = "none")
    <3>1. call[k] \in CallTypes /\ (call[k].waits # "done" => call[k].result = "none")
      BY DEF Callers
    <3>2. ASSUME NEW result \in {"resolved", "rejected"}
          PROVE  Done(k, result) \in CallTypes /\ Done(k, result).waits = "done"
      BY <3>1 DEF Done, CallTypes
    <3>3. CASE call[k].waits = "restarting"
      <4>1. /\ [call[k] EXCEPT !.waits = "restart"] \in CallTypes
            /\ [call[k] EXCEPT !.waits = "restart"].result = "none"
        BY <3>1, <3>3 DEF CallTypes
      <4>2. F(k) \in {Done(k, "rejected"), [call[k] EXCEPT !.waits = "restart"]}
        BY <3>3
      <4> HIDE DEF F
      <4> QED
        BY <3>2, <4>1, <4>2
    <3>4. CASE call[k].waits # "restarting"
      BY <3>1, <3>2, <3>4
    <3> QED
      BY <3>3, <3>4
  <2>3. Promises
    BY <1>9 DEF StopSettles, Callers
  <2> HIDE DEF F
  <2> QED
    BY <1>9, <2>1, <2>2, <2>3 DEF Callers
<1>10. CASE LaterStarts
  <2>1. CASE UNCHANGED <<sup, starting, stopping, call>> /\ later' = "waiting"
    <3>1. Promises
      BY <2>1 DEF Callers
    <3> QED
      BY <2>1, <3>1, <1>u
  <2>2. CASE later' = "none" /\ StartNow({k \in Calls : call[k].waits = "later"})
    <3> HIDE DEF Goal
    <3> QED
      BY <2>2, <1>m
  <2> QED
    BY <1>10, <2>1, <2>2 DEF LaterStarts
<1>11. CASE UNCHANGED <<starting, stopping, later, call>>
  BY <1>11, <1>p, <1>u
<1>12. CASE \E n \in Generations :
         \/ Spawned(n) \/ SpawnError(n)
         \/ Exit(n) \/ ChildFault(n) \/ StreamCloses(n) \/ ClientTerminated(n)
         \/ TerminationEnds(n) \/ Escalates(n)
         \/ ReportInitializationSuccess(n) \/ ReportInitializationFailure(n)
  <2>1. UNCHANGED <<starting, stopping, later, call>>
    BY <1>12 DEF Spawned, SpawnError, Exit, ChildFault, StreamCloses, ClientTerminated,
       TerminationEnds, Escalates, ReportInitializationSuccess, ReportInitializationFailure
  <2> QED
    BY <2>1, <1>11
<1> HIDE DEF Goal
<1> QED
  BY <1>1, <1>2, <1>3, <1>5, <1>6, <1>7, <1>8, <1>9, <1>10, <1>11, <1>12
  DEF Next, Continuations, vars

-------------------------------------------------------------------------------
(* Theorems *)

LEMMA AlwaysSound == Spec => []IInv
  BY InitIInv, NextIInv, PTL DEF Spec

\* However calls, timers and events of the children interleave, a process that
\* exists is the current child (startInternal 227-314, onExit 402-420).
THEOREM NoOrphans == Spec => []ChildOwned
<1>1. IInv => ChildOwned
  BY DEF IInv, Sound, ChildOwned
<1> QED
  BY <1>1, AlwaysSound, PTL

\* A client that takes requests talks to a running current child (terminateRecord
\* 586-606 closes it before the first signal, onExit before the record is dropped).
THEOREM ClientsAreLive == Spec => []OpenClientIsLive
<1>1. IInv => OpenClientIsLive
  BY DEF IInv, Sound, SoundRecord, OpenClientIsLive
<1> QED
  BY <1>1, AlwaysSound, PTL

LEMMA AlwaysCounted == Spec => [](IInv /\ Count /\ Callers)
<1> DEFINE Inv == IInv /\ Count /\ Callers
<1>1. Init => Inv
  BY InitIInv, InitCount, InitCallers
<1>2. Inv /\ [Next]_vars => Inv'
  BY NextIInv, NextCount, NextCallers
<1> QED
  BY <1>1, <1>2, PTL DEF Spec

\* The supervisor's fields, promises and callers keep their types; in particular the
\* count of failures never passes the breaker's two.
THEOREM TypeCorrect == Spec => []TypeOK
<1>1. IInv /\ Count /\ Callers => TypeOK
  BY DEF IInv, Sound, Fields, Count, Tallied, Callers, CallTypes, TypeOK
<1> QED
  BY <1>1, AlwaysCounted, PTL

\* No third child after two failures, also for a start that waited for the previous
\* child to go and does not look at the breaker again (start 152-179, startInternal 227-278).
THEOREM BreakerHolds == Spec => NoThirdTry
<1>1. IInv /\ Count /\ Callers /\ [Next]_vars => [sup'.next # sup.next => sup.failures < 2]_vars
  BY NextCount
<1> QED
  BY <1>1, AlwaysCounted, PTL DEF Spec, NoThirdTry

\* A stop that resolves leaves no process, whatever starts and restarts it met
\* (stop 188-200, stopInternal 331-345).
THEOREM StopsMeanIt == Spec => StopStops
<1> DEFINE Stopped == \A c \in Calls :
             call[c].waits = "stop" /\ call'[c].result = "resolved"
             => \A n \in Generations : ~ sup'.rec[n].alive
<1>1. ASSUME IInv, Count, Callers, [Next]_vars PROVE [Stopped]_vars
  <2> SUFFICES ASSUME NEW c \in Calls, call[c].waits = "stop", call'[c].result = "resolved",
                      NEW n \in Generations
               PROVE  ~ sup'.rec[n].alive
    OBVIOUS
  <2>1. StopSettles
    BY <1>1, NextCallers
  <2>2. stopping.rec = 0 \/ sup.rec[stopping.rec].term = "done"
    <3>1. stopping.rec # 0 => sup.rec[stopping.rec].term \in {"done", "failed"}
      BY <2>1 DEF StopSettles
    <3>2. ASSUME stopping.rec # 0, sup.rec[stopping.rec].term = "failed" PROVE FALSE
      <4>1. call'[c] = Done(c, "rejected")
        BY <2>1, <3>2 DEF StopSettles
      <4>2. Done(c, "rejected").result = "rejected"
        BY <1>1 DEF Callers, CallTypes, Done
      <4> QED
        BY <4>1, <4>2
    <3> QED
      BY <3>1, <3>2
  <2>3. sup.current \in {0, stopping.rec} /\ sup' = sup
    BY <1>1, <2>1 DEF Count, StopOwns, StopSettles
  <2>4. ASSUME sup.rec[n].alive PROVE FALSE
    <3>1. sup.current = n /\ ~ sup.rec[n].exited
      BY <1>1, <2>4 DEF IInv, Sound, SoundRecord
    <3>2. n # 0 /\ Judged(sup.rec[n])
      BY <1>1 DEF Count, Tallied, Generations
    <3> QED
      BY <2>2, <2>3, <3>1, <3>2 DEF Judged
  <2> QED
    BY <2>3, <2>4
<1>2. IInv /\ Count /\ Callers /\ [Next]_vars => [Stopped]_vars
  BY <1>1
<1> QED
  BY <1>2, AlwaysCounted, PTL DEF Spec, StopStops

===============================================================================
