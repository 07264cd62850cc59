---------------------------- MODULE ProcessSupervisor ----------------------------
(***************************************************************************)
(* ProcessSupervisor (process-supervisor.ts): one codex app-server child at *)
(* a time, calls of start, stop and restart that join each other's          *)
(* promises, a bounded termination, and a breaker that refuses to start     *)
(* after two failures in a row.                                             *)
(*                                                                         *)
(* A child is known by its generation, 0 stands for none.  A step is what   *)
(* the code runs between two awaits, or one event of the child process.     *)
(* No order is assumed between continuations, timers and events.            *)
(* Abstracted: "close" events of an exited child only remove listeners;     *)
(* stdio streams are one flag; errors carry no text.                        *)
(***************************************************************************)
EXTENDS Naturals, FiniteSets

CONSTANTS
    Calls,      \* calls of start, stop (or dispose) and restart
    MaxGen      \* bound: children spawned

ASSUME SupervisorAssumption == MaxGen \in Nat \ {0}

VARIABLES
    sup,        \* the fields of the supervisor, with its child records
    starting,   \* startPromise: where startInternal is
    stopping,   \* stopPromise: the record that stopInternal terminates
    later,      \* startAfterStopPromise
    call        \* the callers

vars == <<sup, starting, stopping, later, call>>

Generations == 1..MaxGen

(***************************************************************************)
(* alive     the operating system's process exists                         *)
(* settled   spawnSettled, exited: exitObserved, broken: a stdio stream     *)
(*           closed before the client existed, counted: failureRecorded     *)
(* term      terminationPromise: the wait performTermination is at          *)
(***************************************************************************)
Record == [ state : {"none", "starting", "running", "terminating", "stuck", "exited"},
            alive : BOOLEAN, settled : BOOLEAN, exited : BOOLEAN, broken : BOOLEAN,
            intentional : BOOLEAN, counted : BOOLEAN,
            client : {"none", "open", "closed"},
            term : {"none", "grace", "killed", "forced", "done", "failed"} ]

NoRecord == [ state |-> "none", alive |-> FALSE, settled |-> FALSE, exited |-> FALSE,
              broken |-> FALSE, intentional |-> FALSE, counted |-> FALSE,
              client |-> "none", term |-> "none" ]

Init ==
    /\ sup = [ rec |-> [n \in Generations |-> NoRecord], current |-> 0, next |-> 1,
               failures |-> 0, breaker |-> FALSE ]
    /\ starting = [stage |-> "none", rec |-> 0]
    /\ stopping = [on |-> FALSE, rec |-> 0]
    /\ later = "none"
    /\ call = [c \in Calls |-> [waits |-> "idle", result |-> "none"]]

-------------------------------------------------------------------------------
(* Operations on the supervisor's fields *)

\* MUTANT of RecordFailure: a child's failure is counted every time it is seen.
RecordFailureAgain(S, n) ==
    [S EXCEPT !.failures = @ + 1, !.breaker = @ \/ S.failures >= 1]

\* MUTANT of RecordFailure: the breaker opens one failure late.
RecordFailureLate(S, n) ==
    IF n # 0 /\ (S.rec[n].intentional \/ S.rec[n].counted) THEN S
    ELSE [S EXCEPT !.failures = @ + 1,
                   !.breaker = @ \/ S.failures + 1 > 2,
                   !.rec = [m \in Generations |->
                        IF m = n THEN [@[m] EXCEPT !.counted = TRUE] ELSE @[m]]]

\* recordFailure: once per child, never for an intentional termination; n = 0 is a
\* failure without a child.
RecordFailure(S, n) ==
    IF n # 0 /\ (S.rec[n].intentional \/ S.rec[n].counted) THEN S
    ELSE [S EXCEPT !.failures = @ + 1,
                   !.breaker = @ \/ S.failures + 1 >= 2,
                   !.rec = [m \in Generations |->
                        IF m = n THEN [@[m] EXCEPT !.counted = TRUE] ELSE @[m]]]

\* MUTANT of TerminateRecord: the client stays open until the child exits.
TerminateRecordOpen(S, n, intentional) ==
    IF S.rec[n].term # "none" THEN S
    ELSE [S EXCEPT !.rec[n] =
            [@ EXCEPT !.intentional = @ \/ intentional, !.state = "terminating",
                      !.term = IF S.rec[n].exited THEN "done" ELSE "grace"]]

Terminating(R, intentional) ==
    [R EXCEPT !.intentional = @ \/ intentional,
              !.state = "terminating",
              !.client = IF @ = "open" THEN "closed" ELSE @,
              !.term = IF R.exited THEN "done" ELSE "grace"]

\* terminateRecord: the first call decides whether it was intentional, closes the
\* client and begins the escalation; later calls join it.
TerminateRecord(S, n, intentional) ==
    IF S.rec[n].term # "none" THEN S
    ELSE [S EXCEPT !.rec[n] = Terminating(@, intentional)]

\* The record of an exited child is dropped if it is the current one.
Dropped(S, n) == [S EXCEPT !.current = IF @ = n THEN 0 ELSE @]

\* What most listeners do: a child that fails on its own is counted and terminated.
Failing(S, n) == TerminateRecord(RecordFailure(S, n), n, FALSE)
Unheard(n) == sup.rec[n].exited \/ sup.rec[n].intentional \/ sup.rec[n].term # "none"

-------------------------------------------------------------------------------
(* Events of the child process *)

Spawned(n) ==
    /\ sup.rec[n].alive /\ ~ sup.rec[n].settled
    /\ sup' = [sup EXCEPT !.rec[n].settled = TRUE]
    /\ UNCHANGED <<starting, stopping, later, call>>

\* The "error" event of a process that could not be started: onError and then
\* settleBeforeSpawn.
SpawnError(n) ==
    LET S == IF Unheard(n) THEN sup ELSE Failing(sup, n) IN
    /\ sup.rec[n].state # "none" /\ ~ sup.rec[n].alive /\ ~ sup.rec[n].settled
    /\ sup' = Dropped([S EXCEPT !.rec[n] =
                [@ EXCEPT !.settled = TRUE, !.exited = TRUE, !.state = "exited"]], n)
    /\ UNCHANGED <<starting, stopping, later, call>>

Exited(R) ==
    [R EXCEPT !.alive = FALSE, !.settled = TRUE, !.exited = TRUE, !.state = "exited",
              !.client = IF @ = "open" THEN "closed" ELSE @]

\* onExit, with onExitBeforeSpawn when the spawn is not settled.
Exit(n) ==
    /\ sup.rec[n].alive
    /\ sup' = Dropped(RecordFailure([sup EXCEPT !.rec[n] = Exited(@)], n), n)
    /\ UNCHANGED <<starting, stopping, later, call>>

\* onError, onStdinError, onStdoutError, onStderrError
ChildFault(n) ==
    /\ sup.rec[n].alive /\ ~ Unheard(n)
    /\ sup' = Failing(sup, n)
    /\ UNCHANGED <<starting, stopping, later, call>>

\* A stdio stream closes before there is a client.
StreamCloses(n) ==
    /\ sup.rec[n].alive /\ sup.rec[n].state = "starting"
    /\ sup' = [sup EXCEPT !.rec[n].broken = TRUE]
    /\ UNCHANGED <<starting, stopping, later, call>>

\* The client gives up (end of stdout, a malformed line) and onClientTerminated.
ClientTerminated(n) ==
    LET S == [sup EXCEPT !.rec[n].client = "closed"]
        T == IF sup.current = n THEN RecordFailure(S, n) ELSE S
    IN  /\ sup.rec[n].client = "open" /\ ~ Unheard(n)
        /\ sup' = TerminateRecord(T, n, FALSE)
        /\ UNCHANGED <<starting, stopping, later, call>>

-------------------------------------------------------------------------------
(* performTermination: each wait is for the exit or its timer *)

TerminationEnds(n) ==
    /\ sup.rec[n].term \in {"grace", "killed", "forced"} /\ sup.rec[n].exited
    /\ sup' = [sup EXCEPT !.rec[n].term = "done"]
    /\ UNCHANGED <<starting, stopping, later, call>>

\* MUTANT of Escalates: a child that survives SIGKILL is forgotten.
EscalatesAndForgets(n) ==
    /\ sup.rec[n].term \in {"grace", "killed", "forced"} /\ ~ sup.rec[n].exited
    /\ sup' = IF sup.rec[n].term = "forced"
              THEN Dropped([sup EXCEPT !.rec[n].term = "failed", !.rec[n].state = "stuck"], n)
              ELSE [sup EXCEPT !.rec[n].term = IF @ = "grace" THEN "killed" ELSE "forced"]
    /\ UNCHANGED <<starting, stopping, later, call>>

\* MUTANT of Escalates: after SIGKILL the exit is awaited without a timer.
EscalatesTwice(n) ==
    /\ sup.rec[n].term \in {"grace", "killed"} /\ ~ sup.rec[n].exited
    /\ sup' = [sup EXCEPT !.rec[n].term = IF @ = "grace" THEN "killed" ELSE "forced"]
    /\ UNCHANGED <<starting, stopping, later, call>>

\* killGraceMs, then twice forceKillWaitMs, have passed.
Escalates(n) ==
    /\ ~ sup.rec[n].exited
    /\ \/ /\ sup.rec[n].term = "grace"
          /\ sup' = [sup EXCEPT !.rec[n].term = "killed"]
       \/ /\ sup.rec[n].term = "killed"
          /\ sup' = [sup EXCEPT !.rec[n].term = "forced"]
       \/ /\ sup.rec[n].term = "forced"
          /\ sup' = [sup EXCEPT !.rec[n].term = "failed", !.rec[n].state = "stuck"]
    /\ UNCHANGED <<starting, stopping, later, call>>

-------------------------------------------------------------------------------
(* start *)

\* A call that waits for nothing any more.
Done(k, result) == [call[k] EXCEPT !.waits = "done", !.result = result]

Settled(S, result) == call' = [k \in Calls |-> IF k \in S THEN Done(k, result) ELSE call[k]]
Waiting(S, for) == call' = [k \in Calls |->
    IF k \in S THEN [call[k] EXCEPT !.waits = for] ELSE call[k]]

\* The end of startInternal's synchronous part: the executable is not found, spawn
\* throws, or there is a new child, whose process may turn out not to have started.
Spawns ==
    \/ /\ sup' = RecordFailure(sup, 0)
       /\ starting' = [stage |-> "rejected", rec |-> 0]
    \/ /\ sup.next <= MaxGen
       /\ \E ok \in BOOLEAN, broken \in BOOLEAN :
            sup' = [sup EXCEPT
                !.rec[sup.next] = [NoRecord EXCEPT !.state = "starting", !.alive = ok,
                                                   !.broken = broken],
                !.current = sup.next, !.next = @ + 1]
       /\ starting' = [stage |-> "spawned", rec |-> sup.next]

Usable(n) == n # 0 /\ sup.rec[n].state = "running" /\ sup.rec[n].client = "open"

\* startInternal until its first await: an unusable child is terminated first.
StartInternal ==
    IF sup.current = 0 THEN Spawns
    ELSE /\ sup' = TerminateRecord(sup, sup.current, FALSE)
         /\ starting' = [stage |-> "clearing", rec |-> sup.current]

\* start() on behalf of the calls in S, when no stop is running.
StartNow(S) ==
    /\ UNCHANGED stopping
    /\ \/ /\ starting.stage # "none"
          /\ IF sup.current # 0 /\ (\/ sup.rec[sup.current].state = "terminating"
                                    \/ sup.rec[sup.current].intentional)
             THEN Settled(S, "rejected") ELSE Waiting(S, "start")
          /\ UNCHANGED <<sup, starting>>
       \/ /\ starting.stage = "none" /\ sup.breaker
          /\ Settled(S, "rejected")
          /\ UNCHANGED <<sup, starting>>
       \/ /\ starting.stage = "none" /\ ~ sup.breaker /\ Usable(sup.current)
          /\ Settled(S, "resolved")
          /\ UNCHANGED <<sup, starting>>
       \/ /\ starting.stage = "none" /\ ~ sup.breaker /\ ~ Usable(sup.current)
          /\ Waiting(S, "start")
          /\ StartInternal

\* start() joins the start that waits for the stop, or becomes it.
Start(S) ==
    \/ /\ later # "none" \/ stopping.on
       /\ later' = IF later = "none" THEN "waiting" ELSE later
       /\ Waiting(S, "later")
       /\ UNCHANGED <<sup, starting, stopping>>
    \/ /\ later = "none" /\ ~ stopping.on
       /\ StartNow(S)
       /\ UNCHANGED later

CallStart(c) ==
    /\ call[c].waits = "idle"
    /\ Start({c})

\* MUTANT of Cleared: a stop that came meanwhile is not noticed.
ClearedUnaware ==
    LET n == starting.rec IN
    /\ starting.stage = "clearing" /\ sup.rec[n].term \in {"done", "failed"}
    /\ IF sup.rec[n].term = "failed" \/ sup.current # 0
       THEN starting' = [stage |-> "rejected", rec |-> 0] /\ UNCHANGED sup
       ELSE Spawns
    /\ UNCHANGED <<stopping, later, call>>

\* startInternal goes on after the previous child's termination.
Cleared ==
    LET n == starting.rec IN
    /\ starting.stage = "clearing" /\ sup.rec[n].term \in {"done", "failed"}
    /\ IF sup.rec[n].term = "failed" \/ sup.current # 0 \/ stopping.on
       THEN starting' = [stage |-> "rejected", rec |-> 0] /\ UNCHANGED sup
       ELSE Spawns
    /\ UNCHANGED <<stopping, later, call>>

\* startInternal goes on after spawnPromise: a client for a child that is still
\* sound, otherwise the child is terminated.
SpawnChecked ==
    LET n == starting.rec
        R == sup.rec[n]
    IN  /\ starting.stage = "spawned" /\ R.settled
        /\ IF sup.current = n /\ ~ R.exited /\ R.state = "starting" /\ ~ R.intentional
              /\ R.term = "none" /\ ~ R.broken
           THEN /\ sup' = [sup EXCEPT !.rec[n].client = "open", !.rec[n].state = "running"]
                /\ starting' = [starting EXCEPT !.stage = "resolved"]
           ELSE /\ sup' = Failing(sup, n)
                /\ starting' = [starting EXCEPT !.stage = "failing"]
        /\ UNCHANGED <<stopping, later, call>>

\* The failed start ends when the child's termination does.
StartFailed ==
    /\ starting.stage = "failing"
    /\ sup.rec[starting.rec].term \in {"done", "failed"}
    /\ starting' = [starting EXCEPT !.stage = "rejected"]
    /\ UNCHANGED <<sup, stopping, later, call>>

\* startPromise settles and is forgotten.
StartSettles ==
    /\ starting.stage \in {"resolved", "rejected"}
    /\ starting' = [stage |-> "none", rec |-> 0]
    /\ Settled({k \in Calls : call[k].waits = "start"}, starting.stage)
    /\ UNCHANGED <<sup, stopping, later>>

-------------------------------------------------------------------------------
(* stop, restart *)

\* stop(), joined when one is running, on supervisor fields S.
Stop(S) ==
    IF stopping.on THEN sup' = S /\ UNCHANGED stopping
    ELSE /\ sup' = IF S.current = 0 THEN S ELSE TerminateRecord(S, S.current, TRUE)
         /\ stopping' = [on |-> TRUE, rec |-> S.current]

CallStop(c) ==
    /\ call[c].waits = "idle"
    /\ Waiting({c}, "stop")
    /\ Stop(sup)
    /\ UNCHANGED <<starting, later>>

CallRestart(c) ==
    /\ call[c].waits = "idle"
    /\ Waiting({c}, "restarting")
    /\ Stop([sup EXCEPT !.breaker = FALSE, !.failures = 0])
    /\ UNCHANGED <<starting, later>>

\* stopPromise settles once its record's termination has, and the start that was in
\* flight: stops end, restarts go on to start, a start that waited for it is due.
StopSettles ==
    LET failed == stopping.rec # 0 /\ sup.rec[stopping.rec].term = "failed" IN
    /\ stopping.on /\ starting.stage = "none"
    /\ stopping.rec # 0 => sup.rec[stopping.rec].term \in {"done", "failed"}
    /\ stopping' = [on |-> FALSE, rec |-> 0]
    /\ call' = [k \in Calls |->
         CASE call[k].waits = "stop" -> Done(k, IF failed THEN "rejected" ELSE "resolved")
           [] call[k].waits = "restarting" /\ failed -> Done(k, "rejected")
           [] call[k].waits = "restarting" -> [call[k] EXCEPT !.waits = "restart"]
           [] call[k].waits = "later" /\ later = "waiting" /\ failed -> Done(k, "rejected")
           [] OTHER -> call[k]]
    /\ later' = CASE later = "waiting" /\ failed -> "none"
                  [] later = "waiting" -> "due"
                  [] OTHER -> later
    /\ UNCHANGED <<sup, starting>>

\* restart() goes on with start().
RestartStarts(c) ==
    /\ call[c].waits = "restart"
    /\ Start({c})

\* The start that waited calls start() again, for all who joined it; it waits once
\* more if another stop is running.
LaterStarts ==
    /\ later = "due"
    /\ \/ /\ stopping.on
          /\ later' = "waiting"
          /\ UNCHANGED <<sup, starting, stopping, call>>
       \/ /\ ~ stopping.on
          /\ later' = "none"
          /\ StartNow({k \in Calls : call[k].waits = "later"})

-------------------------------------------------------------------------------
(* What the session reports about a client it was given *)

GivenOut(n) ==
    sup.rec[n].client # "none" /\ ~ (starting.stage = "resolved" /\ starting.rec = n)

ReportInitializationSuccess(n) ==
    /\ GivenOut(n)
    /\ sup.current = n /\ sup.rec[n].state = "running"
    /\ sup' = [sup EXCEPT !.failures = 0, !.breaker = FALSE]
    /\ UNCHANGED <<starting, stopping, later, call>>

ReportInitializationFailure(n) ==
    /\ GivenOut(n)
    /\ sup.current = n
    /\ sup' = Failing(sup, n)
    /\ UNCHANGED <<starting, stopping, later, call>>

-------------------------------------------------------------------------------

Continuations ==
    \/ Cleared \/ SpawnChecked \/ StartFailed \/ StartSettles
    \/ StopSettles \/ LaterStarts

Next ==
    \/ \E c \in Calls : CallStart(c) \/ CallStop(c) \/ CallRestart(c) \/ RestartStarts(c)
    \/ Continuations
    \/ \E n \in Generations :
         \/ Spawned(n) \/ SpawnError(n)
         \/ Exit(n) \/ ChildFault(n) \/ StreamCloses(n) \/ ClientTerminated(n)
         \/ TerminationEnds(n) \/ Escalates(n)
         \/ ReportInitializationSuccess(n) \/ ReportInitializationFailure(n)

\* Continuations run, timers fire, and Node reports whether a process started.
\* Nothing obliges a child to exit, not even SIGKILL.
Fairness ==
    /\ WF_vars(Continuations)
    /\ \A c \in Calls : WF_vars(RestartStarts(c))
    /\ \A n \in Generations :
         /\ WF_vars(Spawned(n)) /\ WF_vars(SpawnError(n))
         /\ WF_vars(TerminationEnds(n)) /\ WF_vars(Escalates(n))

Spec == Init /\ [][Next]_vars /\ Fairness

-------------------------------------------------------------------------------
(* Properties *)

TypeOK ==
    /\ sup \in [ rec : [Generations -> Record], current : 0..MaxGen, next : 1..MaxGen + 1,
                 failures : 0..2, breaker : BOOLEAN ]
    /\ starting \in [ stage : {"none", "clearing", "spawned", "failing", "resolved", "rejected"},
                      rec : 0..MaxGen ]
    /\ stopping \in [on : BOOLEAN, rec : 0..MaxGen]
    /\ later \in {"none", "waiting", "due"}
    /\ call \in [ Calls -> [
         waits : {"idle", "start", "later", "stop", "restarting", "restart", "done"},
         result : {"none", "resolved", "rejected"} ] ]

\* No orphan: a process that exists is the current child, so there are never two of
\* them, and stop always reaches the one there is, a stuck one included.
ChildOwned ==
    \A n \in Generations : sup.rec[n].alive => sup.current = n

\* A client that takes requests talks to the current child, which is running and is
\* not being terminated.
OpenClientIsLive ==
    \A n \in Generations : sup.rec[n].client = "open" =>
        /\ sup.current = n /\ sup.rec[n].alive
        /\ sup.rec[n].state = "running" /\ sup.rec[n].term = "none"

\* The breaker: no child is spawned when the last two children, or attempts to start
\* one, have failed since the last successful initialization or restart.
NoThirdTry == [][ sup'.next # sup.next => sup.failures < 2 ]_vars

\* When stop() resolves no process is left, whatever start or restart it met.
StopStops ==
    [][ \A c \in Calls :
          call[c].waits = "stop" /\ call'[c].result = "resolved"
          => \A n \in Generations : ~ sup'.rec[n].alive ]_vars

\* Every call of start, stop and restart returns, even if the child never exits:
\* the joined promises wait for each other in no circle.
CallsReturn == \A c \in Calls : (call[c].waits # "idle") ~> (call[c].waits = "done")

===============================================================================
