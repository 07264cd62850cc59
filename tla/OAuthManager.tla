------------------------------ MODULE OAuthManager ------------------------------
(***************************************************************************)
(* OAuthManager (chatgpt-oauth/oauth-manager.ts) over OAuthStore and the    *)
(* loopback server: sign-in, its manual and loopback callbacks, the shared  *)
(* refresh, sign-out, invalid grants and the queue of writes to the store.  *)
(*                                                                         *)
(* A value of lifecycle names what made it: the sign-in or the clearing of  *)
(* that generation.  activeSignIn is the sign-in that has not settled, and  *)
(* waiters of a flight are the callers that wait for it.                    *)
(* Abstracted: tokens and their metadata, PKCE, the texts of the errors.    *)
(* VS Code answers the reads and writes of a secret in the order they were  *)
(* made, so a read and the resumption of its reader are one step.           *)
(***************************************************************************)
EXTENDS Naturals, Sequences

CONSTANTS
    Callers,      \* calls of getAccessToken
    MaxLifecycle, \* bound: sign-ins, sign-outs and invalid grants
    MaxRequests   \* bound: token requests

ASSUME OAuthAssumption == MaxLifecycle \in Nat /\ MaxRequests \in Nat

VARIABLES
    lifecycle,
    stored,         \* what the secret store holds: who stored it, of which generation
    queue,          \* storageQueue: the operations not done, the first one first
    writing,        \* the store works on the first one
    signIn,         \* the sign-ins, by generation
    clear,          \* the clearings of the store, by generation
    request,        \* the token requests: code exchanges and refresh flights
    refreshPromise, \* the refresh flight that callers join, or 0
    caller          \* the calls of getAccessToken

vars == <<lifecycle, stored, queue, writing, signIn, clear, request, refreshPromise, caller>>
storage == <<stored, queue, writing>>

Generations == 1..MaxLifecycle
Requests == 1..MaxRequests
NoSignIn == [server |-> "none", callback |-> FALSE, terminal |-> TRUE, settled |-> TRUE,
             result |-> "none"]
NoCall == [stage |-> "idle", generation |-> 0, flight |-> 0]
Answered == [NoCall EXCEPT !.stage = "done"]

Init ==
    /\ lifecycle = 0
    /\ stored \in [by : {"nobody", "manager"}, generation : {0}]
    /\ queue = <<>> /\ writing = FALSE
    /\ signIn = [g \in Generations |-> NoSignIn]
    /\ clear = [g \in Generations |-> "none"]
    /\ request = <<>> /\ refreshPromise = 0
    /\ caller = [c \in Callers |-> NoCall]

-------------------------------------------------------------------------------
(* Generations, requests and the storage queue *)

\* MUTANT of Current: what a sign-in or a sign-out made stale goes on.
CurrentAlways(g) == g \in 0..MaxLifecycle

\* assertGeneration.
Current(g) == lifecycle = g

Waiters(f) == {c \in Callers : caller[c].stage = "waiting" /\ caller[c].flight = f}
Ended(r) == request[r].stage \in {"ok", "failed"}

\* The signal of request r: a code exchange has that of its sign-in.
Aborted(r) ==
    IF request[r].kind = "signIn" THEN signIn[request[r].generation].terminal
    ELSE request[r].aborted

\* abortRefreshFlight.
FlightAborted ==
    IF refreshPromise = 0 THEN request ELSE [request EXCEPT ![refreshPromise].aborted = TRUE]

Enqueued(kind, g, r) == Append(queue, [kind |-> kind, generation |-> g, request |-> r])

RequestOf(g) == {r \in DOMAIN request : request[r].kind = "signIn" /\ request[r].generation = g}

\* callbackClaimed of a sign-in that is not terminal: its code is being exchanged.
CallbackClaimed(g) == RequestOf(g) # {}

\* The manager has the server of a sign-in and has not closed it.  The server closes
\* itself ("draining", then "closed") when its callback is decided.
Running == {"open", "draining", "closed"}

\* rejectActive: sign-in g is over; it settles when its server is closed.
Rejected(g, result) ==
    LET S == signIn[g] IN
    IF S.settled THEN signIn
    ELSE [signIn EXCEPT ![g] =
            [S EXCEPT !.terminal = TRUE,
                      !.server = IF S.server \in Running THEN "closing" ELSE S.server,
                      !.settled = S.server \notin Running \cup {"closing"},
                      !.result = IF S.result = "none" THEN result ELSE S.result]]

\* Request r ends; its sign-in fails with it.
RequestFails(r) ==
    /\ request' = [request EXCEPT ![r].stage = "failed"]
    /\ refreshPromise' = IF refreshPromise = r THEN 0 ELSE refreshPromise
    /\ signIn' = IF request[r].kind = "signIn" THEN Rejected(request[r].generation, "rejected")
                 ELSE signIn

-------------------------------------------------------------------------------
(* Sign-in *)

\* signIn while none is active; what was being refreshed is given up.
SignIn ==
    /\ lifecycle < MaxLifecycle
    /\ \A g \in Generations : signIn[g].settled
    /\ lifecycle' = lifecycle + 1
    /\ signIn' = [signIn EXCEPT ![lifecycle'] =
                    [NoSignIn EXCEPT !.server = "starting", !.terminal = FALSE, !.settled = FALSE]]
    /\ request' = FlightAborted
    /\ UNCHANGED <<storage, clear, refreshPromise, caller>>

\* MUTANT of ServerStarts: a server that starts late is left listening.
ServerStartsUnchecked(g) ==
    /\ signIn[g].server = "starting"
    /\ signIn' = [signIn EXCEPT ![g].server = "open"]
    /\ UNCHANGED <<lifecycle, storage, clear, request, refreshPromise, caller>>

\* The loopback server listens; one that comes too late is closed again.
ServerStarts(g) ==
    /\ signIn[g].server = "starting"
    /\ signIn' = [signIn EXCEPT ![g].server = IF signIn[g].terminal THEN "closing" ELSE "open"]
    /\ UNCHANGED <<lifecycle, storage, clear, request, refreshPromise, caller>>

\* No port could be opened.
ServerFails(g) ==
    /\ signIn[g].server = "starting"
    /\ signIn' = [Rejected(g, "rejected") EXCEPT ![g].server = "none", ![g].callback = TRUE]
    /\ UNCHANGED <<lifecycle, storage, clear, request, refreshPromise, caller>>

\* openExternal fails or does not open a browser.
BrowserFails(g) ==
    /\ signIn[g].server \in Running \cup {"closing"} /\ ~ signIn[g].terminal
    /\ signIn' = Rejected(g, "rejected")
    /\ UNCHANGED <<lifecycle, storage, clear, request, refreshPromise, caller>>

\* completeCallback up to the code exchange, for the record S that sign-in g has then.
Exchange(g, S) ==
    /\ Len(request) < MaxRequests
    /\ request' = Append(request, [kind |-> "signIn", generation |-> g, aborted |-> FALSE,
                                   stage |-> "posting"])
    /\ signIn' = [signIn EXCEPT ![g] = S]

\* completeManualCallback: the callback pasted by the user is exchanged or found invalid.
ManualCallback(g) ==
    /\ signIn[g].server \in Running /\ ~ signIn[g].terminal /\ ~ CallbackClaimed(g)
    /\ \/ Exchange(g, signIn[g])
       \/ /\ signIn' = Rejected(g, "rejected")
          /\ UNCHANGED request
    /\ UNCHANGED <<lifecycle, storage, clear, refreshPromise, caller>>

\* The callback reaches the loopback server, or five minutes pass or the server fails:
\* it takes no other callback and closes itself.
LoopbackCloses(g) ==
    /\ signIn[g].server = "open"
    /\ signIn' = [signIn EXCEPT ![g].server = "draining"]
    /\ UNCHANGED <<lifecycle, storage, clear, request, refreshPromise, caller>>

\* It has closed with a callback, which observeCallback hands on; a sign-in whose
\* callback was claimed is rejected.
LoopbackCallback(g) ==
    LET closed == [signIn[g] EXCEPT !.server = "closed", !.callback = TRUE]
    IN  /\ signIn[g].server = "draining"
        /\ \/ /\ ~ CallbackClaimed(g)
              /\ Exchange(g, closed)
           \/ /\ signIn' = [Rejected(g, IF CallbackClaimed(g) THEN "observer" ELSE "rejected")
                              EXCEPT ![g].callback = TRUE]
              /\ UNCHANGED request
        /\ UNCHANGED <<lifecycle, storage, clear, refreshPromise, caller>>

\* It has closed, or failed to, without a callback.
LoopbackTimeout(g) ==
    /\ signIn[g].server = "draining"
    /\ signIn' = [Rejected(g, "rejected") EXCEPT ![g].callback = TRUE]
    /\ UNCHANGED <<lifecycle, storage, clear, request, refreshPromise, caller>>

\* close of the handle of g returns, at once when the server had closed itself, which
\* then cannot fail.  A callback that did not come is a failure, which observeCallback
\* sees before completeCallback goes on.
ServerCloses(g) ==
    LET S == signIn[g]
        Outcome(ok) == IF S.result # "none" THEN S.result
                       ELSE IF ~ Current(g) THEN "rejected"
                       ELSE IF S.callback THEN "signedIn"
                       ELSE IF ok THEN "observer" ELSE "rejected"
    IN  /\ S.server = "closing"
        /\ \E ok \in BOOLEAN :
             signIn' = [signIn EXCEPT ![g] =
                          [server |-> "none", callback |-> TRUE, terminal |-> TRUE,
                           settled |-> TRUE, result |-> Outcome(ok)]]
        /\ UNCHANGED <<lifecycle, storage, clear, request, refreshPromise, caller>>

-------------------------------------------------------------------------------
(* Token requests *)

\* fetchToken answers with the headers of a response.
RequestAnswered(r) ==
    /\ request[r].stage = "posting" /\ ~ Aborted(r)
    /\ request' = [request EXCEPT ![r].stage = "body"]
    /\ UNCHANGED <<lifecycle, storage, clear, signIn, refreshPromise, caller>>

\* It fails, times out after 60 seconds or is aborted.
RequestLost(r) ==
    /\ request[r].stage = "posting"
    /\ RequestFails(r)
    /\ UNCHANGED <<lifecycle, storage, clear, caller>>

\* The body brings tokens, and the generation is the same: they are to be saved.
TokensArrive(r) ==
    /\ request[r].stage = "body"
    /\ Current(request[r].generation)
    /\ request[r].kind = "signIn" => ~ signIn[request[r].generation].terminal
    /\ request' = [request EXCEPT ![r].stage = "storing"]
    /\ queue' = Enqueued("save", request[r].generation, r)
    /\ UNCHANGED <<lifecycle, stored, writing, clear, signIn, refreshPromise, caller>>

\* The body says invalid_grant, and the generation is the same: the session is cleared.
InvalidGrant(r) ==
    /\ request[r].stage = "body"
    /\ Current(request[r].generation) /\ lifecycle < MaxLifecycle
    /\ lifecycle' = lifecycle + 1
    /\ request' = [FlightAborted EXCEPT ![r].stage = "storing"]
    /\ clear' = [clear EXCEPT ![lifecycle'] = "queued"]
    /\ queue' = Enqueued("clear", lifecycle', r)
    /\ UNCHANGED <<stored, writing, signIn, refreshPromise, caller>>

\* The body is refused, unusable or too late.
BodyUseless(r) ==
    /\ request[r].stage = "body"
    /\ RequestFails(r)
    /\ UNCHANGED <<lifecycle, storage, clear, caller>>

-------------------------------------------------------------------------------
(* The storage queue *)

\* MUTANT of Dequeued: the store is thought to be still at work.
DequeuedOnly == queue' = Tail(queue) /\ UNCHANGED writing

\* The first operation has returned.
Dequeued == queue' = Tail(queue) /\ writing' = FALSE

\* The first operation starts; a save of another generation fails at once.
StorageStarts ==
    /\ queue # <<>> /\ ~ writing
    /\ IF Head(queue).kind = "save" /\ ~ Current(Head(queue).generation)
       THEN /\ queue' = Tail(queue)
            /\ RequestFails(Head(queue).request)
            /\ UNCHANGED writing
       ELSE /\ writing' = TRUE
            /\ UNCHANGED <<queue, request, refreshPromise, signIn>>
    /\ UNCHANGED <<lifecycle, stored, clear, caller>>

\* The session of request r, of generation g, is saved and its generation is the same: a refresh has
\* ended, a sign-in closes its server.
SessionSaved(r, g) ==
    /\ request' = [request EXCEPT ![r].stage = "ok"]
    /\ refreshPromise' = IF refreshPromise = r THEN 0 ELSE refreshPromise
    /\ signIn' = IF request[r].kind = "signIn" THEN [signIn EXCEPT ![g].server = "closing"]
                 ELSE signIn

SaveReturns ==
    /\ writing /\ Head(queue).kind = "save"
    /\ \E ok \in BOOLEAN :
         LET g == Head(queue).generation
             r == Head(queue).request
             goesOn == /\ ok /\ Current(g)
                       /\ request[r].kind = "signIn" => ~ signIn[g].terminal
         IN  /\ stored' = IF ok THEN [by |-> "manager", generation |-> g] ELSE stored
             /\ IF goesOn THEN SessionSaved(r, g) ELSE RequestFails(r)
    /\ Dequeued
    /\ UNCHANGED <<lifecycle, clear, caller>>

ClearReturns ==
    /\ writing /\ Head(queue).kind = "clear"
    /\ \E ok \in BOOLEAN :
         /\ stored' = IF ok THEN [by |-> "nobody", generation |-> 0] ELSE stored
         /\ clear' = [clear EXCEPT ![Head(queue).generation] = IF ok THEN "done" ELSE "failed"]
    /\ IF Head(queue).request = 0 THEN UNCHANGED <<request, refreshPromise, signIn>>
       ELSE RequestFails(Head(queue).request)
    /\ Dequeued
    /\ UNCHANGED <<lifecycle, caller>>

\* The import of the session of the Codex command line writes to the store directly.
ImportLocalSession ==
    /\ stored' = [by |-> "import", generation |-> 0]
    /\ UNCHANGED <<lifecycle, queue, writing, signIn, clear, request, refreshPromise, caller>>

-------------------------------------------------------------------------------
(* Sign-out *)

SignOut ==
    /\ lifecycle < MaxLifecycle
    /\ lifecycle' = lifecycle + 1
    /\ request' = FlightAborted
    /\ signIn' = [g \in Generations |-> Rejected(g, "rejected")[g]]
    /\ clear' = [clear EXCEPT ![lifecycle'] = "closing"]
    /\ UNCHANGED <<storage, refreshPromise, caller>>

\* The sign-in that sign-out g found has settled: the clearing joins the queue.
SignOutClears(g) ==
    /\ clear[g] = "closing"
    /\ \A s \in Generations : s < g => signIn[s].settled
    /\ clear' = [clear EXCEPT ![g] = "queued"]
    /\ queue' = Enqueued("clear", g, 0)
    /\ UNCHANGED <<lifecycle, stored, writing, signIn, request, refreshPromise, caller>>

-------------------------------------------------------------------------------
(* getAccessToken *)

GetAccessToken(c) ==
    /\ caller[c].stage = "idle"
    /\ caller' = [caller EXCEPT ![c] = [@ EXCEPT !.stage = "loading", !.generation = lifecycle]]
    /\ UNCHANGED <<lifecycle, storage, signIn, clear, request, refreshPromise>>

\* The session is loaded.  The call ends when the generation changed, nothing is stored
\* or what is stored need not be refreshed.
NoRefresh(c) ==
    /\ caller[c].stage = "loading"
    /\ caller' = [caller EXCEPT ![c] = Answered]
    /\ UNCHANGED <<lifecycle, storage, signIn, clear, request, refreshPromise>>

\* MUTANT of Joins: a caller joins only a flight that nobody gave up.
JoinsUnaborted(c) ==
    /\ refreshPromise # 0 /\ ~ request[refreshPromise].aborted
    /\ request[refreshPromise].generation = caller[c].generation

\* There is a flight of the generation of c.
Joins(c) ==
    /\ refreshPromise # 0
    /\ request[refreshPromise].generation = caller[c].generation

\* The requests R after caller c left flight f; the last one to leave aborts it.
Left(R, f, c) ==
    IF Waiters(f) \subseteq {c} THEN [R EXCEPT ![f].aborted = TRUE] ELSE R

\* It must be refreshed: c waits for the flight of its generation, made if there is
\* none; a caller whose signal is aborted by then leaves the flight at once.
Refresh(c) ==
    LET flight == [kind |-> "refresh", generation |-> lifecycle, aborted |-> FALSE,
                   stage |-> "posting"]
        R == IF Joins(c) THEN request ELSE Append(request, flight)
        f == IF Joins(c) THEN refreshPromise ELSE Len(R)
    IN  /\ caller[c].stage = "loading"
        /\ Current(caller[c].generation) /\ stored.by # "nobody" /\ f \in Requests
        /\ refreshPromise' = f
        /\ \/ /\ request' = R
              /\ caller' = [caller EXCEPT ![c] = [@ EXCEPT !.stage = "waiting", !.flight = f]]
           \/ /\ request' = Left(R, f, c)
              /\ caller' = [caller EXCEPT ![c] = Answered]
        /\ UNCHANGED <<lifecycle, storage, signIn, clear>>

\* The signal of c is aborted while it waits.
Leave(c) ==
    /\ caller[c].stage = "waiting" /\ ~ Ended(caller[c].flight)
    /\ caller' = [caller EXCEPT ![c] = Answered]
    /\ request' = Left(request, caller[c].flight, c)
    /\ UNCHANGED <<lifecycle, storage, signIn, clear, refreshPromise>>

\* MUTANT of FlightEnds: a caller is not told of a flight that failed.
FlightEndsWell(c) ==
    /\ caller[c].stage = "waiting" /\ request[caller[c].flight].stage = "ok"
    /\ caller' = [caller EXCEPT ![c] = Answered]
    /\ UNCHANGED <<lifecycle, storage, signIn, clear, request, refreshPromise>>

\* The flight has ended: c has its token, or an error.
FlightEnds(c) ==
    /\ caller[c].stage = "waiting" /\ Ended(caller[c].flight)
    /\ caller' = [caller EXCEPT ![c] = Answered]
    /\ UNCHANGED <<lifecycle, storage, signIn, clear, request, refreshPromise>>

-------------------------------------------------------------------------------
Server(g) == ServerStarts(g) \/ ServerFails(g)
Loopback(g) == LoopbackCloses(g) \/ LoopbackCallback(g) \/ LoopbackTimeout(g)
Fetch(r) == RequestAnswered(r) \/ RequestLost(r)
Body(r) == TokensArrive(r) \/ InvalidGrant(r) \/ BodyUseless(r)
Storage == StorageStarts \/ SaveReturns \/ ClearReturns
Load(c) == NoRefresh(c) \/ Refresh(c)

Next ==
    \/ SignIn \/ SignOut \/ ImportLocalSession \/ Storage
    \/ \E g \in Generations :
         \/ Server(g) \/ BrowserFails(g) \/ ManualCallback(g) \/ Loopback(g)
         \/ ServerCloses(g) \/ SignOutClears(g)
    \/ \E r \in DOMAIN request : Fetch(r) \/ Body(r)
    \/ \E c \in Callers :
         GetAccessToken(c) \/ Load(c) \/ Leave(c) \/ FlightEnds(c)

\* The server, the secret store and the two timers go on; nothing limits how long the
\* body of a response may take.
Fairness ==
    /\ WF_vars(Storage)
    /\ \A g \in Generations :
         /\ WF_vars(Server(g)) /\ WF_vars(Loopback(g))
         /\ WF_vars(ServerCloses(g)) /\ WF_vars(SignOutClears(g))
    /\ \A r \in Requests : WF_vars(r \in DOMAIN request /\ Fetch(r))
    /\ \A c \in Callers : WF_vars(Load(c)) /\ WF_vars(FlightEnds(c))

Spec == Init /\ [][Next]_vars /\ Fairness

-------------------------------------------------------------------------------
(* Properties *)

SignInRecord ==
    [server : {"none", "starting", "closing"} \cup Running, callback : BOOLEAN,
     terminal : BOOLEAN, settled : BOOLEAN,
     result : {"none", "signedIn", "rejected", "observer"}]
TokenRequest ==
    {q \in [kind : {"signIn", "refresh"}, generation : 0..MaxLifecycle, aborted : BOOLEAN,
            stage : {"posting", "body", "storing", "ok", "failed"}] :
        q.kind = "signIn" => q.generation \in Generations}
StorageOp(n, g) ==
    {o \in [kind : {"save", "clear"}, generation : 0..g, request : 0..n] :
        /\ o.kind = "save" => o.request # 0
        /\ o.kind = "clear" => o.generation \in Generations}
Call(n) ==
    [stage : {"idle", "loading", "waiting", "done"}, generation : 0..MaxLifecycle, flight : 0..n]

\* The variables have their types; requests named by the others have been made.
TypeOK ==
    /\ lifecycle \in 0..MaxLifecycle
    /\ stored \in [by : {"nobody", "manager", "import"}, generation : 0..MaxLifecycle]
    /\ queue \in Seq(StorageOp(Len(request), lifecycle))
    /\ writing \in BOOLEAN /\ (writing => queue # <<>>)
    /\ signIn \in [Generations -> SignInRecord]
    /\ clear \in [Generations -> {"none", "closing", "queued", "done", "failed"}]
    /\ request \in Seq(TokenRequest)
    /\ refreshPromise \in 0..Len(request)
    /\ caller \in [Callers -> Call(Len(request))]

\* What is stored is never older than a sign-out or a sign-in that has completed: no
\* refresh or exchange of before brings a session back, whatever is queued or under way
\* (saveIfCurrent, enqueueStorage and the order of signOut).
StoredIsCurrent ==
    stored.by = "manager" =>
        \A g \in Generations :
            g > stored.generation => clear[g] # "done" /\ signIn[g].result # "signedIn"

\* Callers of one generation share one token request: there is never a second refresh of
\* a generation before the first has ended (getAccessToken and its finally).
OneRefreshPerGeneration ==
    \A r, s \in DOMAIN request :
        /\ request[r].kind = "refresh" /\ request[s].kind = "refresh"
        /\ request[r].generation = request[s].generation
        /\ ~ Ended(r) /\ ~ Ended(s)
        => r = s

\* A sign-in that has settled has no callback server that still takes a callback, even
\* when it was rejected before the server had started (signIn, rejectActive).
NoPortLeftOpen == \A g \in Generations : signIn[g].settled => signIn[g].server # "open"

BodyAwaited(r) == r \in DOMAIN request /\ request[r].stage = "body"

\* Nobody waits for anything but the body of a token response.
Quiet ==
    /\ \A c \in Callers : caller[c].stage # "loading"
    /\ \A c \in Callers : caller[c].stage = "waiting" => BodyAwaited(caller[c].flight)
    /\ \A g \in Generations :
         /\ ~ signIn[g].settled => \E r \in RequestOf(g) : BodyAwaited(r)
         /\ clear[g] \notin {"closing", "queued"}

\* Every getAccessToken, sign-in and sign-out comes to its end, whatever fails or is
\* aborted, unless the body of a token response does not come.  (Each is made once, so
\* that one that never ended would keep the system from being quiet again.)
EveryoneAnswered == []<>Quiet

RefreshUnderWay(r) == r \in DOMAIN request /\ request[r].kind = "refresh" /\ ~ Ended(r)

\* A refresh ends: docs/superpowers/specs/2026-08-25-reliability-security-maintenance-design.md
\* :136 gives token requests an upper bound of 60 seconds.  The timer of postToken stops
\* when the headers arrive.
RefreshesEnd == \A r \in Requests : RefreshUnderWay(r) ~> ~ RefreshUnderWay(r)

\* Once the session of a sign-in is saved, the sign-in does not fail because its server
\* was closed without a fault (README.md:53 and test/unit/oauth-manager.test.ts:240-275
\* for a pasted callback).  observeCallback takes the close for a failure of the callback.
ManualCallbackSignsIn ==
    \A g \in Generations :
        (\E r \in RequestOf(g) : request[r].stage = "ok") => signIn[g].result # "observer"

================================================================================
