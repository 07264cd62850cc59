--------------------------- MODULE OAuthManagerProofs ---------------------------
(***************************************************************************)
(* Proofs about OAuthManager for any number of callers, generations and     *)
(* requests: its types; that what is stored is never older than a sign-out  *)
(* or a sign-in that has completed; that a generation refreshes once at a   *)
(* time; and that no settled sign-in leaves a callback server listening.    *)
(***************************************************************************)
EXTENDS OAuthManager, SequenceTheorems, TLAPS

\* Generation g has completed a sign-out, or has saved the session of its sign-in.
Completed(g) ==
    \/ clear[g] = "done" \/ signIn[g].result = "signedIn"
    \/ signIn[g].server = "closing" /\ ~ signIn[g].terminal

\* No generation after h has completed.
NoneAfter(h) == \A g \in Generations : g > h => ~ Completed(g)

\* What is stored, and what is being stored, is not older than what has completed.
StoredInOrder ==
    /\ stored.by = "manager" => NoneAfter(stored.generation)
    /\ writing /\ Head(queue).kind = "save" => NoneAfter(Head(queue).generation)

\* A generation that is still to come has neither sign-in nor clearing.
FutureIsEmpty ==
    \A g \in Generations : g > lifecycle => signIn[g] = NoSignIn /\ clear[g] = "none"

\* A sign-in that is over and has a server still has its result; one that has settled
\* is over and has no server left to close.
SoundSignIn(S) ==
    /\ S.terminal /\ S.server # "none" => S.result # "none"
    /\ S.settled => S.terminal /\ S.server \notin Running
SignInsSound == \A g \in Generations : SoundSignIn(signIn[g])

IInv == TypeOK /\ StoredInOrder /\ FutureIsEmpty /\ SignInsSound

\* The sign-ins S are those of now or complete nothing more.
Harmless(S) ==
    /\ S \in [Generations -> SignInRecord]
    /\ \A g \in Generations :
         /\ S[g].result = "signedIn" => signIn[g].result = "signedIn"
         /\ S[g].server = "closing" /\ ~ S[g].terminal =>
                signIn[g].server = "closing" /\ ~ signIn[g].terminal
         /\ signIn[g] = NoSignIn => S[g] = NoSignIn
         /\ SoundSignIn(S[g])

-------------------------------------------------------------------------------
(* Sequences and requests *)

\* Appending leaves the head of a sequence that is not empty.
LEMMA AppendKeepsHead ==
    ASSUME NEW S, NEW s \in Seq(S), NEW e \in S, s # <<>>
    PROVE  Append(s, e) # <<>> /\ Head(Append(s, e)) = Head(s)
<1>1. Len(s) \in Nat \ {0}
  BY EmptySeq
<1>2. Append(s, e)[1] = s[1] /\ Len(Append(s, e)) > 0
  BY <1>1, AppendProperties
<1> QED
  BY <1>1, <1>2, EmptySeq, AppendProperties

\* A request is changed in place.
LEMMA RequestChanged ==
    ASSUME TypeOK, NEW r \in DOMAIN request, NEW q \in TokenRequest
    PROVE  /\ [request EXCEPT ![r] = q] \in Seq(TokenRequest)
           /\ Len([request EXCEPT ![r] = q]) = Len(request)
<1>1. r \in 1..Len(request)
  BY LenProperties DEF TypeOK
<1> QED
  BY <1>1, ExceptSeq DEF TypeOK

\* It goes to another stage.
LEMMA Staged ==
    ASSUME TypeOK, NEW r \in DOMAIN request,
           NEW s \in {"posting", "body", "storing", "ok", "failed"}
    PROVE  /\ [request EXCEPT ![r].stage = s] \in Seq(TokenRequest)
           /\ Len([request EXCEPT ![r].stage = s]) = Len(request)
<1>1. request[r] \in TokenRequest
  BY LenProperties, ElementOfSeq DEF TypeOK
<1>2. [request[r] EXCEPT !.stage = s] \in TokenRequest
  BY <1>1 DEF TokenRequest
<1> QED
  BY <1>2, RequestChanged

\* A request is aborted.
LEMMA AbortedType ==
    ASSUME TypeOK, NEW r \in DOMAIN request
    PROVE  /\ [request EXCEPT ![r].aborted = TRUE] \in Seq(TokenRequest)
           /\ Len([request EXCEPT ![r].aborted = TRUE]) = Len(request)
<1>1. request[r] \in TokenRequest
  BY LenProperties, ElementOfSeq DEF TypeOK
<1>2. [request[r] EXCEPT !.aborted = TRUE] \in TokenRequest
  BY <1>1 DEF TokenRequest
<1> QED
  BY <1>2, RequestChanged

LEMMA FlightAbortedType ==
    ASSUME TypeOK
    PROVE  FlightAborted \in Seq(TokenRequest) /\ Len(FlightAborted) = Len(request)
<1>1. CASE refreshPromise = 0
  BY <1>1 DEF FlightAborted, TypeOK
<1>2. CASE refreshPromise # 0
  <2>1. refreshPromise \in DOMAIN request
    BY <1>2, LenProperties DEF TypeOK
  <2> QED
    BY <1>2, <2>1, AbortedType DEF FlightAborted
<1> QED
  BY <1>1, <1>2

\* More requests leave the types of what names requests.
LEMMA Grown ==
    ASSUME TypeOK, NEW m \in Nat, Len(request) <= m, NEW l \in Nat, lifecycle <= l
    PROVE  queue \in Seq(StorageOp(m, l)) /\ caller \in [Callers -> Call(m)]
<1>1. Len(request) \in Nat
  BY LenProperties DEF TypeOK
<1>2. StorageOp(Len(request), lifecycle) \subseteq StorageOp(m, l)
  BY <1>1, OAuthAssumption DEF StorageOp, TypeOK
<1>3. Call(Len(request)) \subseteq Call(m)
  BY <1>1 DEF Call
<1> QED
  BY <1>2, <1>3, SeqMonotonic DEF TypeOK

-------------------------------------------------------------------------------
(* Sign-ins that fail *)

\* rejectActive completes nothing.
LEMMA RejectedHarmless ==
    ASSUME TypeOK, SignInsSound, NEW g \in Generations,
           NEW result \in {"rejected", "observer"}
    PROVE  Harmless(Rejected(g, result))
<1> DEFINE O == signIn[g]
           N == [O EXCEPT !.terminal = TRUE,
                          !.server = IF O.server \in Running THEN "closing" ELSE O.server,
                          !.settled = O.server \notin Running \cup {"closing"},
                          !.result = IF O.result = "none" THEN result ELSE O.result]
<1>1. CASE O.settled
  BY <1>1 DEF Rejected, Harmless, TypeOK, SignInsSound
<1>2. CASE ~ O.settled
  <2>1. Rejected(g, result) = [signIn EXCEPT ![g] = N]
    BY <1>2 DEF Rejected
  <2>2. O \in SignInRecord
    BY DEF TypeOK
  <2>3. (O.server \notin Running \cup {"closing"}) \in BOOLEAN
    OBVIOUS
  <2>4. N \in SignInRecord
    BY <2>2, <2>3 DEF SignInRecord
  <2>5. N.terminal /\ N.result # "none" /\ (N.result = "signedIn" => O.result = "signedIn")
    BY <2>2 DEF SignInRecord
  <2>6. O # NoSignIn
    BY <1>2 DEF NoSignIn
  <2> QED
    BY <2>1, <2>4, <2>5, <2>6 DEF Harmless, TypeOK, SignInsSound, SoundSignIn, Running
<1> QED
  BY <1>1, <1>2

\* What a failed request leaves.
LEMMA FailureHarmless ==
    ASSUME TypeOK, SignInsSound, NEW r \in DOMAIN request, RequestFails(r)
    PROVE  /\ Harmless(signIn')
           /\ request' \in Seq(TokenRequest) /\ Len(request') = Len(request)
           /\ refreshPromise' \in 0..Len(request)
<1>1. request[r] \in TokenRequest
  BY LenProperties, ElementOfSeq DEF TypeOK
<1>2. request' \in Seq(TokenRequest) /\ Len(request') = Len(request)
  <2>1. request' = [request EXCEPT ![r].stage = "failed"]
    BY DEF RequestFails
  <2> QED
    BY <2>1, Staged
<1>3. refreshPromise' \in 0..Len(request)
  BY LenProperties DEF RequestFails, TypeOK
<1>4. Harmless(signIn')
  <2>1. CASE request[r].kind = "signIn"
    <3>1. request[r].generation \in Generations
      BY <1>1, <2>1 DEF TokenRequest
    <3>2. Harmless(Rejected(request[r].generation, "rejected"))
      BY <3>1, RejectedHarmless
    <3> QED
      BY <2>1, <3>2 DEF RequestFails
  <2>2. CASE request[r].kind # "signIn"
    <3>1. Harmless(signIn)
      BY DEF Harmless, TypeOK, SignInsSound
    <3> QED
      BY <2>2, <3>1 DEF RequestFails
  <2> QED
    BY <2>1, <2>2
<1> QED
  BY <1>2, <1>3, <1>4

\* A step keeps the invariant beyond the types if it completes nothing, stores nothing,
\* starts no save and leaves the generations to come.
LEMMA Ordinary ==
    ASSUME IInv, Harmless(signIn'), stored' = stored,
           lifecycle' \in Nat, lifecycle <= lifecycle',
           \A g \in Generations : clear'[g] = "done" => clear[g] = "done",
           \A g \in Generations : g > lifecycle' => clear'[g] = clear[g],
           writing' /\ Head(queue').kind = "save" => writing /\ Head(queue') = Head(queue)
    PROVE  StoredInOrder' /\ FutureIsEmpty' /\ SignInsSound'
<1>1. \A g \in Generations : Completed(g)' => Completed(g)
  BY DEF Completed, Harmless
<1>2. \A h : NoneAfter(h) => \A g \in Generations : g > h => ~ Completed(g)'
  BY <1>1 DEF NoneAfter
<1>3. StoredInOrder'
  BY <1>2 DEF IInv, StoredInOrder, NoneAfter
<1>4. FutureIsEmpty'
  <2> SUFFICES ASSUME NEW g \in Generations, g > lifecycle'
               PROVE  signIn'[g] = NoSignIn /\ clear'[g] = "none"
    BY DEF FutureIsEmpty
  <2>1. g > lifecycle
    BY OAuthAssumption DEF IInv, TypeOK, Generations
  <2> QED
    BY <2>1 DEF IInv, FutureIsEmpty, Harmless
<1>5. SignInsSound'
  BY DEF Harmless, SignInsSound
<1> QED
  BY <1>3, <1>4, <1>5

\* The sign-ins of now are harmless.
LEMMA NowHarmless == ASSUME IInv PROVE Harmless(signIn)
BY DEF IInv, Harmless, TypeOK, SignInsSound

-------------------------------------------------------------------------------
(* The actions *)

\* A manager that has just been made satisfies the invariant.
THEOREM InitIInv == Init => IInv
<1> SUFFICES ASSUME Init PROVE IInv
  OBVIOUS
<1>1. NoSignIn \in SignInRecord /\ NoCall \in Call(0)
  BY OAuthAssumption DEF NoSignIn, SignInRecord, NoCall, Call
<1>2. TypeOK
  <2>1. Len(request) = 0 /\ request \in Seq(TokenRequest) /\ queue \in Seq(StorageOp(0, 0)) /\ lifecycle = 0
    BY EmptySeq DEF Init
  <2>2. signIn \in [Generations -> SignInRecord] /\ caller \in [Callers -> Call(0)]
    BY <1>1 DEF Init
  <2>3. /\ clear \in [Generations -> {"none", "closing", "queued", "done", "failed"}]
        /\ lifecycle \in 0..MaxLifecycle /\ writing = FALSE
        /\ stored \in [by : {"nobody", "manager", "import"}, generation : 0..MaxLifecycle]
    BY OAuthAssumption DEF Init
  <2>4. queue \in Seq(StorageOp(Len(request), lifecycle)) /\ caller \in [Callers -> Call(Len(request))]
    BY <2>1, <2>2, Zenon
  <2>5. refreshPromise \in 0..Len(request)
    BY <2>1 DEF Init
  <2>6. writing \in BOOLEAN /\ (writing => queue # <<>>)
    BY <2>3
  <2> QED
    BY <2>1, <2>2, <2>3, <2>4, <2>5, <2>6, Zenon DEF TypeOK
<1>3. StoredInOrder
  BY DEF Init, StoredInOrder, NoneAfter, Completed, NoSignIn
<1>4. FutureIsEmpty /\ SignInsSound
  BY DEF Init, FutureIsEmpty, SignInsSound, SoundSignIn, NoSignIn, Running
<1> QED
  BY <1>2, <1>3, <1>4 DEF IInv

\* The sign-ins change and nothing else does.
LEMMA OnlySignInChanges ==
    ASSUME IInv, Harmless(signIn'),
           UNCHANGED <<lifecycle, storage, clear, request, refreshPromise, caller>>
    PROVE  IInv'
<1>1. TypeOK'
  BY DEF IInv, TypeOK, Harmless, storage
<1>2. StoredInOrder' /\ FutureIsEmpty' /\ SignInsSound'
  BY Ordinary DEF IInv, TypeOK, storage
<1> QED
  BY <1>1, <1>2 DEF IInv

\* The record of one sign-in is replaced by one that completes nothing.
LEMMA OneHarmless ==
    ASSUME IInv, NEW g \in Generations, NEW N \in SignInRecord, signIn[g].server # "none",
           N.result = "signedIn" => signIn[g].result = "signedIn",
           N.server = "closing" /\ ~ N.terminal =>
                signIn[g].server = "closing" /\ ~ signIn[g].terminal,
           SoundSignIn(N)
    PROVE  Harmless([signIn EXCEPT ![g] = N])
<1>1. signIn[g] # NoSignIn
  BY DEF NoSignIn
<1> QED
  BY <1>1 DEF IInv, Harmless, TypeOK, SignInsSound

LEMMA ServerStartsStep ==
    ASSUME IInv, NEW g \in Generations, ServerStarts(g) PROVE IInv'
<1> DEFINE N == [signIn[g] EXCEPT !.server = IF signIn[g].terminal THEN "closing" ELSE "open"]
<1>1. signIn' = [signIn EXCEPT ![g] = N] /\ signIn[g].server = "starting"
  BY DEF ServerStarts
<1>2. signIn[g] \in SignInRecord /\ SoundSignIn(signIn[g])
  BY DEF IInv, TypeOK, SignInsSound
<1>3. N \in SignInRecord
  BY <1>2 DEF SignInRecord, Running
<1>4. /\ N.result = signIn[g].result /\ SoundSignIn(N)
      /\ ~ (N.server = "closing" /\ ~ N.terminal)
  BY <1>1, <1>2 DEF SoundSignIn, SignInRecord, Running
<1>5. Harmless([signIn EXCEPT ![g] = N])
  BY <1>1, <1>3, <1>4, OneHarmless
<1>6. Harmless(signIn')
  BY <1>1, <1>5
<1> QED
  BY <1>6, OnlySignInChanges DEF ServerStarts

\* A sign-in rejected, and its callback and server noted as well.
LEMMA RejectedAndMore ==
    ASSUME IInv, NEW g \in Generations, NEW result \in {"rejected", "observer"},
           signIn[g].server # "none"
    PROVE  /\ Harmless([Rejected(g, result) EXCEPT ![g].callback = TRUE])
           /\ Harmless([Rejected(g, result) EXCEPT ![g].server = "none", ![g].callback = TRUE])
<1> DEFINE S == Rejected(g, result)
           C == [S[g] EXCEPT !.callback = TRUE]
           D == [C EXCEPT !.server = "none"]
<1>1. Harmless(S)
  BY RejectedHarmless DEF IInv
<1>2. S[g] \in SignInRecord /\ signIn[g] # NoSignIn
  BY <1>1 DEF Harmless, NoSignIn
<1>3. C \in SignInRecord /\ D \in SignInRecord
  BY <1>2 DEF SignInRecord
<1>4. /\ C.result = S[g].result /\ C.server = S[g].server /\ C.terminal = S[g].terminal
      /\ D.result = S[g].result /\ D.server = "none"
  BY <1>2 DEF SignInRecord
<1>5. Harmless([S EXCEPT ![g] = C]) /\ Harmless([S EXCEPT ![g] = D])
  BY <1>1, <1>2, <1>3, <1>4 DEF Harmless, SoundSignIn, Running
<1>6. /\ [S EXCEPT ![g].callback = TRUE] = [S EXCEPT ![g] = C]
      /\ [S EXCEPT ![g].server = "none", ![g].callback = TRUE] = [S EXCEPT ![g] = D]
  BY <1>1, <1>2 DEF Harmless, SignInRecord
<1> QED
  BY <1>5, <1>6

LEMMA ServerEndsStep ==
    ASSUME IInv, NEW g \in Generations,
           ServerFails(g) \/ BrowserFails(g) \/ LoopbackTimeout(g)
    PROVE  IInv'
<1>1. signIn[g].server # "none"
  BY DEF ServerFails, BrowserFails, LoopbackTimeout, Running
<1>2. Harmless(Rejected(g, "rejected"))
  BY RejectedHarmless DEF IInv
<1>3. Harmless(signIn')
  BY <1>1, <1>2, RejectedAndMore DEF ServerFails, BrowserFails, LoopbackTimeout
<1> QED
  BY <1>3, OnlySignInChanges DEF ServerFails, BrowserFails, LoopbackTimeout

\* The loopback server closes itself.
LEMMA LoopbackClosesStep ==
    ASSUME IInv, NEW g \in Generations, LoopbackCloses(g) PROVE IInv'
<1> DEFINE N == [signIn[g] EXCEPT !.server = "draining"]
<1>1. signIn' = [signIn EXCEPT ![g] = N] /\ signIn[g].server = "open"
  BY DEF LoopbackCloses
<1>2. signIn[g] \in SignInRecord /\ SoundSignIn(signIn[g])
  BY DEF IInv, TypeOK, SignInsSound
<1>3. N \in SignInRecord
  BY <1>2 DEF SignInRecord, Running
<1>4. N.result = signIn[g].result /\ N.server = "draining" /\ SoundSignIn(N)
  BY <1>1, <1>2 DEF SoundSignIn, SignInRecord, Running
<1>5. Harmless([signIn EXCEPT ![g] = N])
  BY <1>1, <1>3, <1>4, OneHarmless
<1> QED
  BY <1>1, <1>5, OnlySignInChanges DEF LoopbackCloses

LEMMA ServerClosesStep ==
    ASSUME IInv, NEW g \in Generations, ServerCloses(g) PROVE IInv'
<1> DEFINE O == signIn[g]
<1>1. PICK result \in {"none", "signedIn", "rejected", "observer"} :
        /\ signIn' = [signIn EXCEPT ![g] = [server |-> "none", callback |-> TRUE,
                          terminal |-> TRUE, settled |-> TRUE, result |-> result]]
        /\ result = "signedIn" => O.result = "signedIn" \/ O.result = "none"
  BY DEF ServerCloses, IInv, TypeOK, SignInRecord
<1>2. /\ O \in SignInRecord /\ O # NoSignIn /\ O.server = "closing"
      /\ O.result = "none" => ~ O.terminal
  BY DEF ServerCloses, IInv, TypeOK, NoSignIn, SignInsSound, SoundSignIn
<1>3. signIn' \in [Generations -> SignInRecord]
  BY <1>1 DEF IInv, TypeOK, SignInRecord
<1>4. UNCHANGED <<lifecycle, storage, clear, request, refreshPromise, caller>>
  BY DEF ServerCloses
<1>5. TypeOK'
  BY <1>3, <1>4 DEF IInv, TypeOK, storage
<1>6. \A h \in Generations : Completed(h)' => Completed(h)
  <2> TAKE h \in Generations
  <2>1. CASE h # g
    BY <1>1, <1>4, <2>1 DEF Completed, IInv, TypeOK
  <2>2. CASE h = g
    <3>1. signIn'[g].server = "none" /\ signIn'[g].result = result
      BY <1>1 DEF IInv, TypeOK
    <3> QED
      BY <1>1, <1>2, <1>4, <2>2, <3>1 DEF Completed
  <2> QED
    BY <2>1, <2>2
<1>7. StoredInOrder'
  <2>1. \A h : NoneAfter(h) => \A i \in Generations : i > h => ~ Completed(i)'
    BY <1>6 DEF NoneAfter
  <2> QED
    BY <1>4, <2>1 DEF IInv, StoredInOrder, NoneAfter, storage
<1>8. FutureIsEmpty' /\ SignInsSound'
  BY <1>1, <1>2, <1>4 DEF IInv, TypeOK, FutureIsEmpty, SignInsSound, SoundSignIn,
     Running
<1> QED
  BY <1>5, <1>7, <1>8 DEF IInv

\* A request is appended and the sign-ins are harmless.
LEMMA RequestAppended ==
    ASSUME IInv, NEW q \in TokenRequest, request' = Append(request, q), Harmless(signIn'),
           UNCHANGED <<lifecycle, storage, clear, refreshPromise, caller>>
    PROVE  IInv'
<1>1. Len(request) \in Nat
  BY LenProperties DEF IInv, TypeOK
<1>2. request' \in Seq(TokenRequest) /\ Len(request') = Len(request) + 1
  BY AppendProperties DEF IInv, TypeOK
<1>3. queue \in Seq(StorageOp(Len(request'), lifecycle)) /\ caller \in [Callers -> Call(Len(request'))]
  <2>1. lifecycle \in Nat /\ lifecycle <= lifecycle
    BY OAuthAssumption DEF IInv, TypeOK
  <2>2. Len(request') \in Nat /\ Len(request) <= Len(request')
    BY <1>1, <1>2
  <2> QED
    BY <2>1, <2>2, Grown DEF IInv
<1>4. TypeOK'
  BY <1>1, <1>2, <1>3 DEF IInv, TypeOK, Harmless, storage
<1>5. StoredInOrder' /\ FutureIsEmpty' /\ SignInsSound'
  BY Ordinary DEF IInv, TypeOK, storage
<1> QED
  BY <1>4, <1>5 DEF IInv

LEMMA CallbackStep ==
    ASSUME IInv, NEW g \in Generations, ManualCallback(g) \/ LoopbackCallback(g)
    PROVE  IInv'
<1> DEFINE q == [kind |-> "signIn", generation |-> g, aborted |-> FALSE, stage |-> "posting"]
           C == [signIn[g] EXCEPT !.server = "closed", !.callback = TRUE]
<1>1. signIn[g] \in SignInRecord /\ SoundSignIn(signIn[g]) /\ signIn[g].server \in Running
  BY DEF IInv, TypeOK, SignInsSound, ManualCallback, LoopbackCallback, Running
<1>2. q \in TokenRequest
  BY OAuthAssumption DEF TokenRequest, Generations
<1>3. Harmless([signIn EXCEPT ![g] = C]) /\ Harmless([signIn EXCEPT ![g] = signIn[g]])
  <2>1. C \in SignInRecord /\ C.result = signIn[g].result /\ C.server = "closed"
    BY <1>1 DEF SignInRecord, Running
  <2>2. SoundSignIn(C)
    BY <1>1 DEF SignInRecord, SoundSignIn, Running
  <2>3. signIn[g].server # "none" /\ signIn[g].server # "closing"
    BY <1>1 DEF Running
  <2> HIDE DEF C
  <2> QED
    BY <1>1, <2>1, <2>2, <2>3, OneHarmless
<1>4. CASE Exchange(g, signIn[g]) \/ Exchange(g, C)
  <2>1. request' = Append(request, q) /\ Harmless(signIn')
    BY <1>3, <1>4 DEF Exchange
  <2> QED
    BY <1>2, <2>1, RequestAppended DEF ManualCallback, LoopbackCallback
<1>5. CASE \/ signIn' = Rejected(g, "rejected")
          \/ \E result \in {"rejected", "observer"} :
                signIn' = [Rejected(g, result) EXCEPT ![g].callback = TRUE]
  <2>1. Harmless(signIn')
    BY <1>1, <1>5, RejectedHarmless, RejectedAndMore DEF IInv, Running
  <2>2. CASE UNCHANGED request
    BY <2>1, <2>2, OnlySignInChanges DEF ManualCallback, LoopbackCallback
  <2>3. CASE request' # request
    BY <1>3, <1>2, <2>1, <2>3, RequestAppended DEF ManualCallback, LoopbackCallback, Exchange
  <2> QED
    BY <2>2, <2>3
<1> QED
  BY <1>4, <1>5 DEF ManualCallback, LoopbackCallback

LEMMA SignInStep ==
    ASSUME IInv, SignIn PROVE IInv'
<1> DEFINE g == lifecycle + 1
           N == [NoSignIn EXCEPT !.server = "starting", !.terminal = FALSE, !.settled = FALSE]
<1>1. /\ g \in Generations /\ lifecycle' = g /\ signIn' = [signIn EXCEPT ![g] = N]
      /\ request' = FlightAborted
      /\ UNCHANGED <<storage, clear, refreshPromise, caller>>
  BY OAuthAssumption DEF SignIn, IInv, TypeOK, Generations
<1>2. N \in SignInRecord /\ N.result = "none" /\ N.server = "starting" /\ ~ N.terminal
  BY DEF NoSignIn, SignInRecord
<1>3. request' \in Seq(TokenRequest) /\ Len(request') = Len(request)
  BY <1>1, FlightAbortedType DEF IInv
<1>4. TypeOK'
  <2>1. Len(request) \in Nat /\ Len(request) <= Len(request) /\ g \in Nat /\ lifecycle <= g
    BY LenProperties, OAuthAssumption DEF IInv, TypeOK
  <2>2. queue \in Seq(StorageOp(Len(request), g))
    BY <2>1, Grown DEF IInv
  <2>3. lifecycle' \in 0..MaxLifecycle
    BY <1>1, OAuthAssumption DEF Generations
  <2>4. signIn' \in [Generations -> SignInRecord]
    BY <1>1, <1>2 DEF IInv, TypeOK
  <2> QED
    BY <1>1, <1>3, <2>2, <2>3, <2>4 DEF IInv, TypeOK, storage
<1>5. \A h \in Generations : Completed(h)' => Completed(h)
  BY <1>1, <1>2 DEF Completed, IInv, TypeOK
<1>6. StoredInOrder'
  <2>1. \A h : NoneAfter(h) => \A i \in Generations : i > h => ~ Completed(i)'
    BY <1>5 DEF NoneAfter
  <2> QED
    BY <1>1, <2>1 DEF IInv, StoredInOrder, NoneAfter, storage
<1>7. FutureIsEmpty'
  <2> SUFFICES ASSUME NEW h \in Generations, h > lifecycle'
               PROVE  signIn'[h] = NoSignIn /\ clear'[h] = "none"
    BY DEF FutureIsEmpty
  <2>1. h > lifecycle /\ h # g
    BY <1>1, OAuthAssumption DEF IInv, TypeOK, Generations
  <2> QED
    BY <1>1, <2>1 DEF IInv, FutureIsEmpty, TypeOK
<1>8. SignInsSound'
  BY <1>1, <1>2 DEF IInv, TypeOK, SignInsSound, SoundSignIn
<1> QED
  BY <1>4, <1>6, <1>7, <1>8 DEF IInv

\* Requests change in place; the sign-ins are harmless; generations and store stay.
LEMMA RequestsChange ==
    ASSUME IInv, Harmless(signIn'), request' \in Seq(TokenRequest),
           Len(request') = Len(request), refreshPromise' \in 0..Len(request),
           UNCHANGED <<lifecycle, storage, clear>>, caller' \in [Callers -> Call(Len(request))]
    PROVE  IInv'
<1>1. TypeOK'
  BY DEF IInv, TypeOK, Harmless, storage
<1>2. StoredInOrder' /\ FutureIsEmpty' /\ SignInsSound'
  BY Ordinary DEF IInv, TypeOK, storage
<1> QED
  BY <1>1, <1>2 DEF IInv

LEMMA FetchStep ==
    ASSUME IInv, NEW r \in DOMAIN request,
           RequestAnswered(r) \/ RequestLost(r) \/ BodyUseless(r)
    PROVE  IInv'
<1>1. CASE RequestAnswered(r)
  <2>1. /\ request' = [request EXCEPT ![r].stage = "body"]
        /\ UNCHANGED <<lifecycle, storage, clear, signIn, refreshPromise, caller>>
    BY <1>1 DEF RequestAnswered
  <2>2. request' \in Seq(TokenRequest) /\ Len(request') = Len(request)
    BY <2>1, Staged DEF IInv
  <2>3. Harmless(signIn')
    BY <2>1, NowHarmless
  <2> QED
    BY <2>1, <2>2, <2>3, RequestsChange DEF IInv, TypeOK
<1>2. CASE RequestLost(r) \/ BodyUseless(r)
  <2>1. RequestFails(r) /\ UNCHANGED <<lifecycle, storage, clear, caller>>
    BY <1>2 DEF RequestLost, BodyUseless
  <2>2. /\ Harmless(signIn')
        /\ request' \in Seq(TokenRequest) /\ Len(request') = Len(request)
        /\ refreshPromise' \in 0..Len(request)
    BY <2>1, FailureHarmless DEF IInv
  <2> QED
    BY <2>1, <2>2, RequestsChange DEF IInv, TypeOK
<1> QED
  BY <1>1, <1>2

\* An operation joins the queue.
LEMMA EnqueuedType ==
    ASSUME TypeOK, NEW kind, NEW g, NEW r, NEW n \in Nat, Len(request) <= n,
           NEW l \in Nat, lifecycle <= l,
           [kind |-> kind, generation |-> g, request |-> r] \in StorageOp(n, l)
    PROVE  /\ Enqueued(kind, g, r) \in Seq(StorageOp(n, l))
           /\ Enqueued(kind, g, r) # <<>>
           /\ writing => Head(Enqueued(kind, g, r)) = Head(queue)
<1> DEFINE o == [kind |-> kind, generation |-> g, request |-> r]
<1>1. queue \in Seq(StorageOp(n, l))
  BY Grown
<1>2. Enqueued(kind, g, r) = Append(queue, o)
  BY DEF Enqueued
<1>3. Append(queue, o) \in Seq(StorageOp(n, l)) /\ Len(Append(queue, o)) = Len(queue) + 1
  BY <1>1, AppendProperties
<1>4. Append(queue, o) # <<>>
  BY <1>1, <1>3, LenProperties, EmptySeq
<1>5. writing => Head(Append(queue, o)) = Head(queue)
  BY <1>1, AppendKeepsHead DEF TypeOK
<1> QED
  BY <1>2, <1>3, <1>4, <1>5

LEMMA TokensArriveStep ==
    ASSUME IInv, NEW r \in DOMAIN request, TokensArrive(r) PROVE IInv'
<1> DEFINE g == request[r].generation
<1>1. /\ request' = [request EXCEPT ![r].stage = "storing"]
      /\ queue' = Enqueued("save", g, r)
      /\ UNCHANGED <<lifecycle, stored, writing, clear, signIn, refreshPromise, caller>>
  BY DEF TokensArrive
<1>2. request' \in Seq(TokenRequest) /\ Len(request') = Len(request)
  BY <1>1, Staged DEF IInv
<1>3. Len(request) \in Nat /\ r \in 1..Len(request) /\ request[r] \in TokenRequest
  BY LenProperties, ElementOfSeq DEF IInv, TypeOK
<1>4. [kind |-> "save", generation |-> g, request |-> r] \in StorageOp(Len(request), lifecycle)
  BY <1>3, OAuthAssumption DEF StorageOp, TokenRequest, TokensArrive, Current, IInv, TypeOK
<1>5. /\ queue' \in Seq(StorageOp(Len(request), lifecycle)) /\ queue' # <<>>
      /\ writing => Head(queue') = Head(queue)
  <2>1. lifecycle \in Nat /\ lifecycle <= lifecycle /\ Len(request) <= Len(request)
    BY <1>3, OAuthAssumption DEF IInv, TypeOK
  <2> QED
    BY <1>1, <1>3, <1>4, <2>1, EnqueuedType DEF IInv
<1>6. TypeOK'
  BY <1>1, <1>2, <1>5 DEF IInv, TypeOK
<1>7. Harmless(signIn')
  BY <1>1, NowHarmless
<1>8. StoredInOrder' /\ FutureIsEmpty' /\ SignInsSound'
  BY <1>1, <1>5, <1>7, Ordinary DEF IInv, TypeOK
<1> QED
  BY <1>6, <1>8 DEF IInv

LEMMA InvalidGrantStep ==
    ASSUME IInv, NEW r \in DOMAIN request, InvalidGrant(r) PROVE IInv'
<1> DEFINE g == lifecycle + 1
<1>1. /\ g \in Generations /\ lifecycle' = g
      /\ request' = [FlightAborted EXCEPT ![r].stage = "storing"]
      /\ clear' = [clear EXCEPT ![g] = "queued"]
      /\ queue' = Enqueued("clear", g, r)
      /\ UNCHANGED <<stored, writing, signIn, refreshPromise, caller>>
  BY OAuthAssumption DEF InvalidGrant, IInv, TypeOK, Generations
<1>2. Len(request) \in Nat /\ r \in 1..Len(request)
  BY LenProperties DEF IInv, TypeOK
<1>3. request' \in Seq(TokenRequest) /\ Len(request') = Len(request)
  <2>1. FlightAborted \in Seq(TokenRequest) /\ Len(FlightAborted) = Len(request)
    BY FlightAbortedType DEF IInv
  <2>2. FlightAborted[r] \in TokenRequest
    BY <1>2, <2>1, ElementOfSeq
  <2>3. [FlightAborted[r] EXCEPT !.stage = "storing"] \in TokenRequest
    BY <2>2 DEF TokenRequest
  <2>4. request' = [FlightAborted EXCEPT ![r] = [FlightAborted[r] EXCEPT !.stage = "storing"]]
    BY <1>1
  <2> QED
    BY <1>2, <2>1, <2>3, <2>4, ExceptSeq
<1>4. [kind |-> "clear", generation |-> g, request |-> r] \in StorageOp(Len(request), g)
  BY <1>1, <1>2, OAuthAssumption DEF StorageOp, Generations
<1>5. /\ queue' \in Seq(StorageOp(Len(request), g)) /\ queue' # <<>>
      /\ writing => Head(queue') = Head(queue)
  <2>1. g \in Nat /\ lifecycle <= g /\ Len(request) <= Len(request)
    BY <1>2, OAuthAssumption DEF IInv, TypeOK
  <2> QED
    BY <1>1, <1>2, <1>4, <2>1, EnqueuedType DEF IInv
<1>6. TypeOK'
  BY <1>1, <1>3, <1>5, OAuthAssumption DEF IInv, TypeOK, Generations
<1>7. Harmless(signIn')
  BY <1>1, NowHarmless
<1>8. /\ \A h \in Generations : clear'[h] = "done" => clear[h] = "done"
      /\ \A h \in Generations : h > lifecycle' => clear'[h] = clear[h]
      /\ lifecycle' \in Nat /\ lifecycle <= lifecycle'
  BY <1>1, OAuthAssumption DEF IInv, TypeOK, Generations
<1>9. StoredInOrder' /\ FutureIsEmpty' /\ SignInsSound'
  BY <1>1, <1>5, <1>7, <1>8, Ordinary
<1> QED
  BY <1>6, <1>9 DEF IInv

LEMMA HeadType ==
    ASSUME IInv, queue # <<>>
    PROVE  /\ Head(queue) \in StorageOp(Len(request), lifecycle) /\ Tail(queue) \in Seq(StorageOp(Len(request), lifecycle))
           /\ Len(request) \in Nat /\ DOMAIN request = 1..Len(request)
BY HeadTailProperties, LenProperties DEF IInv, TypeOK

LEMMA StorageStartsStep ==
    ASSUME IInv, StorageStarts PROVE IInv'
<1> DEFINE o == Head(queue)
<1>1. /\ queue # <<>> /\ ~ writing
      /\ UNCHANGED <<lifecycle, stored, clear, caller>>
  BY DEF StorageStarts
<1>2. /\ o \in StorageOp(Len(request), lifecycle) /\ Tail(queue) \in Seq(StorageOp(Len(request), lifecycle))
      /\ Len(request) \in Nat /\ DOMAIN request = 1..Len(request)
  BY <1>1, HeadType
<1>3. CASE o.kind = "save" /\ ~ Current(o.generation)
  <2>1. queue' = Tail(queue) /\ RequestFails(o.request) /\ UNCHANGED writing
    BY <1>3 DEF StorageStarts
  <2>2. o.request \in DOMAIN request
    BY <1>2, <1>3 DEF StorageOp
  <2>3. /\ Harmless(signIn')
        /\ request' \in Seq(TokenRequest) /\ Len(request') = Len(request)
        /\ refreshPromise' \in 0..Len(request)
    BY <2>1, <2>2, FailureHarmless DEF IInv
  <2>4. TypeOK'
    BY <1>1, <1>2, <2>1, <2>3 DEF IInv, TypeOK, Harmless
  <2>5. StoredInOrder' /\ FutureIsEmpty' /\ SignInsSound'
    BY <1>1, <2>1, <2>3, Ordinary DEF IInv, TypeOK
  <2> QED
    BY <2>4, <2>5 DEF IInv
<1>4. CASE ~ (o.kind = "save" /\ ~ Current(o.generation))
  <2>1. writing' = TRUE /\ UNCHANGED <<queue, request, refreshPromise, signIn>>
    BY <1>4 DEF StorageStarts
  <2>2. TypeOK'
    BY <1>1, <2>1 DEF IInv, TypeOK
  <2>3. o.kind = "save" => NoneAfter(o.generation)
    BY <1>4, OAuthAssumption
    DEF Current, NoneAfter, Completed, IInv, TypeOK, FutureIsEmpty, NoSignIn, Generations
  <2>4. StoredInOrder'
    BY <1>1, <2>1, <2>3 DEF IInv, StoredInOrder, NoneAfter, Completed
  <2>5. FutureIsEmpty' /\ SignInsSound'
    BY <1>1, <2>1 DEF IInv, FutureIsEmpty, SignInsSound
  <2> QED
    BY <2>2, <2>4, <2>5 DEF IInv
<1> QED
  BY <1>3, <1>4

LEMMA SaveReturnsStep ==
    ASSUME IInv, SaveReturns PROVE IInv'
<1> DEFINE o == Head(queue)
           g == o.generation
           r == o.request
<1>1. /\ writing /\ o.kind = "save" /\ queue # <<>>
      /\ queue' = Tail(queue) /\ writing' = FALSE
      /\ UNCHANGED <<lifecycle, clear, caller>>
  BY DEF SaveReturns, Dequeued, IInv, TypeOK
<1>2. /\ o \in StorageOp(Len(request), lifecycle) /\ Tail(queue) \in Seq(StorageOp(Len(request), lifecycle))
      /\ Len(request) \in Nat /\ DOMAIN request = 1..Len(request)
  BY <1>1, HeadType
<1>3. r \in DOMAIN request /\ g \in 0..MaxLifecycle
  BY <1>1, <1>2, OAuthAssumption DEF StorageOp, IInv, TypeOK
<1>4. NoneAfter(g)
  BY <1>1 DEF IInv, StoredInOrder
<1>5. \/ stored' = stored \/ stored' = [by |-> "manager", generation |-> g]
  BY DEF SaveReturns
<1>6. stored' \in [by : {"nobody", "manager", "import"}, generation : 0..MaxLifecycle]
  BY <1>3, <1>5 DEF IInv, TypeOK
<1>7. CASE RequestFails(r)
  <2>1. /\ Harmless(signIn')
        /\ request' \in Seq(TokenRequest) /\ Len(request') = Len(request)
        /\ refreshPromise' \in 0..Len(request)
    BY <1>3, <1>7, FailureHarmless DEF IInv
  <2>2. TypeOK'
    BY <1>1, <1>2, <1>6, <2>1 DEF IInv, TypeOK, Harmless
  <2>3. \A h \in Generations : Completed(h)' => Completed(h)
    BY <1>1, <2>1 DEF Completed, Harmless
  <2>4. StoredInOrder'
    BY <1>1, <1>4, <1>5, <2>3 DEF IInv, StoredInOrder, NoneAfter
  <2>5. FutureIsEmpty' /\ SignInsSound'
    BY <1>1, <2>1 DEF IInv, FutureIsEmpty, SignInsSound, Harmless
  <2> QED
    BY <2>2, <2>4, <2>5 DEF IInv
<1>8. CASE /\ SessionSaved(r, g) /\ Current(g) /\ stored' = [by |-> "manager", generation |-> g]
           /\ request[r].kind = "signIn" => ~ signIn[g].terminal
  <2>1. request' \in Seq(TokenRequest) /\ Len(request') = Len(request)
    BY <1>3, <1>8, Staged DEF IInv, SessionSaved
  <2>2. refreshPromise' \in 0..Len(request)
    BY <1>2, <1>8 DEF IInv, TypeOK, SessionSaved
  <2>3. \/ signIn' = signIn
        \/ ~ signIn[g].terminal /\ signIn' = [signIn EXCEPT ![g].server = "closing"]
    BY <1>8 DEF SessionSaved
  <2>4. \A h \in Generations :
          /\ signIn'[h] \in SignInRecord
          /\ h # g => signIn'[h] = signIn[h]
          /\ SoundSignIn(signIn'[h])
    <3> TAKE h \in Generations
    <3>1. signIn[h] \in SignInRecord /\ SoundSignIn(signIn[h])
      BY DEF IInv, TypeOK, SignInsSound
    <3>2. CASE signIn' = signIn \/ h # g
      BY <2>3, <3>1, <3>2 DEF IInv, TypeOK
    <3>3. CASE h = g /\ ~ signIn[g].terminal /\ signIn'[g] = [signIn[g] EXCEPT !.server = "closing"]
      BY <3>1, <3>3 DEF SignInRecord, SoundSignIn, Running
    <3> QED
      BY <2>3, <3>2, <3>3 DEF IInv, TypeOK
  <2>5. signIn' \in [Generations -> SignInRecord]
    BY <2>3, <2>4 DEF IInv, TypeOK
  <2>6. TypeOK'
    BY <1>1, <1>2, <1>6, <2>1, <2>2, <2>5 DEF IInv, TypeOK
  <2>7. \A h \in Generations : h > g => ~ Completed(h)'
    BY <1>1, <1>3, <1>4, <2>4, OAuthAssumption DEF NoneAfter, Completed, Generations
  <2>8. StoredInOrder'
    BY <1>1, <1>8, <2>7 DEF StoredInOrder, NoneAfter
  <2>9. FutureIsEmpty' /\ SignInsSound'
    <3>1. lifecycle = g
      BY <1>8 DEF Current
    <3>2. \A h \in Generations : h > lifecycle => signIn'[h] = signIn[h]
      BY <1>3, <2>4, <3>1, OAuthAssumption DEF Generations
    <3> QED
      BY <1>1, <2>4, <3>2 DEF IInv, FutureIsEmpty, SignInsSound
  <2> QED
    BY <2>6, <2>8, <2>9 DEF IInv
<1> QED
  BY <1>7, <1>8 DEF SaveReturns

LEMMA ClearReturnsStep ==
    ASSUME IInv, ClearReturns PROVE IInv'
<1> DEFINE o == Head(queue)
           g == o.generation
<1>1. /\ writing /\ o.kind = "clear" /\ queue # <<>>
      /\ queue' = Tail(queue) /\ writing' = FALSE
      /\ UNCHANGED <<lifecycle, caller>>
  BY DEF ClearReturns, Dequeued, IInv, TypeOK
<1>2. /\ o \in StorageOp(Len(request), lifecycle) /\ Tail(queue) \in Seq(StorageOp(Len(request), lifecycle))
      /\ Len(request) \in Nat /\ DOMAIN request = 1..Len(request)
  BY <1>1, HeadType
<1>3. g \in Generations
  BY <1>1, <1>2 DEF StorageOp
<1>4. /\ Harmless(signIn')
      /\ request' \in Seq(TokenRequest) /\ Len(request') = Len(request)
      /\ refreshPromise' \in 0..Len(request)
  <2>1. CASE o.request = 0
    BY <2>1, NowHarmless DEF ClearReturns, IInv, TypeOK
  <2>2. CASE o.request # 0
    <3>1. o.request \in DOMAIN request /\ RequestFails(o.request)
      BY <1>2, <2>2 DEF ClearReturns, StorageOp
    <3> QED
      BY <3>1, FailureHarmless DEF IInv
  <2> QED
    BY <2>1, <2>2
<1>5. PICK ok \in BOOLEAN :
        /\ stored' = IF ok THEN [by |-> "nobody", generation |-> 0] ELSE stored
        /\ clear' = [clear EXCEPT ![g] = IF ok THEN "done" ELSE "failed"]
  BY DEF ClearReturns
<1>6. TypeOK'
  <2>1. stored' \in [by : {"nobody", "manager", "import"}, generation : 0..MaxLifecycle]
    BY <1>5, OAuthAssumption DEF IInv, TypeOK
  <2>2. clear' \in [Generations -> {"none", "closing", "queued", "done", "failed"}]
    BY <1>3, <1>5 DEF IInv, TypeOK
  <2>3. queue' \in Seq(StorageOp(Len(request), lifecycle))
    BY <1>1, <1>2
  <2> QED
    BY <1>1, <1>4, <2>1, <2>2, <2>3 DEF IInv, TypeOK, Harmless
<1>7. StoredInOrder'
  <2>1. CASE ok
    BY <1>1, <1>5, <2>1 DEF StoredInOrder
  <2>2. CASE ~ ok
    <3>1. \A h \in Generations : Completed(h)' => Completed(h)
      BY <1>3, <1>4, <1>5, <2>2 DEF Completed, Harmless, IInv, TypeOK
    <3> QED
      BY <1>1, <1>5, <2>2, <3>1 DEF IInv, StoredInOrder, NoneAfter
  <2> QED
    BY <2>1, <2>2
<1>8. FutureIsEmpty' /\ SignInsSound'
  <2>1. ~ (g > lifecycle)
    BY <1>2, OAuthAssumption DEF StorageOp, IInv, TypeOK
  <2>2. \A h \in Generations : h > lifecycle => clear'[h] = clear[h]
    BY <1>5, <2>1 DEF IInv, TypeOK
  <2> QED
    BY <1>1, <1>4, <2>2 DEF IInv, FutureIsEmpty, SignInsSound, Harmless
<1> QED
  BY <1>6, <1>7, <1>8 DEF IInv

LEMMA SignOutStep ==
    ASSUME IInv, SignOut PROVE IInv'
<1> DEFINE g == lifecycle + 1
<1>1. /\ g \in Generations /\ lifecycle' = g
      /\ request' = FlightAborted
      /\ clear' = [clear EXCEPT ![g] = "closing"]
      /\ UNCHANGED <<storage, refreshPromise, caller>>
  BY OAuthAssumption DEF SignOut, IInv, TypeOK, Generations
<1>2. request' \in Seq(TokenRequest) /\ Len(request') = Len(request)
  BY <1>1, FlightAbortedType DEF IInv
<1>3. Harmless(signIn')
  <2>1. signIn' = [h \in Generations |-> Rejected(h, "rejected")[h]]
    BY DEF SignOut
  <2>2. \A h \in Generations : Harmless(Rejected(h, "rejected"))
    BY RejectedHarmless DEF IInv
  <2>3. \A h \in Generations : signIn'[h] = Rejected(h, "rejected")[h]
    BY <2>1
  <2> QED
    BY <2>1, <2>2, <2>3 DEF Harmless
<1>4. queue \in Seq(StorageOp(Len(request), g))
  BY <1>1, Grown, LenProperties, OAuthAssumption DEF IInv, TypeOK
<1>5. TypeOK'
  BY <1>1, <1>2, <1>3, <1>4, OAuthAssumption DEF IInv, TypeOK, Harmless, storage, Generations
<1>6. /\ \A h \in Generations : clear'[h] = "done" => clear[h] = "done"
      /\ \A h \in Generations : h > lifecycle' => clear'[h] = clear[h]
      /\ lifecycle' \in Nat /\ lifecycle <= lifecycle'
  BY <1>1, OAuthAssumption DEF IInv, TypeOK, Generations
<1>7. StoredInOrder' /\ FutureIsEmpty' /\ SignInsSound'
  BY <1>1, <1>3, <1>6, Ordinary DEF storage
<1> QED
  BY <1>5, <1>7 DEF IInv

LEMMA SignOutClearsStep ==
    ASSUME IInv, NEW g \in Generations, SignOutClears(g) PROVE IInv'
<1>1. /\ clear[g] = "closing"
      /\ clear' = [clear EXCEPT ![g] = "queued"]
      /\ queue' = Enqueued("clear", g, 0)
      /\ UNCHANGED <<lifecycle, stored, writing, signIn, request, refreshPromise, caller>>
  BY DEF SignOutClears
<1>2. Len(request) \in Nat /\ lifecycle \in Nat
  BY LenProperties, OAuthAssumption DEF IInv, TypeOK
<1>3. g \in 0..lifecycle
  BY <1>1, <1>2, OAuthAssumption DEF IInv, FutureIsEmpty, Generations
<1>4. [kind |-> "clear", generation |-> g, request |-> 0] \in StorageOp(Len(request), lifecycle)
  BY <1>2, <1>3 DEF StorageOp
<1>5. /\ queue' \in Seq(StorageOp(Len(request), lifecycle)) /\ queue' # <<>>
      /\ writing => Head(queue') = Head(queue)
  BY <1>1, <1>2, <1>4, EnqueuedType DEF IInv
<1>6. TypeOK'
  BY <1>1, <1>5 DEF IInv, TypeOK
<1>7. Harmless(signIn')
  BY <1>1, NowHarmless
<1>8. /\ \A h \in Generations : clear'[h] = "done" => clear[h] = "done"
      /\ \A h \in Generations : h > lifecycle' => clear'[h] = clear[h]
  BY <1>1, <1>2, <1>3 DEF IInv, TypeOK
<1>9. StoredInOrder' /\ FutureIsEmpty' /\ SignInsSound'
  BY <1>1, <1>2, <1>5, <1>7, <1>8, Ordinary
<1> QED
  BY <1>6, <1>9 DEF IInv

LEMMA ImportStep ==
    ASSUME IInv, ImportLocalSession PROVE IInv'
<1>1. /\ stored' = [by |-> "import", generation |-> 0]
      /\ UNCHANGED <<lifecycle, queue, writing, signIn, clear, request, refreshPromise, caller>>
  BY DEF ImportLocalSession
<1>2. TypeOK'
  BY <1>1, OAuthAssumption DEF IInv, TypeOK
<1>3. StoredInOrder'
  BY <1>1 DEF IInv, StoredInOrder, NoneAfter, Completed
<1>4. FutureIsEmpty' /\ SignInsSound'
  BY <1>1 DEF IInv, FutureIsEmpty, SignInsSound
<1> QED
  BY <1>2, <1>3, <1>4 DEF IInv

\* The steps of getAccessToken that make no request.
LEMMA CallStep ==
    ASSUME IInv, NEW c \in Callers,
           GetAccessToken(c) \/ NoRefresh(c) \/ Leave(c) \/ FlightEnds(c)
    PROVE  IInv'
<1>1. /\ UNCHANGED <<lifecycle, storage, clear, signIn, refreshPromise>>
      /\ request' = request \/ request' = Left(request, caller[c].flight, c)
  BY DEF GetAccessToken, NoRefresh, Leave, FlightEnds
<1>2. Len(request) \in Nat /\ DOMAIN request = 1..Len(request) /\ caller[c] \in Call(Len(request))
  BY LenProperties DEF IInv, TypeOK
<1>3. request' \in Seq(TokenRequest) /\ Len(request') = Len(request)
  <2> DEFINE f == caller[c].flight
  <2>1. f \in 0..Len(request)
    BY <1>2 DEF Call
  <2>2. CASE f = 0
    <3>1. [request EXCEPT ![f].aborted = TRUE] = request
      BY <1>2, <2>2 DEF IInv, TypeOK
    <3> QED
      BY <1>1, <3>1 DEF IInv, TypeOK, Left
  <2>3. CASE f # 0
    <3>1. f \in DOMAIN request
      BY <1>2, <2>1, <2>3
    <3>2. /\ [request EXCEPT ![f].aborted = TRUE] \in Seq(TokenRequest)
          /\ Len([request EXCEPT ![f].aborted = TRUE]) = Len(request)
      BY <3>1, AbortedType DEF IInv
    <3> QED
      BY <1>1, <3>2 DEF IInv, TypeOK, Left
  <2> QED
    BY <2>2, <2>3
<1>4. caller' \in [Callers -> Call(Len(request))]
  <2>1. Answered \in Call(Len(request))
    BY <1>2, OAuthAssumption DEF Answered, NoCall, Call
  <2>2. [caller[c] EXCEPT !.stage = "loading", !.generation = lifecycle] \in Call(Len(request))
    BY <1>2 DEF Call, IInv, TypeOK
  <2>3. [caller[c] EXCEPT !.stage = "done"] \in Call(Len(request))
    BY <1>2 DEF Call
  <2> QED
    BY <2>1, <2>2, <2>3 DEF GetAccessToken, NoRefresh, Leave, FlightEnds, IInv, TypeOK
<1>5. Harmless(signIn')
  BY <1>1, NowHarmless
<1> QED
  BY <1>1, <1>3, <1>4, <1>5, RequestsChange DEF IInv, TypeOK

LEMMA RefreshStep ==
    ASSUME IInv, NEW c \in Callers, Refresh(c) PROVE IInv'
<1> DEFINE flight == [kind |-> "refresh", generation |-> lifecycle, aborted |-> FALSE,
                      stage |-> "posting"]
           R == IF Joins(c) THEN request ELSE Append(request, flight)
           f == IF Joins(c) THEN refreshPromise ELSE Len(R)
           n == Len(R)
<1>1. /\ refreshPromise' = f
      /\ request' = R \/ request' = Left(R, f, c)
      /\ \/ caller' = [caller EXCEPT ![c] = [caller[c] EXCEPT !.stage = "waiting", !.flight = f]]
         \/ caller' = [caller EXCEPT ![c] = Answered]
      /\ UNCHANGED <<lifecycle, storage, signIn, clear>>
  BY DEF Refresh
<1>2. Len(request) \in Nat
  BY LenProperties DEF IInv, TypeOK
<1>3. R \in Seq(TokenRequest) /\ n \in Nat /\ Len(request) <= n /\ f \in 1..n
  <2>1. CASE Joins(c)
    BY <1>2, <2>1 DEF IInv, TypeOK, Joins
  <2>2. CASE ~ Joins(c)
    <3>1. flight \in TokenRequest
      BY DEF IInv, TypeOK, TokenRequest
    <3>2. R = Append(request, flight) /\ f = n
      BY <2>2
    <3>3. Append(request, flight) \in Seq(TokenRequest) /\ Len(Append(request, flight)) = Len(request) + 1
      BY <3>1, AppendProperties DEF IInv, TypeOK
    <3> QED
      BY <1>2, <3>2, <3>3
  <2> QED
    BY <2>1, <2>2
<1> HIDE DEF R, f, n
<1>4. [R EXCEPT ![f].aborted = TRUE] \in Seq(TokenRequest) /\ Len([R EXCEPT ![f].aborted = TRUE]) = n
  <2>1. R[f] \in TokenRequest
    BY <1>3, ElementOfSeq DEF n
  <2>2. [R[f] EXCEPT !.aborted = TRUE] \in TokenRequest
    BY <2>1 DEF TokenRequest
  <2> QED
    BY <1>3, <2>2, ExceptSeq DEF n
<1>5. request' \in Seq(TokenRequest) /\ Len(request') = n
  BY <1>1, <1>3, <1>4 DEF Left, n
<1>6. queue \in Seq(StorageOp(n, lifecycle)) /\ caller \in [Callers -> Call(n)]
  <2>1. lifecycle \in Nat /\ lifecycle <= lifecycle
    BY OAuthAssumption DEF IInv, TypeOK
  <2> QED
    BY <1>3, <2>1, Grown DEF IInv
<1>7. caller' \in [Callers -> Call(n)]
  <2>1. caller[c] \in Call(n)
    BY <1>6
  <2>2. [caller[c] EXCEPT !.stage = "waiting", !.flight = f] \in Call(n)
    <3>1. f \in 0..n
      BY <1>3
    <3> QED
      BY <2>1, <3>1 DEF Call
  <2>3. Answered \in Call(n)
    BY <1>3, OAuthAssumption DEF Answered, NoCall, Call
  <2> QED
    BY <1>1, <1>6, <2>2, <2>3
<1>8. TypeOK'
  BY <1>1, <1>3, <1>5, <1>6, <1>7 DEF IInv, TypeOK, storage
<1>9. Harmless(signIn')
  BY <1>1, NowHarmless
<1>10. StoredInOrder' /\ FutureIsEmpty' /\ SignInsSound'
  <2>1. lifecycle' \in Nat /\ lifecycle <= lifecycle'
    BY <1>1, OAuthAssumption DEF IInv, TypeOK
  <2> QED
    BY <1>1, <1>9, <2>1, Ordinary DEF storage
<1> QED
  BY <1>8, <1>10 DEF IInv

-------------------------------------------------------------------------------
(* The theorems *)

LEMMA SignInsStep ==
    ASSUME IInv, NEW g \in Generations,
           \/ Server(g) \/ BrowserFails(g) \/ ManualCallback(g) \/ Loopback(g)
           \/ ServerCloses(g) \/ SignOutClears(g)
    PROVE  IInv'
BY ServerStartsStep, ServerEndsStep, LoopbackClosesStep, CallbackStep, ServerClosesStep,
   SignOutClearsStep
DEF Server, Loopback

\* Every step of the manager, the store and the servers keeps the invariant.
THEOREM Step == IInv /\ [Next]_vars => IInv'
<1> SUFFICES ASSUME IInv, [Next]_vars PROVE IInv'
  OBVIOUS
<1>1. CASE SignIn \/ SignOut \/ ImportLocalSession
  BY <1>1, SignInStep, SignOutStep, ImportStep
<1>2. CASE Storage
  BY <1>2, StorageStartsStep, SaveReturnsStep, ClearReturnsStep DEF Storage
<1>3. ASSUME NEW r \in DOMAIN request, Fetch(r) \/ Body(r) PROVE IInv'
  BY <1>3, FetchStep, TokensArriveStep, InvalidGrantStep DEF Fetch, Body
<1>4. ASSUME NEW c \in Callers, GetAccessToken(c) \/ Load(c) \/ Leave(c) \/ FlightEnds(c)
      PROVE  IInv'
  BY <1>4, CallStep, RefreshStep DEF Load
<1>5. CASE UNCHANGED vars
  <2>1. Harmless(signIn')
    BY <1>5, NowHarmless DEF vars
  <2> QED
    BY <1>5, <2>1, OnlySignInChanges DEF vars, storage
<1> QED
  BY <1>1, <1>2, <1>3, <1>4, <1>5, SignInsStep DEF Next

-------------------------------------------------------------------------------
(* Refreshes *)

UnderWay(r) == request[r].kind = "refresh" /\ ~ Ended(r)

\* No refresh is of a generation to come, and a refresh of this generation that has not
\* ended is the one callers join: whoever needs another finds it.
FlightIsJoined ==
    \A r \in DOMAIN request :
        UnderWay(r) =>
            /\ request[r].generation <= lifecycle
            /\ request[r].generation = lifecycle => r = refreshPromise

Flights == FlightIsJoined /\ OneRefreshPerGeneration

\* A step that makes no refresh, revives none and takes none from the callers before it
\* has ended keeps them so.
LEMMA NoNewRefresh ==
    ASSUME IInv, Flights, lifecycle' \in Nat, lifecycle <= lifecycle',
           \A r \in DOMAIN request' : UnderWay(r)' =>
                /\ r \in DOMAIN request /\ UnderWay(r)
                /\ request'[r].generation = request[r].generation
                /\ r = refreshPromise => r = refreshPromise'
    PROVE  Flights'
<1>1. lifecycle \in Nat
  BY OAuthAssumption DEF IInv, TypeOK
<1>2. \A r \in DOMAIN request : request[r].generation \in Nat
  BY LenProperties, ElementOfSeq, OAuthAssumption DEF IInv, TypeOK, TokenRequest
<1>3. FlightIsJoined'
  <2> SUFFICES ASSUME NEW r \in DOMAIN request', UnderWay(r)'
               PROVE  /\ request'[r].generation <= lifecycle'
                      /\ request'[r].generation = lifecycle' => r = refreshPromise'
    BY DEF FlightIsJoined
  <2> QED
    BY <1>1, <1>2 DEF Flights, FlightIsJoined
<1>4. OneRefreshPerGeneration'
  <2> SUFFICES ASSUME NEW r \in DOMAIN request', NEW s \in DOMAIN request',
                      UnderWay(r)', UnderWay(s)',
                      request'[r].generation = request'[s].generation
               PROVE  r = s
    BY DEF OneRefreshPerGeneration, UnderWay
  <2>1. /\ r \in DOMAIN request /\ UnderWay(r) /\ s \in DOMAIN request /\ UnderWay(s)
        /\ request[r].generation = request[s].generation
    OBVIOUS
  <2> QED
    BY <2>1 DEF Flights, OneRefreshPerGeneration, UnderWay
<1> QED
  BY <1>3, <1>4 DEF Flights

\* The requests are those of before, none of them revived.
Followed(R) ==
    /\ DOMAIN R = DOMAIN request
    /\ \A r \in DOMAIN request :
         /\ R[r].kind = request[r].kind /\ R[r].generation = request[r].generation
         /\ Ended(r) => R[r].stage \in {"ok", "failed"}

LEMMA FollowedStep ==
    ASSUME IInv, Flights, lifecycle' \in Nat, lifecycle <= lifecycle', Followed(request'),
           refreshPromise' = refreshPromise
    PROVE  Flights'
BY NoNewRefresh DEF Followed, UnderWay, Ended

LEMMA AbortedFollowed ==
    ASSUME TypeOK, NEW f
    PROVE  Followed(request) /\ Followed([request EXCEPT ![f].aborted = TRUE])
<1>1. \A r \in DOMAIN request : request[r] \in TokenRequest
  BY LenProperties, ElementOfSeq DEF TypeOK
<1>2. Followed(request)
  BY DEF Followed, Ended
<1>3. \A r \in DOMAIN request :
        /\ [request EXCEPT ![f].aborted = TRUE][r].kind = request[r].kind
        /\ [request EXCEPT ![f].aborted = TRUE][r].generation = request[r].generation
        /\ [request EXCEPT ![f].aborted = TRUE][r].stage = request[r].stage
  BY <1>1 DEF TokenRequest
<1>4. DOMAIN [request EXCEPT ![f].aborted = TRUE] = DOMAIN request
  OBVIOUS
<1> QED
  BY <1>2, <1>3, <1>4 DEF Followed, Ended

LEMMA StagedFollowed ==
    ASSUME TypeOK, NEW r \in DOMAIN request, NEW s, NEW R,
           Followed(R), \A q \in DOMAIN request : R[q] \in TokenRequest,
           ~ Ended(r) \/ s \in {"ok", "failed"}
    PROVE  Followed([R EXCEPT ![r].stage = s])
<1>1. \A q \in DOMAIN request :
        /\ [R EXCEPT ![r].stage = s][q].kind = R[q].kind
        /\ [R EXCEPT ![r].stage = s][q].generation = R[q].generation
        /\ [R EXCEPT ![r].stage = s][q].stage = IF q = r THEN s ELSE R[q].stage
  BY DEF TokenRequest, Followed
<1>2. DOMAIN [R EXCEPT ![r].stage = s] = DOMAIN R
  OBVIOUS
<1> QED
  BY <1>1, <1>2 DEF Followed

\* A request that ends is no longer joined.
LEMMA EndsStep ==
    ASSUME IInv, Flights, lifecycle' = lifecycle, NEW r \in DOMAIN request,
           NEW s \in {"ok", "failed"}, request' = [request EXCEPT ![r].stage = s],
           refreshPromise' = IF refreshPromise = r THEN 0 ELSE refreshPromise
    PROVE  Flights'
<1>1. \A q \in DOMAIN request : request[q] \in TokenRequest
  BY LenProperties, ElementOfSeq DEF IInv, TypeOK
<1>2. Followed(request')
  BY <1>1, AbortedFollowed, StagedFollowed DEF IInv
<1>3. request'[r].stage = s
  BY <1>1 DEF TokenRequest
<1>4. lifecycle \in Nat
  BY OAuthAssumption DEF IInv, TypeOK
<1> QED
  BY <1>2, <1>3, <1>4, NoNewRefresh DEF Followed, UnderWay, Ended

LEMMA StageStep ==
    ASSUME IInv, Flights, NEW r \in DOMAIN request, ~ Ended(r),
           \/ request' = [request EXCEPT ![r].stage = "body"]
           \/ request' = [request EXCEPT ![r].stage = "storing"]
           \/ request' = [FlightAborted EXCEPT ![r].stage = "storing"],
           lifecycle' \in Nat, lifecycle <= lifecycle', refreshPromise' = refreshPromise
    PROVE  Flights'
<1>1. /\ \A q \in DOMAIN request : request[q] \in TokenRequest
      /\ \A q \in DOMAIN request : FlightAborted[q] \in TokenRequest
  BY LenProperties, ElementOfSeq, FlightAbortedType DEF IInv, TypeOK
<1>2. Followed(request) /\ Followed(FlightAborted)
  BY AbortedFollowed DEF IInv, FlightAborted
<1>3. /\ Followed([request EXCEPT ![r].stage = "body"])
      /\ Followed([request EXCEPT ![r].stage = "storing"])
      /\ Followed([FlightAborted EXCEPT ![r].stage = "storing"])
  BY <1>1, <1>2, StagedFollowed DEF IInv
<1> QED
  BY <1>3, FollowedStep

\* A code exchange is no refresh.
LEMMA ExchangeStep ==
    ASSUME IInv, Flights, NEW g \in Generations, NEW S, Exchange(g, S),
           UNCHANGED <<lifecycle, refreshPromise>>
    PROVE  Flights'
<1> DEFINE q == [kind |-> "signIn", generation |-> g, aborted |-> FALSE, stage |-> "posting"]
<1>1. request' = Append(request, q) /\ q.kind = "signIn"
  BY DEF Exchange
<1>2. lifecycle \in Nat /\ request \in Seq(TokenRequest)
  BY OAuthAssumption DEF IInv, TypeOK
<1> HIDE DEF q
<1>3. \A r \in DOMAIN request' : \/ r \in DOMAIN request /\ request'[r] = request[r]
                                 \/ request'[r] = q
  BY <1>1, <1>2
<1> QED
  BY <1>1, <1>2, <1>3, NoNewRefresh DEF UnderWay, Ended

\* getAccessToken makes a refresh only if none of its generation is joined: by
\* FlightIsJoined then none is under way.
LEMMA NewFlightStep ==
    ASSUME IInv, Flights, NEW c \in Callers, Refresh(c) PROVE Flights'
<1> DEFINE flight == [kind |-> "refresh", generation |-> lifecycle, aborted |-> FALSE,
                      stage |-> "posting"]
           R == IF Joins(c) THEN request ELSE Append(request, flight)
           f == IF Joins(c) THEN refreshPromise ELSE Len(R)
<1>1. /\ refreshPromise' = f /\ lifecycle' = lifecycle /\ lifecycle = caller[c].generation
      /\ request' = R \/ request' = [R EXCEPT ![f].aborted = TRUE]
  BY DEF Refresh, Left, Current
<1>2. lifecycle \in Nat /\ request \in Seq(TokenRequest) /\ refreshPromise \in 0..Len(request)
  BY OAuthAssumption DEF IInv, TypeOK
<1>3. CASE Joins(c)
  <2>1. Followed(request')
    BY <1>1, <1>3, AbortedFollowed DEF IInv
  <2> QED
    BY <1>1, <1>2, <1>3, <2>1, FollowedStep
<1>4. CASE ~ Joins(c)
  <2> DEFINE n == Len(request) + 1
  <2>1. /\ R = Append(request, flight) /\ f = n /\ DOMAIN R = DOMAIN request \cup {n}
        /\ R[n] = flight /\ n \notin DOMAIN request
        /\ \A r \in DOMAIN request : R[r] = request[r] /\ R[r] \in TokenRequest
    BY <1>2, <1>4, AppendProperties, LenProperties, ElementOfSeq
  <2>2. flight.kind = "refresh" /\ flight.generation = lifecycle
    OBVIOUS
  <2> HIDE DEF flight, R, f, n
  <2>3. /\ DOMAIN request' = DOMAIN request \cup {n}
        /\ request'[n].kind = "refresh" /\ request'[n].generation = lifecycle
        /\ \A r \in DOMAIN request : request'[r] = request[r]
    <3>1. CASE request' = R
      BY <2>1, <2>2, <3>1
    <3>2. CASE request' = [R EXCEPT ![f].aborted = TRUE]
      <4>1. [R EXCEPT ![f].aborted = TRUE] = [R EXCEPT ![n] = [flight EXCEPT !.aborted = TRUE]]
        BY <2>1
      <4>2. /\ [flight EXCEPT !.aborted = TRUE].kind = "refresh"
            /\ [flight EXCEPT !.aborted = TRUE].generation = lifecycle
        BY DEF flight
      <4> QED
        BY <2>1, <3>2, <4>1, <4>2
    <3> QED
      BY <1>1, <3>1, <3>2
  <2>4. \A r \in DOMAIN request : UnderWay(r) => request[r].generation # lifecycle
    <3> SUFFICES ASSUME NEW r \in DOMAIN request, UnderWay(r), request[r].generation = lifecycle
                 PROVE  FALSE
      OBVIOUS
    <3>1. r = refreshPromise
      BY DEF Flights, FlightIsJoined
    <3>2. refreshPromise # 0
      BY <1>2, <3>1, LenProperties
    <3> QED
      BY <1>1, <1>4, <3>1, <3>2 DEF Joins
  <2>5. \A r \in DOMAIN request : UnderWay(r)' => UnderWay(r)
    BY <2>3 DEF UnderWay, Ended
  <2>6. FlightIsJoined'
    BY <1>1, <1>2, <2>1, <2>3, <2>4, <2>5 DEF Flights, FlightIsJoined
  <2>7. OneRefreshPerGeneration'
    <3> SUFFICES ASSUME NEW r \in DOMAIN request', NEW s \in DOMAIN request',
                        UnderWay(r)', UnderWay(s)',
                        request'[r].generation = request'[s].generation
                 PROVE  r = s
      BY DEF OneRefreshPerGeneration, UnderWay
    <3>1. CASE r \in DOMAIN request /\ s \in DOMAIN request
      BY <2>3, <2>5, <3>1 DEF Flights, OneRefreshPerGeneration, UnderWay
    <3>2. CASE r = n \/ s = n
      BY <2>3, <2>4, <2>5, <3>2
    <3> QED
      BY <2>3, <3>1, <3>2
  <2> QED
    BY <2>6, <2>7 DEF Flights
<1> QED
  BY <1>3, <1>4

\* A refresh that is under way stays the one callers of its generation join, until it ends
\* (getAccessToken).
THEOREM FlightsStep == IInv /\ Flights /\ [Next]_vars => Flights'
<1> SUFFICES ASSUME IInv, Flights, [Next]_vars PROVE Flights'
  OBVIOUS
<1>1. lifecycle \in Nat
  BY OAuthAssumption DEF IInv, TypeOK
<1>2. Followed(request) /\ Followed(FlightAborted)
  BY AbortedFollowed DEF IInv, FlightAborted
<1>3. ASSUME UNCHANGED <<lifecycle, request, refreshPromise>> PROVE Flights'
  BY <1>1, <1>2, <1>3, FollowedStep
<1>4. CASE SignIn \/ SignOut
  BY <1>1, <1>2, <1>4, FollowedStep DEF SignIn, SignOut
<1>5. CASE Storage
  <2>1. \A r \in DOMAIN request :
          RequestFails(r) /\ UNCHANGED lifecycle => Flights'
    BY EndsStep DEF RequestFails
  <2>2. queue # <<>> => Head(queue).request \in 0..Len(request)
                        /\ (Head(queue).kind = "save" => Head(queue).request # 0)
    BY HeadType DEF StorageOp, IInv
  <2>3. request \in Seq(TokenRequest) /\ DOMAIN request = 1..Len(request) /\ Len(request) \in Nat
    BY LenProperties DEF IInv, TypeOK
  <2>4. CASE StorageStarts
    BY <1>3, <2>1, <2>2, <2>3, <2>4 DEF StorageStarts
  <2>5. CASE SaveReturns
    <3>1. queue # <<>> /\ Head(queue).request \in DOMAIN request
      BY <2>2, <2>3, <2>5 DEF SaveReturns, IInv, TypeOK
    <3>2. \A r \in DOMAIN request : \A g : SessionSaved(r, g) /\ UNCHANGED lifecycle => Flights'
      BY EndsStep DEF SessionSaved
    <3> QED
      BY <2>1, <2>5, <3>1, <3>2 DEF SaveReturns
  <2>6. CASE ClearReturns
    BY <1>3, <2>1, <2>2, <2>3, <2>6 DEF ClearReturns, IInv, TypeOK
  <2> QED
    BY <1>5, <2>4, <2>5, <2>6 DEF Storage
<1>6. ASSUME NEW r \in DOMAIN request, Fetch(r) \/ Body(r) PROVE Flights'
  <2>1. CASE RequestLost(r) \/ BodyUseless(r)
    BY <2>1, EndsStep DEF RequestLost, BodyUseless, RequestFails
  <2>2. CASE RequestAnswered(r) \/ TokensArrive(r) \/ InvalidGrant(r)
    <3>1. ~ Ended(r)
      BY <2>2 DEF RequestAnswered, TokensArrive, InvalidGrant, Ended
    <3> QED
      BY <1>1, <2>2, <3>1, StageStep DEF RequestAnswered, TokensArrive, InvalidGrant
  <2> QED
    BY <1>6, <2>1, <2>2 DEF Fetch, Body
<1>7. ASSUME NEW c \in Callers, GetAccessToken(c) \/ Load(c) \/ Leave(c) \/ FlightEnds(c)
      PROVE  Flights'
  <2>1. CASE Refresh(c)
    BY <2>1, NewFlightStep
  <2>2. CASE Leave(c)
    <3>1. Followed(request')
      BY <2>2, AbortedFollowed DEF Leave, Left, IInv
    <3> QED
      BY <1>1, <2>2, <3>1, FollowedStep DEF Leave
  <2> QED
    BY <1>3, <1>7, <2>1, <2>2 DEF Load, GetAccessToken, NoRefresh, FlightEnds
<1>8. ASSUME NEW g \in Generations, Server(g) \/ BrowserFails(g) \/ Loopback(g) \/ ManualCallback(g)
             \/ ServerCloses(g) \/ SignOutClears(g)
      PROVE  Flights'
  <2>1. \A S : Exchange(g, S) /\ UNCHANGED <<lifecycle, refreshPromise>> => Flights'
    BY ExchangeStep
  <2> QED
    BY <1>3, <1>8, <2>1 DEF Server, ServerStarts, ServerFails, BrowserFails, Loopback,
       LoopbackCloses, LoopbackCallback, LoopbackTimeout, ManualCallback, ServerCloses, SignOutClears
<1>9. CASE ImportLocalSession \/ UNCHANGED vars
  BY <1>3, <1>9 DEF ImportLocalSession, vars
<1> QED
  BY <1>4, <1>5, <1>6, <1>7, <1>8, <1>9 DEF Next

\* The invariant holds for any number of callers, generations and requests.
THEOREM Invariant == Spec => [](IInv /\ Flights)
<1>1. Init => Flights
  BY DEF Init, Flights, FlightIsJoined, OneRefreshPerGeneration
<1> QED
  BY <1>1, InitIInv, Step, FlightsStep, PTL DEF Spec

\* The variables have their types; a queued operation and a caller name a request that
\* was made (oauth-manager.ts).
THEOREM TypeCorrect == Spec => []TypeOK
<1>1. IInv => TypeOK
  BY DEF IInv
<1> QED
  BY <1>1, Invariant, PTL

\* No refresh and no exchange of before a completed sign-out or sign-in brings its
\* session back into the store (saveIfCurrent, enqueueStorage, signOut).
THEOREM NothingComesBack == Spec => []StoredIsCurrent
<1>1. IInv => StoredIsCurrent
  BY DEF IInv, StoredInOrder, NoneAfter, Completed, StoredIsCurrent
<1> QED
  BY <1>1, Invariant, PTL

\* Whatever flights are given up, lost or overtaken by a sign-out, the refresh of a
\* generation is under way at most once (getAccessToken and its finally).
THEOREM RefreshedOnce == Spec => []OneRefreshPerGeneration
<1>1. Flights => OneRefreshPerGeneration
  BY DEF Flights
<1> QED
  BY <1>1, Invariant, PTL

\* No settled sign-in leaves its callback server listening, even if it was rejected
\* before the server had started (signIn, rejectActive).
THEOREM PortsClosed == Spec => []NoPortLeftOpen
<1>1. IInv => NoPortLeftOpen
  BY DEF IInv, SignInsSound, SoundSignIn, NoPortLeftOpen, Running
<1> QED
  BY <1>1, Invariant, PTL

================================================================================
