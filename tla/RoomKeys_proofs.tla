---------------------------- MODULE RoomKeys_proofs ----------------------------
(***************************************************************************)
(* Theorems about RoomKeys, for any set of events, any keys and any number *)
(* of inputs: types, the request that is looked at and kept, the failures  *)
(* that are remembered and counted once.                                   *)
(***************************************************************************)
EXTENDS RoomKeys, SequenceTheorems, TLAPS

\* The main thread waits for the one event whose decryption is queued or going on, and
\* has no answer until then.
ShowInv ==
  /\ answer # Nothing => showing # Nothing
  /\ work.doing = "show" => showing = work.event /\ answer = Nothing
  /\ \A i \in DOMAIN cryptoQueue : cryptoQueue[i].task = "decrypt" =>
       /\ showing = cryptoQueue[i].event /\ answer = Nothing /\ work.doing # "show"
       /\ \A j \in DOMAIN cryptoQueue : cryptoQueue[j].task = "decrypt" => i = j

\* t waits in the queue q.
Has(q, t) == \E i \in DOMAIN q : q[i] = t

\* What is appended waits in the queue, with what did.
LEMMA AppendedTasks ==
  ASSUME NEW S, NEW q \in Seq(S), NEW x \in S
  PROVE  /\ Append(q, x) \in Seq(S)
         /\ \A t : Has(Append(q, x), t) <=> Has(q, t) \/ t = x
         /\ \A i \in DOMAIN q : i \in DOMAIN Append(q, x) /\ Append(q, x)[i] = q[i]
         /\ \A i \in DOMAIN Append(q, x) :
              i \in DOMAIN q \/ (i = Len(q) + 1 /\ Append(q, x)[i] = x)
<1>1. /\ Append(q, x) \in Seq(S)
      /\ \A i \in DOMAIN q : i \in DOMAIN Append(q, x) /\ Append(q, x)[i] = q[i]
      /\ \A i \in DOMAIN Append(q, x) :
           i \in DOMAIN q \/ (i = Len(q) + 1 /\ Append(q, x)[i] = x)
      /\ Len(q) + 1 \in DOMAIN Append(q, x) /\ Append(q, x)[Len(q) + 1] = x
  OBVIOUS
<1>2. ASSUME NEW t PROVE Has(Append(q, x), t) <=> Has(q, t) \/ t = x
  BY <1>1 DEF Has
<1> QED BY <1>1, <1>2

\* What the first leaves behind waits in the queue.
LEMMA LeftTasks ==
  ASSUME NEW S, NEW q \in Seq(S), q # <<>>
  PROVE  /\ Head(q) \in S /\ Tail(q) \in Seq(S)
         /\ 1 \in DOMAIN q /\ q[1] = Head(q)
         /\ \A i \in DOMAIN Tail(q) : i + 1 \in DOMAIN q /\ Tail(q)[i] = q[i + 1]
         /\ \A t : Has(q, t) <=> Has(Tail(q), t) \/ t = Head(q)
<1>1. /\ Head(q) \in S /\ Tail(q) \in Seq(S)
      /\ 1 \in DOMAIN q /\ q[1] = Head(q)
      /\ \A i \in DOMAIN Tail(q) : i + 1 \in DOMAIN q /\ Tail(q)[i] = q[i + 1]
  OBVIOUS
<1>2. \A i \in DOMAIN q : i = 1 \/ (i - 1 \in DOMAIN Tail(q) /\ Tail(q)[i - 1] = q[i])
  OBVIOUS
<1>3. ASSUME NEW t, Has(q, t) PROVE Has(Tail(q), t) \/ t = Head(q)
  <2>1. PICK i \in DOMAIN q : q[i] = t
    BY <1>3 DEF Has
  <2> QED BY <1>1, <1>2, <2>1 DEF Has
<1>4. ASSUME NEW t, Has(Tail(q), t) \/ t = Head(q) PROVE Has(q, t)
  BY <1>1, <1>4 DEF Has
<1> QED BY <1>1, <1>3, <1>4

-----------------------------------------------------------------------------
(***************************************************************************)
(* Types.                                                                  *)
(***************************************************************************)

\* Every task that some step makes is one.
LEMMA TaskTypes ==
  /\ \A i \in Keys : KeyTask(i) \in Tasks
  /\ \A e \in Events : ShowTask(e) \in Tasks /\ PendTask(e) \in Tasks
  /\ \A b \in BOOLEAN : NotifyTask(b) \in Tasks /\ EnableTask(b) \in Tasks
  /\ Task("didImportRoomKey") \in Tasks /\ Task("resend") \in Tasks /\ LoopTask \in Tasks
  /\ \A c \in Calls, ok \in BOOLEAN : AnswerTask(c, ok) \in Tasks
BY DEF KeyTask, ShowTask, PendTask, NotifyTask, EnableTask, Task, LoopTask, AnswerTask,
       Tasks

\* The tasks of each name.
LEMMA TaskFields ==
  ASSUME NEW t \in Tasks
  PROVE  /\ t.task = "roomKey" => t.key \in Keys /\ t = KeyTask(t.key)
         /\ t.task = "decrypt" => t.event \in Events /\ t = ShowTask(t.event)
         /\ t.task = "addEventToPendingList" => t.event \in Events /\ t = PendTask(t.event)
         /\ t.task = "complete" => t.all \in BOOLEAN /\ t = NotifyTask(t.all)
         /\ t.task = "setEnabled" => t.on \in BOOLEAN /\ t = EnableTask(t.on)
         /\ t.task \in {"didImportRoomKey", "resend", "sendOutgoingRoomKeyRequests"}
              => t = Task(t.task)
         /\ t.task = "answer"
              => t.call \in Calls /\ t.ok \in BOOLEAN /\ t = AnswerTask(t.call, t.ok)
<1>1. CASE t \in [task : {"roomKey"}, key : Keys]
  BY <1>1 DEF KeyTask
<1>2. CASE t \in [task : {"decrypt", "addEventToPendingList"}, event : Events]
  BY <1>2 DEF ShowTask, PendTask
<1>3. CASE t \in [task : {"complete"}, all : BOOLEAN]
  BY <1>3 DEF NotifyTask
<1>4. CASE t \in [task : {"setEnabled"}, on : BOOLEAN]
  BY <1>4 DEF EnableTask
<1>5. CASE t \in [task : {"didImportRoomKey", "resend", "sendOutgoingRoomKeyRequests"}]
  BY <1>5 DEF Task
<1>6. CASE t \in [task : {"answer"}, call : Calls, ok : BOOLEAN]
  BY <1>6 DEF AnswerTask
<1> QED BY <1>1, <1>2, <1>3, <1>4, <1>5, <1>6 DEF Tasks

\* What is left to do, of each kind.
LEMMA WorkFields ==
  ASSUME NEW w \in Works
  PROVE  /\ w.doing = "add" => w.key \in Keys /\ w.held \in Indexes
         /\ w.doing = "show" => w.event \in Events /\ w.held \in Indexes
         /\ w.doing = "retry" => w.todo \subseteq Events /\ w.all \in BOOLEAN
         /\ w.doing = "retryOne" =>
              w.event \in Events /\ w.held \in Indexes /\ w.todo \subseteq Events
              /\ w.all \in BOOLEAN
         /\ w.doing \in {"nothing", "add", "show", "retry", "retryOne"}
         /\ w.doing = "nothing" <=> w = Idle
BY DEF Works, Idle

\* A block of the main thread, of each kind.
LEMMA BlockFields ==
  ASSUME NEW b \in Blocks
  PROVE  /\ b.event \in Events /\ b.block \in {"result", "report"}
         /\ b.block = "result" =>
              b.outcome \in Outcomes /\ b.notify \in {"no", "all", "some"}
BY DEF Blocks

\* The queue after a step that appends a task, takes the first, or both.
LEMMA QueueTypes ==
  ASSUME cryptoQueue \in Seq(Tasks)
  PROVE  /\ \A t \in Tasks : Append(cryptoQueue, t) \in Seq(Tasks)
         /\ cryptoQueue # <<>> =>
              /\ Head(cryptoQueue) \in Tasks /\ Tail(cryptoQueue) \in Seq(Tasks)
              /\ \A t \in Tasks : Append(Tail(cryptoQueue), t) \in Seq(Tasks)
BY LeftTasks, AppendedTasks

\* Every step on the request keeps it well typed.
LEMMA RequestTypes ==
  ASSUME RequestTypeOK, NEW queue \in Seq(Tasks)
  PROVE  /\ \A old \in Requests \cup {NoRequest} :
              SendRoomKeyRequest(old)
                => request' \in Requests /\ requestIds' \in Nat /\ timer' \in BOOLEAN
         /\ \A resend \in BOOLEAN : CancelRoomKeyRequest(resend) => RequestTypeOK'
         /\ SendOutgoingRoomKeyRequest => RequestTypeOK'
         /\ \A call \in Calls : CallSucceeded(call, queue) \/ CallFailed(queue)
              => RequestTypeOK' /\ cryptoQueue' \in Seq(Tasks)
         /\ \A on \in BOOLEAN : \A known : SetEnabled(on, known) => RequestTypeOK'
         /\ GoAroundTheLoop(queue) => timer' \in BOOLEAN /\ cryptoQueue' \in Seq(Tasks)
<1>0. /\ request \in Requests \cup {NoRequest} /\ requestIds \in Nat /\ calls \subseteq Calls
      /\ timer \in BOOLEAN /\ enabled \in BOOLEAN
      /\ \A state \in States : request # NoRequest => [request EXCEPT !.state = state] \in Requests
      /\ \A kind \in {"request", "cancel", "cancelAndResend"}, loop \in BOOLEAN :
           request # NoRequest => [kind |-> kind, id |-> request.id, loop |-> loop] \in Calls
  BY DEF RequestTypeOK, Requests, Calls
<1>1. ASSUME NEW old \in Requests \cup {NoRequest}, SendRoomKeyRequest(old)
      PROVE  request' \in Requests /\ requestIds' \in Nat /\ timer' \in BOOLEAN
  BY <1>0, <1>1 DEF SendRoomKeyRequest, Requests, States
<1>2. ASSUME NEW resend \in BOOLEAN, CancelRoomKeyRequest(resend) PROVE RequestTypeOK'
  <2>1. request' \in Requests \cup {NoRequest}
    BY <1>0, <1>2 DEF CancelRoomKeyRequest, IsIn, States
  <2>2. calls' \subseteq Calls
    BY <1>0, <1>2 DEF CancelRoomKeyRequest, IsIn
  <2> QED BY <1>0, <1>2, <2>1, <2>2 DEF CancelRoomKeyRequest, RequestTypeOK
<1>3. ASSUME SendOutgoingRoomKeyRequest PROVE RequestTypeOK'
  <2>1. ASSUME NEW c \in calls' PROVE c \in Calls
    BY <1>0, <1>3, <2>1 DEF SendOutgoingRoomKeyRequest, IsIn
  <2> QED BY <1>0, <1>3, <2>1 DEF SendOutgoingRoomKeyRequest, RequestTypeOK
<1>4. ASSUME GoAroundTheLoop(queue)
      PROVE  timer' \in BOOLEAN /\ cryptoQueue' \in Seq(Tasks)
  BY <1>4, TaskTypes, AppendedTasks DEF GoAroundTheLoop
<1>5. ASSUME NEW call \in Calls, CallSucceeded(call, queue) \/ CallFailed(queue)
      PROVE  RequestTypeOK' /\ cryptoQueue' \in Seq(Tasks)
  <2>1. CASE CallFailed(queue)
    BY <1>0, <2>1 DEF CallFailed, RequestTypeOK
  <2>2. CASE CallSucceeded(call, queue)
    <3> DEFINE left == IF Holds(call.id) THEN NoRequest ELSE request
    <3>1. UNCHANGED <<calls, enabled>> /\ left \in Requests \cup {NoRequest}
      BY <1>0, <2>2 DEF CallSucceeded
    <3>2. CASE call.kind = "request"
      BY <1>0, <1>4, <2>2, <3>2 DEF CallSucceeded, RequestTypeOK, Holds, States
    <3>3. CASE call.kind = "cancel"
      BY <1>0, <1>4, <2>2, <3>1, <3>3 DEF CallSucceeded, RequestTypeOK
    <3>4. CASE call.kind = "cancelAndResend"
      <4>1. SendRoomKeyRequest(left) /\ cryptoQueue' = queue
        BY <2>2, <3>4 DEF CallSucceeded
      <4> HIDE DEF left
      <4> QED BY <1>0, <1>1, <3>1, <4>1 DEF RequestTypeOK
    <3> QED BY <3>2, <3>3, <3>4 DEF Calls
  <2> QED BY <1>5, <2>1, <2>2
<1>6. ASSUME NEW on \in BOOLEAN, NEW known, SetEnabled(on, known) PROVE RequestTypeOK'
  BY <1>0, <1>6 DEF SetEnabled, RequestTypeOK
<1> QED BY <1>1, <1>2, <1>3, <1>4, <1>5, <1>6

\* Every step of the main thread keeps the types.
LEMMA MainTypes ==
  ASSUME TypeOK, ShowInv, Main PROVE TypeOK'
<1> USE DEF requestVars, sessionVars, eventVars, mainVars
<1>0. /\ \A t \in Tasks : Append(cryptoQueue, t) \in Seq(Tasks)
      /\ inputs \in 0..MaxInputs /\ MaxInputs \in Nat
      /\ Input => inputs' \in 0..MaxInputs
  BY QueueTypes, RoomKeysAssumption DEF TypeOK, Input, RoomKeysAssumption
<1>1. ASSUME NEW i \in Keys, ReceiveRoomKey(i) PROVE TypeOK'
  BY <1>0, <1>1, TaskTypes DEF ReceiveRoomKey, TypeOK, RequestTypeOK
<1>2. ASSUME NEW e \in Events, Show(e) PROVE TypeOK'
  BY <1>0, <1>2, TaskTypes DEF Show, TypeOK, RequestTypeOK
<1>3. ASSUME NEW e \in Events, Format(e) PROVE TypeOK'
  <2>1. [block |-> "report", event |-> e] \in Blocks
    BY DEF Blocks
  <2>2. mainQueue' \in Seq(Blocks)
    BY <1>3, <2>1, AppendedTasks DEF Format, TypeOK
  <2> QED BY <1>0, <1>3, <2>2 DEF Format, TypeOK, RequestTypeOK
<1>4. ASSUME Shown PROVE TypeOK'
  <2>1. showing \in Events
    BY <1>4 DEF Shown, ShowInv, TypeOK
  <2> QED BY <1>4, <2>1 DEF Shown, SetClearData, SetError, TypeOK, RequestTypeOK
<1>5. ASSUME RunMain PROVE TypeOK'
  <2>1. mainQueue' \in Seq(Blocks) /\ Head(mainQueue) \in Blocks
    BY <1>5, LeftTasks DEF RunMain, TypeOK
  <2>2. cryptoQueue' \in Seq(Tasks)
    BY <1>0, <1>5, TaskTypes DEF RunMain, RunResult, RunReport, TypeOK
  <2>3. clear' \subseteq Events /\ failed' \subseteq Events /\ reported' \subseteq Events
        /\ tracked' = tracked
    BY <1>5, <2>1, BlockFields
       DEF RunMain, RunResult, RunReport, SetClearData, SetError, TypeOK
  <2> QED BY <1>5, <2>1, <2>2, <2>3 DEF RunMain, TypeOK, RequestTypeOK
<1>6. ASSUME CheckFailures PROVE TypeOK'
  BY <1>6 DEF CheckFailures, TypeOK, RequestTypeOK
<1>7. ASSUME NEW t \in {Task("resend"), EnableTask(TRUE), EnableTask(FALSE)}, Switch(t)
      PROVE  TypeOK'
  BY <1>0, <1>7, TaskTypes DEF Switch, TypeOK, RequestTypeOK
<1>8. ASSUME FireTimer, UNCHANGED <<inputs, Unrelated>> PROVE TypeOK'
  BY <1>8, RequestTypes DEF FireTimer, TypeOK, RequestTypeOK, Unrelated
<1> QED BY <1>1, <1>2, <1>3, <1>4, <1>5, <1>6, <1>7, <1>8 DEF Main

\* Every step of an import, of the server, and a restart.
LEMMA OtherTypes ==
  ASSUME TypeOK, Cargo \/ Server \/ Restart PROVE TypeOK'
<1> USE DEF requestVars, sessionVars, eventVars, mainVars
<1>0. /\ \A t \in Tasks : Append(cryptoQueue, t) \in Seq(Tasks)
      /\ Input => inputs' \in 0..MaxInputs
  BY QueueTypes, RoomKeysAssumption DEF TypeOK, Input, RoomKeysAssumption
<1>1. ASSUME NEW i \in Keys, BeginImport(i) PROVE TypeOK'
  BY <1>0, <1>1 DEF BeginImport, TypeOK, RequestTypeOK
<1>2. ASSUME EndImport PROVE TypeOK'
  <2>1. cargo.key \in Keys
    BY <1>2 DEF EndImport, TypeOK
  <2> QED BY <1>0, <1>2, <2>1, TaskTypes DEF EndImport, TypeOK, RequestTypeOK, Indexes
<1>3. ASSUME Server PROVE TypeOK'
  BY <1>0, <1>3, TaskTypes DEF Server, AnswerCall, TypeOK, RequestTypeOK, Unrelated
<1>4. ASSUME Restart PROVE TypeOK'
  BY <1>0, <1>4 DEF Restart, TypeOK, RequestTypeOK, Works, Idle
<1> QED BY <1>1, <1>2, <1>3, <1>4 DEF Cargo

\* A decryption and what it leaves in the queue.
LEMMA DecryptTypes ==
  ASSUME TypeOK, NEW e \in Events, NEW held \in Indexes, DecryptGroupMessage(e, held)
  PROVE  /\ stored' \in Indexes /\ indexes' \subseteq Events /\ UNCHANGED cargo
         /\ cryptoQueue' \in Seq(Tasks) /\ Outcome(e, held) \in Outcomes
<1>1. PendTask(e) \in Tasks /\ \A t \in Tasks : Append(cryptoQueue, t) \in Seq(Tasks)
  BY QueueTypes, TaskTypes DEF TypeOK
<1>2. Outcome(e, held) \in Outcomes
  BY DEF Outcome, Outcomes
<1> QED BY <1>1, <1>2 DEF DecryptGroupMessage, TypeOK

\* Every task of cryptoQueue, and every step of the longer ones.
LEMMA CryptoTypes ==
  ASSUME TypeOK, Crypto PROVE TypeOK'
<1> USE DEF requestVars, sessionVars, eventVars, mainVars
<1>0. work \in Works /\ stored \in Indexes /\ pending \subseteq Events
  BY DEF TypeOK
<1>1. ASSUME RunTask PROVE TypeOK'
  <2> DEFINE t == Head(cryptoQueue)
  <2>1. t \in Tasks /\ Tail(cryptoQueue) \in Seq(Tasks)
    BY <1>1, QueueTypes DEF RunTask, TypeOK
  <2> HIDE DEF t
  <2>2. ASSUME StartWork(t) PROVE TypeOK'
    <3>1. ASSUME t.task = "didImportRoomKey" PROVE work' \in Works
      <4>1. work' = Retry(pending, TRUE)
        BY <2>2, <3>1 DEF StartWork
      <4> QED BY <1>0, <4>1 DEF Works, Retry
    <3>2. ASSUME t.task = "roomKey" PROVE work' \in Works
      <4>1. t.key \in Keys
        BY <2>1, <3>2, TaskFields
      <4> QED BY <1>0, <2>2, <3>2, <4>1 DEF StartWork, Works
    <3>3. ASSUME t.task = "decrypt" PROVE work' \in Works
      <4>1. t.event \in Events
        BY <2>1, <3>3, TaskFields
      <4> QED BY <1>0, <2>2, <3>3, <4>1 DEF StartWork, Works
    <3>4. work' \in Works
      BY <2>2, <3>1, <3>2, <3>3 DEF StartWork
    <3>5. pending' \subseteq Events
      BY <1>0, <2>2 DEF StartWork
    <3> QED BY <1>1, <2>1, <2>2, <3>4, <3>5 DEF RunTask, StartWork, TypeOK, RequestTypeOK
  <2>3. ASSUME RunPend(t) PROVE TypeOK'
    <3>1. pending' \subseteq Events /\ cryptoQueue' = Tail(cryptoQueue)
          /\ UNCHANGED <<calls, enabled, work>>
      BY <1>0, <2>1, <2>3, TaskFields DEF RunPend
    <3>2. RequestTypeOK'
      BY <2>1, <2>3, <3>1, RequestTypes DEF RunPend, TypeOK, RequestTypeOK
    <3> QED BY <1>1, <2>1, <3>1, <3>2 DEF RunTask, TypeOK
  <2>4. ASSUME RunRequest(t) PROVE TypeOK'
    <3>1. RequestTypeOK' /\ cryptoQueue' \in Seq(Tasks)
      <4>1. CASE t.task = "answer"
        BY <2>1, <2>4, <4>1, RequestTypes, TaskFields DEF RunRequest, TypeOK
      <4>2. CASE t.task # "answer"
        <5>1. cryptoQueue' = Tail(cryptoQueue)
          BY <2>4, <4>2 DEF RunRequest
        <5>2. \/ CancelRoomKeyRequest(FALSE) \/ CancelRoomKeyRequest(TRUE)
              \/ UNCHANGED requestVars \/ SendOutgoingRoomKeyRequest
              \/ t.on \in BOOLEAN /\ SetEnabled(t.on, stored # Nothing)
          BY <2>1, <2>4, <4>2, TaskFields DEF RunRequest
        <5> QED BY <2>1, <5>1, <5>2, RequestTypes DEF TypeOK, RequestTypeOK
      <4> QED BY <4>1, <4>2
    <3> QED BY <1>1, <2>4, <3>1 DEF RunTask, RunRequest, TypeOK
  <2> QED BY <1>1, <2>2, <2>3, <2>4 DEF RunTask, t
<1>2. ASSUME AddSession PROVE TypeOK'
  BY <1>0, <1>2, WorkFields DEF AddSession, TypeOK, RequestTypeOK, Works, Retry, Indexes
<1>3. ASSUME DecryptShown PROVE TypeOK'
  <2>1. work.event \in Events /\ work.held \in Indexes
    BY <1>0, <1>3, WorkFields DEF DecryptShown
  <2> QED BY <1>3, <2>1, DecryptTypes DEF DecryptShown, TypeOK, RequestTypeOK, Works, Idle
<1>4. ASSUME RetryNext PROVE TypeOK'
  BY <1>0, <1>4, WorkFields DEF RetryNext, TypeOK, RequestTypeOK, Works, Retry
<1>5. ASSUME RetryOne PROVE TypeOK'
  <2>1. /\ work.event \in Events /\ work.held \in Indexes
        /\ work.todo \subseteq Events /\ work.all \in BOOLEAN
    BY <1>0, <1>5, WorkFields DEF RetryOne
  <2> DEFINE outcome == Outcome(work.event, work.held)
             b == [block |-> "result", event |-> work.event,
                   outcome |-> outcome, notify |-> "no"]
  <2>2. /\ stored' \in Indexes /\ indexes' \subseteq Events /\ UNCHANGED cargo
        /\ cryptoQueue' \in Seq(Tasks) /\ outcome \in Outcomes
    BY <1>5, <2>1, DecryptTypes DEF RetryOne
  <2>3. b \in Blocks
    BY <2>1, <2>2 DEF Blocks
  <2>4. mainQueue' = Append(mainQueue, b) /\ work' = Retry(work.todo, work.all /\ outcome = "decrypted")
    BY <1>5 DEF RetryOne
  <2>5. mainQueue' \in Seq(Blocks) /\ work' \in Works
    BY <2>1, <2>3, <2>4, AppendedTasks DEF TypeOK, Works, Retry
  <2> HIDE DEF outcome, b
  <2> QED BY <1>5, <2>2, <2>5 DEF RetryOne, TypeOK, RequestTypeOK
<1>6. ASSUME EndRetry PROVE TypeOK'
  <2>1. work.all \in BOOLEAN
    BY <1>0, <1>6, WorkFields DEF EndRetry
  <2>2. cryptoQueue' \in Seq(Tasks)
    BY <1>6, <2>1, QueueTypes, TaskTypes DEF EndRetry, TypeOK
  <2>3. ASSUME NEW i \in DOMAIN mainQueue, NEW n \in {"all", "some"}, i \in LastOfRetry
        PROVE  [mainQueue[i] EXCEPT !.notify = n] \in Blocks
    <3>1. mainQueue[i] \in Blocks /\ mainQueue[i].block = "result"
      BY <2>3 DEF LastOfRetry, TypeOK
    <3>2. mainQueue[i] \in [block : {"result"}, event : Events, outcome : Outcomes,
                            notify : {"no", "all", "some"}]
      BY <3>1 DEF Blocks
    <3> QED BY <3>2 DEF Blocks
  <2>4. mainQueue' \in Seq(Blocks)
    <3>1. CASE LastOfRetry = {}
      BY <1>6, <3>1 DEF EndRetry, TypeOK
    <3>2. CASE LastOfRetry # {}
      <4> DEFINE n == IF work.all THEN "all" ELSE "some"
      <4>1. mainQueue' = [i \in DOMAIN mainQueue |->
              IF i \in LastOfRetry THEN [mainQueue[i] EXCEPT !.notify = n]
              ELSE mainQueue[i]]
        BY <1>6, <3>2 DEF EndRetry
      <4>0. n \in {"all", "some"}
        OBVIOUS
      <4> HIDE DEF n
      <4>2. ASSUME NEW i \in DOMAIN mainQueue PROVE mainQueue'[i] \in Blocks
        <5>1. mainQueue[i] \in Blocks
          BY DEF TypeOK
        <5>2. i \in LastOfRetry => [mainQueue[i] EXCEPT !.notify = n] \in Blocks
          BY <2>3, <4>0
        <5>3. mainQueue'[i] = IF i \in LastOfRetry THEN [mainQueue[i] EXCEPT !.notify = n]
                             ELSE mainQueue[i]
          BY <4>1
        <5> QED BY <5>1, <5>2, <5>3
      <4>3. Len(mainQueue) \in Nat /\ DOMAIN mainQueue = 1..Len(mainQueue)
        BY DEF TypeOK
      <4>4. mainQueue' \in [1..Len(mainQueue) -> Blocks]
        BY <4>1, <4>2, <4>3
      <4>5. mainQueue' \in UNION {[1..len -> Blocks] : len \in Nat}
        BY <4>3, <4>4
      <4>6. Seq(Blocks) = UNION {[1..len -> Blocks] : len \in Nat}
        BY SeqDef
      <4> QED BY <4>5, <4>6
    <3> QED BY <3>1, <3>2
  <2> QED BY <1>6, <2>2, <2>4 DEF EndRetry, TypeOK, RequestTypeOK, Works, Idle
<1> QED BY <1>1, <1>2, <1>3, <1>4, <1>5, <1>6 DEF Crypto

\* The types at the beginning.
LEMMA InitTypes == Init => TypeOK
<1> SUFFICES ASSUME Init PROVE TypeOK
  OBVIOUS
<1>1. RequestTypeOK
  BY DEF Init, RequestInit, RequestTypeOK
<1>2. cryptoQueue \in Seq(Tasks) /\ mainQueue \in Seq(Blocks)
  BY DEF Init
<1>3. work \in Works /\ stored \in Indexes
  BY DEF Init, Works, Idle, Indexes
<1>4. inputs \in 0..MaxInputs
  BY RoomKeysAssumption DEF Init, RoomKeysAssumption
<1> QED BY <1>1, <1>2, <1>3, <1>4 DEF Init, TypeOK

-----------------------------------------------------------------------------
(***************************************************************************)
(* The event on screen.                                                    *)
(***************************************************************************)

\* No decryption of an event on screen is added to the queue.
NoNewShow ==
  \E d \in {0, 1} :
    \A i \in DOMAIN cryptoQueue' : cryptoQueue'[i].task = "decrypt" =>
      i + d \in DOMAIN cryptoQueue /\ cryptoQueue[i + d] = cryptoQueue'[i]

\* A step that does not concern the event on screen.
LEMMA OffScreen ==
  ASSUME TypeOK', ShowInv, NoNewShow, UNCHANGED mainVars,
         work'.doing = "show" => work' = work
  PROVE  ShowInv'
<1>1. PICK d \in {0, 1} :
        \A i \in DOMAIN cryptoQueue' : cryptoQueue'[i].task = "decrypt" =>
          i + d \in DOMAIN cryptoQueue /\ cryptoQueue[i + d] = cryptoQueue'[i]
  BY DEF NoNewShow
<1>2. ASSUME NEW i \in DOMAIN cryptoQueue', cryptoQueue'[i].task = "decrypt"
      PROVE  showing = cryptoQueue'[i].event /\ answer = Nothing /\ work.doing # "show"
  BY <1>1, <1>2 DEF ShowInv
<1>3. ASSUME NEW i \in DOMAIN cryptoQueue', cryptoQueue'[i].task = "decrypt",
             NEW j \in DOMAIN cryptoQueue', cryptoQueue'[j].task = "decrypt"
      PROVE  i = j
  <2>1. /\ i + d \in DOMAIN cryptoQueue /\ cryptoQueue[i + d].task = "decrypt"
        /\ j + d \in DOMAIN cryptoQueue /\ cryptoQueue[j + d].task = "decrypt"
    BY <1>1, <1>3
  <2>2. i + d = j + d
    BY <2>1 DEF ShowInv
  <2>3. i \in Nat /\ j \in Nat
    BY DEF TypeOK
  <2> QED BY <2>2, <2>3
<1> QED BY <1>2, <1>3 DEF ShowInv, mainVars

\* The moves of the queue that add no decryption.
LEMMA QueueMoves ==
  ASSUME TypeOK, NEW x \in Tasks, x.task # "decrypt"
  PROVE  /\ UNCHANGED cryptoQueue => NoNewShow
         /\ cryptoQueue' = Append(cryptoQueue, x) => NoNewShow
         /\ cryptoQueue # <<>> /\ cryptoQueue' = Tail(cryptoQueue) => NoNewShow
         /\ cryptoQueue # <<>> /\ cryptoQueue' = Append(Tail(cryptoQueue), x) => NoNewShow
<1>0. cryptoQueue \in Seq(Tasks)
  BY DEF TypeOK
<1>1. ASSUME UNCHANGED cryptoQueue PROVE NoNewShow
  BY <1>0, <1>1 DEF NoNewShow
<1>2. ASSUME cryptoQueue' = Append(cryptoQueue, x) PROVE NoNewShow
  <2>1. \A i \in DOMAIN cryptoQueue' : cryptoQueue'[i].task = "decrypt" =>
          i + 0 \in DOMAIN cryptoQueue /\ cryptoQueue[i + 0] = cryptoQueue'[i]
    BY <1>0, <1>2
  <2> QED BY <2>1 DEF NoNewShow
<1>3. ASSUME cryptoQueue # <<>>, cryptoQueue' = Tail(cryptoQueue) PROVE NoNewShow
  <2>1. \A i \in DOMAIN cryptoQueue' :
          i + 1 \in DOMAIN cryptoQueue /\ cryptoQueue[i + 1] = cryptoQueue'[i]
    BY <1>0, <1>3
  <2> QED BY <2>1 DEF NoNewShow
<1>4. ASSUME cryptoQueue # <<>>, cryptoQueue' = Append(Tail(cryptoQueue), x)
      PROVE  NoNewShow
  <2>1. Tail(cryptoQueue) \in Seq(Tasks)
    BY <1>0, <1>4
  <2>2. \A i \in DOMAIN cryptoQueue' : cryptoQueue'[i].task = "decrypt" =>
          i \in DOMAIN Tail(cryptoQueue) /\ Tail(cryptoQueue)[i] = cryptoQueue'[i]
    BY <1>4, <2>1, AppendedTasks
  <2>3. \A i \in DOMAIN Tail(cryptoQueue) :
          i + 1 \in DOMAIN cryptoQueue /\ cryptoQueue[i + 1] = Tail(cryptoQueue)[i]
    BY <1>0, <1>4
  <2> QED BY <2>2, <2>3 DEF NoNewShow
<1> QED BY <1>1, <1>2, <1>3, <1>4

\* The tasks that steps append are no decryptions.
LEMMA OtherTasks ==
  /\ \A i : KeyTask(i).task = "roomKey"
  /\ \A e : PendTask(e).task = "addEventToPendingList"
  /\ \A b : NotifyTask(b).task = "complete" /\ EnableTask(b).task = "setEnabled"
  /\ \A name : Task(name).task = name
  /\ LoopTask.task = "sendOutgoingRoomKeyRequests"
  /\ \A c, ok : AnswerTask(c, ok).task = "answer"
BY DEF KeyTask, PendTask, NotifyTask, EnableTask, Task, LoopTask, AnswerTask

\* What the answer to a call leaves in the queue.
LEMMA AnswerMoves ==
  ASSUME NEW call \in Calls, NEW queue,
         CallSucceeded(call, queue) \/ CallFailed(queue) \/ GoAroundTheLoop(queue)
  PROVE  cryptoQueue' \in {queue, Append(queue, LoopTask)}
BY DEF CallSucceeded, CallFailed, GoAroundTheLoop, Calls

\* The steps of the main thread, for the event on screen.
LEMMA MainShow ==
  ASSUME TypeOK, TypeOK', ShowInv, Main PROVE ShowInv'
<1> USE DEF mainVars
<1>1. ASSUME NEW i \in Keys, ReceiveRoomKey(i) PROVE ShowInv'
  BY <1>1, QueueMoves, OffScreen, TaskTypes, OtherTasks DEF ReceiveRoomKey
<1>2. ASSUME NEW e \in Events, Show(e) PROVE ShowInv'
  <2>1. showing = Nothing /\ showing' = e /\ answer' = answer /\ work' = work
        /\ cryptoQueue' = Append(cryptoQueue, ShowTask(e))
    BY <1>2 DEF Show, MainIsFree
  <2>2. answer = Nothing
    BY <2>1 DEF ShowInv
  <2>3. work.doing = "show" => work.event \in Events
    BY WorkFields DEF TypeOK
  <2>4. work.doing # "show"
    BY <2>1, <2>3, RoomKeysAssumption DEF ShowInv, RoomKeysAssumption
  <2>5. ASSUME NEW i \in DOMAIN cryptoQueue PROVE cryptoQueue[i].task # "decrypt"
    <3>1. cryptoQueue[i] \in Tasks
      BY DEF TypeOK
    <3> QED BY <2>1, <3>1, TaskFields, RoomKeysAssumption DEF ShowInv, RoomKeysAssumption
  <2>6. ShowTask(e) \in Tasks /\ ShowTask(e).event = e
    BY TaskTypes DEF ShowTask
  <2>7. \A i \in DOMAIN cryptoQueue' : cryptoQueue'[i].task = "decrypt"
          => i = Len(cryptoQueue) + 1 /\ cryptoQueue'[i] = ShowTask(e)
    BY <2>1, <2>5, <2>6, AppendedTasks DEF TypeOK
  <2> QED BY <2>1, <2>2, <2>4, <2>6, <2>7 DEF ShowInv
<1>3. ASSUME Shown PROVE ShowInv'
  <2>1. work.doing # "show" /\ \A i \in DOMAIN cryptoQueue : cryptoQueue[i].task # "decrypt"
    BY <1>3 DEF Shown, ShowInv
  <2> QED BY <1>3, <2>1 DEF Shown, ShowInv
<1>4. ASSUME \/ CheckFailures \/ (FireTimer /\ UNCHANGED <<inputs, Unrelated>>)
             \/ \E e \in Events : Format(e)
      PROVE  ShowInv'
  <2>1. /\ UNCHANGED <<mainVars, work>>
        /\ cryptoQueue' \in {cryptoQueue, Append(cryptoQueue, LoopTask)}
    BY <1>4, AnswerMoves
       DEF CheckFailures, FireTimer, Unrelated, Format, GoAroundTheLoop
  <2> QED BY <2>1, QueueMoves, OffScreen, TaskTypes, OtherTasks
<1>5. ASSUME RunMain PROVE ShowInv'
  <2>1. /\ UNCHANGED <<mainVars, work>>
        /\ cryptoQueue' \in {cryptoQueue, Append(cryptoQueue, NotifyTask(TRUE)),
                             Append(cryptoQueue, NotifyTask(FALSE))}
    BY <1>5 DEF RunMain, RunResult, RunReport
  <2> QED BY <2>1, QueueMoves, OffScreen, TaskTypes, OtherTasks
<1>6. ASSUME NEW t \in {Task("resend"), EnableTask(TRUE), EnableTask(FALSE)}, Switch(t)
      PROVE  ShowInv'
  BY <1>6, QueueMoves, OffScreen, TaskTypes, OtherTasks DEF Switch
<1> QED BY <1>1, <1>2, <1>3, <1>4, <1>5, <1>6 DEF Main

\* The steps of an import, of the server, and a restart, for the event on screen.
LEMMA OtherShow ==
  ASSUME TypeOK, TypeOK', ShowInv, Cargo \/ Server \/ Restart PROVE ShowInv'
<1> USE DEF mainVars
<1>1. ASSUME Cargo PROVE ShowInv'
  <2>1. /\ UNCHANGED <<mainVars, work>>
        /\ cryptoQueue' \in {cryptoQueue, Append(cryptoQueue, Task("didImportRoomKey"))}
    BY <1>1 DEF Cargo, BeginImport, EndImport
  <2> QED BY <2>1, QueueMoves, OffScreen, TaskTypes, OtherTasks
<1>2. ASSUME Server PROVE ShowInv'
  <2>1. PICK c \in calls, ok \in BOOLEAN :
          AnswerCall(c, ok) /\ UNCHANGED Unrelated
    BY <1>2 DEF Server
  <2>2. AnswerTask(c, ok) \in Tasks
    BY TaskTypes DEF TypeOK, RequestTypeOK
  <2> QED BY <2>1, <2>2, QueueMoves, OffScreen, OtherTasks DEF AnswerCall, Unrelated
<1>3. ASSUME Restart PROVE ShowInv'
  BY <1>3 DEF Restart, ShowInv, Idle
<1> QED BY <1>1, <1>2, <1>3

\* The steps of cryptoQueue, for the event on screen.
LEMMA CryptoShow ==
  ASSUME TypeOK, TypeOK', ShowInv, Crypto PROVE ShowInv'
<1> USE DEF mainVars
<1>1. ASSUME RunTask PROVE ShowInv'
  <2> DEFINE t == Head(cryptoQueue)
  <2>1. /\ t \in Tasks /\ cryptoQueue # <<>> /\ work = Idle /\ UNCHANGED mainVars
        /\ 1 \in DOMAIN cryptoQueue /\ cryptoQueue[1] = t
    BY <1>1, LeftTasks DEF RunTask, TypeOK
  <2> HIDE DEF t
  <2>2. ASSUME StartWork(t), t.task # "decrypt" PROVE ShowInv'
    BY <2>1, <2>2, QueueMoves, OffScreen, TaskTypes, OtherTasks
       DEF StartWork, Retry
  <2>3. ASSUME StartWork(t), t.task = "decrypt" PROVE ShowInv'
    <3>1. /\ work' = [doing |-> "show", event |-> t.event, held |-> stored]
          /\ cryptoQueue' = Tail(cryptoQueue)
      BY <2>3 DEF StartWork
    <3>2. showing = t.event /\ answer = Nothing
      BY <2>1, <2>3 DEF ShowInv
    <3>3. ASSUME NEW i \in DOMAIN cryptoQueue', cryptoQueue'[i].task = "decrypt"
          PROVE  FALSE
      <4>1. i + 1 \in DOMAIN cryptoQueue /\ cryptoQueue[i + 1].task = "decrypt"
            /\ i \in Nat \ {0}
        BY <2>1, <3>1, <3>3, LeftTasks DEF TypeOK
      <4>2. i + 1 = 1
        BY <2>1, <2>3, <4>1 DEF ShowInv
      <4> QED BY <4>1, <4>2
    <3> QED BY <2>1, <3>1, <3>2, <3>3 DEF ShowInv
  <2>4. ASSUME RunPend(t) PROVE ShowInv'
    BY <2>1, <2>4, QueueMoves, OffScreen, TaskTypes, OtherTasks DEF RunPend
  <2>5. ASSUME RunRequest(t) PROVE ShowInv'
    <3>1. cryptoQueue' \in {Tail(cryptoQueue), Append(Tail(cryptoQueue), LoopTask)}
          /\ work' = work
      <4>1. CASE t.task = "answer"
        BY <2>1, <2>5, <4>1, AnswerMoves, TaskFields DEF RunRequest
      <4>2. CASE t.task # "answer"
        BY <2>5, <4>2 DEF RunRequest
      <4> QED BY <4>1, <4>2
    <3> QED BY <2>1, <3>1, QueueMoves, OffScreen, TaskTypes, OtherTasks
  <2> QED BY <1>1, <2>2, <2>3, <2>4, <2>5 DEF RunTask, t
<1>2. ASSUME AddSession \/ RetryNext PROVE ShowInv'
  BY <1>2, QueueMoves, OffScreen, TaskTypes, OtherTasks DEF AddSession, RetryNext, Retry
<1>3. ASSUME DecryptShown PROVE ShowInv'
  <2>1. work.event \in Events /\ work.doing = "show" /\ showing = work.event
        /\ work' = Idle /\ UNCHANGED showing
    BY <1>3, WorkFields DEF DecryptShown, TypeOK, ShowInv
  <2>2. ASSUME NEW i \in DOMAIN cryptoQueue' PROVE cryptoQueue'[i].task # "decrypt"
    <3>1. cryptoQueue' \in {cryptoQueue, Append(cryptoQueue, PendTask(work.event))}
      BY <1>3 DEF DecryptShown, DecryptGroupMessage
    <3>2. NoNewShow
      BY <2>1, <3>1, QueueMoves, TaskTypes, OtherTasks
    <3> QED BY <2>1, <3>2 DEF NoNewShow, ShowInv
  <2>3. showing # Nothing
    BY <2>1, RoomKeysAssumption DEF RoomKeysAssumption
  <2> QED BY <2>1, <2>2, <2>3 DEF ShowInv, Idle
<1>4. ASSUME RetryOne PROVE ShowInv'
  <2>1. work.event \in Events
    BY <1>4, WorkFields DEF RetryOne, TypeOK
  <2>2. cryptoQueue' \in {cryptoQueue, Append(cryptoQueue, PendTask(work.event))}
    BY <1>4 DEF RetryOne, DecryptGroupMessage
  <2> QED BY <1>4, <2>1, <2>2, QueueMoves, OffScreen, TaskTypes, OtherTasks
          DEF RetryOne, Retry
<1>5. ASSUME EndRetry PROVE ShowInv'
  <2>1. work.all \in BOOLEAN
    BY <1>5, WorkFields DEF EndRetry, TypeOK
  <2>2. cryptoQueue' \in {cryptoQueue, Append(cryptoQueue, NotifyTask(work.all))}
    BY <1>5 DEF EndRetry
  <2> QED BY <1>5, <2>1, <2>2, QueueMoves, OffScreen, TaskTypes, OtherTasks
          DEF EndRetry, Idle
<1> QED BY <1>1, <1>2, <1>3, <1>4, <1>5 DEF Crypto

\* The types, and the one event on screen.
LEMMA ShowInvariance == Spec => [](TypeOK /\ ShowInv)
<1>1. Init => TypeOK /\ ShowInv
  BY InitTypes DEF Init, ShowInv, Idle
<1>2. TypeOK /\ ShowInv /\ [Next]_vars => TypeOK' /\ ShowInv'
  <2>1. TypeOK /\ ShowInv /\ UNCHANGED vars => TypeOK' /\ ShowInv'
    BY DEF vars, requestVars, sessionVars, eventVars, mainVars, TypeOK, RequestTypeOK,
       ShowInv
  <2> QED BY <2>1, MainTypes, OtherTypes, CryptoTypes, MainShow, OtherShow, CryptoShow
          DEF Next
<1> QED BY <1>1, <1>2, PTL DEF Spec

\* Every reachable state is well typed, for any events, keys and number of inputs
\* (MXMegolmDecryption.m, MXOutgoingRoomKeyRequestManager.m).
THEOREM TypeCorrect == Spec => []TypeOK
BY ShowInvariance, PTL

-----------------------------------------------------------------------------
(***************************************************************************)
(* Failures are counted once.                                              *)
(***************************************************************************)

\* The tracker counts an event once, whatever the order of reports and checks
\* (DecryptionFailureTracker.m:75).
THEOREM FailuresAreCountedOnce == Spec => []CountedOnce
<1>1. Init => CountedOnce
  BY DEF Init, CountedOnce
<1>2. ASSUME CountedOnce, [Next]_vars PROVE CountedOnce'
  <2> USE DEF eventVars
  <2>1. ASSUME reported' \subseteq reported, tracked' = tracked PROVE CountedOnce'
    BY <1>2, <2>1 DEF CountedOnce
  <2>2. ASSUME Main PROVE CountedOnce'
    <3>1. ASSUME CheckFailures PROVE CountedOnce'
      BY <1>2, <3>1 DEF CheckFailures, CountedOnce
    <3>2. ASSUME RunMain PROVE CountedOnce'
      <4>1. ASSUME RunReport(Head(mainQueue)) PROVE CountedOnce'
        BY <1>2, <4>1 DEF RunReport, CountedOnce
      <4>2. ASSUME RunResult(Head(mainQueue)) PROVE CountedOnce'
        BY <2>1, <4>2 DEF RunResult, SetClearData, SetError
      <4> QED BY <3>2, <4>1, <4>2 DEF RunMain
    <3>3. ASSUME Shown PROVE CountedOnce'
      BY <2>1, <3>3 DEF Shown, SetClearData, SetError
    <3>4. ASSUME \/ FireTimer /\ UNCHANGED <<inputs, Unrelated>>
                 \/ \E t : Switch(t)
                 \/ \E e \in Events : Show(e) \/ Format(e)
                 \/ \E k \in Keys : ReceiveRoomKey(k)
          PROVE  CountedOnce'
      BY <2>1, <3>4 DEF Unrelated, Switch, Show, Format, ReceiveRoomKey
    <3> QED BY <2>2, <3>1, <3>2, <3>3, <3>4 DEF Main
  <2>3. ASSUME Cargo \/ Crypto \/ Server \/ UNCHANGED vars PROVE CountedOnce'
    BY <2>1, <2>3 DEF Cargo, BeginImport, EndImport, Server, Unrelated, Crypto, RunTask,
       AddSession, DecryptShown, RetryNext, RetryOne, EndRetry, vars
  <2>4. ASSUME Restart PROVE CountedOnce'
    BY <2>4 DEF Restart, CountedOnce
  <2> QED BY <1>2, <2>2, <2>3, <2>4 DEF Next
<1> QED BY <1>1, <1>2, PTL DEF Spec

-----------------------------------------------------------------------------
(***************************************************************************)
(* The request is looked at.                                               *)
(***************************************************************************)

Pending == enabled /\ (IsIn("Unsent") \/ IsIn("CancellationPending"))

\* A call for the request, or its answer, is on its way.
Called(id) ==
  \/ \E c \in calls : c.id = id
  \/ \E c \in Calls, ok \in BOOLEAN : c.id = id /\ Has(cryptoQueue, AnswerTask(c, ok))

\* WillLook, in terms of the tasks that wait.
LEMMA Looks ==
  ASSUME TypeOK
  PROVE  WillLook <=> timer \/ Has(cryptoQueue, LoopTask) \/ Called(request.id)
<1>1. ASSUME NEW i \in DOMAIN cryptoQueue, cryptoQueue[i].task = "answer"
      PROVE  /\ cryptoQueue[i].call \in Calls /\ cryptoQueue[i].ok \in BOOLEAN
             /\ cryptoQueue[i] = AnswerTask(cryptoQueue[i].call, cryptoQueue[i].ok)
  <2>1. cryptoQueue[i] \in Tasks
    BY DEF TypeOK
  <2> QED BY <1>1, <2>1, TaskFields
<1>2. \A c, ok : AnswerTask(c, ok).task = "answer" /\ AnswerTask(c, ok).call = c
  BY DEF AnswerTask
<1>3. ASSUME NEW i \in DOMAIN cryptoQueue, cryptoQueue[i].task = "answer",
             cryptoQueue[i].call.id = request.id
      PROVE  Called(request.id)
  BY <1>1, <1>3 DEF Called, Has
<1>4. ASSUME NEW c \in Calls, NEW ok \in BOOLEAN, c.id = request.id,
             Has(cryptoQueue, AnswerTask(c, ok))
      PROVE  WillLook
  BY <1>2, <1>4 DEF Has, WillLook
<1> QED BY <1>3, <1>4 DEF WillLook, Queued, Has, Called

\* A step that keeps the request and what makes the manager look at it.
LEMMA StillLooks ==
  ASSUME TypeOK, TypeOK', RequestIsLookedAt, UNCHANGED <<request, enabled>>,
         timer => timer', calls \subseteq calls',
         \A t \in Tasks : Has(cryptoQueue, t) => Has(cryptoQueue', t)
  PROVE  RequestIsLookedAt'
<1>1. \A c \in Calls, ok \in BOOLEAN : AnswerTask(c, ok) \in Tasks
  BY TaskTypes
<1>2. ASSUME Pending' PROVE WillLook'
  <2>1. timer \/ Has(cryptoQueue, LoopTask) \/ Called(request.id)
    BY <1>2, Looks DEF Pending, IsIn, RequestIsLookedAt
  <2>2. Has(cryptoQueue, LoopTask) => Has(cryptoQueue', LoopTask)
    BY TaskTypes
  <2>3. Called(request.id) => Called(request.id)'
    BY <1>1 DEF Called
  <2>4. WillLook' <=> (timer \/ Has(cryptoQueue, LoopTask) \/ Called(request.id))'
    BY Looks, PTL
  <2> QED BY <2>1, <2>2, <2>3, <2>4
<1> QED BY <1>2 DEF Pending, RequestIsLookedAt

\* A step after which something makes the manager look.
LEMMA LooksNow ==
  ASSUME TypeOK', (timer \/ Has(cryptoQueue, LoopTask) \/ Called(request.id))'
  PROVE  RequestIsLookedAt'
<1>1. WillLook' <=> (timer \/ Has(cryptoQueue, LoopTask) \/ Called(request.id))'
  BY Looks, PTL
<1> QED BY <1>1 DEF RequestIsLookedAt

\* sendRoomKeyRequest leaves a request that is looked at, if the one it found was.
LEMMA SendLooks ==
  ASSUME TypeOK, TypeOK', RequestIsLookedAt,
         NEW old, SendRoomKeyRequest(old), old \in {request, NoRequest},
         UNCHANGED <<calls, enabled>>,
         old = request => \A t \in Tasks : Has(cryptoQueue, t) => Has(cryptoQueue', t)
  PROVE  RequestIsLookedAt'
<1>1. CASE old # NoRequest
  BY <1>1, StillLooks DEF SendRoomKeyRequest
<1>2. CASE old = NoRequest
  BY <1>2, LooksNow DEF SendRoomKeyRequest
<1> QED BY <1>1, <1>2

\* The tasks of the requests.
LEMMA RequestTasksLook ==
  ASSUME TypeOK, TypeOK', RequestIsLookedAt, RunTask, RunRequest(Head(cryptoQueue))
  PROVE  RequestIsLookedAt'
<1> DEFINE t == Head(cryptoQueue)
<1> USE DEF requestVars
<1>0. /\ t \in Tasks /\ cryptoQueue # <<>> /\ Tail(cryptoQueue) \in Seq(Tasks)
      /\ \A u : Has(cryptoQueue, u) <=> Has(Tail(cryptoQueue), u) \/ u = t
      /\ RunRequest(t)
  BY LeftTasks DEF RunTask, TypeOK
<1> HIDE DEF t
<1>1. ASSUME t.task = "complete" \/ t.task = "resend" PROVE RequestIsLookedAt'
  <2>1. \/ UNCHANGED requestVars
        \/ \E resend \in BOOLEAN : CancelRoomKeyRequest(resend)
    BY <1>0, <1>1 DEF RunRequest
  <2>2. cryptoQueue' = Tail(cryptoQueue)
    BY <1>0, <1>1 DEF RunRequest
  <2>3. \A c, ok : AnswerTask(c, ok) # t
    BY <1>1, OtherTasks
  <2>4. LoopTask # t
    BY <1>1, OtherTasks
  <2>5. ASSUME UNCHANGED request, UNCHANGED <<calls, timer, enabled>>
        PROVE  RequestIsLookedAt'
    <3>1. WillLook <=> timer \/ Has(cryptoQueue, LoopTask) \/ Called(request.id)
      BY Looks
    <3>2. Called(request.id) => Called(request.id)'
      BY <1>0, <2>2, <2>3, <2>5 DEF Called
    <3>3. Has(cryptoQueue, LoopTask) => Has(cryptoQueue', LoopTask)
      BY <1>0, <2>2, <2>4
    <3>4. CASE RequestIsLookedAt /\ WillLook
      BY <2>5, <3>1, <3>2, <3>3, <3>4, LooksNow
    <3>5. CASE ~WillLook
      BY <2>5, <3>5 DEF RequestIsLookedAt, IsIn
    <3> QED BY <3>4, <3>5
  <2>6. ASSUME NEW resend \in BOOLEAN, CancelRoomKeyRequest(resend), ~UNCHANGED request
        PROVE  RequestIsLookedAt'
    <3>1. CASE IsIn("Unsent")
      BY <2>6, <3>1 DEF CancelRoomKeyRequest, RequestIsLookedAt, IsIn
    <3>2. CASE ~IsIn("Unsent") /\ IsIn("Sent")
      <4>1. request \in Requests
        BY <3>2 DEF IsIn, TypeOK, RequestTypeOK
      <4>2. /\ request' = [request EXCEPT !.state =
                 IF resend THEN "CancellationPendingAndWillResend" ELSE "CancellationPending"]
            /\ calls' = calls \cup {[kind |-> IF resend THEN "cancelAndResend" ELSE "cancel",
                                     id |-> request.id, loop |-> FALSE]}
        BY <2>6, <3>2 DEF CancelRoomKeyRequest
      <4>3. request'.id = request.id
        BY <4>1, <4>2 DEF Requests
      <4>4. Called(request.id)'
        BY <4>2, <4>3 DEF Called
      <4> QED BY <4>4, LooksNow
    <3>3. CASE ~IsIn("Unsent") /\ ~IsIn("Sent")
      BY <2>6, <3>3 DEF CancelRoomKeyRequest
    <3> QED BY <3>1, <3>2, <3>3
  <2>7. ASSUME NEW resend \in BOOLEAN, CancelRoomKeyRequest(resend), UNCHANGED request
        PROVE  RequestIsLookedAt'
    <3>1. CASE IsIn("Sent")
      <4>1. request \in Requests
        BY <3>1 DEF IsIn, TypeOK, RequestTypeOK
      <4>2. request' = [request EXCEPT !.state =
              IF resend THEN "CancellationPendingAndWillResend" ELSE "CancellationPending"]
        BY <2>7, <3>1 DEF CancelRoomKeyRequest, IsIn
      <4>3. request'.state # "Sent"
        BY <4>1, <4>2 DEF Requests
      <4> QED BY <2>7, <3>1, <4>3 DEF IsIn
    <3>2. CASE ~IsIn("Sent")
      BY <2>5, <2>7, <3>2 DEF CancelRoomKeyRequest
    <3> QED BY <3>1, <3>2
  <2> QED BY <2>1, <2>5, <2>6, <2>7
<1>2. ASSUME t.task = "setEnabled" PROVE RequestIsLookedAt'
  <2>1. SetEnabled(t.on, stored # Nothing) /\ cryptoQueue' = Tail(cryptoQueue)
    BY <1>0, <1>2 DEF RunRequest
  <2>2. CASE t.on # enabled
    BY <2>1, <2>2, LooksNow DEF SetEnabled
  <2>3. CASE t.on = enabled
    <3>1. UNCHANGED <<request, calls, timer, enabled>>
      BY <2>1, <2>3 DEF SetEnabled, TypeOK, RequestTypeOK
    <3>2. LoopTask # t /\ \A c, ok : AnswerTask(c, ok) # t
      BY <1>2, OtherTasks
    <3>3. WillLook => timer' \/ Has(cryptoQueue', LoopTask) \/ Called(request.id)'
      BY <1>0, <2>1, <3>1, <3>2, Looks DEF Called
    <3> QED BY <3>1, <3>3, LooksNow DEF RequestIsLookedAt, IsIn
  <2> QED BY <2>2, <2>3
<1>3. ASSUME t.task = "sendOutgoingRoomKeyRequests" PROVE RequestIsLookedAt'
  <2>1. SendOutgoingRoomKeyRequest
    BY <1>0, <1>3 DEF RunRequest
  <2>2. CASE IsIn("Unsent") \/ IsIn("CancellationPending")
    <3>1. PICK kind \in {"cancel", "request"} :
            [kind |-> kind, id |-> request.id, loop |-> TRUE] \in calls'
      BY <2>1, <2>2 DEF SendOutgoingRoomKeyRequest, IsIn
    <3>2. request' = request
      BY <2>1 DEF SendOutgoingRoomKeyRequest
    <3>3. Called(request.id)'
      BY <3>1, <3>2 DEF Called
    <3> QED BY <3>3, LooksNow
  <2>3. CASE ~(IsIn("Unsent") \/ IsIn("CancellationPending"))
    BY <2>1, <2>3 DEF SendOutgoingRoomKeyRequest, RequestIsLookedAt, IsIn
  <2> QED BY <2>2, <2>3
<1>4. ASSUME t.task = "answer" PROVE RequestIsLookedAt'
  <2>1. t.call \in Calls /\ t = AnswerTask(t.call, t.ok)
    BY <1>0, <1>4, TaskFields
  <2>2. CallSucceeded(t.call, Tail(cryptoQueue)) \/ CallFailed(Tail(cryptoQueue))
    BY <1>0, <1>4 DEF RunRequest
  <2>3. CASE CallFailed(Tail(cryptoQueue))
    BY <2>3, LooksNow DEF CallFailed
  <2>4. ASSUME GoAroundTheLoop(Tail(cryptoQueue)), UNCHANGED enabled PROVE RequestIsLookedAt'
    <3>1. CASE enabled
      <4>1. Has(cryptoQueue', LoopTask)
        BY <1>0, <2>4, <3>1, AppendedTasks, TaskTypes DEF GoAroundTheLoop
      <4> QED BY <4>1, LooksNow
    <3>2. CASE ~enabled
      BY <2>4, <3>2 DEF RequestIsLookedAt
    <3> QED BY <3>1, <3>2
  <2>5. ASSUME UNCHANGED <<request, enabled, calls>>, timer => timer', ~Holds(t.call.id),
               cryptoQueue' = Tail(cryptoQueue)
        PROVE  RequestIsLookedAt'
    <3>1. LoopTask # t
      BY <1>4, OtherTasks
    <3>2. ASSUME NEW c \in Calls, NEW ok \in BOOLEAN, c.id = request.id, request # NoRequest
          PROVE  AnswerTask(c, ok) # t
      BY <2>5, <3>2 DEF Holds, AnswerTask
    <3>3. request # NoRequest /\ WillLook
            => timer' \/ Has(cryptoQueue', LoopTask) \/ Called(request.id)'
      BY <1>0, <2>5, <3>1, <3>2, Looks DEF Called
    <3> QED BY <2>5, <3>3, LooksNow DEF RequestIsLookedAt, IsIn
  <2>6. CASE CallSucceeded(t.call, Tail(cryptoQueue))
    <3>1. CASE t.call.kind = "request"
      BY <2>4, <2>6, <3>1 DEF CallSucceeded
    <3>2. CASE t.call.kind = "cancel"
      <4>1. CASE t.call.loop
        BY <2>4, <2>6, <3>2, <4>1 DEF CallSucceeded
      <4>2. CASE ~t.call.loop /\ Holds(t.call.id)
        BY <2>6, <3>2, <4>2 DEF CallSucceeded, RequestIsLookedAt, IsIn
      <4>3. CASE ~t.call.loop /\ ~Holds(t.call.id)
        BY <2>5, <2>6, <3>2, <4>3 DEF CallSucceeded
      <4> QED BY <4>1, <4>2, <4>3
    <3>3. CASE t.call.kind = "cancelAndResend"
      <4>1. UNCHANGED <<calls, enabled>> /\ cryptoQueue' = Tail(cryptoQueue)
            /\ SendRoomKeyRequest(IF Holds(t.call.id) THEN NoRequest ELSE request)
        BY <2>6, <3>3 DEF CallSucceeded
      <4>2. CASE Holds(t.call.id) \/ request = NoRequest
        BY <4>1, <4>2, LooksNow DEF SendRoomKeyRequest
      <4>3. CASE ~Holds(t.call.id) /\ request # NoRequest
        BY <2>5, <4>1, <4>3 DEF SendRoomKeyRequest
      <4> QED BY <4>2, <4>3
    <3> QED BY <2>1, <3>1, <3>2, <3>3 DEF Calls
  <2> QED BY <2>2, <2>3, <2>6
<1> QED BY <1>0, <1>1, <1>2, <1>3, <1>4 DEF RunRequest

\* A queue that grows or stays keeps its tasks.
LEMMA GrowingQueue ==
  ASSUME TypeOK, NEW x \in Tasks, cryptoQueue' \in {cryptoQueue, Append(cryptoQueue, x)}
  PROVE  \A t \in Tasks : Has(cryptoQueue, t) => Has(cryptoQueue', t)
<1>1. \A t : Has(Append(cryptoQueue, x), t) <=> Has(cryptoQueue, t) \/ t = x
  BY AppendedTasks DEF TypeOK
<1>2. CASE cryptoQueue' = cryptoQueue
  BY <1>2
<1>3. CASE cryptoQueue' = Append(cryptoQueue, x)
  BY <1>1, <1>3
<1> QED BY <1>2, <1>3

\* The steps of cryptoQueue, for the request.
LEMMA CryptoLooks ==
  ASSUME TypeOK, TypeOK', RequestIsLookedAt, Crypto PROVE RequestIsLookedAt'
<1> USE DEF requestVars
<1>1. ASSUME RunTask PROVE RequestIsLookedAt'
  <2> DEFINE t == Head(cryptoQueue)
  <2>1. /\ t \in Tasks /\ cryptoQueue # <<>> /\ Tail(cryptoQueue) \in Seq(Tasks)
        /\ \A u : Has(cryptoQueue, u) <=> Has(Tail(cryptoQueue), u) \/ u = t
    BY <1>1, LeftTasks DEF RunTask, TypeOK
  <2> HIDE DEF t
  <2>2. ASSUME StartWork(t) \/ RunPend(t), UNCHANGED <<request, timer>>
        PROVE  RequestIsLookedAt'
    <3>1. /\ cryptoQueue' = Tail(cryptoQueue) /\ UNCHANGED <<calls, enabled>>
          /\ t.task \in {"roomKey", "decrypt", "didImportRoomKey", "addEventToPendingList"}
      BY <2>2 DEF StartWork, RunPend
    <3>2. LoopTask # t /\ \A c, ok : AnswerTask(c, ok) # t
      BY <3>1, OtherTasks
    <3>3. WillLook => timer' \/ Has(cryptoQueue', LoopTask) \/ Called(request.id)'
      BY <2>1, <2>2, <3>1, <3>2, Looks DEF Called
    <3> QED BY <2>2, <3>1, <3>3, LooksNow DEF RequestIsLookedAt, IsIn
  <2>3. ASSUME StartWork(t) PROVE RequestIsLookedAt'
    <3>1. UNCHANGED <<request, timer>>
      BY <2>3 DEF StartWork
    <3> QED BY <2>2, <2>3, <3>1
  <2>4. ASSUME RunPend(t) PROVE RequestIsLookedAt'
    <3>1. CASE t.event \in pending
      BY <2>2, <2>4, <3>1 DEF RunPend
    <3>2. CASE t.event \notin pending /\ request = NoRequest
      <4>1. SendRoomKeyRequest(NoRequest)
        BY <2>4, <3>2 DEF RunPend
      <4>2. request' = [id |-> requestIds + 1, state |-> "Unsent"]
        BY <4>1 DEF SendRoomKeyRequest
      <4>3. timer' = (timer \/ request'.state = "Unsent")
        BY <4>1 DEF SendRoomKeyRequest
      <4> QED BY <4>2, <4>3, LooksNow
    <3>3. CASE t.event \notin pending /\ request # NoRequest /\ request.state = "Unsent"
      BY <2>4, <3>3, LooksNow DEF RunPend, SendRoomKeyRequest
    <3>4. CASE t.event \notin pending /\ request # NoRequest /\ request.state # "Unsent"
      <4>1. UNCHANGED <<request, timer>>
        BY <2>4, <3>4 DEF RunPend, SendRoomKeyRequest, TypeOK, RequestTypeOK
      <4> QED BY <2>2, <2>4, <4>1
    <3> QED BY <3>1, <3>2, <3>3, <3>4
  <2>5. ASSUME RunRequest(t) PROVE RequestIsLookedAt'
    BY <1>1, <2>5, RequestTasksLook DEF t
  <2>6. StartWork(t) \/ RunPend(t) \/ RunRequest(t)
    BY <1>1 DEF RunTask, t
  <2> QED BY <2>3, <2>4, <2>5, <2>6
<1>2. ASSUME AddSession \/ RetryNext PROVE RequestIsLookedAt'
  <2>1. UNCHANGED <<cryptoQueue, request, calls, timer, enabled>>
    BY <1>2 DEF AddSession, RetryNext
  <2> QED BY <2>1, StillLooks
<1>3. ASSUME DecryptShown \/ RetryOne PROVE RequestIsLookedAt'
  <2>1. work.event \in Events
    BY <1>3, WorkFields DEF DecryptShown, RetryOne, TypeOK
  <2>2. cryptoQueue' \in {cryptoQueue, Append(cryptoQueue, PendTask(work.event))}
    BY <1>3 DEF DecryptShown, RetryOne, DecryptGroupMessage
  <2>3. \A t \in Tasks : Has(cryptoQueue, t) => Has(cryptoQueue', t)
    BY <2>1, <2>2, GrowingQueue, TaskTypes
  <2> QED BY <1>3, <2>3, StillLooks DEF DecryptShown, RetryOne
<1>4. ASSUME EndRetry PROVE RequestIsLookedAt'
  <2>1. work.all \in BOOLEAN
    BY <1>4, WorkFields DEF EndRetry, TypeOK
  <2>2. cryptoQueue' \in {cryptoQueue, Append(cryptoQueue, NotifyTask(work.all))}
    BY <1>4 DEF EndRetry
  <2>3. \A t \in Tasks : Has(cryptoQueue, t) => Has(cryptoQueue', t)
    BY <2>1, <2>2, GrowingQueue, TaskTypes
  <2> QED BY <1>4, <2>3, StillLooks DEF EndRetry
<1> QED BY <1>1, <1>2, <1>3, <1>4 DEF Crypto

\* The other steps, for the request.
LEMMA OthersLook ==
  ASSUME TypeOK, TypeOK', RequestIsLookedAt, Main \/ Cargo \/ Server \/ Restart
  PROVE  RequestIsLookedAt'
<1> USE DEF requestVars, Unrelated
<1>1. ASSUME UNCHANGED requestVars, NEW x \in Tasks,
             cryptoQueue' \in {cryptoQueue, Append(cryptoQueue, x)}
      PROVE  RequestIsLookedAt'
  BY <1>1, GrowingQueue, StillLooks
<1>2. ASSUME FireTimer PROVE RequestIsLookedAt'
  <2>1. CASE enabled
    <3>1. Has(cryptoQueue', LoopTask)
      BY <1>2, <2>1, AppendedTasks, TaskTypes DEF FireTimer, GoAroundTheLoop, TypeOK
    <3> QED BY <3>1, LooksNow
  <2>2. CASE ~enabled
    BY <1>2, <2>2 DEF FireTimer, RequestIsLookedAt
  <2> QED BY <2>1, <2>2
<1>3. ASSUME NEW i \in Keys, ReceiveRoomKey(i) PROVE RequestIsLookedAt'
  BY <1>1, <1>3, TaskTypes DEF ReceiveRoomKey
<1>4. ASSUME NEW e \in Events, Show(e) \/ Format(e) PROVE RequestIsLookedAt'
  BY <1>1, <1>4, TaskTypes DEF Show, Format
<1>5. ASSUME Shown \/ CheckFailures PROVE RequestIsLookedAt'
  BY <1>1, <1>5, TaskTypes DEF Shown, CheckFailures
<1>6. ASSUME RunMain PROVE RequestIsLookedAt'
  <2>1. \E b \in BOOLEAN : cryptoQueue' \in {cryptoQueue, Append(cryptoQueue, NotifyTask(b))}
    BY <1>6 DEF RunMain, RunResult, RunReport
  <2> QED BY <1>1, <1>6, <2>1, TaskTypes DEF RunMain
<1>7. ASSUME NEW t \in {Task("resend"), EnableTask(TRUE), EnableTask(FALSE)}, Switch(t)
      PROVE  RequestIsLookedAt'
  BY <1>1, <1>7, TaskTypes DEF Switch
<1>8. ASSUME Cargo PROVE RequestIsLookedAt'
  <2>1. cryptoQueue' \in {cryptoQueue, Append(cryptoQueue, Task("didImportRoomKey"))}
        /\ UNCHANGED requestVars
    BY <1>8 DEF Cargo, BeginImport, EndImport
  <2> QED BY <1>1, <2>1, TaskTypes
<1>9. ASSUME Server PROVE RequestIsLookedAt'
  <2>1. PICK c \in calls, ok \in BOOLEAN : AnswerCall(c, ok)
    BY <1>9 DEF Server
  <2>2. c \in Calls /\ AnswerTask(c, ok) \in Tasks
    BY TaskTypes DEF TypeOK, RequestTypeOK
  <2>3. /\ \A t : Has(cryptoQueue', t) <=> Has(cryptoQueue, t) \/ t = AnswerTask(c, ok)
        /\ calls' = calls \ {c} /\ UNCHANGED <<request, timer, enabled>>
    BY <2>1, <2>2, AppendedTasks DEF AnswerCall, TypeOK
  <2>4. Called(request.id) => Called(request.id)'
    BY <2>2, <2>3 DEF Called
  <2>5. WillLook => timer' \/ Has(cryptoQueue', LoopTask) \/ Called(request.id)'
    BY <2>3, <2>4, Looks
  <2> QED BY <2>3, <2>5, LooksNow DEF RequestIsLookedAt, IsIn
<1>10. ASSUME Restart PROVE RequestIsLookedAt'
  BY <1>10, LooksNow DEF Restart
<1> QED BY <1>2, <1>3, <1>4, <1>5, <1>6, <1>7, <1>8, <1>9, <1>10 DEF Main

\* A request that is to be sent or cancelled is not left behind while requests are
\* allowed, whatever fails, overlaps or restarts (MXOutgoingRoomKeyRequestManager.m).
THEOREM RequestsAreLookedAt == Spec => []RequestIsLookedAt
<1>1. Init => RequestIsLookedAt
  BY DEF Init, RequestInit, RequestIsLookedAt, IsIn
<1>2. ASSUME TypeOK, TypeOK', RequestIsLookedAt, [Next]_vars PROVE RequestIsLookedAt'
  <2>1. CASE UNCHANGED vars
    BY <1>2, <2>1, StillLooks DEF vars, requestVars
  <2> QED BY <1>2, <2>1, CryptoLooks, OthersLook DEF Next
<1> QED BY <1>1, <1>2, TypeCorrect, PTL DEF Spec

-----------------------------------------------------------------------------
(***************************************************************************)
(* The request is kept.                                                    *)
(***************************************************************************)

\* As long as the store has no key, no import, retry, result or cancellation is on its
\* way that a key would have caused.
KeptInv ==
  stored = Nothing =>
    /\ work.doing \in {"nothing", "add", "show"}
    /\ work.doing \in {"add", "show"} => work.held = Nothing
    /\ cargo # Nothing => cargo.held = Nothing
    /\ ~Has(cryptoQueue, Task("didImportRoomKey")) /\ ~Has(cryptoQueue, NotifyTask(TRUE))
    /\ \A i \in DOMAIN mainQueue :
         mainQueue[i].block = "result" => mainQueue[i].notify # "all"
    /\ ~IsIn("CancellationPending")
    /\ \A c \in calls : c.kind # "cancel"
    /\ \A c \in Calls, ok \in BOOLEAN :
         c.kind = "cancel" => ~Has(cryptoQueue, AnswerTask(c, ok))

\* A step that leaves the store without a key, and adds nothing of these.
LEMMA StillKept ==
  ASSUME KeptInv, UNCHANGED <<stored, cargo, work, request, calls, mainQueue>>,
         \A t \in Tasks : Has(cryptoQueue', t) =>
           \/ Has(cryptoQueue, t)
           \/ t.task \notin {"didImportRoomKey", "answer"} /\ t # NotifyTask(TRUE)
  PROVE  KeptInv'
<1>1. /\ Task("didImportRoomKey") \in Tasks /\ Task("didImportRoomKey").task = "didImportRoomKey"
      /\ NotifyTask(TRUE) \in Tasks
      /\ \A c \in Calls, ok \in BOOLEAN :
           AnswerTask(c, ok) \in Tasks /\ AnswerTask(c, ok).task = "answer"
  BY TaskTypes, OtherTasks
<1>2. IsIn("CancellationPending")' <=> IsIn("CancellationPending")
  BY DEF IsIn
<1> QED BY <1>1, <1>2 DEF KeptInv

\* The tasks that may be appended while the store has no key.
LEMMA AppendKept ==
  ASSUME TypeOK, KeptInv, UNCHANGED <<stored, cargo, work, request, calls, mainQueue>>,
         NEW x \in Tasks, x.task \notin {"didImportRoomKey", "answer"}, x # NotifyTask(TRUE),
         cryptoQueue' \in {cryptoQueue, Append(cryptoQueue, x)}
  PROVE  KeptInv'
<1>1. \A t : Has(Append(cryptoQueue, x), t) <=> Has(cryptoQueue, t) \/ t = x
  BY AppendedTasks DEF TypeOK
<1>2. CASE cryptoQueue' = cryptoQueue
  BY <1>2, StillKept
<1>3. CASE cryptoQueue' = Append(cryptoQueue, x)
  BY <1>1, <1>3, StillKept
<1> QED BY <1>2, <1>3

\* The steps of the main thread, as long as the store has no key.
LEMMA MainKept ==
  ASSUME TypeOK, KeptInv, Main PROVE KeptInv'
<1> USE DEF sessionVars, requestVars
<1>1. ASSUME NEW i \in Keys, ReceiveRoomKey(i) PROVE KeptInv'
  <2>1. KeyTask(i) # NotifyTask(TRUE)
    BY OtherTasks
  <2> QED BY <1>1, <2>1, AppendKept, TaskTypes, OtherTasks DEF ReceiveRoomKey
<1>2. ASSUME NEW e \in Events, Show(e) PROVE KeptInv'
  <2>1. ShowTask(e).task = "decrypt"
    BY DEF ShowTask
  <2>2. ShowTask(e) # NotifyTask(TRUE)
    BY <2>1, OtherTasks
  <2> QED BY <1>2, <2>1, <2>2, AppendKept, TaskTypes DEF Show
<1>3. ASSUME NEW e \in Events, Format(e) PROVE KeptInv'
  <2> DEFINE report == [block |-> "report", event |-> e]
  <2>1. /\ UNCHANGED <<stored, cargo, work, request, calls, cryptoQueue>>
        /\ mainQueue' = Append(mainQueue, report)
    BY <1>3 DEF Format
  <2>2. report \in Blocks /\ report.block = "report"
    BY DEF Blocks
  <2> HIDE DEF report
  <2>3. ASSUME NEW i \in DOMAIN mainQueue', mainQueue'[i].block = "result"
        PROVE  i \in DOMAIN mainQueue /\ mainQueue[i] = mainQueue'[i]
    BY <2>1, <2>2, <2>3, AppendedTasks DEF TypeOK
  <2> QED BY <2>1, <2>3 DEF KeptInv, IsIn
<1>4. ASSUME Shown \/ CheckFailures PROVE KeptInv'
  <2>1. UNCHANGED <<stored, cargo, work, request, calls, cryptoQueue, mainQueue>>
    BY <1>4 DEF Shown, CheckFailures
  <2> QED BY <2>1, StillKept
<1>5. ASSUME RunMain PROVE KeptInv'
  <2> DEFINE b == Head(mainQueue)
  <2>1. /\ UNCHANGED <<stored, cargo, work, request, calls>> /\ mainQueue' = Tail(mainQueue)
        /\ mainQueue # <<>>
        /\ \/ cryptoQueue' = cryptoQueue
           \/ b.block = "result" /\ cryptoQueue' = Append(cryptoQueue, NotifyTask(b.notify = "all"))
    BY <1>5 DEF RunMain, RunResult, RunReport
  <2>2. /\ \A i \in DOMAIN mainQueue' :
             i + 1 \in DOMAIN mainQueue /\ mainQueue'[i] = mainQueue[i + 1]
        /\ 1 \in DOMAIN mainQueue /\ mainQueue[1] = b
    BY <2>1, LeftTasks DEF TypeOK
  <2> HIDE DEF b
  <2>3. ASSUME stored = Nothing
        PROVE  cryptoQueue' \in {cryptoQueue, Append(cryptoQueue, NotifyTask(FALSE))}
    BY <2>1, <2>2, <2>3 DEF KeptInv
  <2>4. ASSUME stored = Nothing, NEW t, Has(cryptoQueue', t)
        PROVE  Has(cryptoQueue, t) \/ t = NotifyTask(FALSE)
    <3>1. \A u : Has(Append(cryptoQueue, NotifyTask(FALSE)), u)
                   <=> Has(cryptoQueue, u) \/ u = NotifyTask(FALSE)
      BY AppendedTasks, TaskTypes DEF TypeOK
    <3> QED BY <2>3, <2>4, <3>1
  <2>5. /\ Task("didImportRoomKey") # NotifyTask(FALSE) /\ NotifyTask(TRUE) # NotifyTask(FALSE)
        /\ \A c, ok : AnswerTask(c, ok) # NotifyTask(FALSE)
    <3>1. NotifyTask(TRUE).all = TRUE /\ NotifyTask(FALSE).all = FALSE
      BY DEF NotifyTask
    <3>2. NotifyTask(TRUE) # NotifyTask(FALSE)
      BY <3>1
    <3> QED BY <3>2, OtherTasks
  <2>6. IsIn("CancellationPending")' <=> IsIn("CancellationPending")
    BY <2>1 DEF IsIn
  <2> QED BY <2>1, <2>2, <2>4, <2>5, <2>6 DEF KeptInv
<1>6. ASSUME NEW t \in {Task("resend"), EnableTask(TRUE), EnableTask(FALSE)}, Switch(t)
      PROVE  KeptInv'
  <2>1. t \in Tasks /\ t.task \in {"resend", "setEnabled"}
    BY TaskTypes, OtherTasks
  <2>2. t # NotifyTask(TRUE)
    BY <2>1, OtherTasks
  <2> QED BY <1>6, <2>1, <2>2, AppendKept DEF Switch
<1>7. ASSUME FireTimer, UNCHANGED <<inputs, Unrelated>> PROVE KeptInv'
  <2>1. cryptoQueue' \in {cryptoQueue, Append(cryptoQueue, LoopTask)}
        /\ UNCHANGED <<stored, cargo, work, request, calls, mainQueue>>
    BY <1>7 DEF FireTimer, GoAroundTheLoop, Unrelated
  <2>2. LoopTask # NotifyTask(TRUE)
    BY OtherTasks
  <2> QED BY <2>1, <2>2, AppendKept, TaskTypes, OtherTasks
<1> QED BY <1>1, <1>2, <1>3, <1>4, <1>5, <1>6, <1>7 DEF Main

\* A step that leaves a key in the store.
LEMMA KeyIsStored ==
  ASSUME stored' # Nothing PROVE KeptInv'
BY DEF KeptInv

\* The steps of an import, of the server, and a restart, without a key in the store.
LEMMA OtherKept ==
  ASSUME TypeOK, KeptInv, Cargo \/ Server \/ Restart PROVE KeptInv'
<1> USE DEF sessionVars, requestVars
<1>1. ASSUME NEW i \in Keys, BeginImport(i) PROVE KeptInv'
  <2>1. /\ cargo' = [key |-> i, held |-> stored]
        /\ UNCHANGED <<cryptoQueue, request, calls, stored, work, mainQueue>>
    BY <1>1 DEF BeginImport
  <2>2. cargo'.held = stored /\ (IsIn("CancellationPending")' <=> IsIn("CancellationPending"))
    BY <2>1 DEF IsIn
  <2> QED BY <2>1, <2>2 DEF KeptInv
<1>2. ASSUME EndImport PROVE KeptInv'
  <2>1. cargo.key # Nothing
    BY <1>2, RoomKeysAssumption DEF EndImport, TypeOK, RoomKeysAssumption
  <2>2. CASE stored # Nothing
    BY <1>2, <2>1, <2>2, KeyIsStored DEF EndImport
  <2>3. CASE stored = Nothing
    <3>1. Better(cargo.key, cargo.held)
      BY <1>2, <2>3 DEF EndImport, KeptInv, Better
    <3> QED BY <1>2, <2>1, <3>1, KeyIsStored DEF EndImport
  <2> QED BY <2>2, <2>3
<1>3. ASSUME Server PROVE KeptInv'
  <2>1. PICK c \in calls, ok \in BOOLEAN : AnswerCall(c, ok) /\ UNCHANGED Unrelated
    BY <1>3 DEF Server
  <2>2. c \in Calls /\ AnswerTask(c, ok) \in Tasks
    BY TaskTypes DEF TypeOK, RequestTypeOK
  <2>3. /\ \A t : Has(cryptoQueue', t) <=> Has(cryptoQueue, t) \/ t = AnswerTask(c, ok)
        /\ calls' \subseteq calls /\ UNCHANGED <<stored, cargo, work, request, mainQueue>>
    BY <2>1, <2>2, AppendedTasks DEF AnswerCall, TypeOK, Unrelated
  <2>4. \A d, k : AnswerTask(d, k) = AnswerTask(c, ok) => d = c
    BY DEF AnswerTask
  <2>5. Task("didImportRoomKey") # AnswerTask(c, ok) /\ NotifyTask(TRUE) # AnswerTask(c, ok)
    <3>1. /\ AnswerTask(c, ok).task = "answer"
          /\ Task("didImportRoomKey").task = "didImportRoomKey"
          /\ NotifyTask(TRUE).task = "complete"
      BY OtherTasks
    <3> QED BY <3>1
  <2>6. IsIn("CancellationPending")' <=> IsIn("CancellationPending")
    BY <2>3 DEF IsIn
  <2> QED BY <2>3, <2>4, <2>5, <2>6 DEF KeptInv
<1>4. ASSUME Restart PROVE KeptInv'
  <2>1. IsIn("CancellationPending")' <=> IsIn("CancellationPending")
    BY <1>4 DEF Restart, IsIn
  <2>2. work'.doing = "nothing" /\ \A t : ~Has(cryptoQueue', t)
    BY <1>4 DEF Restart, Idle, Has
  <2>3. /\ cargo' = Nothing /\ mainQueue' = <<>> /\ calls' = {}
        /\ UNCHANGED <<stored, request>>
    BY <1>4 DEF Restart
  <2>4. DOMAIN mainQueue' = {} /\ cargo' = Nothing /\ calls' = {} /\ stored' = stored
    BY <2>3
  <2>5. work'.doing \in {"nothing", "add", "show"} /\ work'.doing \notin {"add", "show"}
    BY <2>2
  <2> QED BY <2>1, <2>2, <2>4, <2>5 DEF KeptInv
<1> QED BY <1>1, <1>2, <1>3, <1>4 DEF Cargo

\* What a task of the requests does to the request, without a key in the store.
RequestKept ==
  /\ ~IsIn("CancellationPending")'
  /\ \A c \in calls' : c.kind # "cancel"
  /\ request # NoRequest /\ request' = NoRequest => Head(cryptoQueue) = Task("resend")

\* The task that starts, without a key in the store.
LEMMA TasksKept ==
  ASSUME TypeOK, KeptInv, stored = Nothing, RunTask
  PROVE  /\ RequestKept
         /\ work'.doing \in {"nothing", "add", "show"}
         /\ work'.doing \in {"add", "show"} => work'.held = Nothing
         /\ \A t : Has(cryptoQueue', t) => Has(cryptoQueue, t) \/ t = LoopTask
<1> DEFINE t == Head(cryptoQueue)
<1> USE DEF requestVars
<1>0. /\ t \in Tasks /\ cryptoQueue # <<>> /\ Tail(cryptoQueue) \in Seq(Tasks)
      /\ \A u : Has(cryptoQueue, u) <=> Has(Tail(cryptoQueue), u) \/ u = t
      /\ work = Idle /\ (StartWork(t) \/ RunPend(t) \/ RunRequest(t))
  BY LeftTasks DEF RunTask, TypeOK
<1>1. Has(cryptoQueue, t) /\ t # Task("didImportRoomKey") /\ t # NotifyTask(TRUE)
  BY <1>0 DEF KeptInv
<1>2. \A c \in Calls, ok \in BOOLEAN : t = AnswerTask(c, ok) => c.kind # "cancel"
  BY <1>1 DEF KeptInv
<1>3. \A u : Has(Append(Tail(cryptoQueue), LoopTask), u)
               <=> Has(Tail(cryptoQueue), u) \/ u = LoopTask
  BY <1>0, AppendedTasks, TaskTypes
<1>4. request \in Requests \cup {NoRequest} /\ NoRequest \notin Requests
  BY RoomKeysAssumption DEF TypeOK, RequestTypeOK, RoomKeysAssumption
<1>5. ~IsIn("CancellationPending") /\ \A c \in calls : c.kind # "cancel"
  BY DEF KeptInv
<1>6. ASSUME UNCHANGED <<request, calls>> PROVE RequestKept
  BY <1>5, <1>6 DEF RequestKept, IsIn
<1> HIDE DEF t
<1>7. ASSUME NEW old, SendRoomKeyRequest(old), old \in {request, NoRequest}, UNCHANGED calls
      PROVE  RequestKept
  <2>1. CASE old = NoRequest
    <3>1. request' = [id |-> requestIds + 1, state |-> "Unsent"]
      BY <1>7, <2>1 DEF SendRoomKeyRequest
    <3>2. request' \in Requests /\ request'.state = "Unsent"
      BY <3>1 DEF Requests, States, TypeOK, RequestTypeOK
    <3> QED BY <1>4, <1>5, <1>7, <3>2 DEF RequestKept, IsIn
  <2>2. CASE old # NoRequest
    BY <1>6, <1>7, <2>2 DEF SendRoomKeyRequest
  <2> QED BY <2>1, <2>2
<1>8. ASSUME StartWork(t)
      PROVE  /\ RequestKept /\ cryptoQueue' = Tail(cryptoQueue)
             /\ work'.doing \in {"add", "show"} /\ work'.held = Nothing
  <2>1. t.task # "didImportRoomKey"
    BY <1>0, <1>1, TaskFields
  <2>2. /\ cryptoQueue' = Tail(cryptoQueue) /\ UNCHANGED <<request, calls>>
        /\ \/ work' = [doing |-> "add", key |-> t.key, held |-> stored]
           \/ work' = [doing |-> "show", event |-> t.event, held |-> stored]
    BY <1>8, <2>1 DEF StartWork
  <2>3. work'.doing \in {"add", "show"} /\ work'.held = Nothing
    BY <2>2
  <2> QED BY <1>6, <2>2, <2>3
<1>9. ASSUME RunPend(t)
      PROVE  RequestKept /\ cryptoQueue' = Tail(cryptoQueue) /\ work' = work
  <2>1. UNCHANGED <<request, calls>> \/ (SendRoomKeyRequest(request) /\ UNCHANGED calls)
    BY <1>9 DEF RunPend
  <2> QED BY <1>6, <1>7, <1>9, <2>1 DEF RunPend
<1>10. ASSUME RunRequest(t), t.task # "answer"
       PROVE  RequestKept /\ cryptoQueue' = Tail(cryptoQueue) /\ work' = work
  <2>1. ASSUME t.task = "complete" PROVE RequestKept
    <3>1. t.all = FALSE
      BY <1>0, <1>1, <2>1, TaskFields
    <3> QED BY <1>6, <1>10, <2>1, <3>1 DEF RunRequest
  <2>2. ASSUME t.task = "resend" PROVE RequestKept
    <3>1. CancelRoomKeyRequest(TRUE) /\ t = Task("resend")
      BY <1>0, <1>10, <2>2, TaskFields DEF RunRequest
    <3>2. ~IsIn("CancellationPending")'
      <4>1. CASE IsIn("Sent")
        <5>1. request \in Requests
              /\ request' = [request EXCEPT !.state = "CancellationPendingAndWillResend"]
          BY <1>4, <3>1, <4>1 DEF CancelRoomKeyRequest, IsIn
        <5>2. request'.state = "CancellationPendingAndWillResend"
          BY <5>1 DEF Requests
        <5> QED BY <5>2 DEF IsIn
      <4>2. CASE ~IsIn("Sent")
        BY <1>5, <3>1, <4>2 DEF CancelRoomKeyRequest, IsIn
      <4> QED BY <4>1, <4>2
    <3>3. \A c \in calls' : c.kind # "cancel"
      BY <1>5, <3>1 DEF CancelRoomKeyRequest
    <3> QED BY <3>1, <3>2, <3>3 DEF RequestKept, t
  <2>3. ASSUME t.task = "setEnabled" PROVE RequestKept
    <3>1. UNCHANGED <<request, calls>>
      BY <1>10, <2>3 DEF RunRequest, SetEnabled
    <3> QED BY <1>6, <3>1
  <2>4. ASSUME t.task = "sendOutgoingRoomKeyRequests" PROVE RequestKept
    <3>1. request' = request /\ \A c \in calls' : c.kind # "cancel"
      BY <1>5, <1>10, <2>4 DEF RunRequest, SendOutgoingRoomKeyRequest
    <3> QED BY <1>5, <3>1 DEF RequestKept, IsIn
  <2> QED BY <1>10, <2>1, <2>2, <2>3, <2>4 DEF RunRequest
<1>11. ASSUME RunRequest(t), t.task = "answer"
       PROVE  /\ RequestKept /\ work' = work
              /\ cryptoQueue' \in {Tail(cryptoQueue), Append(Tail(cryptoQueue), LoopTask)}
  <2>1. /\ t.call \in Calls /\ t.call.kind # "cancel" /\ work' = work
        /\ CallSucceeded(t.call, Tail(cryptoQueue)) \/ CallFailed(Tail(cryptoQueue))
    BY <1>0, <1>2, <1>11, TaskFields DEF RunRequest
  <2>2. cryptoQueue' \in {Tail(cryptoQueue), Append(Tail(cryptoQueue), LoopTask)}
    BY <2>1, AnswerMoves
  <2>3. ASSUME CallFailed(Tail(cryptoQueue)) PROVE RequestKept
    <3>1. UNCHANGED <<request, calls>>
      BY <2>3 DEF CallFailed
    <3> QED BY <1>6, <3>1
  <2>4. ASSUME CallSucceeded(t.call, Tail(cryptoQueue)), t.call.kind = "request"
        PROVE  RequestKept
    <3>1. /\ calls' = calls
          /\ request' = IF Holds(t.call.id) THEN [request EXCEPT !.state = "Sent"] ELSE request
      BY <2>4 DEF CallSucceeded
    <3>2. ASSUME Holds(t.call.id) PROVE RequestKept
      <4>1. request \in Requests /\ request' = [request EXCEPT !.state = "Sent"]
        BY <1>4, <3>1, <3>2 DEF Holds
      <4>2. request' \in Requests /\ request'.state = "Sent"
        BY <4>1 DEF Requests, States
      <4> QED BY <1>4, <1>5, <3>1, <4>2 DEF RequestKept, IsIn
    <3> QED BY <1>6, <3>1, <3>2
  <2>5. ASSUME CallSucceeded(t.call, Tail(cryptoQueue)), t.call.kind = "cancelAndResend"
        PROVE  RequestKept
    <3> DEFINE old == IF Holds(t.call.id) THEN NoRequest ELSE request
    <3>1. calls' = calls /\ SendRoomKeyRequest(old)
      BY <2>5 DEF CallSucceeded
    <3>2. old \in {request, NoRequest}
      OBVIOUS
    <3> HIDE DEF old
    <3> QED BY <1>7, <3>1, <3>2
  <2>6. t.call.kind \in {"request", "cancelAndResend"}
    BY <2>1 DEF Calls
  <2> QED BY <2>1, <2>2, <2>3, <2>4, <2>5, <2>6
<1>12. work.doing = "nothing" /\ work.doing \notin {"add", "show"}
  BY <1>0 DEF Idle
<1>13. CASE StartWork(t)
  BY <1>0, <1>8, <1>13
<1>14. CASE RunPend(t)
  BY <1>0, <1>9, <1>12, <1>14
<1>15. CASE RunRequest(t)
  <2>1. CASE t.task # "answer"
    BY <1>0, <1>10, <1>12, <1>15, <2>1
  <2>2. CASE t.task = "answer"
    BY <1>0, <1>3, <1>11, <1>12, <1>15, <2>2
  <2> QED BY <2>1, <2>2
<1> QED BY <1>0, <1>13, <1>14, <1>15

\* The steps of cryptoQueue.
LEMMA CryptoKept ==
  ASSUME TypeOK, TypeOK', KeptInv, Crypto PROVE KeptInv'
<1> USE DEF sessionVars, requestVars
<1>1. ASSUME RunTask PROVE KeptInv'
  <2>1. UNCHANGED <<stored, cargo, mainQueue>>
    BY <1>1 DEF RunTask
  <2>2. CASE stored # Nothing
    BY <2>1, <2>2, KeyIsStored
  <2>3. CASE stored = Nothing
    <3>1. /\ RequestKept
          /\ work'.doing \in {"nothing", "add", "show"}
          /\ work'.doing \in {"add", "show"} => work'.held = Nothing
          /\ \A t : Has(cryptoQueue', t) => Has(cryptoQueue, t) \/ t = LoopTask
      BY <1>1, <2>3, TasksKept
    <3>2. /\ Task("didImportRoomKey") # LoopTask /\ NotifyTask(TRUE) # LoopTask
          /\ \A c, ok : AnswerTask(c, ok) # LoopTask
      <4>1. Task("didImportRoomKey") # LoopTask
        BY OtherTasks
      <4>2. NotifyTask(TRUE) # LoopTask
        BY OtherTasks
      <4>3. ASSUME NEW c, NEW ok PROVE AnswerTask(c, ok) # LoopTask
        <5>1. AnswerTask(c, ok).task = "answer"
          BY OtherTasks
        <5>2. LoopTask.task = "sendOutgoingRoomKeyRequests"
          BY OtherTasks
        <5> QED BY <5>1, <5>2
      <4> QED BY <4>1, <4>2, <4>3
    <3> QED BY <2>1, <2>3, <3>1, <3>2 DEF KeptInv, RequestKept
  <2> QED BY <2>2, <2>3
<1>2. ASSUME AddSession PROVE KeptInv'
  <2>1. work.key \in Nat
    BY <1>2, WorkFields, RoomKeysAssumption DEF AddSession, TypeOK, RoomKeysAssumption
  <2>2. stored = Nothing => Better(work.key, work.held)
    BY <1>2 DEF AddSession, KeptInv, Better
  <2>3. stored' # Nothing
    BY <1>2, <2>1, <2>2, RoomKeysAssumption DEF AddSession, RoomKeysAssumption
  <2> QED BY <2>3, KeyIsStored
<1>3. ASSUME DecryptShown PROVE KeptInv'
  <2> DEFINE e == work.event
  <2>1. /\ work' = Idle /\ UNCHANGED <<cargo, request, calls, mainQueue>>
        /\ stored' = IF work.held = Nothing THEN stored ELSE work.held
        /\ cryptoQueue' \in {cryptoQueue, Append(cryptoQueue, PendTask(e))}
    BY <1>3 DEF DecryptShown, DecryptGroupMessage
  <2>2. e \in Events /\ PendTask(e) \in Tasks
    BY <1>3, WorkFields, TaskTypes DEF DecryptShown, TypeOK
  <2>3. CASE stored # Nothing
    BY <2>1, <2>3, KeyIsStored
  <2>4. CASE stored = Nothing
    <3>1. /\ work.held = Nothing /\ stored' = stored
      BY <1>3, <2>1, <2>4 DEF DecryptShown, KeptInv
    <3>2. \A t : Has(Append(cryptoQueue, PendTask(e)), t)
                   <=> Has(cryptoQueue, t) \/ t = PendTask(e)
      BY <2>2, AppendedTasks DEF TypeOK
    <3>3. \A t : Has(cryptoQueue', t) => Has(cryptoQueue, t) \/ t = PendTask(e)
      BY <2>1, <3>2
    <3>4. /\ Task("didImportRoomKey") # PendTask(e) /\ NotifyTask(TRUE) # PendTask(e)
          /\ \A c, ok : AnswerTask(c, ok) # PendTask(e)
      <4>1. PendTask(e).task = "addEventToPendingList"
        BY OtherTasks
      <4>2. Task("didImportRoomKey").task # PendTask(e).task
        BY <4>1, OtherTasks
      <4>3. NotifyTask(TRUE).task # PendTask(e).task
        BY <4>1, OtherTasks
      <4>4. \A c, ok : AnswerTask(c, ok).task # PendTask(e).task
        BY <4>1, OtherTasks
      <4> QED BY <4>2, <4>3, <4>4
    <3>5. IsIn("CancellationPending")' <=> IsIn("CancellationPending")
      BY <2>1 DEF IsIn
    <3>6. work'.doing = "nothing"
      BY <2>1 DEF Idle
    <3> QED BY <2>1, <2>4, <3>1, <3>3, <3>4, <3>5, <3>6 DEF KeptInv
  <2> QED BY <2>3, <2>4
<1>4. ASSUME RetryNext \/ EndRetry PROVE KeptInv'
  <2>1. work.doing = "retry" /\ stored' = stored
    BY <1>4 DEF RetryNext, EndRetry
  <2>2. stored # Nothing
    BY <2>1 DEF KeptInv
  <2> QED BY <2>1, <2>2, KeyIsStored
<1>5. ASSUME RetryOne PROVE KeptInv'
  <2>1. /\ work.doing = "retryOne"
        /\ stored' = IF work.held = Nothing THEN stored ELSE work.held
    BY <1>5 DEF RetryOne, DecryptGroupMessage
  <2>2. stored # Nothing
    BY <2>1 DEF KeptInv
  <2> QED BY <2>1, <2>2, KeyIsStored
<1> QED BY <1>1, <1>2, <1>3, <1>4, <1>5 DEF Crypto

\* In every state of a behaviour.
LEMMA KeptInvariance == Spec => []KeptInv
<1>1. Init => KeptInv
  BY DEF Init, RequestInit, KeptInv, Idle, Has, IsIn
<1>2. ASSUME TypeOK, TypeOK', KeptInv, [Next]_vars PROVE KeptInv'
  <2>1. CASE UNCHANGED vars
    <3>1. UNCHANGED <<stored, cargo, work, request, calls, mainQueue, cryptoQueue>>
      BY <2>1 DEF vars, requestVars, sessionVars
    <3> QED BY <1>2, <3>1, StillKept
  <2> QED BY <1>2, <2>1, MainKept, OtherKept, CryptoKept DEF Next
<1> QED BY <1>1, <1>2, TypeCorrect, PTL DEF Spec

\* Only a task of cryptoQueue drops the request, and before any key came only because
\* the user asked again (MXOutgoingRoomKeyRequestManager.m).
THEOREM RequestsAreKept == Spec => RequestIsKept
<1> DEFINE Kept == request # NoRequest /\ request' = NoRequest
                    => stored # Nothing \/ Head(cryptoQueue) = Task("resend")
<1>1. ASSUME TypeOK, KeptInv, [Next]_vars PROVE Kept
  <2>1. CASE RunTask
    <3>1. stored = Nothing => RequestKept
      BY <1>1, <2>1, TasksKept
    <3> QED BY <3>1 DEF RequestKept
  <2>2. CASE ~RunTask
    <3>1. request' = request
      <4> USE DEF requestVars
      <4>1. CASE Main
        BY <4>1 DEF Main, ReceiveRoomKey, Show, Format, Shown, RunMain, CheckFailures, Switch,
                    FireTimer
      <4>2. CASE Cargo \/ Server \/ Restart
        BY <4>2 DEF Cargo, BeginImport, EndImport, Server, AnswerCall, Restart
      <4>3. CASE Crypto
        BY <2>2, <4>3 DEF Crypto, AddSession, DecryptShown, RetryNext, RetryOne, EndRetry
      <4>4. CASE UNCHANGED vars
        BY <4>4 DEF vars
      <4> QED BY <1>1, <4>1, <4>2, <4>3, <4>4 DEF Next
    <3> QED BY <3>1
  <2> QED BY <2>1, <2>2
<1>2. ASSUME Kept PROVE [Kept]_vars
  BY <1>2
<1> QED BY <1>1, TypeCorrect, KeptInvariance, PTL DEF Spec, RequestIsKept

-----------------------------------------------------------------------------
(***************************************************************************)
(* Failed events are remembered.                                           *)
(***************************************************************************)

IsResult(b, e, outcome) == b.block = "result" /\ b.event = e /\ b.outcome = outcome

\* A result of a retry waits for the main thread.
Resulted(e, outcome) ==
  \E b \in Blocks : Has(mainQueue, b) /\ IsResult(b, e, outcome)

\* The main thread waits for the event and has its answer.
Answered(e, outcome) == showing = e /\ answer = outcome

\* The event failed, or will have when the main thread goes on.
Failing(e) ==
  \/ e \in failed
  \/ \E o \in {"unknown", "duplicate"} : Resulted(e, o) \/ Answered(e, o)

\* The event was read, or will have been when the main thread goes on.
Read(e) == e \in clear \/ Resulted(e, "decrypted") \/ Answered(e, "decrypted")

Retried(e) ==
  \/ work.doing \in {"retry", "retryOne"} /\ e \in work.todo
  \/ work.doing = "retryOne" /\ work.event = e

\* The event was read, waits for its keys, or is about to.
Kept(e) ==
  \/ e \in clear \/ e \in indexes \/ e \in pending
  \/ Has(cryptoQueue, PendTask(e)) \/ Retried(e)

\* What fails is kept, from the moment of its decryption and not only from the moment
\* the main thread hears of it; and an index that was seen is a result on its way.
RememberInv ==
  \A e \in Events : (Failing(e) => Kept(e)) /\ (e \in indexes => Read(e))

\* What is kept and not yet read is somewhere on its way.
LEMMA RememberedImplies ==
  ASSUME TypeOK, RememberInv PROVE FailedIsRemembered
<1> SUFFICES ASSUME NEW e \in Events, e \in failed, e \notin clear
             PROVE  e \in pending \/ Queued(PendTask(e)) \/ InWork(e)
  BY DEF FailedIsRemembered, TypeOK
<1>1. Kept(e) /\ (e \in indexes => Read(e))
  BY DEF RememberInv, Failing
<1>2. ASSUME Read(e) PROVE InWork(e)
  <2>1. Resulted(e, "decrypted") => InWork(e)
    BY DEF Resulted, IsResult, Has, InWork
  <2> QED BY <1>2, <2>1 DEF Read, Answered, InWork
<1>3. ASSUME Retried(e) PROVE InWork(e)
  BY <1>3 DEF Retried, InWork
<1>4. ASSUME Has(cryptoQueue, PendTask(e)) PROVE Queued(PendTask(e))
  BY <1>4 DEF Has, Queued
<1> QED BY <1>1, <1>2, <1>3, <1>4 DEF Kept

\* What a step has to keep, event by event.
LEMMA StepRemembers ==
  ASSUME RememberInv,
         \A e \in Events : /\ Kept(e) => Kept(e)'
                           /\ Failing(e)' => Failing(e) \/ Kept(e)'
                           /\ e \in indexes' => e \in indexes \/ Read(e)'
                           /\ Read(e) => Read(e)'
  PROVE  RememberInv'
BY DEF RememberInv

\* The blocks after each move of the queue of the main thread.
LEMMA ResultMoves ==
  ASSUME TypeOK, TypeOK', NEW e, NEW o
  PROVE  /\ mainQueue' = mainQueue => (Resulted(e, o)' <=> Resulted(e, o))
         /\ \A x \in Blocks : mainQueue' = Append(mainQueue, x) =>
              (Resulted(e, o)' <=> Resulted(e, o) \/ IsResult(x, e, o))
         /\ mainQueue # <<>> /\ mainQueue' = Tail(mainQueue) =>
              (Resulted(e, o) <=> Resulted(e, o)' \/ IsResult(Head(mainQueue), e, o))
<1>0. mainQueue \in Seq(Blocks)
  BY DEF TypeOK
<1>1. ASSUME mainQueue' = mainQueue PROVE Resulted(e, o)' <=> Resulted(e, o)
  BY <1>1 DEF Resulted
<1>2. ASSUME NEW x \in Blocks, mainQueue' = Append(mainQueue, x)
      PROVE  Resulted(e, o)' <=> Resulted(e, o) \/ IsResult(x, e, o)
  <2>1. \A b : Has(mainQueue', b) <=> Has(mainQueue, b) \/ b = x
    BY <1>0, <1>2, AppendedTasks
  <2> QED BY <2>1 DEF Resulted
<1>3. ASSUME mainQueue # <<>>, mainQueue' = Tail(mainQueue)
      PROVE  Resulted(e, o) <=> Resulted(e, o)' \/ IsResult(Head(mainQueue), e, o)
  <2>1. /\ \A b : Has(mainQueue, b) <=> Has(mainQueue', b) \/ b = Head(mainQueue)
        /\ Head(mainQueue) \in Blocks
    BY <1>0, <1>3, LeftTasks
  <2> QED BY <2>1 DEF Resulted
<1> QED BY <1>1, <1>2, <1>3

\* A step that decrypts nothing and tells the main thread nothing.
LEMMA QuietRemembers ==
  ASSUME RememberInv, UNCHANGED <<clear, failed, indexes, showing, answer, mainQueue>>,
         \A e \in Events : Kept(e) => Kept(e)'
  PROVE  RememberInv'
<1>1. ASSUME NEW e \in Events, NEW o
      PROVE  (Resulted(e, o)' <=> Resulted(e, o)) /\ (Answered(e, o)' <=> Answered(e, o))
  BY DEF Resulted, Answered
<1>2. ASSUME NEW e \in Events
      PROVE  /\ Failing(e)' => Failing(e)
             /\ Read(e) => Read(e)'
  BY <1>1 DEF Failing, Read
<1> QED BY <1>2, StepRemembers

\* Nothing is taken from where events are kept.
LEMMA GrowingKeeps ==
  ASSUME UNCHANGED work, clear \subseteq clear', indexes \subseteq indexes',
         pending \subseteq pending',
         \A t \in Tasks : Has(cryptoQueue, t) => Has(cryptoQueue', t)
  PROVE  \A e \in Events : Kept(e) => Kept(e)'
<1> SUFFICES ASSUME NEW e \in Events, Kept(e) PROVE Kept(e)'
  OBVIOUS
<1>1. Has(cryptoQueue, PendTask(e)) => Has(cryptoQueue', PendTask(e))
  BY TaskTypes
<1>2. Retried(e)' <=> Retried(e)
  BY DEF Retried
<1> QED BY <1>1, <1>2 DEF Kept

\* Appending takes nothing from a queue of tasks.
LEMMA AppendingKeeps ==
  ASSUME TypeOK, NEW x \in Tasks, cryptoQueue' \in {cryptoQueue, Append(cryptoQueue, x)}
  PROVE  \A t \in Tasks : Has(cryptoQueue, t) => Has(cryptoQueue', t)
<1>1. \A t : Has(Append(cryptoQueue, x), t) <=> Has(cryptoQueue, t) \/ t = x
  BY AppendedTasks DEF TypeOK
<1> QED BY <1>1

\* The result that the main thread runs is a failure or an event that is clear.
LEMMA ResultRemembers ==
  ASSUME TypeOK, TypeOK', RememberInv, RunMain PROVE RememberInv'
<1> DEFINE b == Head(mainQueue)
<1> USE DEF mainVars, eventVars
<1>1. /\ b \in Blocks /\ mainQueue # <<>> /\ mainQueue' = Tail(mainQueue)
      /\ UNCHANGED <<work, pending, indexes, showing, answer>>
      /\ RunResult(b) \/ RunReport(b)
  BY LeftTasks DEF RunMain, TypeOK
<1>2. \A e, o : Resulted(e, o) <=> Resulted(e, o)' \/ IsResult(b, e, o)
  BY <1>1, ResultMoves
<1> HIDE DEF b
<1>3. \A e, o : Answered(e, o)' <=> Answered(e, o)
  BY <1>1 DEF Answered
<1>4. \A e \in Events : IsResult(b, e, "decrypted") => e \in clear'
  BY <1>1 DEF RunResult, RunReport, SetClearData, IsResult
<1>5. clear \subseteq clear'
  BY <1>1 DEF RunResult, RunReport, SetClearData, SetError
<1>6. \A e \in Events :
        e \in failed' => e \in failed \/ \E o \in {"unknown", "duplicate"} : IsResult(b, e, o)
  <2>1. CASE RunReport(b)
    BY <2>1 DEF RunReport
  <2>2. CASE RunResult(b) /\ b.outcome = "decrypted"
    BY <2>2 DEF RunResult, SetClearData
  <2>3. CASE RunResult(b) /\ b.outcome # "decrypted"
    <3>1. b.block = "result" /\ b.outcome \in {"unknown", "duplicate"}
      BY <1>1, <2>3, BlockFields DEF RunResult, Outcomes
    <3>2. failed' = failed \cup {b.event}
      BY <2>3 DEF RunResult, SetError
    <3> QED BY <3>1, <3>2 DEF IsResult
  <2> QED BY <1>1, <2>1, <2>2, <2>3
<1>7. cryptoQueue' = cryptoQueue \/ \E all \in BOOLEAN :
        cryptoQueue' = Append(cryptoQueue, NotifyTask(all))
  BY <1>1 DEF RunResult, RunReport
<1>8. \A e \in Events : Kept(e) => Kept(e)'
  BY <1>1, <1>5, <1>7, AppendingKeeps, GrowingKeeps, TaskTypes
<1>9. ASSUME NEW e \in Events PROVE Failing(e)' => Failing(e)
  BY <1>2, <1>3, <1>6 DEF Failing
<1>10. ASSUME NEW e \in Events PROVE Read(e) => Read(e)'
  BY <1>2, <1>3, <1>4, <1>5 DEF Read
<1> QED BY <1>1, <1>8, <1>9, <1>10, StepRemembers

\* The steps of the main thread.
LEMMA MainRemembers ==
  ASSUME TypeOK, TypeOK', ShowInv, RememberInv, Main PROVE RememberInv'
<1> USE DEF mainVars, eventVars
<1>1. ASSUME NEW x \in Tasks, cryptoQueue' \in {cryptoQueue, Append(cryptoQueue, x)},
             UNCHANGED <<work, pending, clear, failed, indexes, showing, answer, mainQueue>>
      PROVE  RememberInv'
  BY <1>1, AppendingKeeps, GrowingKeeps, QuietRemembers
<1>2. ASSUME NEW i \in Keys, ReceiveRoomKey(i) PROVE RememberInv'
  BY <1>1, <1>2, TaskTypes DEF ReceiveRoomKey
<1>3. ASSUME NEW t \in {Task("resend"), EnableTask(TRUE), EnableTask(FALSE)}, Switch(t)
      PROVE  RememberInv'
  BY <1>1, <1>3, TaskTypes DEF Switch
<1>4. ASSUME FireTimer, UNCHANGED <<inputs, Unrelated>> PROVE RememberInv'
  <2>1. cryptoQueue' \in {cryptoQueue, Append(cryptoQueue, LoopTask)}
    BY <1>4 DEF FireTimer, GoAroundTheLoop
  <2>2. UNCHANGED <<work, pending, clear, failed, indexes, showing, answer, mainQueue>>
    BY <1>4 DEF Unrelated
  <2> QED BY <1>1, <2>1, <2>2, TaskTypes
<1>5. ASSUME CheckFailures PROVE RememberInv'
  <2>1. /\ cryptoQueue' = cryptoQueue
        /\ UNCHANGED <<work, pending, clear, failed, indexes, showing, answer, mainQueue>>
    BY <1>5 DEF CheckFailures
  <2> QED BY <1>1, <2>1, TaskTypes
<1>6. ASSUME NEW x \in Events, Show(x) PROVE RememberInv'
  <2>1. /\ showing = Nothing /\ showing' = x /\ answer' = answer
        /\ cryptoQueue' = Append(cryptoQueue, ShowTask(x))
        /\ UNCHANGED <<work, pending, clear, failed, indexes, mainQueue>>
    BY <1>6 DEF Show, MainIsFree
  <2>2. answer = Nothing /\ answer' = Nothing
    BY <2>1 DEF ShowInv
  <2>3. \A e : \A o \in Outcomes : ~Answered(e, o) /\ ~Answered(e, o)'
    BY <2>2, RoomKeysAssumption DEF Answered, RoomKeysAssumption
  <2>4. \A e, o : Resulted(e, o)' <=> Resulted(e, o)
    BY <2>1 DEF Resulted
  <2>5. \A e \in Events : Kept(e) => Kept(e)'
    BY <2>1, AppendingKeeps, GrowingKeeps, TaskTypes
  <2>6. ASSUME NEW e \in Events
        PROVE  (Failing(e)' => Failing(e)) /\ (Read(e) => Read(e)')
    BY <2>1, <2>3, <2>4 DEF Failing, Read, Outcomes
  <2> QED BY <2>1, <2>5, <2>6, StepRemembers
<1>7. ASSUME NEW x \in Events, Format(x) PROVE RememberInv'
  <2> DEFINE report == [block |-> "report", event |-> x]
  <2>1. /\ UNCHANGED <<cryptoQueue, work, pending, clear, failed, indexes, showing, answer>>
        /\ mainQueue' = Append(mainQueue, report)
    BY <1>7 DEF Format
  <2>2. report \in Blocks /\ \A e, o : ~IsResult(report, e, o)
    BY DEF Blocks, IsResult
  <2> HIDE DEF report
  <2>3. \A e, o : Resulted(e, o)' <=> Resulted(e, o)
    BY <2>1, <2>2, ResultMoves
  <2>4. \A e, o : Answered(e, o)' <=> Answered(e, o)
    BY <2>1 DEF Answered
  <2>5. \A e \in Events : Kept(e) => Kept(e)'
    BY <2>1, GrowingKeeps
  <2>6. ASSUME NEW e \in Events
        PROVE  (Failing(e)' => Failing(e)) /\ (Read(e) => Read(e)')
    BY <2>1, <2>3, <2>4 DEF Failing, Read
  <2> QED BY <2>1, <2>5, <2>6, StepRemembers
<1>8. ASSUME Shown PROVE RememberInv'
  <2>1. /\ showing' = Nothing /\ answer' = Nothing /\ answer \in Outcomes
        /\ UNCHANGED <<cryptoQueue, work, pending, indexes, mainQueue>>
        /\ IF answer = "decrypted" THEN SetClearData(showing) ELSE SetError(showing)
    BY <1>8 DEF Shown, TypeOK
  <2>2. \A e, o : Resulted(e, o)' <=> Resulted(e, o)
    BY <2>1 DEF Resulted
  <2>3. \A e : \A o \in Outcomes : ~Answered(e, o)'
    BY <2>1, RoomKeysAssumption DEF Answered, RoomKeysAssumption
  <2>4. /\ clear \subseteq clear'
        /\ \A e : Answered(e, "decrypted") => e \in clear'
    BY <2>1 DEF SetClearData, SetError, Answered
  <2>5. \A e : e \in failed'
          => e \in failed \/ \E o \in {"unknown", "duplicate"} : Answered(e, o)
    BY <2>1 DEF SetClearData, SetError, Answered, Outcomes
  <2>6. \A e \in Events : Kept(e) => Kept(e)'
    BY <2>1, <2>4, GrowingKeeps
  <2>7. ASSUME NEW e \in Events PROVE Failing(e)' => Failing(e)
    BY <2>2, <2>3, <2>5 DEF Failing, Outcomes
  <2>8. ASSUME NEW e \in Events PROVE Read(e) => Read(e)'
    BY <2>2, <2>4 DEF Read
  <2> QED BY <2>1, <2>6, <2>7, <2>8, StepRemembers
<1> QED BY <1>2, <1>3, <1>4, <1>5, <1>6, <1>7, <1>8, ResultRemembers DEF Main

\* The steps of an import, of the server, and a restart.
LEMMA OtherRemembers ==
  ASSUME TypeOK, RememberInv, Cargo \/ Server \/ Restart PROVE RememberInv'
<1> USE DEF mainVars, eventVars, sessionVars
<1>1. ASSUME NEW x \in Tasks, cryptoQueue' \in {cryptoQueue, Append(cryptoQueue, x)},
             UNCHANGED <<work, pending, clear, failed, indexes, showing, answer, mainQueue>>
      PROVE  RememberInv'
  BY <1>1, AppendingKeeps, GrowingKeeps, QuietRemembers
<1>2. ASSUME Cargo PROVE RememberInv'
  <2>1. /\ cryptoQueue' \in {cryptoQueue, Append(cryptoQueue, Task("didImportRoomKey"))}
        /\ UNCHANGED <<work, pending, clear, failed, indexes, showing, answer, mainQueue>>
    BY <1>2 DEF Cargo, BeginImport, EndImport
  <2> QED BY <1>1, <2>1, TaskTypes
<1>3. ASSUME Server PROVE RememberInv'
  <2>1. PICK c \in calls, ok \in BOOLEAN : AnswerCall(c, ok) /\ UNCHANGED Unrelated
    BY <1>3 DEF Server
  <2>2. AnswerTask(c, ok) \in Tasks
    BY TaskTypes DEF TypeOK, RequestTypeOK
  <2>3. /\ cryptoQueue' = Append(cryptoQueue, AnswerTask(c, ok))
        /\ UNCHANGED <<work, pending, clear, failed, indexes, showing, answer, mainQueue>>
    BY <2>1 DEF AnswerCall, Unrelated
  <2> QED BY <1>1, <2>2, <2>3
<1>4. ASSUME Restart PROVE RememberInv'
  <2>1. /\ failed' = {} /\ indexes' = {} /\ mainQueue' = <<>> /\ showing' = Nothing
    BY <1>4 DEF Restart
  <2>2. \A e, o : ~Resulted(e, o)'
    BY <2>1 DEF Resulted, Has
  <2>3. \A e \in Events : \A o : ~Answered(e, o)'
    BY <2>1, RoomKeysAssumption DEF Answered, RoomKeysAssumption
  <2> QED BY <2>1, <2>2, <2>3 DEF RememberInv, Failing
<1> QED BY <1>2, <1>3, <1>4

\* A decryption keeps an event it could not read.
LEMMA DecryptKeeps ==
  ASSUME TypeOK, NEW e \in Events, NEW held, DecryptGroupMessage(e, held)
  PROVE  /\ Outcome(e, held) \in Outcomes
         /\ Outcome(e, held) = "unknown" => Has(cryptoQueue', PendTask(e))
         /\ Outcome(e, held) # "unknown" => e \in indexes'
         /\ indexes \subseteq indexes'
         /\ \A f : f \in indexes' => f \in indexes \/ (f = e /\ Outcome(e, held) = "decrypted")
         /\ \A t \in Tasks : Has(cryptoQueue, t) => Has(cryptoQueue', t)
<1>1. Outcome(e, held) \in Outcomes /\ (Outcome(e, held) = "duplicate" => e \in indexes)
  BY DEF Outcome, Outcomes
<1>2. /\ indexes' = IF Outcome(e, held) = "decrypted" THEN indexes \cup {e} ELSE indexes
      /\ cryptoQueue' = IF Outcome(e, held) = "unknown"
                        THEN Append(cryptoQueue, PendTask(e)) ELSE cryptoQueue
  BY DEF DecryptGroupMessage
<1>3. \A t : Has(Append(cryptoQueue, PendTask(e)), t) <=> Has(cryptoQueue, t) \/ t = PendTask(e)
  BY AppendedTasks, TaskTypes DEF TypeOK
<1>4. Outcome(e, held) # "unknown" => e \in indexes'
  BY <1>1, <1>2 DEF Outcomes
<1>5. \A t : Has(cryptoQueue, t) => Has(cryptoQueue', t)
  BY <1>2, <1>3
<1>6. Outcome(e, held) = "unknown" => Has(cryptoQueue', PendTask(e))
  BY <1>2, <1>3
<1> QED BY <1>1, <1>2, <1>4, <1>5, <1>6

\* The task that starts takes nothing from where events are kept.
LEMMA TaskRemembers ==
  ASSUME TypeOK, RememberInv, RunTask PROVE RememberInv'
<1> DEFINE t == Head(cryptoQueue)
<1> USE DEF mainVars, eventVars, requestVars
<1>1. /\ t \in Tasks /\ Tail(cryptoQueue) \in Seq(Tasks)
      /\ \A u : Has(cryptoQueue, u) <=> Has(Tail(cryptoQueue), u) \/ u = t
      /\ StartWork(t) \/ RunPend(t) \/ RunRequest(t)
      /\ work = Idle
      /\ UNCHANGED <<clear, failed, indexes, showing, answer, mainQueue>>
  BY LeftTasks DEF RunTask, TypeOK
<1>2. work.doing = "nothing"
  BY <1>1 DEF Idle
<1> HIDE DEF t
<1>3. \A e : ~Retried(e)
  BY <1>2 DEF Retried
<1>4. \A e \in Events : PendTask(e) = t =>
        t.task = "addEventToPendingList" /\ t.event = e
  BY DEF PendTask
<1>5. ASSUME NEW e \in Events, Kept(e) PROVE Kept(e)'
  <2>1. e \in clear' \/ e \in indexes' \/ e \in pending \/ Has(cryptoQueue, PendTask(e))
    BY <1>1, <1>3, <1>5 DEF Kept
  <2>2. CASE RunPend(t)
    <3>1. pending' = pending \cup {t.event} /\ cryptoQueue' = Tail(cryptoQueue)
      BY <2>2 DEF RunPend
    <3> QED BY <1>1, <1>4, <2>1, <3>1 DEF Kept
  <2>3. CASE RunRequest(t)
    <3>1. t.task # "addEventToPendingList" /\ pending' = pending
      BY <2>3 DEF RunRequest
    <3>2. cryptoQueue' \in {Tail(cryptoQueue), Append(Tail(cryptoQueue), LoopTask)}
      <4>1. CASE t.task = "answer"
        BY <1>1, <2>3, <4>1, AnswerMoves, TaskFields DEF RunRequest
      <4>2. CASE t.task # "answer"
        BY <2>3, <4>2 DEF RunRequest
      <4> QED BY <4>1, <4>2
    <3>3. \A u : Has(Tail(cryptoQueue), u) => Has(cryptoQueue', u)
      <4>1. \A u : Has(Append(Tail(cryptoQueue), LoopTask), u)
                     <=> Has(Tail(cryptoQueue), u) \/ u = LoopTask
        BY <1>1, AppendedTasks, TaskTypes
      <4> QED BY <3>2, <4>1
    <3> QED BY <1>1, <1>4, <2>1, <3>1, <3>3 DEF Kept
  <2>4. CASE StartWork(t)
    <3>1. t.task # "addEventToPendingList" /\ cryptoQueue' = Tail(cryptoQueue)
      BY <2>4 DEF StartWork
    <3>2. pending' = pending \/ work' = Retry(pending, TRUE)
      BY <2>4 DEF StartWork
    <3>3. e \in pending => e \in pending' \/ Retried(e)'
      BY <3>2 DEF Retried, Retry
    <3> QED BY <1>1, <1>4, <2>1, <3>1, <3>3 DEF Kept
  <2> QED BY <1>1, <2>2, <2>3, <2>4
<1> QED BY <1>1, <1>5, QuietRemembers

\* The steps of a task that has begun.
LEMMA CryptoRemembers ==
  ASSUME TypeOK, TypeOK', ShowInv, RememberInv, Crypto PROVE RememberInv'
<1> USE DEF mainVars, eventVars, sessionVars
<1>1. ASSUME AddSession PROVE RememberInv'
  <2>1. /\ work.doing = "add" /\ work' = Retry(pending, TRUE) /\ cryptoQueue' = cryptoQueue
        /\ UNCHANGED <<clear, failed, indexes, showing, answer, mainQueue>>
    BY <1>1 DEF AddSession
  <2>2. ASSUME NEW e \in Events, Kept(e) PROVE Kept(e)'
    <3>1. ~Retried(e)
      BY <2>1 DEF Retried
    <3>2. e \in pending => Retried(e)'
      BY <2>1 DEF Retried, Retry
    <3> QED BY <2>1, <2>2, <3>1, <3>2 DEF Kept
  <2> QED BY <2>1, <2>2, QuietRemembers
<1>2. ASSUME DecryptShown PROVE RememberInv'
  <2> DEFINE x == work.event
  <2> DEFINE outcome == Outcome(x, work.held)
  <2>1. /\ work.doing = "show" /\ x \in Events /\ showing = x /\ answer = Nothing
        /\ DecryptGroupMessage(x, work.held) /\ showing' = x /\ answer' = outcome
        /\ UNCHANGED <<pending, clear, failed, mainQueue>>
    BY <1>2, WorkFields DEF DecryptShown, TypeOK, ShowInv
  <2>2. /\ outcome = "unknown" => Has(cryptoQueue', PendTask(x))
        /\ outcome # "unknown" => x \in indexes'
        /\ indexes \subseteq indexes'
        /\ \A f : f \in indexes' => f \in indexes \/ (f = x /\ outcome = "decrypted")
        /\ \A t \in Tasks : Has(cryptoQueue, t) => Has(cryptoQueue', t)
    BY <2>1, DecryptKeeps
  <2>3. \A e : ~Retried(e)
    BY <2>1 DEF Retried
  <2> HIDE DEF x, outcome
  <2>4. \A e, o : Resulted(e, o)' <=> Resulted(e, o)
    BY <2>1 DEF Resulted
  <2>5. \A e : \A o \in Outcomes : ~Answered(e, o)
    BY <2>1, RoomKeysAssumption DEF Answered, RoomKeysAssumption
  <2>6. \A e, o : Answered(e, o)' <=> e = x /\ o = outcome
    BY <2>1 DEF Answered
  <2>7. ASSUME NEW e \in Events, e = x PROVE Kept(e)'
    BY <2>2, <2>7 DEF Kept
  <2>8. ASSUME NEW e \in Events, Kept(e) PROVE Kept(e)'
    BY <2>1, <2>2, <2>3, <2>8, TaskTypes DEF Kept
  <2>9. ASSUME NEW e \in Events PROVE Failing(e)' => Failing(e) \/ Kept(e)'
    BY <2>1, <2>4, <2>6, <2>7 DEF Failing
  <2>10. ASSUME NEW e \in Events PROVE Read(e) => Read(e)'
    BY <2>1, <2>4, <2>5 DEF Read, Outcomes
  <2>11. ASSUME NEW e \in Events PROVE e \in indexes' => e \in indexes \/ Read(e)'
    BY <2>2, <2>6 DEF Read
  <2> QED BY <2>8, <2>9, <2>10, <2>11, StepRemembers
<1>3. ASSUME RetryNext PROVE RememberInv'
  <2>1. PICK x \in work.todo :
          work' = IF x \in clear THEN Retry(work.todo \ {x}, work.all)
                  ELSE [doing |-> "retryOne", event |-> x, held |-> stored,
                        todo |-> work.todo \ {x}, all |-> work.all]
    BY <1>3 DEF RetryNext
  <2>2. /\ work.doing = "retry" /\ cryptoQueue' = cryptoQueue /\ pending' = pending
        /\ UNCHANGED <<clear, failed, indexes, showing, answer, mainQueue>>
    BY <1>3 DEF RetryNext
  <2>3. ASSUME NEW e \in Events, Retried(e) PROVE e \in clear \/ Retried(e)'
    <3>1. e \in work.todo
      BY <2>2, <2>3 DEF Retried
    <3>2. CASE x \in clear
      BY <2>1, <3>1, <3>2 DEF Retried, Retry
    <3>3. CASE x \notin clear
      BY <2>1, <3>1, <3>3 DEF Retried
    <3> QED BY <3>2, <3>3
  <2>4. ASSUME NEW e \in Events, Kept(e) PROVE Kept(e)'
    BY <2>2, <2>3, <2>4 DEF Kept
  <2> QED BY <2>2, <2>4, QuietRemembers
<1>4. ASSUME RetryOne PROVE RememberInv'
  <2> DEFINE x == work.event
  <2> DEFINE outcome == Outcome(x, work.held)
  <2> DEFINE b == [block |-> "result", event |-> x, outcome |-> outcome, notify |-> "no"]
  <2>1. /\ work.doing = "retryOne" /\ x \in Events
        /\ DecryptGroupMessage(x, work.held)
        /\ mainQueue' = Append(mainQueue, b)
        /\ work' = Retry(work.todo, work.all /\ outcome = "decrypted")
        /\ UNCHANGED <<pending, clear, failed, showing, answer>>
    BY <1>4, WorkFields DEF RetryOne, TypeOK
  <2>2. /\ outcome \in Outcomes
        /\ outcome = "unknown" => Has(cryptoQueue', PendTask(x))
        /\ outcome # "unknown" => x \in indexes'
        /\ indexes \subseteq indexes'
        /\ \A f : f \in indexes' => f \in indexes \/ (f = x /\ outcome = "decrypted")
        /\ \A t \in Tasks : Has(cryptoQueue, t) => Has(cryptoQueue', t)
    BY <2>1, DecryptKeeps
  <2>3. /\ b \in Blocks /\ \A e, o : IsResult(b, e, o) <=> e = x /\ o = outcome
    BY <2>1, <2>2 DEF Blocks, IsResult
  <2>4. \A e : Retried(e) => e = x \/ Retried(e)'
    BY <2>1 DEF Retried, Retry
  <2> HIDE DEF b, x, outcome
  <2>5. \A e, o : Resulted(e, o)' <=> Resulted(e, o) \/ (e = x /\ o = outcome)
    BY <2>1, <2>3, ResultMoves
  <2>6. \A e, o : Answered(e, o)' <=> Answered(e, o)
    BY <2>1 DEF Answered
  <2>7. ASSUME NEW e \in Events, e = x PROVE Kept(e)'
    BY <2>2, <2>7 DEF Kept
  <2>8. ASSUME NEW e \in Events, Kept(e) PROVE Kept(e)'
    BY <2>1, <2>2, <2>4, <2>7, <2>8, TaskTypes DEF Kept
  <2>9. ASSUME NEW e \in Events PROVE Failing(e)' => Failing(e) \/ Kept(e)'
    BY <2>1, <2>5, <2>6, <2>7 DEF Failing
  <2>10. ASSUME NEW e \in Events PROVE Read(e) => Read(e)'
    BY <2>1, <2>5, <2>6 DEF Read
  <2>11. ASSUME NEW e \in Events PROVE e \in indexes' => e \in indexes \/ Read(e)'
    BY <2>2, <2>5 DEF Read
  <2> QED BY <2>8, <2>9, <2>10, <2>11, StepRemembers
<1>5. ASSUME EndRetry PROVE RememberInv'
  <2>1. /\ work.doing = "retry" /\ work.todo = {} /\ work.all \in BOOLEAN
        /\ UNCHANGED <<pending, clear, failed, indexes, showing, answer>>
        /\ cryptoQueue' \in {cryptoQueue, Append(cryptoQueue, NotifyTask(work.all))}
    BY <1>5, WorkFields DEF EndRetry, TypeOK
  <2>2. \A e : ~Retried(e)
    BY <2>1 DEF Retried
  <2>3. \A t \in Tasks : Has(cryptoQueue, t) => Has(cryptoQueue', t)
    BY <2>1, AppendingKeeps, TaskTypes
  <2>4. /\ DOMAIN mainQueue' = DOMAIN mainQueue
        /\ \A i \in DOMAIN mainQueue :
             /\ mainQueue[i] \in Blocks /\ mainQueue'[i] \in Blocks
             /\ \A e, o : IsResult(mainQueue'[i], e, o) <=> IsResult(mainQueue[i], e, o)
    <3>1. CASE LastOfRetry = {}
      <4>1. mainQueue' = mainQueue
        BY <1>5, <3>1 DEF EndRetry
      <4> QED BY <4>1 DEF TypeOK
    <3>2. CASE LastOfRetry # {}
      <4> DEFINE last == IF work.all THEN "all" ELSE "some"
      <4>1. mainQueue' = [i \in DOMAIN mainQueue |->
              IF i \in LastOfRetry THEN [mainQueue[i] EXCEPT !.notify = last]
              ELSE mainQueue[i]]
        BY <1>5, <3>2 DEF EndRetry
      <4> HIDE DEF last
      <4>2. ASSUME NEW i \in DOMAIN mainQueue
            PROVE  /\ mainQueue[i] \in Blocks /\ mainQueue'[i] \in Blocks
                   /\ \A e, o : IsResult(mainQueue'[i], e, o) <=> IsResult(mainQueue[i], e, o)
        <5>1. mainQueue[i] \in Blocks /\ mainQueue'[i] \in Blocks
          <6>1. mainQueue \in Seq(Blocks) /\ mainQueue' \in Seq(Blocks)
            BY DEF TypeOK
          <6>2. DOMAIN mainQueue' = DOMAIN mainQueue
            BY <4>1
          <6> QED BY <6>1, <6>2, ElementOfSeq, LenProperties
        <5>2. CASE i \notin LastOfRetry
          BY <4>1, <5>1, <5>2
        <5>3. CASE i \in LastOfRetry
          <6>1. mainQueue'[i] = [mainQueue[i] EXCEPT !.notify = last]
            BY <4>1, <5>3
          <6>2. mainQueue[i] \in [block : {"result"}, event : Events, outcome : Outcomes,
                                  notify : {"no", "all", "some"}]
            BY <5>1, <5>3 DEF LastOfRetry, Blocks
          <6>3. /\ mainQueue'[i].block = mainQueue[i].block
                /\ mainQueue'[i].event = mainQueue[i].event
                /\ mainQueue'[i].outcome = mainQueue[i].outcome
            BY <6>1, <6>2
          <6> QED BY <5>1, <6>3 DEF IsResult
        <5> QED BY <5>2, <5>3
      <4> QED BY <4>1, <4>2
    <3> QED BY <3>1, <3>2
  <2>5. \A e, o : Resulted(e, o)' <=> Resulted(e, o)
    BY <2>4 DEF Resulted, Has
  <2>6. \A e, o : Answered(e, o)' <=> Answered(e, o)
    BY <2>1 DEF Answered
  <2>7. ASSUME NEW e \in Events, Kept(e) PROVE Kept(e)'
    BY <2>1, <2>2, <2>3, <2>7, TaskTypes DEF Kept
  <2>8. ASSUME NEW e \in Events
        PROVE  (Failing(e)' => Failing(e)) /\ (Read(e) => Read(e)')
    BY <2>1, <2>5, <2>6 DEF Failing, Read
  <2> QED BY <2>1, <2>7, <2>8, StepRemembers
<1> QED BY <1>1, <1>2, <1>3, <1>4, <1>5, TaskRemembers DEF Crypto

\* In every state of a behaviour.
LEMMA RememberInvariance == Spec => []RememberInv
<1>1. Init => RememberInv
  <2>1. ASSUME Init PROVE RememberInv
    <3>1. failed = {} /\ indexes = {} /\ mainQueue = <<>> /\ showing = Nothing
      BY <2>1 DEF Init
    <3>2. \A e, o : ~Resulted(e, o)
      BY <3>1 DEF Resulted, Has
    <3>3. \A e \in Events : \A o : ~Answered(e, o)
      BY <3>1, RoomKeysAssumption DEF Answered, RoomKeysAssumption
    <3> QED BY <3>1, <3>2, <3>3 DEF RememberInv, Failing
  <2> QED BY <2>1
<1>2. ASSUME TypeOK, TypeOK', ShowInv, RememberInv, [Next]_vars PROVE RememberInv'
  <2>1. CASE UNCHANGED vars
    <3>1. /\ UNCHANGED <<clear, failed, indexes, showing, answer, mainQueue>>
          /\ UNCHANGED <<work, pending, cryptoQueue>>
      BY <2>1 DEF vars, mainVars, eventVars
    <3> QED BY <1>2, <3>1, GrowingKeeps, QuietRemembers
  <2> QED BY <1>2, <2>1, MainRemembers, OtherRemembers, CryptoRemembers DEF Next
<1> QED BY <1>1, <1>2, ShowInvariance, PTL DEF Spec

\* No order of retries, keys and tasks forgets an event that could not be decrypted
\* (MXMegolmDecryption.m:388).
THEOREM FailuresAreRemembered == Spec => []FailedIsRemembered
<1>1. TypeOK /\ RememberInv => FailedIsRemembered
  BY RememberedImplies
<1> QED BY <1>1, TypeCorrect, RememberInvariance, PTL

-----------------------------------------------------------------------------
(***************************************************************************)
(* The better key is kept as long as imports and tasks do not overlap.     *)
(***************************************************************************)

\* A task of cryptoQueue has read the session and has not written it.
HoldsSession == work.doing \in {"add", "show", "retryOne"}

\* No import goes on while a task holds the session.
OneAtATime == cargo # Nothing => ~HoldsSession

\* What was read is what is in the store.
HeldIsStored ==
  /\ cargo # Nothing => cargo.held = stored
  /\ HoldsSession => work.held = stored

\* Holding nothing.
LEMMA HoldsNothing ==
  /\ Idle.doing \notin {"add", "show", "retryOne"}
  /\ \A events, all : Retry(events, all).doing \notin {"add", "show", "retryOne"}
BY DEF Idle, Retry

\* An index that is better is smaller.
LEMMA BetterIsSmaller ==
  ASSUME NEW i \in Keys, NEW old \in Indexes, old # Nothing, Better(i, old)
  PROVE  i # Nothing /\ i <= old
<1>1. i \in Nat /\ old \in Nat /\ Nothing \notin Nat
  BY RoomKeysAssumption DEF RoomKeysAssumption, Indexes
<1> QED BY <1>1 DEF Better

\* The store keeps what it has, or takes what is better than that.
StoreImproves ==
  /\ stored' = stored \/ \E i \in Keys : Better(i, stored) /\ stored' = i
  /\ HeldIsStored'

\* A step of cryptoQueue, or of an import, that has the store to itself.
LEMMA SerialSteps ==
  ASSUME TypeOK, OneAtATime, OneAtATime', HeldIsStored, Crypto \/ Cargo
  PROVE  StoreImproves
<1> USE DEF HeldIsStored, HoldsSession, OneAtATime, StoreImproves
<1>1. ASSUME RunTask PROVE StoreImproves
  <2>1. UNCHANGED <<stored, cargo>>
    BY <1>1 DEF RunTask, sessionVars
  <2>2. ~HoldsSession
    BY <1>1, HoldsNothing DEF RunTask
  <2>3. HoldsSession' => work'.held = stored
    <3> DEFINE t == Head(cryptoQueue)
    <3>1. ASSUME StartWork(t) PROVE work' = Retry(pending, TRUE) \/ work'.held = stored
      <4> HIDE DEF HeldIsStored, HoldsSession, OneAtATime, StoreImproves
      <4>1. \/ work' = [doing |-> "add", key |-> t.key, held |-> stored]
            \/ work' = [doing |-> "show", event |-> t.event, held |-> stored]
            \/ work' = Retry(pending, TRUE)
        BY <3>1 DEF StartWork
      <4>2. /\ [doing |-> "add", key |-> t.key, held |-> stored].held = stored
            /\ [doing |-> "show", event |-> t.event, held |-> stored].held = stored
        OBVIOUS
      <4> HIDE DEF t
      <4> QED BY <4>1, <4>2
    <3>2. ASSUME RunPend(t) \/ RunRequest(t) PROVE work' = work
      BY <3>2 DEF RunPend, RunRequest
    <3>3. StartWork(t) \/ RunPend(t) \/ RunRequest(t)
      BY <1>1 DEF RunTask
    <3>4. ASSUME work' = Retry(pending, TRUE) PROVE ~HoldsSession'
      BY <3>4 DEF Retry
    <3> QED BY <2>2, <3>1, <3>2, <3>3, <3>4
  <2> QED BY <2>1, <2>3
<1>2. ASSUME AddSession PROVE StoreImproves
  <2>1. work.key \in Keys /\ work.held = stored /\ cargo = Nothing /\ cargo' = cargo
    BY <1>2, WorkFields DEF AddSession, TypeOK
  <2>2. ~HoldsSession'
    BY <1>2, HoldsNothing DEF AddSession
  <2> QED BY <1>2, <2>1, <2>2 DEF AddSession
<1>3. ASSUME DecryptShown \/ RetryOne PROVE StoreImproves
  <2>1. work.held = stored /\ cargo = Nothing /\ cargo' = cargo
    BY <1>3 DEF DecryptShown, RetryOne, DecryptGroupMessage
  <2>2. stored' = stored
    BY <1>3, <2>1 DEF DecryptShown, RetryOne, DecryptGroupMessage
  <2>3. ~HoldsSession'
    BY <1>3, HoldsNothing DEF DecryptShown, RetryOne
  <2> QED BY <2>1, <2>2, <2>3
<1>4. ASSUME RetryNext \/ EndRetry PROVE StoreImproves
  <2>1. UNCHANGED <<stored, cargo>>
    BY <1>4 DEF RetryNext, EndRetry, sessionVars
  <2>2. ASSUME RetryNext PROVE HoldsSession' => work'.held = stored
    <3>1. \/ work'.held = stored
          \/ \E e \in work.todo : work' = Retry(work.todo \ {e}, work.all)
      <4> HIDE DEF HeldIsStored, HoldsSession, OneAtATime, StoreImproves
      <4>1. PICK e \in work.todo :
              \/ work' = Retry(work.todo \ {e}, work.all)
              \/ work' = [doing |-> "retryOne", event |-> e, held |-> stored,
                          todo |-> work.todo \ {e}, all |-> work.all]
        BY <2>2 DEF RetryNext
      <4> QED BY <4>1
    <3>2. ASSUME NEW e \in work.todo, work' = Retry(work.todo \ {e}, work.all)
          PROVE  ~HoldsSession'
      BY <3>2 DEF Retry
    <3> QED BY <3>1, <3>2
  <2>3. ASSUME EndRetry PROVE ~HoldsSession'
    <3>1. work' = Idle
      BY <2>3 DEF EndRetry
    <3> QED BY <3>1, HoldsNothing
  <2> QED BY <1>4, <2>1, <2>2, <2>3
<1>5. ASSUME NEW i \in Keys, BeginImport(i) PROVE StoreImproves
  BY <1>5 DEF BeginImport
<1>6. ASSUME EndImport PROVE StoreImproves
  <2>1. cargo # Nothing /\ cargo.key \in Keys /\ cargo.held = stored /\ cargo' = Nothing
        /\ work' = work /\ ~HoldsSession
    BY <1>6 DEF EndImport, TypeOK
  <2> QED BY <1>6, <2>1 DEF EndImport
<1> QED BY <1>1, <1>2, <1>3, <1>4, <1>5, <1>6 DEF Crypto, Cargo

\* What happens elsewhere leaves the store alone.
LEMMA OtherSteps ==
  ASSUME HeldIsStored, Main \/ Server \/ Restart \/ UNCHANGED vars
  PROVE  StoreImproves
<1>1. UNCHANGED <<stored, cargo, work>> \/ (stored' = stored /\ cargo' = Nothing /\ work' = Idle)
  <2>1. ASSUME Main PROVE UNCHANGED <<stored, cargo, work>>
    BY <2>1 DEF Main, ReceiveRoomKey, Show, Format, Shown, RunMain, CheckFailures, Switch,
       Unrelated, sessionVars
  <2>2. ASSUME Server PROVE UNCHANGED <<stored, cargo, work>>
    BY <2>2 DEF Server, Unrelated, sessionVars
  <2>3. ASSUME Restart PROVE stored' = stored /\ cargo' = Nothing /\ work' = Idle
    BY <2>3 DEF Restart
  <2>4. ASSUME UNCHANGED vars PROVE UNCHANGED <<stored, cargo, work>>
    BY <2>4 DEF vars, sessionVars
  <2> QED BY <2>1, <2>2, <2>3, <2>4
<1>2. CASE UNCHANGED <<stored, cargo, work>>
  BY <1>2 DEF StoreImproves, HeldIsStored, HoldsSession
<1>3. CASE stored' = stored /\ cargo' = Nothing /\ work' = Idle
  BY <1>3, HoldsNothing DEF StoreImproves, HeldIsStored, HoldsSession
<1> QED BY <1>1, <1>2, <1>3

\* The worse of two keys is only ever left by an import that overlaps a task of
\* cryptoQueue: were the two serialised, the better key would be kept, as the comments of
\* MXOlmDevice.m:348 and :395 say, whatever keys, retries and restarts come.
THEOREM SerialImportsKeepTheBetterKey == Spec /\ []OneAtATime => KeepsTheBetterKey
<1>1. Init => HeldIsStored
  BY DEF Init, HeldIsStored, HoldsSession, Idle
<1>2. TypeOK /\ OneAtATime /\ OneAtATime' /\ HeldIsStored /\ [Next]_vars => StoreImproves
  BY SerialSteps, OtherSteps DEF Next
<1>3. TypeOK /\ StoreImproves => (stored # Nothing => stored' # Nothing /\ stored' <= stored)
  <2> SUFFICES ASSUME TypeOK, StoreImproves, stored # Nothing
               PROVE  stored' # Nothing /\ stored' <= stored
    OBVIOUS
  <2>1. stored \in Indexes /\ stored \in Nat
    BY RoomKeysAssumption DEF RoomKeysAssumption, TypeOK, Indexes
  <2>2. CASE stored' = stored
    BY <2>1, <2>2
  <2>3. CASE \E i \in Keys : Better(i, stored) /\ stored' = i
    BY <2>1, <2>3, BetterIsSmaller
  <2> QED BY <2>2, <2>3 DEF StoreImproves
<1>4. StoreImproves => HeldIsStored'
  BY DEF StoreImproves
<1>5. TypeOK /\ OneAtATime /\ OneAtATime' /\ HeldIsStored /\ [Next]_vars
        => [stored # Nothing => stored' # Nothing /\ stored' <= stored]_vars
  BY <1>2, <1>3
<1> QED BY <1>1, <1>2, <1>4, <1>5, TypeCorrect, PTL DEF Spec, KeepsTheBetterKey

=============================================================================
