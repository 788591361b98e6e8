--------------------------- MODULE RoomKeyRequests ---------------------------
(***************************************************************************)
(* MXOutgoingRoomKeyRequestManager: the request for the keys of one Megolm *)
(* session that this device sends to the others.  The request is a record  *)
(* of the store, sent a while after it was made, and cancelled once the    *)
(* keys came.  Everything runs on cryptoQueue but the timer, which fires   *)
(* on the main thread and puts a task there, as the answers of the server  *)
(* do.                                                                     *)
(*                                                                         *)
(* The actions here are the bodies of tasks: RoomKeys takes the tasks from *)
(* the queue and says what else they change.  startTimer goes through the  *)
(* main queue in the code; nothing tells that hop from a longer delay.     *)
(***************************************************************************)
EXTENDS Naturals, Sequences

CONSTANT NoRequest

VARIABLES
  cryptoQueue,   \* the tasks of the serial queue of the user's crypto
  request,       \* the request in the store, or NoRequest
  requestIds,    \* how many transaction ids were generated for requests
  calls,         \* the calls to the server that are not answered yet
  timer,         \* whether sendOutgoingRoomKeyRequestsTimer is set
  enabled        \* whether requests may be sent

requestVars == <<request, requestIds, calls, timer, enabled>>

States == {"Unsent", "Sent", "CancellationPending", "CancellationPendingAndWillResend"}

Requests == [id : Nat \ {0}, state : States]

\* Whether the success of a call goes around the loop again is part of the call.
Calls == [kind : {"request", "cancel", "cancelAndResend"}, id : Nat \ {0}, loop : BOOLEAN]

Task(name) == [task |-> name]

LoopTask == Task("sendOutgoingRoomKeyRequests")

AnswerTask(call, ok) == [task |-> "answer", call |-> call, ok |-> ok]

RequestTypeOK ==
  /\ request \in Requests \cup {NoRequest}
  /\ requestIds \in Nat
  /\ calls \subseteq Calls
  /\ timer \in BOOLEAN /\ enabled \in BOOLEAN

RequestInit ==
  /\ request = NoRequest
  /\ requestIds = 0
  /\ calls = {}
  /\ timer = FALSE
  /\ enabled = TRUE

-----------------------------------------------------------------------------
IsIn(state) == request # NoRequest /\ request.state = state

\* Mutant of SendRoomKeyRequest: the request is stored before it has its own id.
SendRoomKeyRequestBeforeId(old) ==
  /\ requestIds' = IF old = NoRequest THEN requestIds + 1 ELSE requestIds
  /\ request' = IF old = NoRequest THEN [id |-> requestIds, state |-> "Unsent"] ELSE old
  /\ timer' = (timer \/ request'.state = "Unsent")

\* sendRoomKeyRequest, when the store holds old: getOrAddOutgoingRoomKeyRequest, and
\* the timer for a request that is still to be sent.
SendRoomKeyRequest(old) ==
  /\ requestIds' = IF old = NoRequest THEN requestIds + 1 ELSE requestIds
  /\ request' = IF old = NoRequest THEN [id |-> requestIds + 1, state |-> "Unsent"] ELSE old
  /\ timer' = (timer \/ request'.state = "Unsent")

\* cancelRoomKeyRequest:andResend:.  A cancellation that is pending stays as it is.
CancelRoomKeyRequest(resend) ==
  /\ request' = IF IsIn("Unsent") THEN NoRequest
                ELSE IF IsIn("Sent")
                THEN [request EXCEPT !.state = IF resend THEN "CancellationPendingAndWillResend"
                                                         ELSE "CancellationPending"]
                ELSE request
  /\ calls' = IF ~IsIn("Sent") THEN calls
              ELSE calls \cup {[kind |-> IF resend THEN "cancelAndResend" ELSE "cancel",
                                id |-> request.id, loop |-> FALSE]}
  /\ UNCHANGED <<requestIds, timer, enabled>>

\* The task of sendOutgoingRoomKeyRequests looks for a request whose cancellation is
\* pending, then for one that is unsent.  Calls with the same transaction id are one.
SendOutgoingRoomKeyRequest ==
  /\ calls' = calls \cup
       {[kind |-> kind, id |-> request.id, loop |-> TRUE] : kind \in
          IF IsIn("CancellationPending") THEN {"cancel"}
          ELSE IF IsIn("Unsent") THEN {"request"} ELSE {}}
  /\ UNCHANGED <<request, requestIds, timer, enabled>>

\* sendOutgoingRoomKeyRequests up to its task: the timer that was set is invalidated.
GoAroundTheLoop(queue) ==
  /\ timer' = FALSE
  /\ cryptoQueue' = IF enabled THEN Append(queue, LoopTask) ELSE queue

Holds(id) == request # NoRequest /\ request.id = id

\* The server has the message.
CallSucceeded(call, queue) ==
  LET left == IF Holds(call.id) THEN NoRequest ELSE request IN
  /\ \/ /\ call.kind = "request"
        /\ request' = IF Holds(call.id) THEN [request EXCEPT !.state = "Sent"] ELSE request
        /\ UNCHANGED requestIds
        /\ GoAroundTheLoop(queue)
     \/ /\ call.kind = "cancel"
        /\ request' = left
        /\ UNCHANGED requestIds
        /\ IF call.loop THEN GoAroundTheLoop(queue)
                        ELSE cryptoQueue' = queue /\ UNCHANGED timer
     \/ /\ call.kind = "cancelAndResend"
        /\ SendRoomKeyRequest(left)
        /\ cryptoQueue' = queue
  /\ UNCHANGED <<calls, enabled>>

\* Mutant of CallFailed: the timer is not started again.
CallFailedForGood(queue) ==
  /\ cryptoQueue' = queue
  /\ UNCHANGED <<request, requestIds, calls, timer, enabled>>

CallFailed(queue) ==
  /\ timer' = TRUE
  /\ cryptoQueue' = queue
  /\ UNCHANGED <<request, requestIds, calls, enabled>>

\* Mutant of SetEnabled: the keys are not looked for before the requests are deleted.
SetEnabledDeletesAll(on, known) ==
  /\ request' = IF on /\ ~enabled THEN NoRequest ELSE request
  /\ enabled' = on
  /\ timer' = (timer \/ on # enabled)
  /\ UNCHANGED <<requestIds, calls>>

\* setEnabled.  Enabling deletes the requests when the store has the session: the
\* store does not look at the state it is asked for.
SetEnabled(on, known) ==
  /\ request' = IF on /\ ~enabled /\ known THEN NoRequest ELSE request
  /\ enabled' = on
  /\ timer' = (timer \/ on # enabled)
  /\ UNCHANGED <<requestIds, calls>>

-----------------------------------------------------------------------------
\* The timer fires on the main thread.
FireTimer ==
  /\ timer
  /\ GoAroundTheLoop(cryptoQueue)
  /\ UNCHANGED <<request, requestIds, calls, enabled>>

\* The server answers a call, or the call fails; the answer waits on cryptoQueue.
AnswerCall(call, ok) ==
  /\ call \in calls
  /\ calls' = calls \ {call}
  /\ cryptoQueue' = Append(cryptoQueue, AnswerTask(call, ok))
  /\ UNCHANGED <<request, requestIds, timer, enabled>>

=============================================================================
