------------------------------- MODULE RoomKeys -------------------------------
(***************************************************************************)
(* The application's side of one Megolm session: its keys in the crypto    *)
(* store (MXOlmDevice, MXCrypto), the encrypted events of a timeline that  *)
(* wait for them (MXMegolmDecryption), the request for them                *)
(* (RoomKeyRequests), and the failures that the application counts         *)
(* (DecryptionFailureTracker).                                             *)
(*                                                                         *)
(* Three threads work on the session.  The main thread shows events, and   *)
(* waits for cryptoQueue while it decrypts one.  cryptoQueue runs its      *)
(* tasks one after the other.  cargoQueue imports keys from a file or from *)
(* the backup.  The session is read from the store, used, and written back *)
(* by separate transactions.  Keys are told apart by the first message     *)
(* index they can read, and an event by its message index.                 *)
(***************************************************************************)
EXTENDS RoomKeyRequests, FiniteSets

CONSTANTS
  Events,        \* encrypted events of the timeline, under distinct message indexes
  IndexOf,       \* the message index of each event
  Keys,          \* the first known indexes the keys may come with
  Nothing,       \* no key, no event, no task
  MaxInputs      \* bound: what comes from outside, see Input

Outcomes == {"decrypted", "unknown", "duplicate"}

ASSUME RoomKeysAssumption ==
  /\ IndexOf \in [Events -> Nat]
  /\ \A e, f \in Events : IndexOf[e] = IndexOf[f] => e = f
  /\ Keys \subseteq Nat
  /\ Nothing \notin Events /\ Nothing \notin Nat /\ Nothing \notin Outcomes
  /\ NoRequest \notin Requests
  /\ MaxInputs \in Nat

VARIABLES
  stored,      \* the first known index of the session in the store, or Nothing
  work,        \* what the current task of cryptoQueue has left to do
  cargo,       \* the import in progress: its key and the index found in the store
  pending,     \* pendingEvents
  indexes,     \* the events whose message index was seen in the timeline
  showing,     \* the event the main thread waits for
  answer,      \* the outcome it will be given
  mainQueue,   \* the blocks dispatched to the main thread
  clear,       \* the events with a clear event
  failed,      \* the events with a decryption error
  reported,    \* reportedFailures of the tracker
  tracked,     \* trackedEvents of the tracker
  inputs       \* bound: how much came from outside

sessionVars == <<stored, cargo>>
eventVars == <<clear, failed, reported, tracked>>
mainVars == <<showing, answer>>

vars == <<cryptoQueue, requestVars, sessionVars, work, pending, indexes, mainVars,
          mainQueue, eventVars, inputs>>

Indexes == Keys \cup {Nothing}

Works ==
  [doing : {"nothing"}]
  \cup [doing : {"add"}, key : Keys, held : Indexes]
  \cup [doing : {"show"}, event : Events, held : Indexes]
  \cup [doing : {"retry"}, todo : SUBSET Events, all : BOOLEAN]
  \cup [doing : {"retryOne"}, event : Events, held : Indexes, todo : SUBSET Events,
        all : BOOLEAN]

Idle == [doing |-> "nothing"]

\* A result for an event; the last one of a retry notifies its group.
Blocks ==
  [block : {"result"}, event : Events, outcome : Outcomes,
   notify : {"no", "all", "some"}]
  \cup [block : {"report"}, event : Events]

KeyTask(i) == [task |-> "roomKey", key |-> i]
ShowTask(e) == [task |-> "decrypt", event |-> e]
PendTask(e) == [task |-> "addEventToPendingList", event |-> e]
NotifyTask(all) == [task |-> "complete", all |-> all]
EnableTask(on) == [task |-> "setEnabled", on |-> on]

Tasks ==
  [task : {"roomKey"}, key : Keys]
  \cup [task : {"decrypt", "addEventToPendingList"}, event : Events]
  \cup [task : {"complete"}, all : BOOLEAN]
  \cup [task : {"setEnabled"}, on : BOOLEAN]
  \cup [task : {"didImportRoomKey", "resend", "sendOutgoingRoomKeyRequests"}]
  \cup [task : {"answer"}, call : Calls, ok : BOOLEAN]

TypeOK ==
  /\ RequestTypeOK
  /\ cryptoQueue \in Seq(Tasks)
  /\ stored \in Indexes
  /\ work \in Works
  /\ cargo \in [key : Keys, held : Indexes] \cup {Nothing}
  /\ pending \subseteq Events /\ indexes \subseteq Events
  /\ showing \in Events \cup {Nothing}
  /\ answer \in Outcomes \cup {Nothing}
  /\ mainQueue \in Seq(Blocks)
  /\ clear \subseteq Events /\ failed \subseteq Events
  /\ reported \subseteq Events /\ tracked \subseteq Events
  /\ inputs \in 0..MaxInputs

Init ==
  /\ RequestInit
  /\ cryptoQueue = <<>> /\ mainQueue = <<>>
  /\ stored = Nothing /\ cargo = Nothing /\ work = Idle
  /\ pending = {} /\ indexes = {}
  /\ showing = Nothing /\ answer = Nothing
  /\ clear = {} /\ failed = {} /\ reported = {} /\ tracked = {}
  /\ inputs = 0

\* Keys that arrive or are imported, requests that are allowed, disallowed or made anew,
\* events shown, failures formatted, calls that fail, and restarts.
Input ==
  /\ inputs < MaxInputs
  /\ inputs' = inputs + 1

-----------------------------------------------------------------------------
(***************************************************************************)
(* The main thread.  It does nothing else while it waits for an event.     *)
(***************************************************************************)
MainIsFree == showing = Nothing

\* A room key comes with the sync.
ReceiveRoomKey(i) ==
  /\ MainIsFree /\ Input
  /\ cryptoQueue' = Append(cryptoQueue, KeyTask(i))
  /\ UNCHANGED <<requestVars, sessionVars, work, pending, indexes, mainVars, mainQueue,
                 eventVars>>

\* MXSession decryptEvent: an event that is still encrypted is added to the timeline.
Show(e) ==
  /\ MainIsFree /\ e \notin clear /\ Input
  /\ showing' = e
  /\ cryptoQueue' = Append(cryptoQueue, ShowTask(e))
  /\ UNCHANGED <<requestVars, sessionVars, work, pending, indexes, answer, mainQueue,
                 eventVars>>

\* MXEvent setClearData: the tracker hears of an event that had failed.
SetClearData(e) ==
  /\ clear' = clear \cup {e}
  /\ failed' = failed \ {e}
  /\ reported' = IF e \in failed THEN reported \ {e} ELSE reported
  /\ UNCHANGED tracked

SetError(e) ==
  /\ failed' = failed \cup {e}
  /\ UNCHANGED <<clear, reported, tracked>>

Shown ==
  /\ answer # Nothing
  /\ IF answer = "decrypted" THEN SetClearData(showing) ELSE SetError(showing)
  /\ showing' = Nothing /\ answer' = Nothing
  /\ UNCHANGED <<cryptoQueue, requestVars, sessionVars, work, pending, indexes, mainQueue,
                 inputs>>

\* EventFormatter, on the queue of the room's data source, formats an event that
\* failed and leaves the report to the main thread.
Format(e) ==
  LET report == [block |-> "report", event |-> e] IN
  /\ e \in failed /\ Input
  /\ \A i \in DOMAIN mainQueue : mainQueue[i] # report
  /\ mainQueue' = Append(mainQueue, report)
  /\ UNCHANGED <<cryptoQueue, requestVars, sessionVars, work, pending, indexes, mainVars,
                 eventVars>>

\* The block of retryDecryption, and the group it may be the last one of.
RunResult(b) ==
  /\ b.block = "result"
  /\ IF b.outcome # "decrypted" THEN SetError(b.event)
     ELSE IF b.event \in clear THEN UNCHANGED eventVars
     ELSE SetClearData(b.event)
  /\ cryptoQueue' = IF b.notify = "no" THEN cryptoQueue
                    ELSE Append(cryptoQueue, NotifyTask(b.notify = "all"))

\* Mutant of RunReport: the failures that were counted are not looked at.
RunReportAgain(b) ==
  /\ b.block = "report"
  /\ reported' = reported \cup {b.event}
  /\ UNCHANGED <<clear, failed, tracked, cryptoQueue>>

\* DecryptionFailureTracker reportUnableToDecryptErrorForEvent.
RunReport(b) ==
  /\ b.block = "report"
  /\ reported' = IF b.event \in tracked THEN reported ELSE reported \cup {b.event}
  /\ UNCHANGED <<clear, failed, tracked, cryptoQueue>>

RunMain ==
  /\ MainIsFree /\ mainQueue # <<>>
  /\ RunResult(Head(mainQueue)) \/ RunReport(Head(mainQueue))
  /\ mainQueue' = Tail(mainQueue)
  /\ UNCHANGED <<requestVars, sessionVars, work, pending, indexes, mainVars, inputs>>

\* checkFailures, once the grace period of some failures is over.
CheckFailures ==
  /\ MainIsFree
  /\ \E old \in SUBSET reported \ {{}} :
       /\ reported' = reported \ old
       /\ tracked' = tracked \cup old
  /\ UNCHANGED <<cryptoQueue, requestVars, sessionVars, work, pending, indexes, mainVars,
                 mainQueue, clear, failed, inputs>>

\* The user asks for the keys again, or the authentication screens stop and allow
\* requests.
Switch(task) ==
  /\ MainIsFree /\ Input
  /\ cryptoQueue' = Append(cryptoQueue, task)
  /\ UNCHANGED <<requestVars, sessionVars, work, pending, indexes, mainVars, mainQueue,
                 eventVars>>

-----------------------------------------------------------------------------
(***************************************************************************)
(* cargoQueue: importInboundGroupSessions reads, compares, and writes.     *)
(***************************************************************************)
Better(i, held) == held = Nothing \/ i < held

BeginImport(i) ==
  /\ cargo = Nothing /\ Input
  /\ cargo' = [key |-> i, held |-> stored]
  /\ UNCHANGED <<cryptoQueue, requestVars, stored, work, pending, indexes, mainVars,
                 mainQueue, eventVars>>

EndImport ==
  /\ cargo # Nothing
  /\ IF Better(cargo.key, cargo.held)
     THEN /\ stored' = cargo.key
          /\ cryptoQueue' = Append(cryptoQueue, Task("didImportRoomKey"))
     ELSE UNCHANGED <<stored, cryptoQueue>>
  /\ cargo' = Nothing
  /\ UNCHANGED <<requestVars, work, pending, indexes, mainVars, mainQueue,
                 eventVars, inputs>>

-----------------------------------------------------------------------------
(***************************************************************************)
(* cryptoQueue: the next task, and the steps of a task that reads the      *)
(* store before it writes it.                                              *)
(***************************************************************************)
Retry(events, all) == [doing |-> "retry", todo |-> events, all |-> all]

\* Tasks that read the session first, or go through the pending events.
StartWork(t) ==
  /\ \/ /\ t.task = "roomKey"
        /\ work' = [doing |-> "add", key |-> t.key, held |-> stored]
        /\ UNCHANGED pending
     \/ /\ t.task = "decrypt"
        /\ work' = [doing |-> "show", event |-> t.event, held |-> stored]
        /\ UNCHANGED pending
     \/ /\ t.task = "didImportRoomKey"
        /\ work' = Retry(pending, TRUE)
        /\ pending' = {}
  /\ cryptoQueue' = Tail(cryptoQueue)
  /\ UNCHANGED requestVars

\* addEventToPendingList: the keys are requested for an event that is new there.
RunPend(t) ==
  /\ t.task = "addEventToPendingList"
  /\ pending' = pending \cup {t.event}
  /\ IF t.event \in pending THEN UNCHANGED <<request, requestIds, timer>>
     ELSE SendRoomKeyRequest(request)
  /\ cryptoQueue' = Tail(cryptoQueue)
  /\ UNCHANGED <<calls, enabled, work>>

\* Tasks of the requests.
RunRequest(t) ==
  /\ \/ /\ \/ t.task = "complete" /\ t.all /\ CancelRoomKeyRequest(FALSE)
           \/ t.task = "complete" /\ ~t.all /\ UNCHANGED requestVars
           \/ t.task = "resend" /\ CancelRoomKeyRequest(TRUE)
           \/ t.task = "setEnabled" /\ SetEnabled(t.on, stored # Nothing)
           \/ t.task = "sendOutgoingRoomKeyRequests" /\ SendOutgoingRoomKeyRequest
        /\ cryptoQueue' = Tail(cryptoQueue)
     \/ /\ t.task = "answer"
        /\ IF t.ok THEN CallSucceeded(t.call, Tail(cryptoQueue))
                   ELSE CallFailed(Tail(cryptoQueue))
  /\ UNCHANGED <<work, pending>>

RunTask ==
  /\ work = Idle /\ cryptoQueue # <<>>
  /\ StartWork(Head(cryptoQueue)) \/ RunPend(Head(cryptoQueue)) \/ RunRequest(Head(cryptoQueue))
  /\ UNCHANGED <<sessionVars, indexes, mainVars, mainQueue, eventVars, inputs>>

\* addInboundGroupSession, then the retry that follows whatever it did.
AddSession ==
  /\ work.doing = "add"
  /\ stored' = IF Better(work.key, work.held) THEN work.key ELSE stored
  /\ work' = Retry(pending, TRUE)
  /\ pending' = {}
  /\ UNCHANGED <<cryptoQueue, requestVars, cargo, indexes, mainVars, mainQueue,
                 eventVars, inputs>>

Outcome(e, held) ==
  IF held = Nothing \/ held > IndexOf[e] THEN "unknown"
  ELSE IF e \in indexes THEN "duplicate"
  ELSE "decrypted"

\* Mutant of DecryptGroupMessage: only an event without any session is added to the
\* pending events, not one under an index that the session does not know.
DecryptGroupMessageForgets(e, held) ==
  /\ stored' = IF held = Nothing THEN stored ELSE held
  /\ indexes' = IF Outcome(e, held) = "decrypted" THEN indexes \cup {e} ELSE indexes
  /\ cryptoQueue' = IF held = Nothing THEN Append(cryptoQueue, PendTask(e))
                    ELSE cryptoQueue
  /\ UNCHANGED cargo

\* decryptGroupMessage: the session that was read is written back, whether it could
\* read the event or not; then MXMegolmDecryption decryptEvent.
DecryptGroupMessage(e, held) ==
  /\ stored' = IF held = Nothing THEN stored ELSE held
  /\ indexes' = IF Outcome(e, held) = "decrypted" THEN indexes \cup {e} ELSE indexes
  /\ cryptoQueue' = IF Outcome(e, held) = "unknown" THEN Append(cryptoQueue, PendTask(e))
                    ELSE cryptoQueue
  /\ UNCHANGED cargo

DecryptShown ==
  /\ work.doing = "show"
  /\ DecryptGroupMessage(work.event, work.held)
  /\ answer' = Outcome(work.event, work.held)
  /\ work' = Idle
  /\ UNCHANGED <<requestVars, pending, showing, mainQueue, eventVars, inputs>>

\* retryDecryption takes the events in any order and skips those that are clear by now.
RetryNext ==
  /\ work.doing = "retry"
  /\ \E e \in work.todo :
       work' = IF e \in clear
               THEN Retry(work.todo \ {e}, work.all)
               ELSE [doing |-> "retryOne", event |-> e, held |-> stored,
                     todo |-> work.todo \ {e}, all |-> work.all]
  /\ UNCHANGED <<cryptoQueue, requestVars, sessionVars, pending, indexes, mainVars,
                 mainQueue, eventVars, inputs>>

RetryOne ==
  LET outcome == Outcome(work.event, work.held) IN
  /\ work.doing = "retryOne"
  /\ DecryptGroupMessage(work.event, work.held)
  /\ mainQueue' = Append(mainQueue, [block |-> "result", event |-> work.event,
                                     outcome |-> outcome, notify |-> "no"])
  /\ work' = Retry(work.todo, work.all /\ outcome = "decrypted")
  /\ UNCHANGED <<requestVars, pending, mainVars, eventVars, inputs>>

\* The blocks of this retry that still wait for the main thread are the last results.
LastOfRetry ==
  {i \in DOMAIN mainQueue :
     /\ mainQueue[i].block = "result" /\ mainQueue[i].notify = "no"
     /\ \A j \in i + 1..Len(mainQueue) : mainQueue[j].block # "result"}

\* The group is notified by its last block, or now when none is left.
EndRetry ==
  /\ work.doing = "retry" /\ work.todo = {}
  /\ IF LastOfRetry = {}
     THEN /\ cryptoQueue' = Append(cryptoQueue, NotifyTask(work.all))
          /\ UNCHANGED mainQueue
     ELSE /\ mainQueue' = [i \in DOMAIN mainQueue |->
               IF i \in LastOfRetry
               THEN [mainQueue[i] EXCEPT !.notify = IF work.all THEN "all" ELSE "some"]
               ELSE mainQueue[i]]
          /\ UNCHANGED cryptoQueue
  /\ work' = Idle
  /\ UNCHANGED <<requestVars, sessionVars, pending, indexes, mainVars, eventVars, inputs>>

-----------------------------------------------------------------------------
\* The application is killed and started again: the store is kept, and the request
\* manager sets its timer.
Restart ==
  /\ cryptoQueue' = <<>> /\ mainQueue' = <<>>
  /\ cargo' = Nothing /\ work' = Idle
  /\ pending' = {} /\ indexes' = {}
  /\ showing' = Nothing /\ answer' = Nothing
  /\ clear' = {} /\ failed' = {} /\ reported' = {} /\ tracked' = {}
  /\ calls' = {} /\ timer' = TRUE /\ enabled' = TRUE
  /\ Input
  /\ UNCHANGED <<stored, request, requestIds>>

Unrelated == <<sessionVars, work, pending, indexes, mainVars, mainQueue, eventVars>>

Main ==
  \/ \E i \in Keys : ReceiveRoomKey(i)
  \/ \E e \in Events : Show(e) \/ Format(e)
  \/ Shown \/ RunMain \/ CheckFailures
  \/ \E t \in {Task("resend"), EnableTask(TRUE), EnableTask(FALSE)} : Switch(t)
  \/ MainIsFree /\ FireTimer /\ UNCHANGED <<inputs, Unrelated>>

Cargo == EndImport \/ \E i \in Keys : BeginImport(i)

Crypto == RunTask \/ AddSession \/ DecryptShown \/ RetryNext \/ RetryOne \/ EndRetry

Server ==
  \E c \in calls, ok \in BOOLEAN :
    /\ AnswerCall(c, ok)
    /\ IF ok THEN UNCHANGED inputs ELSE Input
    /\ UNCHANGED Unrelated

Next == Main \/ Cargo \/ Crypto \/ Server \/ Restart

Spec == Init /\ [][Next]_vars

-----------------------------------------------------------------------------
Queued(t) == \E i \in DOMAIN cryptoQueue : cryptoQueue[i] = t

\* An event is being worked on: it is retried, or a result for it is on its way.
InWork(e) ==
  \/ /\ work.doing \in {"show", "retryOne"} /\ work.event = e
  \/ /\ work.doing \in {"retry", "retryOne"} /\ e \in work.todo
  \/ \E i \in DOMAIN mainQueue : mainQueue[i].block = "result" /\ mainQueue[i].event = e
  \/ showing = e

\* An event that could not be decrypted is not forgotten, whatever the order of its
\* retries and of the tasks that put it back (MXMegolmDecryption): it waits for its keys,
\* or is about to, or is being decrypted again.
FailedIsRemembered ==
  \A e \in failed \ clear : e \in pending \/ Queued(PendTask(e)) \/ InWork(e)

\* Something is left to make the manager look at its request: the timer, the loop, or
\* a call and its answer.
WillLook ==
  \/ timer \/ Queued(LoopTask)
  \/ \E c \in calls : c.id = request.id
  \/ \E i \in DOMAIN cryptoQueue :
       cryptoQueue[i].task = "answer" /\ cryptoQueue[i].call.id = request.id

\* A request that waits to be sent, or to be cancelled, is not left behind while
\* requests are allowed, whatever fails, restarts or overlaps
\* (MXOutgoingRoomKeyRequestManager).
RequestIsLookedAt ==
  enabled /\ (IsIn("Unsent") \/ IsIn("CancellationPending")) => WillLook

\* A request that is gone has been answered by some key, unless the user asked for the
\* keys again: no failure, no cancellation and no overlap of calls loses it before.
RequestIsKept ==
  [][request # NoRequest /\ request' = NoRequest
       => stored # Nothing \/ Head(cryptoQueue) = Task("resend")]_vars

\* The tracker counts an event once, however often it is formatted and whenever the
\* reports reach the main thread (DecryptionFailureTracker).
CountedOnce == reported \cap tracked = {}

\* The store keeps the better of two keys, as addInboundGroupSession and
\* importInboundGroupSessions say of themselves.
KeepsTheBetterKey ==
  [][stored # Nothing => stored' # Nothing /\ stored' <= stored]_vars

=============================================================================
