------------------------ MODULE NotificationService ------------------------
(***************************************************************************)
(* The notification service extension (NotificationService.swift): for each *)
(* push the system hands it, it fetches the event, decrypts it, and calls   *)
(* the content handler with what the user is to see.  Pushes come in        *)
(* bursts; each has an extension object of its own and its own chain of     *)
(* callbacks, but all share one static MXSession, which opens its store     *)
(* once, runs one request of the event stream at a time, and holds one pair *)
(* of blocks to call at its end (MXSession.m).                              *)
(*                                                                          *)
(* Every synchronous run of code, up to the next callback, is one step.     *)
(***************************************************************************)
EXTENDS PushNotificationStore

CONSTANTS
  Kind,         \* the kind of each event
  Encrypted,    \* the events sent encrypted
  OtherToDevice,\* to-device messages that are no keys of these events
  ShowDecrypted \* showDecryptedContentInNotifications

\* "empty" has no content; "ignored" is no highlight in a mentions-only room;
\* "verification" is a request in a direct room; "sticker" stands for the
\* events with a body that are no messages, "unknown" for those without.
Kinds == {"message", "call", "sticker", "verification",
          "ignored", "empty", "unknown"}

\* The room key of an encrypted event goes by the event's name.
ToDeviceMessages == Encrypted \cup OtherToDevice

ASSUME KindAssumption ==
  /\ Kind \in [Events -> Kinds]
  /\ Encrypted \subseteq Events
  /\ OtherToDevice \cap Events = {}
  /\ ShowDecrypted \in BOOLEAN

VARIABLES
  step,       \* where each push is in its chain of callbacks
  content,    \* bestAttemptContents
  shown,      \* what the system shows for each push
  removed,    \* the shown notifications removed as unwanted
  mxSession,  \* the shared session
  keys,       \* the events whose room key is in the crypto store
  toDevice,   \* the to-device messages the server holds
  sent,       \* those ever sent
  response,   \* the answer to the request of the event stream
  protection, \* isProtectionSet, which the application changes
  guarded     \* history: the pushes that met no moment without protection

sessionVars == <<mxSession, keys, toDevice, response>>
pushVars == <<step, content, shown>>
extensionVars == <<step, content, shown, removed, mxSession, keys, toDevice,
                   response, sent, protection, guarded>>
vars == <<extensionVars, storeVars>>

\* "dropped" is a push whose block backgroundSync neither calls nor keeps.
Steps == {"none", "setup", "fetch", "sync", "dropped", "room", "verification",
          "end"}

Texts == {"original", "room", "message", "hidden", "call", "sticker",
          "verification", "protected"}

\* marked: the category TO_BE_REMOVED.
Contents == [text : Texts, marked : BOOLEAN]
Original == [text |-> "original", marked |-> FALSE]
NotShown == [text |-> "none", marked |-> FALSE]

\* backgroundSync is MXSessionStateBackgroundSyncInProgress against any other
\* state; request is "over" when the last answer came and eventStreamRequest
\* stays set.
Sessions ==
  [store : {"none", "opening", "ready", "failed"},
   crypto : BOOLEAN,
   backgroundSync : BOOLEAN,
   request : {"none", "sync", "poll", "over"},
   onBackgroundSyncDone : Events \cup {NoEvent},
   onBackgroundSyncFail : Events \cup {NoEvent}]

NoSession ==
  [store |-> "none", crypto |-> FALSE, backgroundSync |-> FALSE,
   request |-> "none", onBackgroundSyncDone |-> NoEvent,
   onBackgroundSyncFail |-> NoEvent]

\* "composed" is on its way: what comes to the server now is not in it.
\* "received" waits for preloadRoomsData.
Responses ==
  [at : {"none", "composed", "received"}, toDevice : SUBSET ToDeviceMessages]

NoResponse == [at |-> "none", toDevice |-> {}]

TypeOK ==
  /\ StoreTypeOK
  /\ step \in [Events -> Steps]
  /\ content \in [Events -> Contents]
  /\ shown \in [Events -> Contents \cup {NotShown}]
  /\ removed \subseteq Events
  /\ mxSession \in Sessions
  /\ keys \subseteq Encrypted
  /\ toDevice \subseteq ToDeviceMessages /\ sent \subseteq ToDeviceMessages
  /\ response \in Responses
  /\ protection \in BOOLEAN /\ guarded \subseteq Events

\* The extension is not running yet; the application may have left a PushKit
\* token and a lock behind.
ExtensionInit ==
  /\ step = [e \in Events |-> "none"]
  /\ content = [e \in Events |-> Original]
  /\ shown = [e \in Events |-> NotShown]
  /\ removed = {}
  /\ mxSession = NoSession
  /\ keys = {} /\ toDevice = {} /\ sent = {}
  /\ response = NoResponse
  /\ protection \in BOOLEAN
  /\ guarded = {}

(***************************************************************************)
(* Answering: the system shows what the first call of a content handler    *)
(* gives it.                                                               *)
(***************************************************************************)
IsShown(e) == shown[e] # NotShown

Unwanted(old) == [old EXCEPT !.marked = TRUE]

\* The content handler of `e` is called with `new`.
Answer(e, new, next) ==
  /\ step' = [step EXCEPT ![e] = next]
  /\ content' = [content EXCEPT ![e] = new]
  /\ shown' = IF IsShown(e) THEN shown ELSE [shown EXCEPT ![e] = new]

\* The content is being composed: a call of the content handler does not stop
\* that.
IsComposing(e) == step[e] \in {"room", "verification"}

\* fallbackToBestAttemptContent
FallBack(e) == Answer(e, content[e], IF IsComposing(e) THEN step[e] ELSE "end")

\* The callbacks but those of the composition hold the extension object
\* weakly, and the system lets go of it some time after its content handler
\* was called.
Released(e) ==
  /\ IsShown(e) /\ ~IsComposing(e)
  /\ step' = [step EXCEPT ![e] = "end"]
  /\ UNCHANGED <<content, shown>>

(***************************************************************************)
(* One push: fetch, decrypt or sync, room state, content.                  *)
(***************************************************************************)

\* preprocessPayload: the summary of the room may not be in the store.  The
\* mutant does not look at the protection.
PreprocessedUnguarded(e) == {content[e], [content[e] EXCEPT !.text = "room"]}

Preprocessed(e) ==
  IF protection THEN {content[e]}
  ELSE {content[e], [content[e] EXCEPT !.text = "room"]}

\* setup's completion: preprocess, then ask for the event.
Fetch(e) ==
  /\ \E new \in Preprocessed(e) : content' = [content EXCEPT ![e] = new]
  /\ step' = [step EXCEPT ![e] = "fetch"]
  /\ UNCHANGED shown

CanDecrypt(e) == mxSession.crypto /\ e \in keys

\* processEvent, up to the room's state.
ProcessEvent(e) ==
  IF Kind[e] = "empty"
  THEN Answer(e, Unwanted(content[e]), "end")
  ELSE /\ step' = [step EXCEPT ![e] = "room"]
       /\ UNCHANGED <<content, shown>>

\* MXSession backgroundSync: with a request of the event stream in progress
\* it does nothing, and calls neither block.
\* The mutant starts another one.
CanAlwaysSync == TRUE
CanSync == mxSession.request = "none"

Syncing(e) ==
  [mxSession EXCEPT !.backgroundSync = TRUE, !.request = "sync",
                    !.onBackgroundSyncDone = e, !.onBackgroundSyncFail = e]

\* handleEncryption of a fetched event.
HandleEncryption(e) ==
  IF e \notin Encrypted \/ CanDecrypt(e)
  THEN ProcessEvent(e) /\ UNCHANGED mxSession
  ELSE /\ step' = [step EXCEPT ![e] = IF CanSync THEN "sync" ELSE "dropped"]
       /\ mxSession' = IF CanSync THEN Syncing(e) ELSE mxSession
       /\ UNCHANGED <<content, shown>>

DidReceive(e) ==
  /\ step[e] = "none"
  /\ guarded' = IF protection THEN guarded \cup {e} ELSE guarded
  /\ removed' = removed \cup {d \in Events : shown[d].marked}
  /\ \/ /\ mxSession.store = "none"
        /\ mxSession' = [NoSession EXCEPT !.store = "opening"]
        /\ step' = [step EXCEPT ![e] = "setup"]
        /\ UNCHANGED <<content, shown>>
     \/ mxSession.store # "none" /\ Fetch(e) /\ UNCHANGED mxSession
     \/ FallBack(e) /\ UNCHANGED mxSession  \* no active account
  /\ UNCHANGED <<keys, toDevice, response, sent, protection, storeVars>>

\* setStore ends; without a crypto store, or when it cannot be opened, the
\* session is ready without crypto.
StoreOpened(e) ==
  /\ step[e] = "setup"
  /\ \E crypto \in BOOLEAN :
       mxSession' = [mxSession EXCEPT !.store = "ready", !.crypto = crypto,
                                      !.backgroundSync = FALSE]
  /\ Fetch(e)
  /\ UNCHANGED <<removed, keys, toDevice, response, sent, protection, guarded,
                 storeVars>>

\* Mutant of StoreFails: only logs the error.
StoreFailsSilently(e) ==
  /\ step[e] = "setup"
  /\ mxSession' = [mxSession EXCEPT !.store = "failed",
                                    !.backgroundSync = FALSE]
  /\ step' = [step EXCEPT ![e] = "end"]
  /\ UNCHANGED <<content, shown, removed, keys, toDevice, response, sent, protection,
                 guarded, storeVars>>

StoreFails(e) ==
  /\ step[e] = "setup"
  /\ mxSession' = [mxSession EXCEPT !.store = "failed",
                                    !.backgroundSync = FALSE]
  /\ FallBack(e)
  /\ UNCHANGED <<removed, keys, toDevice, response, sent, protection, guarded,
                 storeVars>>

EventFetched(e) ==
  /\ step[e] = "fetch"
  /\ HandleEncryption(e) \/ (Released(e) /\ UNCHANGED mxSession)
  /\ UNCHANGED <<removed, keys, toDevice, response, sent, protection, guarded,
                 storeVars>>

EventNotFetched(e) ==
  /\ step[e] = "fetch"
  /\ FallBack(e)
  /\ UNCHANGED <<removed, sessionVars, sent, protection, guarded,
                 storeVars>>

(***************************************************************************)
(* The room's state is there: the content is composed.                     *)
(***************************************************************************)

\* The content of an encrypted event the user does not want to see.
IsHidden(e) == e \in Encrypted /\ ~ShowDecrypted

\* A verification request whose text is not hidden is looked up first.
LooksUpVerification(e) == Kind[e] = "verification" /\ ~IsHidden(e)

\* notificationBody; "none" is nil.  The mutant does not hide the text.
BodyUnhidden(e) ==
  IF protection THEN "protected"
  ELSE CASE Kind[e] \in {"call", "sticker"} -> Kind[e]
         [] Kind[e] = "unknown" -> "none"
         [] OTHER -> "message"

Body(e) ==
  IF protection THEN "protected"
  ELSE CASE Kind[e] = "call" -> "call"
         [] Kind[e] = "sticker" -> "sticker"
         [] Kind[e] = "unknown" \/ LooksUpVerification(e) -> "none"
         [] OTHER -> IF IsHidden(e) THEN "hidden" ELSE "message"

\* notificationCategoryIdentifier: TO_BE_REMOVED unless the content is shown
\* and the event is a call or a message.
IsMarked(e) ==
  \/ IsHidden(e) \/ protection
  \/ Kind[e] \notin {"call", "message", "verification"}

Composed(e, text) ==
  IF text = "none" THEN Unwanted(content[e])
  ELSE [text |-> text, marked |-> IsMarked(e)]

\* The session has no user before its store is ready; a message unwraps it,
\* and a verification request unwraps the crypto: the process ends there.
Crashes(e) ==
  \/ Kind[e] \in {"message", "verification"} /\ mxSession.store # "ready"
  \/ LooksUpVerification(e) /\ ~mxSession.crypto

\* The request for the key verification is sent on the way, and the code goes
\* on to compose a content without it.
RoomStateLoaded(e) ==
  /\ step[e] = "room" /\ ~Crashes(e)
  /\ Answer(e,
            IF Kind[e] = "ignored" THEN Unwanted(content[e])
            ELSE Composed(e, Body(e)),
            IF LooksUpVerification(e) THEN "verification" ELSE "end")
  /\ IF Kind[e] = "call" THEN SendVoipPush(e) ELSE UNCHANGED storeVars
  /\ UNCHANGED <<removed, sessionVars, sent, protection, guarded>>

\* The key verification came: pending, or another state, or an error.
VerificationFetched(e) ==
  /\ step[e] = "verification"
  /\ \E text \in {"verification", "none"} :
       Answer(e, Composed(e, text), "end")
  /\ UNCHANGED <<removed, sessionVars, sent, protection, guarded,
                 storeVars>>

(***************************************************************************)
(* The event stream of the session.                                        *)
(***************************************************************************)

\* The server answers with what it holds at that time: "We may have not
\* received all to-device events in a single /sync response".
ServerResponds ==
  /\ mxSession.request \in {"sync", "poll"} /\ response.at = "none"
  /\ \E messages \in SUBSET toDevice :
       /\ messages = {} => toDevice = {}
       /\ response' = [at |-> "composed", toDevice |-> messages]
  /\ UNCHANGED <<pushVars, removed, mxSession, keys, toDevice, sent, protection,
                 guarded, storeVars>>

\* The to-device messages of a response are handled first; without crypto
\* they cannot be decrypted.
ToDeviceReceived ==
  /\ response.at = "composed"
  /\ response' = [response EXCEPT !.at = "received"]
  /\ keys' = IF mxSession.crypto THEN keys \cup (response.toDevice \cap Encrypted)
             ELSE keys
  /\ UNCHANGED <<pushVars, removed, mxSession, toDevice, sent, protection,
                 guarded, storeVars>>

\* After the block: paused, or when the store's opening changed the state in
\* the meantime, running -- with a long poll if there is a user.
AfterSync(s) ==
  IF s.backgroundSync
  THEN [s EXCEPT !.request = "none", !.backgroundSync = FALSE]
  ELSE [s EXCEPT !.request = IF s.store = "ready" THEN "poll" ELSE "over"]

\* A catch up, but no long poll, asks again until a response has no to-device
\* messages.  The mutant ends with the first response.
CaughtUpAtOnce == TRUE
CaughtUp == mxSession.request = "poll" \/ response.toDevice = {}

\* A request that follows acknowledges the response it follows, and the server
\* deletes what that held.
Acknowledged == toDevice' = toDevice \ response.toDevice

CatchUpContinues ==
  /\ response.at = "received" /\ ~CaughtUp
  /\ response' = NoResponse /\ Acknowledged
  /\ UNCHANGED <<pushVars, removed, mxSession, keys, sent, protection, guarded,
                 storeVars>>

\* The last response of a catch up, or one of the long poll.  The block runs
\* while the request is still set, so the sync it may ask for is dropped.
SyncSucceeds ==
  LET e == mxSession.onBackgroundSyncDone IN
  /\ response.at = "received" /\ CaughtUp
  /\ mxSession' = AfterSync([mxSession EXCEPT !.onBackgroundSyncDone = NoEvent])
  /\ response' = NoResponse
  /\ IF mxSession'.request = "poll" THEN Acknowledged ELSE UNCHANGED toDevice
  /\ IF e = NoEvent THEN UNCHANGED pushVars
     ELSE \/ Released(e)
          \/ IF CanDecrypt(e)
             THEN ProcessEvent(e)
             ELSE /\ step' = [step EXCEPT ![e] = "dropped"]
                  /\ UNCHANGED <<content, shown>>
  /\ UNCHANGED <<removed, keys, sent, protection, guarded, storeVars>>

\* The request ends, and no answer to it was received.
RequestFails ==
  /\ mxSession.request \in {"sync", "poll"} /\ response.at # "received"
  /\ response' = NoResponse

\* handleServerSyncError.  onBackgroundSyncDone is kept; a state changed by
\* the store's opening makes the session retry, catching up or polling.
SyncFails ==
  LET e == mxSession.onBackgroundSyncFail
      failed == [mxSession EXCEPT !.onBackgroundSyncFail = NoEvent]
  IN
  /\ RequestFails
  /\ \E retry \in {"sync", "poll"} :
     mxSession' = IF e # NoEvent /\ mxSession.backgroundSync
                  THEN [failed EXCEPT !.request = "none",
                                      !.backgroundSync = FALSE]
                  ELSE [failed EXCEPT !.request = retry]
  /\ IF e = NoEvent THEN UNCHANGED pushVars ELSE FallBack(e) \/ Released(e)
  /\ UNCHANGED <<removed, keys, toDevice, sent, protection, guarded,
                 storeVars>>

\* The access token is unknown: neither block is called.
UnknownToken ==
  /\ RequestFails
  /\ mxSession' = [mxSession EXCEPT !.request = "over"]
  /\ UNCHANGED <<pushVars, removed, keys, toDevice, sent, protection,
                 guarded, storeVars>>

(***************************************************************************)
(* Around the extension.                                                   *)
(***************************************************************************)

\* The process ends: at the system's time limit, on a crash, or at once on a
\* device locked since its restart.  The system shows the original pushes.
ExtensionEnds ==
  /\ mxSession.store # "none"
  /\ shown' = [e \in Events |->
                 IF step[e] # "none" /\ ~IsShown(e) THEN Original ELSE shown[e]]
  /\ step' = [e \in Events |-> IF step[e] = "none" THEN "none" ELSE "end"]
  /\ content' = [e \in Events |-> Original]
  /\ mxSession' = NoSession /\ response' = NoResponse
  /\ UNCHANGED <<removed, keys, toDevice, sent, protection, guarded,
                 storeVars>>

\* A sender shares the key of an event, before or after its push, or sends
\* another to-device message.
ToDeviceSent(m) ==
  /\ m \in ToDeviceMessages \ sent
  /\ sent' = sent \cup {m}
  /\ toDevice' = toDevice \cup {m}
  /\ UNCHANGED <<pushVars, removed, mxSession, keys, response, protection,
                 guarded, storeVars>>

\* The user sets or removes the PIN in the application.
ProtectionChanges ==
  /\ protection' = ~protection
  /\ guarded' = IF protection' THEN guarded ELSE {}
  /\ UNCHANGED <<pushVars, removed, sessionVars, sent, storeVars>>

Callbacks(e) ==
  \/ StoreOpened(e) \/ StoreFails(e)
  \/ EventFetched(e) \/ EventNotFetched(e)
  \/ RoomStateLoaded(e)
  \/ VerificationFetched(e)

EventStream ==
  \/ ServerResponds \/ ToDeviceReceived \/ CatchUpContinues \/ SyncSucceeds
  \/ SyncFails \/ UnknownToken

ExtensionNext ==
  \/ \E e \in Events : DidReceive(e) \/ Callbacks(e)
  \/ \E m \in ToDeviceMessages : ToDeviceSent(m)
  \/ EventStream
  \/ ExtensionEnds
  \/ ProtectionChanges

Init ==
  /\ ExtensionInit
  /\ pushKitToken \in BOOLEAN
  /\ lastCallInvite = NoEvent /\ gateway = {}

Spec == Init /\ [][ExtensionNext]_vars

\* Requests end, stores open or fail to, and what was posted runs; a process
\* that crashes does end.
Fairness ==
  /\ \A e \in Events :
       /\ WF_vars(StoreOpened(e) \/ StoreFails(e))
       /\ WF_vars(EventFetched(e) \/ EventNotFetched(e))
       /\ WF_vars(RoomStateLoaded(e))
       /\ WF_vars(step[e] = "room" /\ Crashes(e) /\ ExtensionEnds)
  /\ WF_vars(EventStream)

FairSpec == Spec /\ Fairness

(***************************************************************************)
(* Properties.                                                             *)
(***************************************************************************)

\* With the application protected from the push to its notification, the
\* notification gives away neither sender, room nor text, whatever callback
\* composed it; and what is shown of an encrypted event is never its text
\* when the user does not want decrypted contents in notifications.
ShownContentIsPermitted ==
  \A e \in Events :
    /\ e \in guarded =>
         shown[e].text \in {NotShown.text, "original", "protected"}
    /\ IsHidden(e) => shown[e].text \notin {"message", "verification"}

\* A push that waits is waited for: by the store's opening it started, or by
\* the sync whose blocks are its own and whose request is not answered.
WaitersAreHeld ==
  \A e \in Events :
    /\ step[e] = "setup" => mxSession.store = "opening"
    /\ step[e] = "sync" => /\ mxSession.onBackgroundSyncDone = e
                           /\ mxSession.onBackgroundSyncFail = e
                           /\ mxSession.request \in {"sync", "over"}

\* Only one push opens the store, and before it does nothing is under way; a
\* response answers the request in progress; a push the extension has not met
\* has nothing to show.
SessionIsShared ==
  /\ \A d, e \in Events : step[d] = "setup" /\ step[e] = "setup" => d = e
  /\ mxSession.store = "none" =>
       mxSession.request = "none" /\ \A e \in Events : step[e] \in {"none", "end"}
  /\ response.at # "none" => mxSession.request \in {"sync", "poll"}
  /\ \A e \in Events :
       step[e] = "none" => content[e] = Original /\ shown[e] = NotShown

\* What a fallback would show is as permitted as what is shown.  A push that
\* waits for a key verification is shown: the text composed for it, which
\* does not look at the protection, comes too late.
ContentIsPermitted ==
  \A e \in Events :
    /\ e \in guarded => protection
    /\ step[e] = "verification" => IsShown(e)
    /\ ~IsShown(e) =>
         /\ e \in guarded => content[e].text \in {"original", "protected"}
         /\ IsHidden(e) => content[e].text \notin {"message", "verification"}

\* All of it: what every step of the extension keeps.
ExtensionInv ==
  /\ TypeOK
  /\ WaitersAreHeld
  /\ SessionIsShared
  /\ ContentIsPermitted
  /\ ShownContentIsPermitted

\* A push whose event is not encrypted is answered, whatever the pushes that
\* share its session do and whether or not the store opens.
PlainPushIsShown ==
  \A e \in Events \ Encrypted : step[e] # "none" ~> IsShown(e)

\* The push that got the background sync is answered when the key of its
\* event comes to the server before the sync's last response is composed,
\* unless the access token is refused.
SyncedPushIsShown ==
  \A e \in Encrypted :
    (/\ step[e] = "sync" /\ mxSession.crypto
     /\ e \in toDevice /\ response.at = "none")
      ~> (IsShown(e) \/ mxSession.request = "over")

(***************************************************************************)
(* What a comment of the code says and the code does not do.               *)
(***************************************************************************)

\* "if something fails during the process, this best attempt content will be
\* showed as notification"
FailureShowsBestAttempt ==
  \A e \in Events : step[e] = "dropped" => IsShown(e)

\* "this is an unwanted notification, mark as to be deleted when app is
\* foregrounded again OR a new push came": what is removed was unwanted, or
\* only said that there is a message.
RemovedWasUnwanted ==
  \A e \in removed :
    \/ Kind[e] \in {"empty", "ignored", "unknown"}
    \/ shown[e].text \in {"hidden", "protected"}

=============================================================================
