---------------------- MODULE NotificationService_proofs ----------------------
(***************************************************************************)
(* Proofs about NotificationService: what every step of the extension      *)
(* keeps, for any burst of pushes of any kinds; then which pushes may be   *)
(* lost, and which notifications removed.                                  *)
(***************************************************************************)
EXTENDS NotificationService, TLAPS

(***************************************************************************)
(* What the helpers return.                                                *)
(***************************************************************************)

\* Whatever the code does to a content gives a content.
LEMMA ContentType ==
  /\ Original \in Contents
  /\ \A c \in Contents : /\ Unwanted(c) \in Contents
                         /\ Unwanted(c).text = c.text
                         /\ [c EXCEPT !.text = "room"] \in Contents
BY DEF Original, Contents, Texts, Unwanted

\* A body is a text or nil; protected when the application is, and never the
\* text of an event whose text is hidden.
LEMMA BodyType ==
  ASSUME NEW e \in Events
  PROVE  /\ Body(e) \in Texts \cup {"none"}
         /\ protection => Body(e) = "protected"
         /\ IsHidden(e) => Body(e) \notin {"message", "verification"}
<1>1. Kind[e] \in Kinds
  BY KindAssumption DEF KindAssumption
<1>2. CASE protection
  <2>1. Body(e) = "protected"
    BY <1>2 DEF Body
  <2> QED  BY <1>2, <2>1 DEF Texts
<1>3. CASE ~protection
  <2>1. CASE Kind[e] = "verification"
    BY <1>3, <2>1 DEF Body, Texts, LooksUpVerification
  <2>2. CASE Kind[e] \in {"call", "sticker", "unknown"}
    BY <1>3, <2>2 DEF Body, Texts, LooksUpVerification
  <2>3. CASE Kind[e] \in {"message", "ignored", "empty"}
    BY <1>3, <2>3 DEF Body, Texts, LooksUpVerification
  <2> QED  BY <1>1, <2>1, <2>2, <2>3 DEF Kinds
<1> QED  BY <1>2, <1>3

\* So is the content composed with it, or with what a verification gives.
LEMMA ComposedType ==
  ASSUME NEW e \in Events, content[e] \in Contents,
         NEW text \in Texts \cup {"none"}
  PROVE  /\ Composed(e, text) \in Contents
         /\ Composed(e, text).text = IF text = "none" THEN content[e].text
                                     ELSE text
<1>1. IsMarked(e) \in BOOLEAN
  BY DEF IsMarked, IsHidden
<1> QED  BY <1>1, ContentType DEF Composed, Contents

\* The name of the room is not given away by a protected application.
LEMMA PreprocessedType ==
  ASSUME NEW e \in Events, content[e] \in Contents, NEW new \in Preprocessed(e)
  PROVE  /\ new \in Contents
         /\ protection => new = content[e]
         /\ new.text \in {content[e].text, "room"}
BY ContentType DEF Preprocessed, Contents

\* What a content may say.
Permitted(e, c) ==
  /\ e \in guarded => c.text \in {"original", "protected"}
  /\ IsHidden(e) => c.text \notin {"message", "verification"}

\* The part of ExtensionInv that a push has to itself.
PushInv ==
  /\ step \in [Events -> Steps]
  /\ content \in [Events -> Contents]
  /\ shown \in [Events -> Contents \cup {NotShown}]
  /\ ContentIsPermitted
  /\ ShownContentIsPermitted

\* Calling a content handler with something permitted keeps that part.
LEMMA AnswerKeepsPushInv ==
  ASSUME PushInv, NEW e \in Events, NEW new \in Contents, NEW next \in Steps,
         Answer(e, new, next),
         IsShown(e) \/ Permitted(e, new),
         UNCHANGED <<protection, guarded>>
  PROVE  /\ PushInv'
         /\ shown'[e] # NotShown
         /\ \A d \in Events \ {e} : content'[d] = content[d] /\ shown'[d] = shown[d]
  <1> USE DEF PushInv
  <1>1. /\ step' \in [Events -> Steps]
        /\ content' \in [Events -> Contents]
        /\ shown' \in [Events -> Contents \cup {NotShown}]
    BY DEF Answer
  <1>2. /\ shown'[e] # NotShown
        /\ \A d \in Events \ {e} : content'[d] = content[d] /\ shown'[d] = shown[d]
    BY DEF Answer, IsShown, Contents, Texts, NotShown
  <1>3. ContentIsPermitted'
    BY <1>1, <1>2 DEF Answer, ContentIsPermitted, IsShown, IsHidden
  <1>4. ShownContentIsPermitted'
    BY <1>1, <1>2 DEF Answer, ShownContentIsPermitted, Permitted, IsShown, IsHidden
  <1> QED  BY <1>1, <1>2, <1>3, <1>4

(***************************************************************************)
(* The parts the session is concerned with.                                *)
(***************************************************************************)
SessionInv ==
  /\ mxSession \in Sessions
  /\ WaitersAreHeld
  /\ \A d, e \in Events : step[d] = "setup" /\ step[e] = "setup" => d = e
  /\ mxSession.store = "none" =>
       mxSession.request = "none" /\ \A e \in Events : step[e] \in {"none", "end"}
  /\ response.at # "none" => mxSession.request \in {"sync", "poll"}

\* The types of what the event stream carries.
StreamTypeOK ==
  /\ keys \subseteq Encrypted
  /\ toDevice \subseteq ToDeviceMessages /\ sent \subseteq ToDeviceMessages
  /\ response \in Responses

\* The rest: the types of the stream and of the store, and what the extension
\* has not met yet.
RestInv ==
  /\ StoreTypeOK
  /\ removed \subseteq Events
  /\ StreamTypeOK
  /\ protection \in BOOLEAN /\ guarded \subseteq Events
  /\ \A e \in Events :
       step[e] = "none" => content[e] = Original /\ shown[e] = NotShown

\* The three parts are ExtensionInv.
LEMMA ExtensionInvParts == ExtensionInv <=> PushInv /\ SessionInv /\ RestInv
BY DEF ExtensionInv, TypeOK, SessionIsShared, PushInv, SessionInv, RestInv,
       StreamTypeOK

\* A step of one push that leaves the session alone, and goes neither to the
\* store's opening nor to a sync, keeps the session's part.
LEMMA StepKeepsSessionInv ==
  ASSUME SessionInv, PushInv, NEW e \in Events,
         NEW next \in Steps \ {"setup", "sync"},
         step' = [step EXCEPT ![e] = next], UNCHANGED <<mxSession, response>>,
         step[e] \notin {"none", "end"} \/ mxSession.store # "none" \/ next = "end"
  PROVE  SessionInv'
BY DEF SessionInv, PushInv, WaitersAreHeld

\* One that leaves what the extension has not met alone keeps the rest.
LEMMA StepKeepsRestInv ==
  ASSUME RestInv, PushInv, NEW e \in Events,
         NEW next \in Steps \ {"none"},
         step' = [step EXCEPT ![e] = next],
         \A d \in Events \ {e} : content'[d] = content[d] /\ shown'[d] = shown[d],
         UNCHANGED <<removed, protection, guarded>>,
         UNCHANGED <<keys, toDevice, response, sent>> \/ StreamTypeOK',
         StoreTypeOK'
  PROVE  RestInv'
BY DEF RestInv, StreamTypeOK, PushInv

\* Falling back keeps a push's own part: what it shows was checked when it
\* was composed.
LEMMA FallBackKeepsPushInv ==
  ASSUME PushInv, NEW e \in Events, FallBack(e),
         UNCHANGED <<protection, guarded>>
  PROVE  /\ PushInv'
         /\ step' = [step EXCEPT ![e] = IF IsComposing(e) THEN step[e] ELSE "end"]
         /\ \A d \in Events \ {e} : content'[d] = content[d] /\ shown'[d] = shown[d]
<1> DEFINE next == IF IsComposing(e) THEN step[e] ELSE "end"
<1>1. content[e] \in Contents /\ next \in Steps
  BY DEF PushInv, Steps
<1>2. IsShown(e) \/ Permitted(e, content[e])
  BY DEF PushInv, ContentIsPermitted, Permitted
<1>3. Answer(e, content[e], next) /\ step' = [step EXCEPT ![e] = next]
  BY DEF FallBack, Answer
<1> HIDE DEF next
<1>4. /\ PushInv'
      /\ \A d \in Events \ {e} : content'[d] = content[d] /\ shown'[d] = shown[d]
  BY <1>1, <1>2, <1>3, AnswerKeepsPushInv
<1> QED  BY <1>3, <1>4 DEF next

\* So does being let go of.
LEMMA ReleasedKeepsPushInv ==
  ASSUME PushInv, NEW e \in Events, Released(e),
         UNCHANGED <<protection, guarded>>
  PROVE  /\ PushInv'
         /\ step' = [step EXCEPT ![e] = "end"]
         /\ UNCHANGED <<content, shown>>
BY DEF PushInv, Released, Steps, ContentIsPermitted, ShownContentIsPermitted,
       IsShown, IsHidden

\* A step to the fetch, with a preprocessed content.
LEMMA FetchKeepsPushInv ==
  ASSUME PushInv, NEW e \in Events, Fetch(e), UNCHANGED protection,
         guarded' = guarded \/ (protection /\ guarded' = guarded \cup {e}
                                /\ content[e] = Original /\ shown[e] = NotShown)
  PROVE  /\ PushInv'
         /\ step' = [step EXCEPT ![e] = "fetch"]
         /\ \A d \in Events \ {e} : content'[d] = content[d] /\ shown'[d] = shown[d]
  <1> USE DEF PushInv
  <1>1. PICK new \in Preprocessed(e) : content' = [content EXCEPT ![e] = new]
    BY DEF Fetch
  <1>2. /\ new \in Contents
        /\ protection => new = content[e]
        /\ new.text \in {content[e].text, "room"}
    BY PreprocessedType
  <1>3. /\ step' = [step EXCEPT ![e] = "fetch"] /\ UNCHANGED shown
        /\ \A d \in Events \ {e} : content'[d] = content[d] /\ shown'[d] = shown[d]
    BY <1>1 DEF Fetch
  <1>4. /\ step' \in [Events -> Steps] /\ content' \in [Events -> Contents]
        /\ shown' \in [Events -> Contents \cup {NotShown}]
    BY <1>1, <1>2, <1>3 DEF Steps
  <1>5. ContentIsPermitted'
    BY <1>1, <1>2, <1>3 DEF ContentIsPermitted, IsShown, IsHidden, Original
  <1>6. ShownContentIsPermitted'
    BY <1>3 DEF ShownContentIsPermitted, IsHidden, NotShown
  <1> QED  BY <1>3, <1>4, <1>5, <1>6

\* A step of a push that shows and composes nothing.
LEMMA MoveKeepsPushInv ==
  ASSUME PushInv, NEW e \in Events, NEW next \in Steps \ {"verification"},
         step' = [step EXCEPT ![e] = next],
         UNCHANGED <<content, shown, protection, guarded>>
  PROVE  PushInv'
BY DEF PushInv, ContentIsPermitted, ShownContentIsPermitted, IsShown, IsHidden

\* Processing an event, up to the room's state.
LEMMA ProcessEventKeepsPushInv ==
  ASSUME PushInv, NEW e \in Events, ProcessEvent(e),
         UNCHANGED <<protection, guarded>>
  PROVE  /\ PushInv'
         /\ \E next \in {"room", "end"} : step' = [step EXCEPT ![e] = next]
         /\ \A d \in Events \ {e} : content'[d] = content[d] /\ shown'[d] = shown[d]
<1>1. CASE Kind[e] = "empty"
  <2>1. Unwanted(content[e]) \in Contents /\ "end" \in Steps
    BY ContentType DEF PushInv, Steps
  <2>2. IsShown(e) \/ Permitted(e, Unwanted(content[e]))
    BY ContentType DEF PushInv, ContentIsPermitted, Permitted
  <2>3. Answer(e, Unwanted(content[e]), "end")
    BY <1>1 DEF ProcessEvent
  <2> QED  BY <2>1, <2>2, <2>3, AnswerKeepsPushInv DEF Answer
<1>2. CASE Kind[e] # "empty"
  <2>1. step' = [step EXCEPT ![e] = "room"] /\ UNCHANGED <<content, shown>>
    BY <1>2 DEF ProcessEvent
  <2> QED  BY <2>1, MoveKeepsPushInv DEF Steps
<1> QED  BY <1>1, <1>2

(***************************************************************************)
(* One step per action.                                                    *)
(***************************************************************************)
PartsInv == PushInv /\ SessionInv /\ RestInv

LEMMA DidReceiveKeepsInv ==
  ASSUME PartsInv, NEW e \in Events, DidReceive(e)
  PROVE  PartsInv'
  <1> USE DEF PartsInv
  <1>1. /\ step[e] = "none" /\ content[e] = Original /\ shown[e] = NotShown
        /\ guarded' = IF protection THEN guarded \cup {e} ELSE guarded
        /\ removed' \subseteq Events
        /\ UNCHANGED <<keys, toDevice, response, sent, protection, storeVars>>
    BY DEF DidReceive, RestInv
  <1>2. RestInv' <=> \A d \in Events :
          step'[d] = "none" => content'[d] = Original /\ shown'[d] = NotShown
    BY <1>1 DEF RestInv, StreamTypeOK, StoreTypeOK, storeVars
  <1>3. CASE /\ mxSession.store = "none"
             /\ mxSession' = [NoSession EXCEPT !.store = "opening"]
             /\ step' = [step EXCEPT ![e] = "setup"]
             /\ UNCHANGED <<content, shown>>
    <2>1. PushInv'
      BY <1>1, <1>3
      DEF PushInv, Steps, ContentIsPermitted, ShownContentIsPermitted, IsShown,
          IsHidden, Original, NotShown
    <2>2. SessionInv'
      BY <1>1, <1>3 DEF SessionInv, PushInv, WaitersAreHeld, Sessions, NoSession
    <2>3. RestInv'
      BY <1>2, <1>3 DEF RestInv, PushInv
    <2> QED  BY <2>1, <2>2, <2>3
  <1>4. CASE mxSession.store # "none" /\ Fetch(e) /\ UNCHANGED mxSession
    <2>1. /\ PushInv' /\ step' = [step EXCEPT ![e] = "fetch"]
          /\ \A d \in Events \ {e} :
               content'[d] = content[d] /\ shown'[d] = shown[d]
      BY <1>1, <1>4, FetchKeepsPushInv
    <2>2. SessionInv'
      BY <1>1, <1>4, <2>1, StepKeepsSessionInv DEF Steps
    <2>3. RestInv'
      BY <1>2, <2>1 DEF RestInv, PushInv
    <2> QED  BY <2>1, <2>2, <2>3
  <1>5. CASE FallBack(e) /\ UNCHANGED mxSession
    <2>1. /\ step' = [step EXCEPT ![e] = "end"]
          /\ content' = [content EXCEPT ![e] = Original]
          /\ shown' = [shown EXCEPT ![e] = Original]
      BY <1>1, <1>5 DEF FallBack, Answer, IsShown, IsComposing
    <2>2. PushInv'
      BY <1>1, <2>1, ContentType
      DEF PushInv, Steps, ContentIsPermitted, ShownContentIsPermitted, IsShown,
          IsHidden, Original, NotShown
    <2>3. SessionInv'
      BY <1>1, <1>5, <2>1, StepKeepsSessionInv DEF Steps
    <2>4. RestInv'
      BY <1>2, <2>1 DEF RestInv, PushInv
    <2> QED  BY <2>2, <2>3, <2>4
  <1> QED  BY <1>3, <1>4, <1>5 DEF DidReceive

LEMMA StoreOpenedKeepsInv ==
  ASSUME PartsInv, NEW e \in Events, StoreOpened(e)
  PROVE  PartsInv'
  <1> USE DEF PartsInv
  <1>1. /\ PushInv' /\ step' = [step EXCEPT ![e] = "fetch"]
        /\ \A d \in Events \ {e} :
             content'[d] = content[d] /\ shown'[d] = shown[d]
    BY FetchKeepsPushInv DEF StoreOpened
  <1>2. SessionInv'
    <2>1. PICK crypto \in BOOLEAN :
            mxSession' = [mxSession EXCEPT !.store = "ready", !.crypto = crypto,
                                           !.backgroundSync = FALSE]
      BY DEF StoreOpened
    <2> QED
      BY <1>1, <2>1
      DEF StoreOpened, SessionInv, PushInv, WaitersAreHeld, Sessions
  <1>3. RestInv'
    BY <1>1, StepKeepsRestInv
    DEF StoreOpened, Steps, RestInv, StoreTypeOK, storeVars
  <1> QED  BY <1>1, <1>2, <1>3

LEMMA StoreFailsKeepsInv ==
  ASSUME PartsInv, NEW e \in Events, StoreFails(e)
  PROVE  PartsInv'
  <1> USE DEF PartsInv
  <1>1. /\ PushInv' /\ step' = [step EXCEPT ![e] = "end"]
        /\ \A d \in Events \ {e} :
             content'[d] = content[d] /\ shown'[d] = shown[d]
    BY FallBackKeepsPushInv DEF StoreFails, IsComposing
  <1>2. SessionInv'
    BY <1>1
    DEF StoreFails, SessionInv, PushInv, WaitersAreHeld, Sessions
  <1>3. RestInv'
    BY <1>1, StepKeepsRestInv
    DEF StoreFails, Steps, RestInv, StoreTypeOK, storeVars
  <1> QED  BY <1>1, <1>2, <1>3

LEMMA EventFetchedKeepsInv ==
  ASSUME PartsInv, NEW e \in Events, EventFetched(e)
  PROVE  PartsInv'
  <1> USE DEF PartsInv
  <1>1. /\ step[e] = "fetch"
        /\ UNCHANGED <<removed, keys, toDevice, response, sent, protection, guarded,
                       storeVars>>
        /\ StoreTypeOK'
    BY DEF EventFetched, RestInv, StoreTypeOK, storeVars
  <1>2. CASE Released(e) /\ UNCHANGED mxSession
    BY <1>1, <1>2, ReleasedKeepsPushInv, StepKeepsSessionInv, StepKeepsRestInv
    DEF Steps
  <1>3. CASE ProcessEvent(e) /\ UNCHANGED mxSession
    BY <1>1, <1>3, ProcessEventKeepsPushInv, StepKeepsSessionInv,
       StepKeepsRestInv
    DEF Steps
  <1>4. CASE /\ ~CanSync
             /\ step' = [step EXCEPT ![e] = "dropped"]
             /\ UNCHANGED <<mxSession, content, shown>>
    BY <1>1, <1>4, MoveKeepsPushInv, StepKeepsSessionInv, StepKeepsRestInv
    DEF Steps
  <1>5. CASE /\ CanSync
             /\ step' = [step EXCEPT ![e] = "sync"]
             /\ mxSession' = Syncing(e)
             /\ UNCHANGED <<content, shown>>
    <2>1. PushInv' /\ RestInv'
      BY <1>1, <1>5, MoveKeepsPushInv, StepKeepsRestInv DEF Steps
    <2>2. Syncing(e) \in Sessions
      BY DEF Syncing, SessionInv, Sessions
    <2>3. /\ mxSession'.store = mxSession.store /\ mxSession'.request = "sync"
          /\ mxSession'.onBackgroundSyncDone = e
          /\ mxSession'.onBackgroundSyncFail = e
          /\ mxSession.store # "none" /\ mxSession.request = "none"
      BY <1>1, <1>5 DEF Syncing, SessionInv, Sessions, CanSync
    <2>4. SessionInv'
      BY <1>1, <1>5, <2>2, <2>3 DEF SessionInv, PushInv, WaitersAreHeld
    <2> QED  BY <2>1, <2>4
  <1> QED  BY <1>2, <1>3, <1>4, <1>5 DEF EventFetched, HandleEncryption

LEMMA EventNotFetchedKeepsInv ==
  ASSUME PartsInv, NEW e \in Events, EventNotFetched(e)
  PROVE  PartsInv'
BY FallBackKeepsPushInv, StepKeepsSessionInv, StepKeepsRestInv
DEF PartsInv, EventNotFetched, IsComposing, Steps, RestInv, StoreTypeOK, storeVars,
    sessionVars

LEMMA RoomStateLoadedKeepsInv ==
  ASSUME PartsInv, NEW e \in Events, RoomStateLoaded(e)
  PROVE  PartsInv'
  <1> USE DEF PartsInv
  <1> DEFINE new == IF Kind[e] = "ignored" THEN Unwanted(content[e])
                    ELSE Composed(e, Body(e))
             next == IF LooksUpVerification(e) THEN "verification" ELSE "end"
  <1>1. content[e] \in Contents
    BY DEF PushInv
  <1>2. /\ new \in Contents
        /\ new.text \in {content[e].text, Body(e)}
        /\ protection => new.text \in {content[e].text, "protected"}
        /\ IsHidden(e) => \/ new.text = content[e].text
                          \/ new.text \notin {"message", "verification"}
    <2>1. CASE Kind[e] = "ignored"
      BY <1>1, <2>1, ContentType
    <2>2. CASE Kind[e] # "ignored"
      <3>1. /\ Composed(e, Body(e)) \in Contents
            /\ Composed(e, Body(e)).text = IF Body(e) = "none"
                                           THEN content[e].text ELSE Body(e)
        BY <1>1, BodyType, ComposedType
      <3> QED  BY <2>2, <3>1, BodyType
    <2> QED  BY <2>1, <2>2
  <1>3. IsShown(e) \/ Permitted(e, new)
    BY <1>2 DEF PushInv, ContentIsPermitted, Permitted
  <1>4. /\ step[e] = "room" /\ Answer(e, new, next)
        /\ UNCHANGED <<removed, mxSession, keys, toDevice, response, sent, protection,
                       guarded>>
    BY DEF RoomStateLoaded, sessionVars
  <1>5. next \in Steps \ {"none", "setup", "sync"}
    BY DEF Steps
  <1>6. StoreTypeOK'
    BY DEF RoomStateLoaded, SendVoipPush, RestInv, StoreTypeOK, storeVars
  <1>7. /\ PushInv' /\ step' = [step EXCEPT ![e] = next]
        /\ \A d \in Events \ {e} :
             content'[d] = content[d] /\ shown'[d] = shown[d]
    <2> HIDE DEF new, next
    <2> QED  BY <1>2, <1>3, <1>4, <1>5, AnswerKeepsPushInv DEF Answer
  <1> HIDE DEF new, next
  <1>8. SessionInv' /\ RestInv'
    BY <1>4, <1>5, <1>6, <1>7, StepKeepsSessionInv, StepKeepsRestInv
  <1> QED  BY <1>7, <1>8

LEMMA VerificationFetchedKeepsInv ==
  ASSUME PartsInv, NEW e \in Events, VerificationFetched(e)
  PROVE  PartsInv'
  <1> USE DEF PartsInv
  <1>1. PICK text \in {"verification", "none"} :
          Answer(e, Composed(e, text), "end")
    BY DEF VerificationFetched
  <1>2. Composed(e, text) \in Contents
    BY ComposedType DEF PushInv, Texts
  <1>3. IsShown(e)
    BY DEF VerificationFetched, PushInv, ContentIsPermitted
  <1>4. /\ UNCHANGED <<removed, mxSession, keys, toDevice, response, sent, protection,
                       guarded>>
        /\ StoreTypeOK'
    BY DEF VerificationFetched, sessionVars, RestInv, StoreTypeOK, storeVars
  <1>5. /\ PushInv' /\ step' = [step EXCEPT ![e] = "end"]
        /\ \A d \in Events \ {e} :
             content'[d] = content[d] /\ shown'[d] = shown[d]
    BY <1>1, <1>2, <1>3, <1>4, AnswerKeepsPushInv DEF Answer, Steps
  <1> QED
    BY <1>4, <1>5, StepKeepsSessionInv, StepKeepsRestInv DEF Steps

LEMMA SyncSucceedsKeepsInv ==
  ASSUME PartsInv, SyncSucceeds
  PROVE  PartsInv'
  <1> USE DEF PartsInv
  <1> DEFINE e == mxSession.onBackgroundSyncDone
             done == [mxSession EXCEPT !.onBackgroundSyncDone = NoEvent]
  <1>1. /\ UNCHANGED <<removed, keys, sent, protection, guarded>>
        /\ mxSession.request \in {"sync", "poll"}
        /\ mxSession.store # "none"
        /\ response' = NoResponse
        /\ StoreTypeOK'
    BY DEF SyncSucceeds, SessionInv, RestInv, StoreTypeOK, storeVars
  <1>5. StreamTypeOK'
    <2>1. toDevice' \subseteq toDevice
      BY DEF SyncSucceeds, Acknowledged
    <2> QED  BY <1>1, <2>1 DEF RestInv, StreamTypeOK, NoResponse, Responses
  <1>2. /\ mxSession' \in Sessions /\ mxSession'.store = mxSession.store
        /\ mxSession'.onBackgroundSyncDone = NoEvent
    <2>1. done \in Sessions /\ done.store = mxSession.store
          /\ done.onBackgroundSyncDone = NoEvent
      BY DEF SessionInv, Sessions
    <2>2. mxSession' = AfterSync(done)
      BY DEF SyncSucceeds
    <2> QED  BY <2>1, <2>2 DEF AfterSync, Sessions
  <1>3. CASE e = NoEvent
    <2>1. UNCHANGED <<step, content, shown>>
      BY <1>3 DEF SyncSucceeds, pushVars
    <2>2. SessionInv'
      BY <1>1, <1>2, <1>3, <2>1, EventAssumption
      DEF SessionInv, WaitersAreHeld, EventAssumption, NoResponse
    <2> QED
      BY <1>1, <1>5, <2>1, <2>2
      DEF PushInv, RestInv, ContentIsPermitted, ShownContentIsPermitted,
          IsShown, IsHidden
  <1>4. CASE e # NoEvent
    <2>1. e \in Events
      BY <1>4 DEF SessionInv, Sessions
    <2>2. /\ PushInv'
          /\ \E next \in {"room", "end", "dropped"} :
               step' = [step EXCEPT ![e] = next]
          /\ \A d \in Events \ {e} :
               content'[d] = content[d] /\ shown'[d] = shown[d]
      <3>1. CASE Released(e)
        BY <1>1, <2>1, <3>1, ReleasedKeepsPushInv
      <3>2. CASE ProcessEvent(e)
        BY <1>1, <2>1, <3>2, ProcessEventKeepsPushInv
      <3>3. CASE step' = [step EXCEPT ![e] = "dropped"] /\ UNCHANGED <<content, shown>>
        BY <1>1, <2>1, <3>3, MoveKeepsPushInv DEF Steps
      <3> QED  BY <1>4, <3>1, <3>2, <3>3 DEF SyncSucceeds
    <2>3. PICK next \in {"room", "end", "dropped"} :
            step' = [step EXCEPT ![e] = next]
      BY <2>2
    <2>4. SessionInv'
      BY <1>1, <1>2, <2>1, <2>3 DEF SessionInv, PushInv, WaitersAreHeld, NoResponse
    <2>5. RestInv'
      BY <1>1, <1>5, <2>1, <2>2, <2>3, StepKeepsRestInv DEF Steps
    <2> QED  BY <2>2, <2>4, <2>5
  <1> QED  BY <1>3, <1>4

LEMMA SyncFailsKeepsInv ==
  ASSUME PartsInv, SyncFails
  PROVE  PartsInv'
  <1> USE DEF PartsInv
  <1> DEFINE e == mxSession.onBackgroundSyncFail
             failed == [mxSession EXCEPT !.onBackgroundSyncFail = NoEvent]
  <1>1. /\ UNCHANGED <<removed, keys, toDevice, sent, protection, guarded>>
        /\ mxSession.request \in {"sync", "poll"}
        /\ mxSession.store # "none"
        /\ response' = NoResponse
        /\ StoreTypeOK'
    BY DEF SyncFails, RequestFails, SessionInv, RestInv, StoreTypeOK, storeVars
  <1>5. StreamTypeOK'
    BY <1>1 DEF RestInv, StreamTypeOK, NoResponse, Responses
  <1>2. mxSession' \in Sessions /\ mxSession'.store = mxSession.store
    <2>1. failed \in Sessions /\ failed.store = mxSession.store
      BY DEF SessionInv, Sessions
    <2>2. \/ mxSession' = [failed EXCEPT !.request = "none", !.backgroundSync = FALSE]
          \/ \E retry \in {"sync", "poll"} :
               mxSession' = [failed EXCEPT !.request = retry]
      BY DEF SyncFails
    <2> HIDE DEF failed
    <2> QED  BY <2>1, <2>2 DEF Sessions
  <1>3. CASE e = NoEvent
    <2>1. UNCHANGED <<step, content, shown>>
      BY <1>3 DEF SyncFails, pushVars
    <2>2. SessionInv'
      BY <1>1, <1>2, <1>3, <2>1, EventAssumption
      DEF SessionInv, WaitersAreHeld, EventAssumption, NoResponse
    <2> QED
      BY <1>1, <1>5, <2>1, <2>2
      DEF PushInv, RestInv, ContentIsPermitted, ShownContentIsPermitted,
          IsShown, IsHidden
  <1>4. CASE e # NoEvent
    <2>1. e \in Events
      BY <1>4 DEF SessionInv, Sessions
    <2>2. /\ PushInv'
          /\ \E next \in {"room", "verification", "end"} :
               step' = [step EXCEPT ![e] = next]
          /\ \A d \in Events \ {e} :
               content'[d] = content[d] /\ shown'[d] = shown[d]
      <3>1. CASE Released(e)
        BY <1>1, <2>1, <3>1, ReleasedKeepsPushInv
      <3>2. CASE FallBack(e)
        BY <1>1, <2>1, <3>2, FallBackKeepsPushInv DEF IsComposing
      <3> QED  BY <1>4, <3>1, <3>2 DEF SyncFails
    <2>3. PICK next \in {"room", "verification", "end"} :
            step' = [step EXCEPT ![e] = next]
      BY <2>2
    <2>4. SessionInv'
      BY <1>1, <1>2, <2>1, <2>3 DEF SessionInv, PushInv, WaitersAreHeld, NoResponse
    <2>5. RestInv'
      BY <1>1, <1>5, <2>1, <2>2, <2>3, StepKeepsRestInv DEF Steps
    <2> QED  BY <2>2, <2>4, <2>5
  <1> QED  BY <1>3, <1>4

\* The other steps of the event stream answer no push.
LEMMA StreamKeepsInv ==
  ASSUME PartsInv,
         ServerResponds \/ ToDeviceReceived \/ CatchUpContinues \/ UnknownToken
  PROVE  PartsInv'
  <1> USE DEF PartsInv
  <1>1. /\ UNCHANGED <<step, content, shown, removed, sent, protection, guarded>>
        /\ StoreTypeOK'
    BY DEF ServerResponds, ToDeviceReceived, CatchUpContinues, UnknownToken,
           pushVars, RestInv, StoreTypeOK, storeVars
  <1>2. PushInv'
    BY <1>1
    DEF PushInv, ContentIsPermitted, ShownContentIsPermitted, IsShown, IsHidden
  <1>3. CASE ServerResponds
    <2>1. PICK messages \in SUBSET toDevice :
            response' = [at |-> "composed", toDevice |-> messages]
      BY <1>3 DEF ServerResponds
    <2>2. /\ UNCHANGED <<mxSession, keys, toDevice>>
          /\ mxSession.request \in {"sync", "poll"}
      BY <1>3 DEF ServerResponds
    <2> QED
      BY <1>1, <1>2, <2>1, <2>2
      DEF SessionInv, WaitersAreHeld, RestInv, StreamTypeOK, Responses
  <1>4. CASE ToDeviceReceived
    <2>1. /\ response' = [response EXCEPT !.at = "received"]
          /\ response.at = "composed"
          /\ UNCHANGED <<mxSession, toDevice>>
          /\ keys' \subseteq keys \cup Encrypted
      BY <1>4 DEF ToDeviceReceived
    <2> QED
      BY <1>1, <1>2, <2>1
      DEF SessionInv, WaitersAreHeld, RestInv, StreamTypeOK, Responses
  <1>5. CASE CatchUpContinues \/ UnknownToken
    <2>1. /\ response' = NoResponse
          /\ toDevice' \subseteq toDevice /\ UNCHANGED keys
          /\ mxSession' \in {mxSession, [mxSession EXCEPT !.request = "over"]}
          /\ mxSession.store # "none"
      BY <1>5 DEF CatchUpContinues, Acknowledged, UnknownToken, RequestFails,
                  SessionInv
    <2>2. SessionInv'
      BY <1>1, <2>1 DEF SessionInv, WaitersAreHeld, Sessions, NoResponse
    <2>3. RestInv'
      BY <1>1, <2>1 DEF RestInv, StreamTypeOK, Responses, NoResponse
    <2> QED  BY <1>2, <2>2, <2>3
  <1> QED  BY <1>3, <1>4, <1>5

\* What happens around the extension.
LEMMA SurroundingsKeepInv ==
  ASSUME PartsInv,
         \/ ExtensionEnds \/ ProtectionChanges
         \/ \E m \in ToDeviceMessages : ToDeviceSent(m)
  PROVE  PartsInv'
  <1> USE DEF PartsInv
  <1>1. CASE ExtensionEnds
    <2>1. /\ UNCHANGED <<removed, keys, toDevice, sent, protection, guarded>>
          /\ StoreTypeOK'
          /\ mxSession' = NoSession /\ response' = NoResponse
          /\ content' = [d \in Events |-> Original]
          /\ step' = [d \in Events |-> IF step[d] = "none" THEN "none" ELSE "end"]
          /\ shown' = [d \in Events |->
                         IF step[d] # "none" /\ ~IsShown(d) THEN Original
                         ELSE shown[d]]
      BY <1>1 DEF ExtensionEnds, RestInv, StoreTypeOK, storeVars
    <2>2. PushInv'
      <3>1. /\ step' \in [Events -> Steps]
            /\ content' \in [Events -> Contents]
            /\ shown' \in [Events -> Contents \cup {NotShown}]
        BY <2>1, ContentType DEF PushInv, Steps
      <3>2. ContentIsPermitted'
        BY <2>1 DEF PushInv, ContentIsPermitted, IsShown, IsHidden, Original
      <3>3. ShownContentIsPermitted'
        BY <2>1 DEF PushInv, ShownContentIsPermitted, IsHidden, Original
      <3> QED  BY <3>1, <3>2, <3>3 DEF PushInv
    <2>3. SessionInv'
      BY <2>1 DEF SessionInv, WaitersAreHeld, Sessions, NoSession, NoResponse
    <2>4. RestInv'
      BY <2>1 DEF RestInv, StreamTypeOK, Responses, NoResponse
    <2> QED  BY <2>2, <2>3, <2>4
  <1>2. CASE ProtectionChanges
    <2>1. /\ UNCHANGED <<step, content, shown, removed, mxSession, keys, toDevice,
                         response, sent>>
          /\ StoreTypeOK'
          /\ protection' = ~protection
          /\ guarded' = IF protection' THEN guarded ELSE {}
      BY <1>2
      DEF ProtectionChanges, pushVars, sessionVars, RestInv, StoreTypeOK,
          storeVars
    <2>2. PushInv'
      BY <2>1
      DEF PushInv, ContentIsPermitted, ShownContentIsPermitted, IsShown,
          IsHidden
    <2>3. SessionInv'
      BY <2>1 DEF SessionInv, WaitersAreHeld
    <2>4. RestInv'
      BY <2>1 DEF RestInv, StreamTypeOK
    <2> QED  BY <2>2, <2>3, <2>4
  <1>3. ASSUME NEW m \in ToDeviceMessages, ToDeviceSent(m)  PROVE PartsInv'
    <2>1. /\ UNCHANGED <<step, content, shown, removed, mxSession, keys, response,
                         protection, guarded>>
          /\ StoreTypeOK'
          /\ sent' = sent \cup {m} /\ toDevice' = toDevice \cup {m}
      BY <1>3 DEF ToDeviceSent, pushVars, RestInv, StoreTypeOK, storeVars
    <2>2. PushInv'
      BY <2>1
      DEF PushInv, ContentIsPermitted, ShownContentIsPermitted, IsShown,
          IsHidden
    <2>3. SessionInv' /\ RestInv'
      BY <2>1 DEF SessionInv, WaitersAreHeld, RestInv, StreamTypeOK
    <2> QED  BY <2>2, <2>3
  <1> QED  BY <1>1, <1>2, <1>3

(***************************************************************************)
(* The theorems.                                                           *)
(***************************************************************************)

\* Every step keeps the invariant.
LEMMA NextKeepsInv == ASSUME ExtensionInv, [ExtensionNext]_vars PROVE ExtensionInv'
<1>1. PartsInv
  BY ExtensionInvParts DEF PartsInv
<1>2. ASSUME NEW e \in Events, DidReceive(e) \/ Callbacks(e)  PROVE PartsInv'
  BY <1>1, <1>2, DidReceiveKeepsInv, StoreOpenedKeepsInv, StoreFailsKeepsInv,
     EventFetchedKeepsInv, EventNotFetchedKeepsInv, RoomStateLoadedKeepsInv,
     VerificationFetchedKeepsInv
  DEF Callbacks
<1>3. ASSUME EventStream  PROVE PartsInv'
  BY <1>1, <1>3, SyncSucceedsKeepsInv, SyncFailsKeepsInv, StreamKeepsInv
  DEF EventStream
<1>4. ASSUME \/ ExtensionEnds \/ ProtectionChanges
             \/ \E m \in ToDeviceMessages : ToDeviceSent(m)
      PROVE  PartsInv'
  BY <1>1, <1>4, SurroundingsKeepInv
<1>5. ASSUME UNCHANGED vars  PROVE PartsInv'
  BY <1>1, <1>5
  DEF PartsInv, PushInv, SessionInv, RestInv, StreamTypeOK, WaitersAreHeld,
      StoreTypeOK,
      ContentIsPermitted, ShownContentIsPermitted, IsShown, IsHidden,
      vars, extensionVars, storeVars
<1>6. PartsInv'
  BY <1>2, <1>3, <1>4, <1>5 DEF ExtensionNext
<1>7. ExtensionInv' <=> (PushInv /\ SessionInv /\ RestInv)'
  BY DEF ExtensionInv, TypeOK, SessionIsShared, PushInv, SessionInv, RestInv,
         StreamTypeOK
<1> QED  BY <1>6, <1>7 DEF PartsInv

\* Every reachable state satisfies the inductive invariant: a push that waits
\* is waited for, and what a fallback would show is permitted.
THEOREM ExtensionInvariance == Spec => []ExtensionInv
<1>1. Init => ExtensionInv
  <2> SUFFICES ASSUME Init  PROVE ExtensionInv
    OBVIOUS
  <2> USE DEF Init, ExtensionInit
  <2>1. PushInv
    BY ContentType
    DEF PushInv, Steps, ContentIsPermitted, ShownContentIsPermitted, IsShown,
        IsHidden, Original, NotShown
  <2>2. SessionInv
    BY DEF SessionInv, Sessions, NoSession, WaitersAreHeld, NoResponse
  <2>3. RestInv
    BY DEF RestInv, StoreTypeOK, StreamTypeOK, Responses, NoResponse
  <2> QED  BY <2>1, <2>2, <2>3, ExtensionInvParts
<1> QED  BY <1>1, NextKeepsInv, PTL DEF Spec

\* With the application protected from the push to its notification, neither
\* sender, room nor text is given away; a text the user hides is never shown.
THEOREM ShownIsPermitted == Spec => []ShownContentIsPermitted
<1>1. ExtensionInv => ShownContentIsPermitted
  BY DEF ExtensionInv
<1> QED  BY <1>1, ExtensionInvariance, PTL

\* No push waits for a callback nobody will make: its store is being opened,
\* or the blocks of the running sync are its own.
THEOREM WaitersHeld == Spec => []WaitersAreHeld
<1>1. ExtensionInv => WaitersAreHeld
  BY DEF ExtensionInv
<1> QED  BY <1>1, ExtensionInvariance, PTL

(***************************************************************************)
(* What is lost, and what is removed.                                      *)
(***************************************************************************)

\* A push whose chain of callbacks is at its end was answered, and only an
\* encrypted one is left to a sync.
OnlySyncsLose ==
  /\ \A e \in Events : step[e] = "end" => IsShown(e)
  /\ \A e \in Events : step[e] \in {"sync", "dropped"} => e \in Encrypted
  /\ mxSession.onBackgroundSyncDone \in Encrypted \cup {NoEvent}

\* Why the content of a push may be marked to be removed.
MarkIsDue(e, c) ==
  c.marked => \/ Kind[e] \notin {"message", "call"}
              \/ IsHidden(e)
              \/ c.text = "protected"

\* A mark is due wherever it is, a push that is not fetched has none, only a
\* verification request is looked up, and what was removed was marked when it
\* was shown.
MarksAreDue ==
  /\ \A e \in Events : MarkIsDue(e, content[e]) /\ MarkIsDue(e, shown[e])
  /\ \A e \in Events : step[e] \in {"none", "setup"} => ~content[e].marked
  /\ \A e \in Events : step[e] = "verification" => Kind[e] = "verification"
  /\ \A e \in removed : IsShown(e) /\ shown[e].marked


LostInv == OnlySyncsLose /\ MarksAreDue

\* What is shown stays, and what is marked is shown.
LEMMA MarkedIsShown ==
  ASSUME NEW e \in Events, shown[e].marked
  PROVE  IsShown(e)
BY DEF IsShown, NotShown

\* A step of one push keeps what is said of the others, and of itself if it
\* ends with an answer, is left to a sync only when encrypted, and marks only
\* what is due.
LEMMA StepKeepsLostInv ==
  ASSUME PushInv, LostInv, NEW e \in Events, NEW next \in Steps \ {"none"},
         step' = [step EXCEPT ![e] = next],
         \A d \in Events \ {e} : content'[d] = content[d] /\ shown'[d] = shown[d],
         next = "end" => shown'[e] # NotShown,
         next \in {"sync", "dropped"} => e \in Encrypted,
         next = "setup" => ~content'[e].marked,
         next = "verification" => Kind[e] = "verification",
         MarkIsDue(e, content'[e]), MarkIsDue(e, shown'[e]),
         IsShown(e) => shown'[e] = shown[e],
         \A d \in removed' : d \in Events /\ (d \in removed \/ shown[d].marked),
         mxSession'.onBackgroundSyncDone \in Encrypted \cup {NoEvent}
  PROVE  LostInv'
<1>1. \A d \in Events : step'[d] = IF d = e THEN next ELSE step[d]
  BY DEF PushInv
<1>2. OnlySyncsLose'
  BY <1>1 DEF LostInv, OnlySyncsLose, IsShown
<1>3. \A d \in Events : MarkIsDue(d, content'[d]) /\ MarkIsDue(d, shown'[d])
  BY DEF LostInv, MarksAreDue
<1>4. \A d \in Events : step'[d] \in {"none", "setup"} => ~content'[d].marked
  BY <1>1 DEF LostInv, MarksAreDue
<1>6. \A d \in Events : step'[d] = "verification" => Kind[d] = "verification"
  BY <1>1 DEF LostInv, MarksAreDue
<1>5. \A d \in removed' : shown'[d] # NotShown /\ shown'[d].marked
  <2> SUFFICES ASSUME NEW d \in removed' PROVE shown'[d] # NotShown /\ shown'[d].marked
    OBVIOUS
  <2>1. d \in Events /\ IsShown(d) /\ shown[d].marked
    BY MarkedIsShown DEF LostInv, MarksAreDue
  <2>2. shown'[d] = shown[d]
    BY <2>1
  <2> QED BY <2>1, <2>2 DEF IsShown
<1> QED BY <1>2, <1>3, <1>4, <1>5, <1>6
        DEF LostInv, MarksAreDue, MarkIsDue, IsShown, IsHidden

\* So does calling a content handler.
LEMMA AnswerKeepsLostInv ==
  ASSUME PushInv, LostInv, NEW e \in Events, NEW new \in Contents,
         NEW next \in {"room", "verification", "end"},
         Answer(e, new, next), MarkIsDue(e, new),
         next = "verification" => Kind[e] = "verification",
         \A d \in removed' : d \in Events /\ (d \in removed \/ shown[d].marked),
         mxSession'.onBackgroundSyncDone \in Encrypted \cup {NoEvent}
  PROVE  LostInv'
<1>1. /\ next \in Steps \ {"none", "setup", "sync", "dropped"}
      /\ step' = [step EXCEPT ![e] = next]
      /\ content' = [content EXCEPT ![e] = new]
      /\ shown' = IF IsShown(e) THEN shown ELSE [shown EXCEPT ![e] = new]
  BY DEF Answer, Steps
<1>2. /\ content'[e] = new
      /\ IsShown(e) => shown'[e] = shown[e]
      /\ ~IsShown(e) => shown'[e] = new
  BY <1>1 DEF PushInv
<1>3. \A d \in Events \ {e} : content'[d] = content[d] /\ shown'[d] = shown[d]
  BY <1>1 DEF PushInv
<1>4. new # NotShown
  BY DEF Contents, Texts, NotShown
<1>5. shown'[e] # NotShown
  BY <1>2, <1>4 DEF IsShown
<1>6. MarkIsDue(e, content'[e]) /\ MarkIsDue(e, shown'[e])
  BY <1>2 DEF LostInv, MarksAreDue
<1> QED BY <1>1, <1>2, <1>3, <1>5, <1>6, StepKeepsLostInv

\* And so does a move that leaves what is composed and shown.
LEMMA MoveKeepsLostInv ==
  ASSUME PushInv, LostInv, NEW e \in Events,
         NEW next \in Steps \ {"none", "setup", "verification"},
         step' = [step EXCEPT ![e] = next], UNCHANGED <<content, shown>>,
         next = "end" => IsShown(e),
         next \in {"sync", "dropped"} => e \in Encrypted,
         \A d \in removed' : d \in Events /\ (d \in removed \/ shown[d].marked),
         mxSession'.onBackgroundSyncDone \in Encrypted \cup {NoEvent}
  PROVE  LostInv'
<1>1. MarkIsDue(e, content'[e]) /\ MarkIsDue(e, shown'[e])
  BY DEF LostInv, MarksAreDue
<1> QED BY <1>1, StepKeepsLostInv DEF IsShown

\* What is composed is marked when that is due.
LEMMA ComposedIsDue ==
  ASSUME NEW e \in Events, content[e] \in Contents
  PROVE  /\ MarkIsDue(e, Composed(e, Body(e)))
         /\ Kind[e] \notin {"message", "call"} =>
              \A text : /\ MarkIsDue(e, Composed(e, text))
                        /\ MarkIsDue(e, Unwanted(content[e]))
<1>1. ASSUME Kind[e] \in {"message", "call"}, ~IsHidden(e), ~protection
      PROVE  ~Composed(e, Body(e)).marked
  <2>1. Body(e) \in {"message", "call"}
    BY <1>1 DEF Body, LooksUpVerification
  <2> QED BY <1>1, <2>1 DEF Composed, IsMarked
<1>2. ASSUME Kind[e] \in {"message", "call"}, protection
      PROVE  Composed(e, Body(e)).text = "protected"
  BY <1>2 DEF Composed, Body
<1> QED BY <1>1, <1>2 DEF MarkIsDue

\* What a step leaves of the session and of the notifications removed.
LEMMA NothingElse ==
  ASSUME LostInv, SessionInv, RestInv
  PROVE  /\ removed' = removed =>
              \A d \in removed' : d \in Events /\ (d \in removed \/ shown[d].marked)
         /\ mxSession'.onBackgroundSyncDone = mxSession.onBackgroundSyncDone =>
              mxSession'.onBackgroundSyncDone \in Encrypted \cup {NoEvent}
BY DEF LostInv, OnlySyncsLose, RestInv

\* A content handler called with the best attempt.
LEMMA FallBackKeepsLostInv ==
  ASSUME PushInv, LostInv, NEW e \in Events, FallBack(e),
         \A d \in removed' : d \in Events /\ (d \in removed \/ shown[d].marked),
         mxSession'.onBackgroundSyncDone \in Encrypted \cup {NoEvent}
  PROVE  LostInv'
<1> DEFINE next == IF IsComposing(e) THEN step[e] ELSE "end"
<1>1. content[e] \in Contents /\ MarkIsDue(e, content[e])
  BY DEF PushInv, LostInv, MarksAreDue
<1>2. /\ next \in {"room", "verification", "end"}
      /\ next = "verification" => Kind[e] = "verification"
  BY DEF IsComposing, LostInv, MarksAreDue
<1>3. Answer(e, content[e], next)
  BY DEF FallBack
<1> HIDE DEF next
<1> QED BY <1>1, <1>2, <1>3, AnswerKeepsLostInv

\* An event processed up to the room's state.
LEMMA ProcessEventKeepsLostInv ==
  ASSUME PushInv, LostInv, NEW e \in Events, ProcessEvent(e),
         \A d \in removed' : d \in Events /\ (d \in removed \/ shown[d].marked),
         mxSession'.onBackgroundSyncDone \in Encrypted \cup {NoEvent}
  PROVE  LostInv'
<1>1. CASE Kind[e] = "empty"
  <2>1. Unwanted(content[e]) \in Contents
    BY ContentType DEF PushInv
  <2>2. MarkIsDue(e, Unwanted(content[e]))
    BY <1>1 DEF MarkIsDue
  <2> QED BY <1>1, <2>1, <2>2, AnswerKeepsLostInv DEF ProcessEvent
<1>2. CASE Kind[e] # "empty"
  BY <1>2, MoveKeepsLostInv DEF ProcessEvent, Steps
<1> QED BY <1>1, <1>2

\* The event is asked for; the best attempt had no mark.
LEMMA FetchKeepsLostInv ==
  ASSUME PushInv, LostInv, NEW e \in Events, step[e] \in {"none", "setup"}, Fetch(e),
         \A d \in removed' : d \in Events /\ (d \in removed \/ shown[d].marked),
         mxSession'.onBackgroundSyncDone \in Encrypted \cup {NoEvent}
  PROVE  LostInv'
<1>1. PICK new \in Preprocessed(e) : content' = [content EXCEPT ![e] = new]
  BY DEF Fetch
<1>2. ~content[e].marked /\ content[e] \in Contents
  BY DEF PushInv, LostInv, MarksAreDue
<1>3. ~new.marked
  BY <1>2 DEF Preprocessed, Contents
<1>4. content'[e] = new /\ shown' = shown
      /\ \A d \in Events \ {e} : content'[d] = content[d]
  BY <1>1 DEF PushInv, Fetch
<1>5. MarkIsDue(e, content'[e]) /\ MarkIsDue(e, shown'[e])
  BY <1>3, <1>4 DEF MarkIsDue, LostInv, MarksAreDue
<1> QED BY <1>4, <1>5, StepKeepsLostInv DEF Fetch, Steps

\* The steps of a push.
LEMMA PushKeepsLostInv ==
  ASSUME PartsInv, LostInv, NEW e \in Events, DidReceive(e) \/ Callbacks(e)
  PROVE  LostInv'
<1> USE DEF PartsInv
<1> DEFINE Quiet == \A d \in removed' : d \in Events /\ (d \in removed \/ shown[d].marked)
           Bound == mxSession'.onBackgroundSyncDone \in Encrypted \cup {NoEvent}
<1>1. CASE DidReceive(e)
  <2>1. /\ step[e] = "none" /\ content[e] = Original /\ Quiet
    BY <1>1 DEF DidReceive, RestInv
  <2>2. CASE /\ mxSession' = [NoSession EXCEPT !.store = "opening"]
             /\ step' = [step EXCEPT ![e] = "setup"]
             /\ UNCHANGED <<content, shown>>
    <3>1. Bound
      BY <2>2 DEF NoSession
    <3>2. ~content'[e].marked /\ MarkIsDue(e, content'[e]) /\ MarkIsDue(e, shown'[e])
      BY <2>1, <2>2 DEF LostInv, MarksAreDue, Original
    <3> QED BY <2>1, <2>2, <3>1, <3>2, StepKeepsLostInv DEF Steps
  <2>3. CASE Fetch(e) /\ UNCHANGED mxSession
    BY <2>1, <2>3, NothingElse, FetchKeepsLostInv
  <2>4. CASE FallBack(e) /\ UNCHANGED mxSession
    BY <2>1, <2>4, NothingElse, FallBackKeepsLostInv
  <2> QED BY <1>1, <2>2, <2>3, <2>4 DEF DidReceive
<1>2. CASE StoreOpened(e)
  <2>1. PICK crypto \in BOOLEAN :
          mxSession' = [mxSession EXCEPT !.store = "ready", !.crypto = crypto,
                                         !.backgroundSync = FALSE]
    BY <1>2 DEF StoreOpened
  <2>2. mxSession'.onBackgroundSyncDone = mxSession.onBackgroundSyncDone
    BY <2>1 DEF SessionInv, Sessions
  <2> QED BY <1>2, <2>2, NothingElse, FetchKeepsLostInv DEF StoreOpened
<1>3. CASE StoreFails(e)
  <2>1. mxSession'.onBackgroundSyncDone = mxSession.onBackgroundSyncDone
    BY <1>3 DEF StoreFails, SessionInv, Sessions
  <2> QED BY <1>3, <2>1, NothingElse, FallBackKeepsLostInv DEF StoreFails
<1>4. CASE EventFetched(e)
  <2>1. Quiet
    BY <1>4, NothingElse DEF EventFetched
  <2>2. CASE HandleEncryption(e)
    <3>1. CASE e \notin Encrypted \/ CanDecrypt(e)
      BY <2>1, <2>2, <3>1, NothingElse, ProcessEventKeepsLostInv DEF HandleEncryption
    <3>2. CASE ~(e \notin Encrypted \/ CanDecrypt(e))
      <4>1. Bound
        BY <2>2, <3>2, NothingElse DEF HandleEncryption, Syncing, SessionInv, Sessions
      <4>2. \E next \in {"sync", "dropped"} : step' = [step EXCEPT ![e] = next]
        BY <2>2, <3>2 DEF HandleEncryption
      <4> QED BY <2>1, <2>2, <3>2, <4>1, <4>2, MoveKeepsLostInv DEF HandleEncryption, Steps
    <3> QED BY <3>1, <3>2
  <2>3. CASE Released(e) /\ UNCHANGED mxSession
    BY <2>1, <2>3, NothingElse, MoveKeepsLostInv DEF Released, Steps
  <2> QED BY <1>4, <2>2, <2>3 DEF EventFetched
<1>5. CASE EventNotFetched(e)
  BY <1>5, NothingElse, FallBackKeepsLostInv DEF EventNotFetched, sessionVars
<1>6. CASE RoomStateLoaded(e)
  <2> DEFINE new == IF Kind[e] = "ignored" THEN Unwanted(content[e])
                    ELSE Composed(e, Body(e))
             next == IF LooksUpVerification(e) THEN "verification" ELSE "end"
  <2>1. Answer(e, new, next) /\ UNCHANGED <<removed, mxSession>>
    BY <1>6 DEF RoomStateLoaded, sessionVars
  <2>2. new \in Contents
    BY ContentType, ComposedType, BodyType DEF PushInv
  <2>3. MarkIsDue(e, new)
    BY ComposedIsDue DEF PushInv
  <2>4. /\ next \in {"room", "verification", "end"}
        /\ next = "verification" => Kind[e] = "verification"
    BY DEF LooksUpVerification
  <2> HIDE DEF new, next
  <2> QED BY <2>1, <2>2, <2>3, <2>4, NothingElse, AnswerKeepsLostInv
<1>7. CASE VerificationFetched(e)
  <2>1. PICK text \in {"verification", "none"} : Answer(e, Composed(e, text), "end")
    BY <1>7 DEF VerificationFetched
  <2>2. Composed(e, text) \in Contents /\ UNCHANGED <<removed, mxSession>>
    BY <1>7, ComposedType DEF PushInv, Texts, VerificationFetched, sessionVars
  <2>3. MarkIsDue(e, Composed(e, text))
    <3>1. content[e] \in Contents /\ Kind[e] = "verification"
      BY <1>7 DEF VerificationFetched, PushInv, LostInv, MarksAreDue
    <3> QED BY <3>1, ComposedIsDue
  <2> QED BY <2>1, <2>2, <2>3, NothingElse, AnswerKeepsLostInv
<1> QED BY <1>1, <1>2, <1>3, <1>4, <1>5, <1>6, <1>7 DEF Callbacks


\* What the end of a sync says of the blocks the session holds.
LEMMA AfterSyncBlocks ==
  ASSUME SessionInv, NEW s, s = [mxSession EXCEPT !.onBackgroundSyncDone = NoEvent]
  PROVE  AfterSync(s).onBackgroundSyncDone = NoEvent
<1>1. s \in Sessions /\ s.onBackgroundSyncDone = NoEvent
  BY DEF SessionInv, Sessions
<1> QED BY <1>1 DEF AfterSync, Sessions

\* The block of a sync that caught up processes its push, which is encrypted.
LEMMA SyncSucceedsKeepsLostInv ==
  ASSUME PartsInv, LostInv, SyncSucceeds
  PROVE  LostInv'
  <1> USE DEF PartsInv
  <1> DEFINE e == mxSession.onBackgroundSyncDone
  <1>1. /\ \A d \in removed' : d \in Events /\ (d \in removed \/ shown[d].marked)
        /\ mxSession'.onBackgroundSyncDone \in Encrypted \cup {NoEvent}
    BY AfterSyncBlocks, NothingElse DEF SyncSucceeds
  <1>2. CASE e = NoEvent
    BY <1>1, <1>2
    DEF SyncSucceeds, pushVars, LostInv, OnlySyncsLose, MarksAreDue, MarkIsDue,
        IsShown, IsHidden
  <1>3. CASE e # NoEvent
    <2>1. e \in Events /\ e \in Encrypted
      BY <1>3 DEF SessionInv, Sessions, LostInv, OnlySyncsLose
    <2>2. CASE Released(e)
      BY <1>1, <2>1, <2>2, MoveKeepsLostInv DEF Released, Steps
    <2>3. CASE ProcessEvent(e)
      BY <1>1, <2>1, <2>3, ProcessEventKeepsLostInv
    <2>4. CASE /\ step' = [step EXCEPT ![e] = "dropped"]
               /\ UNCHANGED <<content, shown>>
      BY <1>1, <2>1, <2>4, MoveKeepsLostInv DEF Steps
    <2> QED BY <1>3, <2>2, <2>3, <2>4 DEF SyncSucceeds
  <1> QED BY <1>2, <1>3

\* The block of a sync that failed answers its push.
LEMMA SyncFailsKeepsLostInv ==
  ASSUME PartsInv, LostInv, SyncFails
  PROVE  LostInv'
  <1> USE DEF PartsInv
  <1> DEFINE e == mxSession.onBackgroundSyncFail
             failed == [mxSession EXCEPT !.onBackgroundSyncFail = NoEvent]
  <1>1. mxSession'.onBackgroundSyncDone = mxSession.onBackgroundSyncDone
    <2>1. /\ failed \in Sessions
          /\ failed.onBackgroundSyncDone = mxSession.onBackgroundSyncDone
      BY DEF SessionInv, Sessions
    <2>2. \/ mxSession' = [failed EXCEPT !.request = "none", !.backgroundSync = FALSE]
          \/ \E retry \in {"sync", "poll"} :
               mxSession' = [failed EXCEPT !.request = retry]
      BY DEF SyncFails
    <2> HIDE DEF failed
    <2> QED BY <2>1, <2>2 DEF Sessions
  <1>2. /\ \A d \in removed' : d \in Events /\ (d \in removed \/ shown[d].marked)
        /\ mxSession'.onBackgroundSyncDone \in Encrypted \cup {NoEvent}
    BY <1>1, NothingElse DEF SyncFails
  <1>3. CASE e = NoEvent
    BY <1>2, <1>3
    DEF SyncFails, pushVars, LostInv, OnlySyncsLose, MarksAreDue, MarkIsDue,
        IsShown, IsHidden
  <1>4. CASE e # NoEvent
    <2>1. e \in Events
      BY <1>4 DEF SessionInv, Sessions
    <2>2. CASE Released(e)
      BY <1>2, <2>1, <2>2, MoveKeepsLostInv DEF Released, Steps
    <2>3. CASE FallBack(e)
      BY <1>2, <2>1, <2>3, FallBackKeepsLostInv
    <2> QED BY <1>4, <2>2, <2>3 DEF SyncFails
  <1> QED BY <1>3, <1>4

\* The process ends: the system shows what was composed for no push.
LEMMA ExtensionEndsKeepsLostInv ==
  ASSUME PartsInv, LostInv, ExtensionEnds
  PROVE  LostInv'
  <1> USE DEF PartsInv
  <1>1. /\ \A d \in Events : /\ step'[d] \in {"none", "end"}
                             /\ step'[d] = "end" => step[d] # "none"
                             /\ content'[d] = Original
                             /\ shown'[d] = IF step[d] # "none" /\ ~IsShown(d)
                                            THEN Original ELSE shown[d]
        /\ removed' = removed
        /\ mxSession'.onBackgroundSyncDone = NoEvent
    BY DEF ExtensionEnds, NoSession
  <1>2. Original # NotShown /\ ~Original.marked
    BY DEF Original, NotShown
  <1>3. OnlySyncsLose'
    BY <1>1, <1>2 DEF OnlySyncsLose, IsShown
  <1>4. \A d \in Events : MarkIsDue(d, content'[d]) /\ MarkIsDue(d, shown'[d])
    BY <1>1, <1>2 DEF LostInv, MarksAreDue, MarkIsDue
  <1>5. \A d \in removed' : shown'[d] # NotShown /\ shown'[d].marked
    BY <1>1 DEF LostInv, MarksAreDue, RestInv, IsShown
  <1> QED BY <1>1, <1>2, <1>3, <1>4, <1>5
          DEF LostInv, MarksAreDue, MarkIsDue, IsShown, IsHidden

\* What answers no push.
LEMMA QuietStepsKeepLostInv ==
  ASSUME LostInv,
         \/ ServerResponds \/ ToDeviceReceived \/ CatchUpContinues
         \/ UnknownToken \/ ProtectionChanges
         \/ (\E m \in ToDeviceMessages : ToDeviceSent(m)) \/ UNCHANGED vars,
         SessionInv
  PROVE  LostInv'
<1>1. /\ UNCHANGED <<step, content, shown, removed>>
      /\ mxSession'.onBackgroundSyncDone = mxSession.onBackgroundSyncDone
  BY DEF ServerResponds, ToDeviceReceived, CatchUpContinues, UnknownToken,
         ProtectionChanges, ToDeviceSent, vars,
         extensionVars, pushVars, sessionVars, SessionInv, Sessions
<1> QED BY <1>1 DEF LostInv, OnlySyncsLose, MarksAreDue, MarkIsDue, IsShown, IsHidden

\* Every step keeps it.
LEMMA NextKeepsLostInv ==
  ASSUME ExtensionInv, LostInv, [ExtensionNext]_vars
  PROVE  LostInv'
<1>1. PartsInv
  BY ExtensionInvParts DEF PartsInv
<1>2. ASSUME NEW e \in Events, DidReceive(e) \/ Callbacks(e)  PROVE LostInv'
  BY <1>1, <1>2, PushKeepsLostInv
<1>3. ASSUME EventStream \/ ExtensionEnds  PROVE LostInv'
  BY <1>1, <1>3, SyncSucceedsKeepsLostInv, SyncFailsKeepsLostInv,
     ExtensionEndsKeepsLostInv, QuietStepsKeepLostInv
  DEF EventStream, PartsInv
<1>4. ASSUME \/ ProtectionChanges
             \/ \E m \in ToDeviceMessages : ToDeviceSent(m)
             \/ UNCHANGED vars
      PROVE  LostInv'
  BY <1>1, <1>4, QuietStepsKeepLostInv DEF PartsInv
<1> QED BY <1>2, <1>3, <1>4 DEF ExtensionNext

\* It holds at first.
LEMMA InitLostInv == Init => LostInv
BY DEF Init, ExtensionInit, LostInv, OnlySyncsLose, MarksAreDue, MarkIsDue,
       Original, NotShown, NoSession

\* So it holds in every reachable state.
LEMMA LostInvariance == Spec => [](ExtensionInv /\ LostInv)
<1>1. Init => LostInv
  BY InitLostInv
<1>2. ExtensionInv /\ LostInv /\ [ExtensionNext]_vars => LostInv'
  BY NextKeepsLostInv
<1> QED BY <1>1, <1>2, ExtensionInvariance, PTL DEF Spec

\* A push that has not been answered is on its way -- its store is being
\* opened, its event fetched or its room's state asked for -- or is encrypted
\* and was left to the background sync.
PushIsUnderWay ==
  \A e \in Events : step[e] # "none" /\ ~IsShown(e) =>
    \/ step[e] \in {"setup", "fetch", "room"}
    \/ step[e] \in {"sync", "dropped"} /\ e \in Encrypted

\* The chain of callbacks of a push ends with its answer; only the pushes of
\* encrypted events are left to backgroundSync, which may call no block.
THEOREM OnlyEncryptedPushesAreDropped == Spec => []PushIsUnderWay
<1>1. ExtensionInv /\ LostInv => PushIsUnderWay
  BY DEF ExtensionInv, TypeOK, Steps, ContentIsPermitted, LostInv, OnlySyncsLose,
         PushIsUnderWay
<1> QED BY <1>1, LostInvariance, PTL

\* What is removed when a push comes or the application is foregrounded was
\* no message and no call, or only said that there is one.
WantedIsNotRemoved ==
  \A e \in removed : \/ Kind[e] \notin {"message", "call"}
                     \/ IsHidden(e)
                     \/ shown[e].text = "protected"

\* A message or a call whose content is shown is never removed: of what has a
\* text, only stickers and the requests that were looked up are.
THEOREM ShownMessagesStay == Spec => []WantedIsNotRemoved
<1>1. ExtensionInv /\ LostInv => WantedIsNotRemoved
  BY DEF ExtensionInv, TypeOK, LostInv, MarksAreDue, MarkIsDue, WantedIsNotRemoved
<1> QED BY <1>1, LostInvariance, PTL

=============================================================================
