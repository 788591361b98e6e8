-------------------------- MODULE ShareExtension --------------------------
(***************************************************************************)
(* The share extension (src/RiotShareExtension): the user picks a room,    *)
(* every attachment of the host application is loaded by its item          *)
(* provider and sent, a dispatch group counts the attachments still on     *)
(* their way, and its notify block either shows a failure or completes the *)
(* request, which ends the process.                                        *)
(*                                                                         *)
(* When every attachment is an image they are first collected in the       *)
(* pendingImages of the manager, and sent together once all are loaded,    *)
(* after a prompt for their size if the first one can be reduced.          *)
(* Otherwise each attachment is sent as soon as it is loaded.              *)
(*                                                                         *)
(* The handlers of images run on the threads of their providers, all the   *)
(* rest on the main queue; the loop that asks for the attachments keeps    *)
(* the main queue busy.                                                    *)
(***************************************************************************)
EXTENDS Integers, FiniteSets

CONSTANTS
  Attachments,  \* what the host application shares
  MaxShares     \* bound: how often the user picks a room in one session

ASSUME AttachmentsAssumption == IsFiniteSet(Attachments)
ASSUME MaxSharesAssumption == MaxShares \in Nat

Shares == 1..MaxShares

VARIABLES
  images,         \* the attachments loaded as images
  allImages,      \* areAllAttachmentsImages: image files, loaded as files, too
  shares,         \* how many times content was sent to a room
  item,           \* item[s][a]: how far attachment a is in share s
  group,          \* group[s]: the count of the dispatch group requestsGroup
  firstError,     \* firstError[s]: firstRequestError is set
  notified,       \* the shares whose group has run its notify block
  isLoaded,       \* the attachments whose provider is marked as loaded
  pendingImages,  \* the images collected by the manager, of whatever share
  providers,      \* providers[s]: pendingImagesItemProviders
  batch,          \* batch[s][a]: what the handler of a has sent together
  alert,          \* the alert on screen: the choice of a room, or a failure
  prompt,         \* the size prompt on screen, by the handler that made it
  hud,            \* "sending" is displayed, the rooms cannot be tapped
  ended           \* how the process ended

vars == <<images, allImages, shares, item, group, firstError, notified,
          isLoaded, pendingImages, providers, batch, alert, prompt, hud, ended>>

contentVars == <<images, allImages>>

loadVars == <<isLoaded, pendingImages, providers, batch>>
screenVars == <<alert, prompt>>

Handlers == Shares \X Attachments

OnTheirWay == {"loading", "fetched", "sending"}
Outcomes == {"sent", "failed", "refused"}
ItemStates == OnTheirWay \cup Outcomes \cup {"idle", "pending", "unloaded"}

\* The handlers of images collect what they load instead of sending it.
Collecting == allImages /\ images # {}

\* Some attachment of share s has not been asked for: the loop is running.
Asking(s) == s <= shares /\ \E a \in Attachments : item[s][a] = "idle"
MainFree == \A s \in Shares : ~Asking(s)
ScreenFree == alert = "none" /\ prompt = {}
FullyLoaded == isLoaded = Attachments

Running == ended = "none"

Init ==
  /\ images \in SUBSET Attachments
  /\ allImages \in BOOLEAN
  /\ images = Attachments => allImages
  /\ shares = 0
  /\ item = [s \in Shares |-> [a \in Attachments |-> "idle"]]
  /\ group = [s \in Shares |-> 0]
  /\ firstError = [s \in Shares |-> FALSE]
  /\ notified = {}
  /\ isLoaded = {}
  /\ pendingImages = {}
  /\ providers = [s \in Shares |-> {}]
  /\ batch = [s \in Shares |-> [a \in Attachments |-> {}]]
  /\ alert = "none"
  /\ prompt = {}
  /\ hud = FALSE
  /\ ended = "none"

-----------------------------------------------------------------------------
(* What the handlers have in common *)

\* Mutant of Leave: an empty group is left without notice.
LeaveAnyway(s, n) ==
  /\ group' = [group EXCEPT ![s] = @ - n]
  /\ UNCHANGED ended

\* dispatch_group_leave, n times: leaving an empty group is a crash.
Leave(s, n) ==
  IF n <= group[s]
    THEN /\ group' = [group EXCEPT ![s] = @ - n]
         /\ UNCHANGED ended
    ELSE /\ ended' = "crashed"
         /\ UNCHANGED group

\* Mutant of Conclude: the last answer counts, not the first error.
ConcludeWithLast(s, withError) ==
  /\ firstError' = [firstError EXCEPT ![s] = withError]
  /\ Leave(s, 1)

\* requestSuccess and requestFailure: only an error that is not nil is kept.
Conclude(s, withError) ==
  /\ firstError' = [firstError EXCEPT ![s] = @ \/ withError]
  /\ Leave(s, 1)

Becomes(s, a, state) == item' = [item EXCEPT ![s][a] = state]

-----------------------------------------------------------------------------
(* The user picks a room *)

RoomTapped ==
  /\ Running /\ MainFree /\ ScreenFree /\ ~hud
  /\ shares < MaxShares
  /\ alert' = "room"
  /\ UNCHANGED <<contentVars, shares, item, group, firstError, notified,
                 loadVars, prompt, hud, ended>>

RoomCancelled ==
  /\ Running /\ MainFree
  /\ alert = "room"
  /\ alert' = "none"
  /\ UNCHANGED <<contentVars, shares, item, group, firstError, notified,
                 loadVars, prompt, hud, ended>>

\* The store opens and sendContentToRoom starts: what an earlier share has
\* collected is dropped.
SendTapped ==
  /\ Running /\ MainFree
  /\ alert = "room"
  /\ alert' = "none"
  /\ shares' = shares + 1
  /\ pendingImages' = {}
  /\ UNCHANGED <<contentVars, item, group, firstError, notified, isLoaded,
                 providers, batch, prompt, hud, ended>>

\* One turn of the loop: enter the group, ask the provider.
AskForItem(s, a) ==
  /\ Running
  /\ s <= shares
  /\ item[s][a] = "idle"
  /\ group' = [group EXCEPT ![s] = @ + 1]
  /\ isLoaded' = isLoaded \ (images \cap {a})
  /\ Becomes(s, a, "loading")
  /\ UNCHANGED <<contentVars, shares, firstError, notified, pendingImages,
                 providers, batch, screenVars, hud, ended>>

-----------------------------------------------------------------------------
(* Texts, links, files and videos: handled on the main queue *)

\* The item is there: it is sent.
OtherLoaded(s, a) ==
  /\ Running /\ MainFree
  /\ a \notin images
  /\ item[s][a] = "loading"
  /\ Becomes(s, a, "sending")
  /\ hud' = TRUE
  /\ UNCHANGED <<contentVars, shares, group, firstError, notified, loadVars,
                 screenVars, ended>>

\* Mutant of OtherNotLoaded: returns without calling the failure block.
OtherNotLoadedReturns(s, a) ==
  /\ Running /\ MainFree
  /\ a \notin images
  /\ item[s][a] = "loading"
  /\ Becomes(s, a, "unloaded")
  /\ hud' = TRUE
  /\ UNCHANGED <<contentVars, shares, group, firstError, notified, loadVars,
                 screenVars, ended>>

\* The item is nil: the failure block is called without an error.
OtherNotLoaded(s, a) ==
  /\ Running /\ MainFree
  /\ a \notin images
  /\ item[s][a] = "loading"
  /\ Becomes(s, a, "unloaded")
  /\ hud' = TRUE
  /\ Conclude(s, FALSE)
  /\ UNCHANGED <<contentVars, shares, notified, loadVars, screenVars>>

-----------------------------------------------------------------------------
(* Images: handled on the thread of their provider *)

\* The handler starts: the provider is marked before the bytes are read.
ImageFetched(s, a) ==
  /\ Running
  /\ a \in images
  /\ item[s][a] = "loading"
  /\ isLoaded' = isLoaded \cup {a}
  /\ Becomes(s, a, "fetched")
  /\ UNCHANGED <<contentVars, shares, group, firstError, notified,
                 pendingImages, providers, batch, screenVars, hud, ended>>

\* An image among other attachments is sent at once.
MixedImageRead(s, a) ==
  /\ Running
  /\ ~allImages
  /\ item[s][a] = "fetched"
  /\ Becomes(s, a, "sending")
  /\ hud' = TRUE
  /\ UNCHANGED <<contentVars, shares, group, firstError, notified, loadVars,
                 screenVars, ended>>

\* Its type cannot be determined: the failure block, without an error.
MixedImageRefused(s, a) ==
  /\ Running
  /\ ~allImages
  /\ item[s][a] = "fetched"
  /\ Becomes(s, a, "refused")
  /\ hud' = TRUE
  /\ Conclude(s, FALSE)
  /\ UNCHANGED <<contentVars, shares, notified, loadVars, screenVars>>

\* Mutant of MixedImageUnreadable: leaves as if images were collected.
MixedImageLeavesTwice(s, a) ==
  /\ Running
  /\ ~allImages
  /\ item[s][a] = "fetched"
  /\ Becomes(s, a, "unloaded")
  /\ Leave(s, 2)
  /\ UNCHANGED <<contentVars, shares, firstError, notified, loadVars,
                 screenVars, hud>>

\* Its bytes cannot be read.
MixedImageUnreadable(s, a) ==
  /\ Running
  /\ ~allImages
  /\ item[s][a] = "fetched"
  /\ Becomes(s, a, "unloaded")
  /\ Leave(s, 1)
  /\ UNCHANGED <<contentVars, shares, firstError, notified, loadVars,
                 screenVars, hud>>

\* sendImageDatas sends only if there are as many images, of whatever share,
\* as providers of this share.
CanSendTogether(collected, collectors) ==
  /\ collected # {}
  /\ Cardinality(collected) = Cardinality(collectors)

\* Two handlers that add to one array at the same time may lose an addition.
Added(set, x, concurrent) ==
  {set \cup {x}} \cup IF concurrent THEN {set} ELSE {}

\* Another handler of an image is running.
Concurrent(s, a) ==
  \E h \in Handlers : h # <<s, a>> /\ item[h[1]][h[2]] = "fetched"

\* The end of the handler of an image among images, which has left the group
\* `before` times already. Unless all providers are marked as loaded it leaves
\* the group. Otherwise it shows the prompt, which is lost if something is on
\* screen; or, the first image being small, sends the batch without a prompt.
AfterImage(s, a, collected, collectors, before) ==
  \/ /\ ~FullyLoaded
     /\ Leave(s, before + 1)
     /\ UNCHANGED <<batch, prompt, hud>>
  \/ /\ FullyLoaded /\ collected = {}
     /\ Leave(s, before)
     /\ UNCHANGED <<batch, prompt, hud>>
  \/ /\ FullyLoaded /\ collected # {}
     /\ Leave(s, before)
     /\ prompt' = IF ScreenFree THEN {<<s, a>>} ELSE prompt
     /\ UNCHANGED <<batch, hud>>
  \/ /\ FullyLoaded /\ CanSendTogether(collected, collectors)
     /\ Leave(s, before)
     /\ batch' = [batch EXCEPT ![s][a] = collected]
     /\ hud' = TRUE
     /\ UNCHANGED prompt
  \/ /\ FullyLoaded /\ collected # {}
     /\ ~CanSendTogether(collected, collectors)
     /\ Leave(s, before + 1)
     /\ UNCHANGED <<batch, prompt, hud>>

\* The image is collected.
ImageCollected(s, a) ==
  /\ Running
  /\ allImages
  /\ item[s][a] = "fetched"
  /\ Becomes(s, a, "pending")
  /\ \E collected \in Added(pendingImages, <<s, a>>, Concurrent(s, a)),
        collectors \in Added(providers[s], a, Concurrent(s, a)) :
       /\ pendingImages' = collected
       /\ providers' = [providers EXCEPT ![s] = collectors]
       /\ AfterImage(s, a, collected, collectors, 0)
  /\ UNCHANGED <<contentVars, shares, firstError, notified, isLoaded, alert>>

\* Its bytes cannot be read: the handler leaves the group and goes on.
ImageUnreadable(s, a) ==
  /\ Running
  /\ allImages
  /\ item[s][a] = "fetched"
  /\ Becomes(s, a, "unloaded")
  /\ AfterImage(s, a, pendingImages, providers[s], 1)
  /\ UNCHANGED <<contentVars, shares, firstError, notified, isLoaded,
                 pendingImages, providers, alert>>

-----------------------------------------------------------------------------
(* The size prompt *)

\* Mutant of NotifyPosted: the block is posted to the queue, not to the group.
NotifyWithoutGroup(s) == s <= shares /\ s \notin notified /\ ~Asking(s)

\* The group is empty after the loop: its notify block is in the main queue,
\* before whatever the user does next.
NotifyPosted(s) ==
  s <= shares /\ s \notin notified /\ ~Asking(s) /\ group[s] = 0

\* A size is chosen: what is collected now is sent.
PromptAccepted(s, a) ==
  /\ Running /\ MainFree
  /\ <<s, a>> \in prompt /\ ~NotifyPosted(s)
  /\ prompt' = {}
  /\ IF CanSendTogether(pendingImages, providers[s])
       THEN /\ batch' = [batch EXCEPT ![s][a] = pendingImages]
            /\ hud' = TRUE
            /\ UNCHANGED <<group, ended>>
       ELSE /\ Leave(s, 1)
            /\ UNCHANGED <<batch, hud>>
  /\ UNCHANGED <<contentVars, shares, item, firstError, notified, isLoaded,
                 pendingImages, providers, alert>>

\* Cancel has no handler.
PromptCancelled(s, a) ==
  /\ Running /\ MainFree
  /\ <<s, a>> \in prompt
  /\ prompt' = {}
  /\ UNCHANGED <<contentVars, shares, item, group, firstError, notified,
                 loadVars, alert, hud, ended>>

-----------------------------------------------------------------------------
(* The answers of the server *)

Sent(s, a) ==
  /\ Running /\ MainFree
  /\ item[s][a] = "sending"
  /\ Becomes(s, a, "sent")
  /\ Conclude(s, FALSE)
  /\ UNCHANGED <<contentVars, shares, notified, loadVars, screenVars, hud>>

SendFailed(s, a) ==
  /\ Running /\ MainFree
  /\ item[s][a] = "sending"
  /\ Becomes(s, a, "failed")
  /\ Conclude(s, TRUE)
  /\ UNCHANGED <<contentVars, shares, notified, loadVars, screenVars, hud>>

\* The last image of a batch is answered; the share hears of the first error.
BatchEnds(s, a) ==
  /\ Running /\ MainFree
  /\ batch[s][a] # {}
  /\ \E outcome \in [batch[s][a] -> Outcomes] :
       /\ item' = [t \in Shares |-> [b \in Attachments |->
                     IF <<t, b>> \in batch[s][a] THEN outcome[<<t, b>>]
                                                 ELSE item[t][b]]]
       /\ Conclude(s, \E h \in batch[s][a] : outcome[h] = "failed")
  /\ batch' = [batch EXCEPT ![s][a] = {}]
  /\ UNCHANGED <<contentVars, shares, notified, isLoaded, pendingImages,
                 providers, screenVars, hud>>

-----------------------------------------------------------------------------
(* The end of a share, and of the process *)

\* The notify block shows the failure, unless something is on screen already,
\* or completes the request and ends the process.
NotifyRuns(s) ==
  /\ Running /\ MainFree
  /\ NotifyPosted(s)
  /\ notified' = notified \cup {s}
  /\ pendingImages' = {}
  /\ IF firstError[s]
       THEN /\ alert' = IF ScreenFree THEN "failure" ELSE alert
            /\ UNCHANGED ended
       ELSE /\ ended' = "completed"
            /\ UNCHANGED alert
  /\ UNCHANGED <<contentVars, shares, item, group, firstError, isLoaded,
                 providers, batch, prompt, hud>>

FailureAcknowledged ==
  /\ Running /\ MainFree
  /\ alert = "failure"
  /\ alert' = "none"
  /\ ended' = "terminated"
  /\ UNCHANGED <<contentVars, shares, item, group, firstError, notified,
                 loadVars, prompt, hud>>

\* The close button, which the hud does not cover.
Close ==
  /\ Running /\ MainFree /\ ScreenFree
  /\ ended' = "cancelled"
  /\ UNCHANGED <<contentVars, shares, item, group, firstError, notified,
                 loadVars, screenVars, hud>>

-----------------------------------------------------------------------------

User(s, a) == PromptAccepted(s, a) \/ PromptCancelled(s, a)

Handle(s, a) ==
  \/ AskForItem(s, a)
  \/ OtherLoaded(s, a) \/ OtherNotLoaded(s, a)
  \/ ImageFetched(s, a)
  \/ MixedImageRead(s, a) \/ MixedImageRefused(s, a)
  \/ MixedImageUnreadable(s, a)
  \/ ImageCollected(s, a) \/ ImageUnreadable(s, a)
  \/ Sent(s, a) \/ SendFailed(s, a)
  \/ BatchEnds(s, a)

Next ==
  \/ RoomTapped \/ RoomCancelled \/ SendTapped
  \/ \E s \in Shares : NotifyRuns(s)
  \/ \E s \in Shares, a \in Attachments : Handle(s, a) \/ User(s, a)
  \/ FailureAcknowledged \/ Close

Spec == Init /\ [][Next]_vars

\* Providers call their handlers, requests end, the main queue runs what is
\* posted. Nothing is assumed of the user.
FairSpec ==
  /\ Spec
  /\ \A s \in Shares, a \in Attachments : WF_vars(Handle(s, a))
  /\ \A s \in Shares : WF_vars(NotifyRuns(s))

-----------------------------------------------------------------------------
(* Properties *)

\* The variables have their types.
TypeOK ==
  /\ images \in SUBSET Attachments
  /\ allImages \in BOOLEAN
  /\ shares \in 0..MaxShares
  /\ item \in [Shares -> [Attachments -> ItemStates]]
  /\ group \in [Shares -> Nat]
  /\ firstError \in [Shares -> BOOLEAN]
  /\ notified \in SUBSET Shares
  /\ isLoaded \in SUBSET Attachments
  /\ pendingImages \in SUBSET Handlers
  /\ providers \in [Shares -> SUBSET Attachments]
  /\ batch \in [Shares -> [Attachments -> SUBSET Handlers]]
  /\ alert \in {"none", "room", "failure"}
  /\ prompt \in SUBSET Handlers
  /\ hud \in BOOLEAN
  /\ ended \in {"none", "completed", "terminated", "cancelled", "crashed"}

\* Attachments of share s that are asked for and have no outcome.
Waited(s) == {a \in Attachments : item[s][a] \in OnTheirWay}

\* Unless images are collected, each of them enters the group of its
\* share once and leaves it once, whatever the threads, the failures and the
\* other shares do: the group counts those on their way, and is never left
\* while empty.
GroupCountsWhatIsOnItsWay ==
  ~Collecting =>
    /\ ended # "crashed"
    /\ \A s \in Shares : group[s] = Cardinality(Waited(s))

\* A share is over only when each of its attachments is: none was forgotten by
\* the loop, and the process never ends as completed while one is on its way.
NothingIsCutOff ==
  ~Collecting => \A s \in notified, a \in Attachments :
                  item[s][a] \in Outcomes \cup {"unloaded"}

\* The request completes, and the sheet closes as after a success, only by a
\* share none of whose attachments was refused with an error, even one that
\* came first or from another thread.
CompletedWithoutError ==
  ended = "completed" =>
    \E s \in notified : /\ ~firstError[s]
                        /\ ~Collecting => \A a \in Attachments :
                                           item[s][a] # "failed"

\* A share of texts, files and single images comes to its end, or the process
\* does, whatever fails and whatever the user does not do.
ShareEnds ==
  \A s \in Shares :
    (shares >= s /\ ~Collecting) ~> (s \in notified \/ ended # "none")

\* "failureBlock: the code to be executed when sharing has failed for whatever
\* reason": the process ends as after a success only if a share sent all.
CompletedMeansShared ==
  ended = "completed" =>
    \E s \in notified : \A a \in Attachments : item[s][a] = "sent"

=============================================================================
