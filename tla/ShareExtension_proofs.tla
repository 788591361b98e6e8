----------------------- MODULE ShareExtension_proofs -----------------------
(***************************************************************************)
(* The dispatch group of the share extension, for any finite set of        *)
(* attachments and any number of shares: unless images are collected it    *)
(* counts what is on its way, is never left while empty, and the process   *)
(* is not completed before everything has an outcome.                      *)
(*                                                                         *)
(* The argument: the group of a share has the cardinality of Waited(s), so *)
(* a handler that runs finds it positive, and an empty group after the     *)
(* loop means that nothing is waited for.                                  *)
(***************************************************************************)
EXTENDS ShareExtension, FiniteSetTheorems, TLAPS

\* Nothing is collected: no image is pending, no prompt and no batch exist.
NothingCollected ==
  /\ prompt = {}
  /\ \A s \in Shares, a \in Attachments :
       item[s][a] # "pending" /\ batch[s][a] = {}

\* An answer in error is remembered by the share.
ErrorsAreKept ==
  \A s \in Shares, a \in Attachments : item[s][a] = "failed" => firstError[s]

\* Only an attachment loaded as an image is handled as one.
FetchedAreImages ==
  \A s \in Shares, a \in Attachments : item[s][a] = "fetched" => a \in images

\* The process completes by a share without an error.
CompletedByAShare ==
  ended = "completed" => \E s \in notified : ~firstError[s]

\* The inductive invariant.
ShareInv ==
  /\ TypeOK
  /\ alert = "room" => shares < MaxShares
  /\ FetchedAreImages
  /\ CompletedByAShare
  /\ ~Collecting => NothingCollected /\ ErrorsAreKept
  /\ GroupCountsWhatIsOnItsWay
  /\ NothingIsCutOff

-----------------------------------------------------------------------------
(* Types *)

LEMMA BecomesType ==
  ASSUME TypeOK, NEW s \in Shares, NEW a \in Attachments,
         NEW state \in ItemStates, Becomes(s, a, state)
  PROVE  item' \in [Shares -> [Attachments -> ItemStates]]
BY DEF TypeOK, Becomes

LEMMA LeaveType ==
  ASSUME TypeOK, NEW s \in Shares, NEW n \in Nat, Leave(s, n)
  PROVE  /\ group' \in [Shares -> Nat]
         /\ ended' \in {"none", "completed", "terminated", "cancelled",
                        "crashed"}
<1>1. CASE n <= group[s]
  <2>1. group[s] - n \in Nat
    BY <1>1 DEF TypeOK
  <2> QED BY <1>1, <2>1 DEF TypeOK, Leave
<1>2. CASE ~(n <= group[s])
  BY <1>2 DEF TypeOK, Leave
<1> QED BY <1>1, <1>2

LEMMA ConcludeType ==
  ASSUME TypeOK, NEW s \in Shares, NEW b \in BOOLEAN, Conclude(s, b)
  PROVE  /\ group' \in [Shares -> Nat]
         /\ firstError' \in [Shares -> BOOLEAN]
         /\ ended' \in {"none", "completed", "terminated", "cancelled",
                        "crashed"}
<1>1. Leave(s, 1)
  BY DEF Conclude
<1>2. firstError[s] \/ b \in BOOLEAN
  BY DEF TypeOK
<1> QED BY <1>1, <1>2, LeaveType DEF TypeOK, Conclude

LEMMA AfterImageType ==
  ASSUME TypeOK, NEW s \in Shares, NEW a \in Attachments,
         NEW collected \in SUBSET Handlers,
         NEW collectors \in SUBSET Attachments, NEW before \in Nat,
         AfterImage(s, a, collected, collectors, before)
  PROVE  /\ group' \in [Shares -> Nat]
         /\ ended' \in {"none", "completed", "terminated", "cancelled",
                        "crashed"}
         /\ batch' \in [Shares -> [Attachments -> SUBSET Handlers]]
         /\ prompt' \in SUBSET Handlers
         /\ hud' \in BOOLEAN
<1>1. /\ group' \in [Shares -> Nat]
      /\ ended' \in {"none", "completed", "terminated", "cancelled",
                     "crashed"}
  <2>1. Leave(s, before) \/ Leave(s, before + 1)
    BY DEF AfterImage
  <2>2. before + 1 \in Nat
    OBVIOUS
  <2> QED BY <2>1, <2>2, LeaveType
<1>2. <<s, a>> \in Handlers
  BY DEF Handlers
<1>3. [batch EXCEPT ![s][a] = collected]
        \in [Shares -> [Attachments -> SUBSET Handlers]]
  BY DEF TypeOK
<1>4. batch' \in [Shares -> [Attachments -> SUBSET Handlers]]
  BY <1>3 DEF AfterImage, TypeOK
<1>5. prompt' \in SUBSET Handlers
  BY <1>2 DEF AfterImage, TypeOK
<1>6. hud' \in BOOLEAN
  BY DEF AfterImage, TypeOK
<1> QED BY <1>1, <1>4, <1>5, <1>6

LEMMA BatchEndsType ==
  ASSUME TypeOK, NEW s \in Shares, NEW a \in Attachments, BatchEnds(s, a)
  PROVE  TypeOK'
<1> PICK outcome \in [batch[s][a] -> Outcomes] :
      /\ item' = [t \in Shares |-> [b \in Attachments |->
                    IF <<t, b>> \in batch[s][a] THEN outcome[<<t, b>>]
                                                ELSE item[t][b]]]
      /\ Conclude(s, \E h \in batch[s][a] : outcome[h] = "failed")
  BY DEF BatchEnds
<1> DEFINE withError == \E h \in batch[s][a] : outcome[h] = "failed"
<1>1. withError \in BOOLEAN
  OBVIOUS
<1>2. item' \in [Shares -> [Attachments -> ItemStates]]
  <2> SUFFICES ASSUME NEW t \in Shares, NEW b \in Attachments
               PROVE  item'[t][b] \in ItemStates
    OBVIOUS
  <2> QED BY DEF TypeOK, ItemStates, Outcomes
<1>3. Conclude(s, withError)
  OBVIOUS
<1> HIDE DEF withError
<1>4. batch' \in [Shares -> [Attachments -> SUBSET Handlers]]
  BY DEF BatchEnds, TypeOK
<1> QED BY <1>1, <1>2, <1>3, <1>4, ConcludeType
        DEF BatchEnds, TypeOK, contentVars, screenVars

\* Every step keeps the types.
LEMMA NextType ==
  ASSUME TypeOK, alert = "room" => shares < MaxShares, Next
  PROVE  TypeOK'
<1> USE DEF contentVars, loadVars, screenVars
<1>1. CASE RoomTapped
  BY <1>1 DEF RoomTapped, TypeOK
<1>2. CASE RoomCancelled
  BY <1>2 DEF RoomCancelled, TypeOK
<1>3. CASE SendTapped
  BY <1>3, MaxSharesAssumption DEF SendTapped, TypeOK
<1>4. ASSUME NEW s \in Shares, NotifyRuns(s) PROVE TypeOK'
  BY <1>4 DEF NotifyRuns, TypeOK
<1>5. CASE FailureAcknowledged
  BY <1>5 DEF FailureAcknowledged, TypeOK
<1>6. CASE Close
  BY <1>6 DEF Close, TypeOK
<1>7. ASSUME NEW s \in Shares, NEW a \in Attachments, Handle(s, a)
      PROVE  TypeOK'
  <2> USE BecomesType DEF ItemStates, OnTheirWay, Outcomes
  <2>1. CASE AskForItem(s, a)
    <3>1. group' \in [Shares -> Nat]
      BY <2>1 DEF AskForItem, TypeOK
    <3> QED BY <2>1, <3>1 DEF AskForItem, TypeOK
  <2>2. CASE OtherLoaded(s, a)
    BY <2>2 DEF OtherLoaded, TypeOK
  <2>3. CASE OtherNotLoaded(s, a)
    BY <2>3, ConcludeType DEF OtherNotLoaded, TypeOK
  <2>4. CASE ImageFetched(s, a)
    BY <2>4 DEF ImageFetched, TypeOK
  <2>5. CASE MixedImageRead(s, a)
    BY <2>5 DEF MixedImageRead, TypeOK
  <2>6. CASE MixedImageRefused(s, a)
    BY <2>6, ConcludeType DEF MixedImageRefused, TypeOK
  <2>7. CASE MixedImageUnreadable(s, a)
    BY <2>7, LeaveType DEF MixedImageUnreadable, TypeOK
  <2>8. CASE ImageCollected(s, a)
    <3>1. PICK collected \in Added(pendingImages, <<s, a>>, Concurrent(s, a)),
               collectors \in Added(providers[s], a, Concurrent(s, a)) :
            /\ pendingImages' = collected
            /\ providers' = [providers EXCEPT ![s] = collectors]
            /\ AfterImage(s, a, collected, collectors, 0)
      BY <2>8 DEF ImageCollected
    <3>2. collected \in SUBSET Handlers /\ collectors \in SUBSET Attachments
      BY DEF Added, TypeOK, Handlers
    <3>3. providers' \in [Shares -> SUBSET Attachments]
      BY <3>1, <3>2 DEF TypeOK
    <3>4. item' \in [Shares -> [Attachments -> ItemStates]]
      BY <2>8 DEF ImageCollected
    <3> QED BY <2>8, <3>1, <3>2, <3>3, <3>4, AfterImageType
            DEF ImageCollected, TypeOK
  <2>9. CASE ImageUnreadable(s, a)
    <3>1. pendingImages \in SUBSET Handlers /\ providers[s] \in SUBSET Attachments
      BY DEF TypeOK
    <3>2. item' \in [Shares -> [Attachments -> ItemStates]]
      BY <2>9 DEF ImageUnreadable
    <3> QED BY <2>9, <3>1, <3>2, AfterImageType DEF ImageUnreadable, TypeOK
  <2>10. CASE Sent(s, a)
    BY <2>10, ConcludeType DEF Sent, TypeOK
  <2>11. CASE SendFailed(s, a)
    BY <2>11, ConcludeType DEF SendFailed, TypeOK
  <2>12. CASE BatchEnds(s, a)
    BY <2>12, BatchEndsType
  <2> QED BY <1>7, <2>1, <2>2, <2>3, <2>4, <2>5, <2>6, <2>7, <2>8, <2>9,
             <2>10, <2>11, <2>12 DEF Handle
<1>8. ASSUME NEW s \in Shares, NEW a \in Attachments, User(s, a)
      PROVE  TypeOK'
  <2>1. CASE PromptAccepted(s, a)
    <3>0. [batch EXCEPT ![s][a] = pendingImages]
            \in [Shares -> [Attachments -> SUBSET Handlers]]
      BY DEF TypeOK
    <3>1. batch' \in [Shares -> [Attachments -> SUBSET Handlers]]
      BY <2>1, <3>0 DEF PromptAccepted, TypeOK
    <3>2. /\ group' \in [Shares -> Nat]
          /\ ended' \in {"none", "completed", "terminated", "cancelled",
                         "crashed"}
          /\ hud' \in BOOLEAN
      BY <2>1, LeaveType DEF PromptAccepted, TypeOK
    <3> QED BY <2>1, <3>1, <3>2 DEF PromptAccepted, TypeOK
  <2>2. CASE PromptCancelled(s, a)
    BY <2>2 DEF PromptCancelled, TypeOK
  <2> QED BY <1>8, <2>1, <2>2 DEF User
<1> QED BY <1>1, <1>2, <1>3, <1>4, <1>5, <1>6, <1>7, <1>8 DEF Next

-----------------------------------------------------------------------------
(* Counting *)

LEMMA WaitedFinite ==
  ASSUME NEW s \in Shares
  PROVE  /\ IsFiniteSet(Waited(s))
         /\ Cardinality(Waited(s)) \in Nat
BY AttachmentsAssumption, FS_Subset, FS_CardinalityType DEF Waited

\* Another share is not concerned.
LEMMA OthersWaited ==
  ASSUME TypeOK, NEW s \in Shares, NEW a \in Attachments,
         NEW state \in ItemStates, Becomes(s, a, state),
         NEW t \in Shares, t # s
  PROVE  Waited(t)' = Waited(t)
BY DEF TypeOK, Becomes, Waited

\* An attachment asked for is one more to wait for.
LEMMA OneMore ==
  ASSUME TypeOK, NEW s \in Shares, NEW a \in Attachments,
         NEW state \in OnTheirWay, item[s][a] \notin OnTheirWay,
         Becomes(s, a, state)
  PROVE  Cardinality(Waited(s)') = Cardinality(Waited(s)) + 1
<1>1. a \notin Waited(s)
  BY DEF Waited
<1>2. Waited(s)' = Waited(s) \cup {a}
  BY DEF TypeOK, Becomes, Waited
<1> QED BY <1>1, <1>2, WaitedFinite, FS_AddElement

\* An attachment with an outcome is one less.
LEMMA OneLess ==
  ASSUME TypeOK, NEW s \in Shares, NEW a \in Attachments,
         NEW state \in ItemStates \ OnTheirWay, item[s][a] \in OnTheirWay,
         Becomes(s, a, state)
  PROVE  /\ Cardinality(Waited(s)') = Cardinality(Waited(s)) - 1
         /\ Cardinality(Waited(s)) >= 1
<1>1. a \in Waited(s)
  BY DEF Waited
<1>2. Waited(s)' = Waited(s) \ {a}
  BY DEF TypeOK, Becomes, Waited
<1>3. Cardinality(Waited(s)) # 0
  BY <1>1, WaitedFinite, FS_EmptySet
<1>4. Cardinality(Waited(s) \ {a}) = Cardinality(Waited(s)) - 1
  BY <1>1, WaitedFinite, FS_RemoveElement
<1>5. Cardinality(Waited(s)) >= 1
  BY <1>3, WaitedFinite
<1> QED BY <1>2, <1>4, <1>5

\* One that goes on is still waited for.
LEMMA AsMany ==
  ASSUME TypeOK, NEW s \in Shares, NEW a \in Attachments,
         NEW state \in OnTheirWay, item[s][a] \in OnTheirWay,
         Becomes(s, a, state)
  PROVE  Waited(s)' = Waited(s)
BY DEF TypeOK, Becomes, Waited

-----------------------------------------------------------------------------
(* The group, when nothing is collected *)

Counts == \A s \in Shares : group[s] = Cardinality(Waited(s))

LEMMA LeaveCounts ==
  ASSUME TypeOK, Counts, NEW s \in Shares, NEW a \in Attachments,
         NEW state \in ItemStates \ OnTheirWay, item[s][a] \in OnTheirWay,
         Becomes(s, a, state), Leave(s, 1)
  PROVE  Counts' /\ ended' = ended
<1>1. /\ Cardinality(Waited(s)') = Cardinality(Waited(s)) - 1
      /\ 1 <= group[s]
  BY OneLess, WaitedFinite DEF Counts
<1>2. group' = [group EXCEPT ![s] = @ - 1] /\ ended' = ended
  BY <1>1 DEF Leave
<1>3. ASSUME NEW t \in Shares PROVE group'[t] = Cardinality(Waited(t)')
  <2>1. CASE t = s
    BY <1>1, <1>2, <2>1 DEF Counts, TypeOK
  <2>2. CASE t # s
    <3>1. Waited(t)' = Waited(t)
      BY <2>2, OthersWaited
    <3> QED BY <1>2, <2>2, <3>1 DEF Counts, TypeOK
  <2> QED BY <2>1, <2>2
<1> QED BY <1>2, <1>3 DEF Counts

LEMMA EnterCounts ==
  ASSUME TypeOK, Counts, NEW s \in Shares, NEW a \in Attachments,
         AskForItem(s, a)
  PROVE  Counts'
<1>1. Becomes(s, a, "loading") /\ item[s][a] \notin OnTheirWay
  BY DEF AskForItem, OnTheirWay
<1>2. Cardinality(Waited(s)') = Cardinality(Waited(s)) + 1
  BY <1>1, OneMore DEF OnTheirWay
<1> SUFFICES ASSUME NEW t \in Shares PROVE group'[t] = Cardinality(Waited(t)')
  BY DEF Counts
<1>3. CASE t = s
  BY <1>2, <1>3 DEF AskForItem, Counts, TypeOK
<1>4. CASE t # s
  <2>1. Waited(t)' = Waited(t)
    BY <1>1, <1>4, OthersWaited DEF ItemStates, OnTheirWay
  <2> QED BY <1>4, <2>1 DEF AskForItem, Counts, TypeOK
<1> QED BY <1>3, <1>4

LEMMA GoOnCounts ==
  ASSUME TypeOK, Counts, NEW s \in Shares, NEW a \in Attachments,
         NEW state \in OnTheirWay, item[s][a] \in OnTheirWay,
         Becomes(s, a, state), UNCHANGED group
  PROVE  Counts'
<1> SUFFICES ASSUME NEW t \in Shares PROVE group'[t] = Cardinality(Waited(t)')
  BY DEF Counts
<1>1. Waited(t)' = Waited(t)
  BY AsMany, OthersWaited DEF ItemStates
<1> QED BY <1>1 DEF Counts

-----------------------------------------------------------------------------
(* The inductive invariant, when nothing is collected *)

\* What ShareInv says of a share that collects nothing.
Sends ==
  /\ NothingCollected
  /\ ErrorsAreKept
  /\ ended # "crashed"
  /\ Counts
  /\ \A s \in notified, a \in Attachments :
       item[s][a] \in Outcomes \cup {"unloaded"}

\* An attachment moves on: nothing is collected, errors are kept, and the
\* shares that are over are not touched.
LEMMA MovesOn ==
  ASSUME TypeOK, Sends, NEW s \in Shares, NEW a \in Attachments,
         NEW state \in ItemStates, Becomes(s, a, state),
         item[s][a] \in OnTheirWay \cup {"idle"}, state # "pending",
         state = "failed" => firstError'[s],
         \A t \in Shares : firstError[t] => firstError'[t],
         UNCHANGED <<prompt, batch, notified>>,
         Counts', ended' = ended
  PROVE  Sends'
<1>1. \A t \in Shares, b \in Attachments :
        item'[t][b] = IF t = s /\ b = a THEN state ELSE item[t][b]
  BY DEF TypeOK, Becomes
<1>2. NothingCollected'
  BY <1>1 DEF Sends, NothingCollected
<1>3. ErrorsAreKept'
  BY <1>1 DEF Sends, ErrorsAreKept
<1>4. s \notin notified
  BY DEF Sends, Outcomes, OnTheirWay
<1>5. \A t \in notified, b \in Attachments :
        item'[t][b] \in Outcomes \cup {"unloaded"}
  BY <1>1, <1>4 DEF Sends, TypeOK
<1> QED BY <1>2, <1>3, <1>5 DEF Sends

\* An attachment gets its outcome.
LEMMA Concludes ==
  ASSUME TypeOK, Sends, NEW s \in Shares, NEW a \in Attachments,
         NEW state \in ItemStates \ OnTheirWay, NEW withError \in BOOLEAN,
         item[s][a] \in OnTheirWay, state \notin {"pending"},
         state = "failed" => withError,
         Becomes(s, a, state), Conclude(s, withError),
         UNCHANGED <<prompt, batch, notified>>
  PROVE  Sends'
<1>1. Leave(s, 1)
  BY DEF Conclude
<1>2. Counts' /\ ended' = ended
  BY <1>1, LeaveCounts DEF Sends
<1>3. /\ state = "failed" => firstError'[s]
      /\ \A t \in Shares : firstError[t] => firstError'[t]
  BY DEF Conclude, TypeOK
<1> QED BY <1>2, <1>3, MovesOn

\* No attachment is touched.
LEMMA NoneMoves ==
  ASSUME Sends, UNCHANGED <<item, group, firstError, notified, prompt, batch>>,
         ended' # "crashed"
  PROVE  Sends'
BY DEF Sends, NothingCollected, ErrorsAreKept, Counts, Waited

\* An empty group after the loop: everything has an outcome.
LEMMA NotifySends ==
  ASSUME TypeOK, Sends, NEW s \in Shares, NotifyRuns(s)
  PROVE  Sends'
<1>1. group[s] = 0 /\ ~Asking(s) /\ s <= shares
  BY DEF NotifyRuns, NotifyPosted
<1>2. Waited(s) = {}
  BY <1>1, WaitedFinite, FS_EmptySet DEF Sends, Counts
<1>3. ASSUME NEW a \in Attachments
      PROVE  item[s][a] \in Outcomes \cup {"unloaded"}
  <2>1. item[s][a] \notin OnTheirWay
    BY <1>2 DEF Waited
  <2>2. item[s][a] # "idle"
    BY <1>1 DEF Asking
  <2>3. item[s][a] # "pending"
    BY DEF Sends, NothingCollected
  <2>4. item[s][a] \in ItemStates
    BY DEF TypeOK
  <2> QED BY <2>1, <2>2, <2>3, <2>4 DEF ItemStates
<1>4. \A t \in notified', a \in Attachments :
        item'[t][a] \in Outcomes \cup {"unloaded"}
  BY <1>3 DEF NotifyRuns, Sends
<1>5. ended' # "crashed"
  BY DEF NotifyRuns, Sends
<1>6. UNCHANGED <<item, group, firstError, prompt, batch>>
  BY DEF NotifyRuns
<1>7. NothingCollected' /\ ErrorsAreKept' /\ Counts'
  BY <1>6 DEF Sends, NothingCollected, ErrorsAreKept, Counts, Waited
<1> QED BY <1>4, <1>5, <1>7 DEF Sends

LEMMA HandleSends ==
  ASSUME TypeOK, Sends, FetchedAreImages, ~Collecting,
         NEW s \in Shares, NEW a \in Attachments, Handle(s, a)
  PROVE  Sends'
<1> USE DEF ItemStates, OnTheirWay, Outcomes, loadVars, screenVars
<1>1. CASE AskForItem(s, a)
  <2>1. Counts'
    BY <1>1, EnterCounts DEF Sends
  <2> QED BY <1>1, <2>1, MovesOn DEF AskForItem
<1>2. CASE OtherLoaded(s, a)
  <2>1. Counts'
    BY <1>2, GoOnCounts DEF OtherLoaded, Sends
  <2> QED BY <1>2, <2>1, MovesOn DEF OtherLoaded
<1>3. CASE OtherNotLoaded(s, a)
  BY <1>3, Concludes DEF OtherNotLoaded
<1>4. CASE ImageFetched(s, a)
  <2>1. Counts'
    BY <1>4, GoOnCounts DEF ImageFetched, Sends
  <2> QED BY <1>4, <2>1, MovesOn DEF ImageFetched
<1>5. CASE MixedImageRead(s, a)
  <2>1. Counts'
    BY <1>5, GoOnCounts DEF MixedImageRead, Sends
  <2> QED BY <1>5, <2>1, MovesOn DEF MixedImageRead
<1>6. CASE MixedImageRefused(s, a)
  BY <1>6, Concludes DEF MixedImageRefused
<1>7. CASE MixedImageUnreadable(s, a)
  <2>1. Counts' /\ ended' = ended
    BY <1>7, LeaveCounts DEF MixedImageUnreadable, Sends
  <2> QED BY <1>7, <2>1, MovesOn DEF MixedImageUnreadable
<1>8. CASE ImageCollected(s, a) \/ ImageUnreadable(s, a)
  BY <1>8 DEF ImageCollected, ImageUnreadable, FetchedAreImages, Collecting
<1>9. CASE Sent(s, a)
  BY <1>9, Concludes DEF Sent
<1>10. CASE SendFailed(s, a)
  BY <1>10, Concludes DEF SendFailed
<1>11. CASE BatchEnds(s, a)
  BY <1>11 DEF BatchEnds, Sends, NothingCollected
<1> QED BY <1>1, <1>2, <1>3, <1>4, <1>5, <1>6, <1>7, <1>8, <1>9, <1>10, <1>11
        DEF Handle

LEMMA NextSends ==
  ASSUME TypeOK, Sends, FetchedAreImages, ~Collecting, Next
  PROVE  Sends'
<1>1. CASE RoomTapped \/ RoomCancelled \/ SendTapped
  BY <1>1, NoneMoves DEF RoomTapped, RoomCancelled, SendTapped, Sends, loadVars
<1>2. CASE FailureAcknowledged \/ Close
  BY <1>2, NoneMoves DEF FailureAcknowledged, Close, loadVars, screenVars
<1>3. ASSUME NEW s \in Shares, NEW a \in Attachments, User(s, a) PROVE Sends'
  BY <1>3 DEF User, PromptAccepted, PromptCancelled, Sends, NothingCollected
<1> QED BY <1>1, <1>2, <1>3, NotifySends, HandleSends DEF Next

-----------------------------------------------------------------------------
(* The inductive invariant *)

LEMMA NextContent ==
  ASSUME Next
  PROVE  UNCHANGED contentVars
<1>1. CASE RoomTapped \/ RoomCancelled \/ SendTapped \/ FailureAcknowledged
           \/ Close
  BY <1>1 DEF RoomTapped, RoomCancelled, SendTapped, FailureAcknowledged, Close
<1>2. ASSUME NEW s \in Shares, NotifyRuns(s) PROVE UNCHANGED contentVars
  BY <1>2 DEF NotifyRuns
<1>3. ASSUME NEW s \in Shares, NEW a \in Attachments, Handle(s, a)
      PROVE  UNCHANGED contentVars
  BY <1>3 DEF Handle, AskForItem, OtherLoaded, OtherNotLoaded, ImageFetched,
     MixedImageRead, MixedImageRefused, MixedImageUnreadable, ImageCollected,
     ImageUnreadable, Sent, SendFailed, BatchEnds
<1>4. ASSUME NEW s \in Shares, NEW a \in Attachments, User(s, a)
      PROVE  UNCHANGED contentVars
  BY <1>4 DEF User, PromptAccepted, PromptCancelled
<1> QED BY <1>1, <1>2, <1>3, <1>4 DEF Next

\* A room is tapped only below the bound.
LEMMA NextRoom ==
  ASSUME TypeOK, alert = "room" => shares < MaxShares, Next
  PROVE  alert' = "room" => shares' < MaxShares
<1>1. CASE RoomTapped \/ RoomCancelled \/ SendTapped \/ FailureAcknowledged
           \/ Close
  BY <1>1 DEF RoomTapped, RoomCancelled, SendTapped, FailureAcknowledged,
     Close, screenVars
<1>2. ASSUME NEW s \in Shares, NotifyRuns(s)
      PROVE  alert' = "room" => shares' < MaxShares
  BY <1>2 DEF NotifyRuns
<1>3. ASSUME NEW s \in Shares, NEW a \in Attachments, Handle(s, a)
      PROVE  UNCHANGED <<alert, shares>>
  BY <1>3 DEF screenVars, Handle, AskForItem, OtherLoaded, OtherNotLoaded, ImageFetched,
     MixedImageRead, MixedImageRefused, MixedImageUnreadable, ImageCollected,
     ImageUnreadable, Sent, SendFailed, BatchEnds
<1>4. ASSUME NEW s \in Shares, NEW a \in Attachments, User(s, a)
      PROVE  UNCHANGED <<alert, shares>>
  BY <1>4 DEF User, PromptAccepted, PromptCancelled
<1> QED BY <1>1, <1>2, <1>3, <1>4 DEF Next

\* Only ImageFetched starts the handler of an image.
LEMMA NextFetched ==
  ASSUME TypeOK, FetchedAreImages, Next
  PROVE  FetchedAreImages'
<1>1. images' = images
  BY NextContent DEF contentVars
<1>2. ASSUME NEW s \in Shares, NEW a \in Attachments, NEW state,
             Becomes(s, a, state), state = "fetched" => a \in images
      PROVE  FetchedAreImages'
  BY <1>1, <1>2 DEF FetchedAreImages, Becomes, TypeOK
<1>3. ASSUME NEW s \in Shares, NEW a \in Attachments, BatchEnds(s, a)
      PROVE  FetchedAreImages'
  <2> PICK outcome \in [batch[s][a] -> Outcomes] :
        item' = [t \in Shares |-> [b \in Attachments |->
                   IF <<t, b>> \in batch[s][a] THEN outcome[<<t, b>>]
                                               ELSE item[t][b]]]
    BY <1>3 DEF BatchEnds
  <2> QED BY <1>1 DEF FetchedAreImages, Outcomes
<1>4. CASE UNCHANGED item
  BY <1>1, <1>4 DEF FetchedAreImages
<1>5. ASSUME NEW s \in Shares, NEW a \in Attachments, Handle(s, a)
      PROVE  FetchedAreImages'
  BY <1>2, <1>3, <1>5 DEF Handle, AskForItem, OtherLoaded, OtherNotLoaded,
     ImageFetched, MixedImageRead, MixedImageRefused, MixedImageUnreadable,
     ImageCollected, ImageUnreadable, Sent, SendFailed
<1>6. CASE RoomTapped \/ RoomCancelled \/ SendTapped \/ FailureAcknowledged
           \/ Close
  BY <1>4, <1>6 DEF RoomTapped, RoomCancelled, SendTapped,
     FailureAcknowledged, Close
<1>7. ASSUME NEW s \in Shares, NotifyRuns(s) PROVE UNCHANGED item
  BY <1>7 DEF NotifyRuns
<1>8. ASSUME NEW s \in Shares, NEW a \in Attachments, User(s, a)
      PROVE  UNCHANGED item
  BY <1>8 DEF User, PromptAccepted, PromptCancelled
<1> QED BY <1>4, <1>5, <1>6, <1>7, <1>8 DEF Next

\* The process is completed by NotifyRuns alone, and does nothing afterwards.
LEMMA NextCompleted ==
  ASSUME TypeOK, Next
  PROVE  CompletedByAShare'
<1>2. ASSUME NEW s \in Shares, NotifyRuns(s) PROVE CompletedByAShare'
  BY <1>2 DEF NotifyRuns, CompletedByAShare, Running
<1>3. CASE ended' # "completed"
  BY <1>3 DEF CompletedByAShare
<1>4. ASSUME NEW s \in Shares, NEW a \in Attachments, Handle(s, a)
      PROVE  ended' # "completed"
  <2>1. ASSUME NEW n, Leave(s, n), Running PROVE ended' # "completed"
    BY <2>1 DEF Leave, Running
  <2>2. ASSUME NEW b, Conclude(s, b), Running PROVE ended' # "completed"
    BY <2>1, <2>2 DEF Conclude
  <2>3. ASSUME NEW collected, NEW collectors, NEW n, Running,
               AfterImage(s, a, collected, collectors, n)
        PROVE  ended' # "completed"
    BY <2>1, <2>3 DEF AfterImage
  <2>4. CASE ImageCollected(s, a) \/ ImageUnreadable(s, a)
    BY <2>3, <2>4 DEF ImageCollected, ImageUnreadable
  <2>5. CASE OtherNotLoaded(s, a) \/ MixedImageRefused(s, a) \/ Sent(s, a)
             \/ SendFailed(s, a) \/ BatchEnds(s, a)
    BY <2>2, <2>5 DEF OtherNotLoaded, MixedImageRefused, Sent, SendFailed,
       BatchEnds
  <2>6. CASE MixedImageUnreadable(s, a)
    BY <2>1, <2>6 DEF MixedImageUnreadable
  <2>7. CASE AskForItem(s, a) \/ OtherLoaded(s, a) \/ ImageFetched(s, a)
             \/ MixedImageRead(s, a)
    BY <2>7 DEF AskForItem, OtherLoaded, ImageFetched, MixedImageRead, Running
  <2> QED BY <1>4, <2>4, <2>5, <2>6, <2>7 DEF Handle
<1>5. ASSUME NEW s \in Shares, NEW a \in Attachments, User(s, a)
      PROVE  ended' # "completed"
  <2>1. Leave(s, 1) /\ Running => ended' # "completed"
    BY DEF Leave, Running
  <2>2. CASE PromptAccepted(s, a)
    BY <2>1, <2>2 DEF PromptAccepted, Running
  <2>3. CASE PromptCancelled(s, a)
    BY <2>3 DEF PromptCancelled, Running
  <2> QED BY <1>5, <2>2, <2>3 DEF User
<1>6. RoomTapped \/ RoomCancelled \/ SendTapped \/ FailureAcknowledged \/ Close
        => ended' # "completed"
  BY DEF RoomTapped, RoomCancelled, SendTapped, FailureAcknowledged,
     Close, Running
<1> QED BY <1>2, <1>3, <1>4, <1>5, <1>6 DEF Next

\* ShareInv with the part about shares that collect nothing in one conjunct.
LEMMA ShareInvParts ==
  ShareInv <=> /\ TypeOK
               /\ alert = "room" => shares < MaxShares
               /\ FetchedAreImages
               /\ CompletedByAShare
               /\ ~Collecting => Sends
BY DEF ShareInv, Sends, Counts, GroupCountsWhatIsOnItsWay, NothingIsCutOff

LEMMA InitShareInv == Init => ShareInv
<1> SUFFICES ASSUME Init PROVE ShareInv
  OBVIOUS
<1>1. TypeOK
  <2>1. item \in [Shares -> [Attachments -> ItemStates]]
    BY DEF Init, ItemStates
  <2>2. batch \in [Shares -> [Attachments -> SUBSET Handlers]]
    BY DEF Init
  <2>3. shares \in 0..MaxShares
    BY MaxSharesAssumption DEF Init
  <2> QED BY <2>1, <2>2, <2>3 DEF Init, TypeOK
<1>2. Sends
  <2>1. \A s \in Shares : Waited(s) = {}
    BY DEF Init, Waited, OnTheirWay
  <2>2. Counts
    BY <2>1, FS_EmptySet DEF Init, Counts
  <2> QED BY <2>2 DEF Init, Sends, NothingCollected, ErrorsAreKept
<1>3. FetchedAreImages /\ CompletedByAShare
  BY DEF Init, FetchedAreImages, CompletedByAShare
<1> QED BY <1>1, <1>2, <1>3, ShareInvParts DEF Init

LEMMA NextShareInv == ShareInv /\ [Next]_vars => ShareInv'
<1> SUFFICES ASSUME ShareInv, [Next]_vars PROVE ShareInv'
  OBVIOUS
<1>1. CASE Next
  <2>1. TypeOK' /\ (alert' = "room" => shares' < MaxShares)
    BY <1>1, ShareInvParts, NextType, NextRoom
  <2>2. FetchedAreImages' /\ CompletedByAShare'
    BY <1>1, ShareInvParts, NextFetched, NextCompleted
  <2>3. ~Collecting' => ~Collecting
    BY <1>1, NextContent DEF contentVars, Collecting
  <2>4. ~Collecting' => Sends'
    BY <1>1, <2>3, ShareInvParts, NextSends
  <2>5. GroupCountsWhatIsOnItsWay' /\ NothingIsCutOff'
    BY <2>4 DEF Sends, Counts, GroupCountsWhatIsOnItsWay, NothingIsCutOff
  <2>6. ~Collecting' => NothingCollected' /\ ErrorsAreKept'
    BY <2>4 DEF Sends
  <2> QED BY <2>1, <2>2, <2>5, <2>6 DEF ShareInv
<1>2. CASE UNCHANGED vars
  BY <1>2 DEF vars, ShareInv, TypeOK, FetchedAreImages, CompletedByAShare,
     Collecting, NothingCollected, ErrorsAreKept, GroupCountsWhatIsOnItsWay,
     NothingIsCutOff, Waited
<1> QED BY <1>1, <1>2

\* The invariant holds throughout, for every set of attachments and every
\* number of shares (ShareExtensionManager.m:148).
THEOREM ShareInvariance == Spec => []ShareInv
<1>1. Init => ShareInv
  BY InitShareInv
<1>2. ShareInv /\ [Next]_vars => ShareInv'
  BY NextShareInv
<1> QED BY <1>1, <1>2, PTL DEF Spec

\* Every attachment enters the group once and leaves it once
\* (ShareExtensionManager.m:165).
THEOREM GroupIsBalanced == Spec => []GroupCountsWhatIsOnItsWay
<1>1. ShareInv => GroupCountsWhatIsOnItsWay
  BY DEF ShareInv
<1> QED BY <1>1, ShareInvariance, PTL

\* A share is over only when each of its attachments is
\* (ShareExtensionManager.m:395).
THEOREM SharesAreComplete == Spec => []NothingIsCutOff
<1>1. ShareInv => NothingIsCutOff
  BY DEF ShareInv
<1> QED BY <1>1, ShareInvariance, PTL

\* No send that failed is hidden by a later success
\* (ShareExtensionManager.m:177).
THEOREM ErrorsAreReported == Spec => []CompletedWithoutError
<1>1. ShareInv => CompletedWithoutError
  BY DEF ShareInv, CompletedByAShare, ErrorsAreKept, CompletedWithoutError,
         TypeOK
<1> QED BY <1>1, ShareInvariance, PTL

\* Every variable of a share stays within its type, for every set of attachments.
THEOREM TypeCorrect == Spec => []TypeOK
<1>1. ShareInv => TypeOK
  BY DEF ShareInv
<1> QED BY <1>1, ShareInvariance, PTL

\* At an end that looks like a success, all that was not sent either could not be
\* loaded or is an image of no known type: what the code reports with a nil error.
OnlySilentLosses ==
  ended = "completed" /\ ~Collecting =>
    \E s \in notified : \A a \in Attachments :
      item[s][a] \in {"sent", "unloaded", "refused"}

\* The attachments that CompletedMeansShared misses are no others: neither a send that
\* failed nor an attachment still on its way (ShareExtensionManager.m:316).
THEOREM OnlyNilErrorsAreHidden == Spec => []OnlySilentLosses
<1>1. NothingIsCutOff /\ CompletedWithoutError => OnlySilentLosses
  BY DEF NothingIsCutOff, CompletedWithoutError, OnlySilentLosses, Outcomes
<1> QED BY <1>1, SharesAreComplete, ErrorsAreReported, PTL

=============================================================================
