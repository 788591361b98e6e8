# A verification project for ChatAPP-IOS

TLA+ models, model-checking runs and machine-checked proofs about the parts of
this application whose correctness depends on the order of events: who unlocks
the application and when, what a notification shows and whether it is shown at
all, when a call rings, whether a share ends, and which messages can be decrypted. The
repository is a fork of Element for iOS (a Matrix client) with a SIP softphone added to it. Its logic is
Objective-C and Swift code driven by UIKit callbacks, delayed blocks on the main
queue, network callbacks and several processes that share a keychain. It has a
single test (`RiotTests/EmojiServiceTests.swift`), on none of this. The end-to-end
encryption is in two vendored libraries whose source is part of the repository,
libolm and the crypto part of MatrixSDK; they are modelled as well, because what the
application shows depends on nothing so much as on them.

Paths below are relative to the repository. `PROJECT.json` maps every definition
to its lines.

## 1. Inventory

| Component | State it keeps | Operations | What is hard | Here |
|---|---|---|---|---|
| **Application lock** `Riot/Modules/SetPinCode`, `Managers/LocalAuthentication`, lock paths of `LegacyAppDelegate.m`, `SecurityViewController.m`, `AuthenticationViewController.m` | keychain (PIN, biometrics switch, failure counters); two presenters with a screen each; system dialog; time of the last resignation; session pause | type, delete, confirm, forget a PIN; enable, answer, cancel, retry biometrics; launch, activate, resign, background, kill; log in, sign out, forced logout | 0.1 s delayed completions against life-cycle events and further taps; one `isPresenting` flag for the process; dialogs that outlive their screen; counters shared by PIN and biometrics | modelled |
| **Notification service extension** `RiotNSE` with the parts of `MXSession.m` it drives | one chain of callbacks per push; one shared session (store, crypto, one request, one pair of blocks); best-attempt content | receive, open store, fetch, decrypt, sync, compose, answer, expire | bursts of pushes over one session; a store that fails; a sync that answers nobody; the protection that changes under way | modelled |
| **Push service of the application** `Managers/PushNotification` | PushKit delegate, token, observers of the session state, the invite in the keychain | register, credentials, life cycle, login, logout, reload, receive a VoIP push | a hand-over through one keychain entry between two processes; observers overwritten; iOS kills an application that receives a VoIP push and reports nothing | partly (no inline reply) |
| **Share extension** `RiotShareExtension` | dispatch group, first error, `pendingImages`, `isLoaded` marks, alerts | pick a room, load, prompt, send, notify, complete, terminate | handlers on provider threads; a count that must balance; state shared by two shares | partly (no account change) |
| Key verification `Riot/Modules/KeyVerification` | request and transaction, coordinators | request, accept, cancel, SAS, QR | the other side cancels at any moment | planned |
| **Olm and Megolm** `Pods/OLMKit` (libolm: `megolm.c`, `inbound_group_session.c`, `outbound_group_session.c`, `ratchet.cpp`, `session.cpp`, `list.hh`) | the ratchet of a room session with its first and latest position in each copy; root key, chains and skipped keys of a session between two devices | encrypt, decrypt, share, export, import; open a session | byte-wise jumps that must agree with single steps; wrapping comparisons; full lists; messages lost, repeated, crossing | partly (no accounts, no pickles) |
| **Room keys** `Pods/MatrixSDK/MatrixSDK/Crypto` (`MXOlmDevice.m`, `MXMegolmDecryption.m`, `MXOutgoingRoomKeyRequestManager.m`, `MXRealmCryptoStore.m`, `MXCrypto.m`) | the session in the store, events waiting for keys, the request for the keys, its timer and its calls | receive or import a key, decrypt, retry, request, cancel, resend, answer, restart | three threads; a store read and written in two transactions; retries that answer through another thread; calls that fail or overlap | partly (no sending of keys) |
| **Decryption failure tracker** `Managers/Analytics/DecryptionFailureTracker.m`, `Utils/EventFormatter.m` | reported failures, tracked events | report, check, decrypted | reports that come late, or again | partly (no categories) |
| SIP softphone `Riot/ChatApp/Sip`, SIP part of `LegacyAppDelegate.m` | account, call, ringing | register, call, answer, hang up, DTMF | PJSIP callbacks on its own threads | planned |
| Widgets, Jitsi `Managers/Widgets` | success and failure blocks by widget, scalar token | create, close, register | a creation against its state echo; token retry | planned |
| Secrets, secure backup, key backup | flow coordinators | set up, recover | order of backup creation and secret storage | planned |
| Session routing, universal links, Siri intents | pending link, pending room | open, resume | a link before its session is ready | planned |
| Room timeline, recents, search, contacts, communities, settings, theming | data sources | sort, section, display | mostly presentation over MatrixKit and MatrixSDK | not planned |
| `Pods/`, `pjsipLib-2.8/` | | | vendored | only what the code above sees of them |

How they interact: the extensions are processes of their own. They share with the
application the account and room store (files) and the keychain, which holds the
protection (read by the notification service) and `lastCallInvite` (written by it,
read by the push service, cleared by a logout). Room keys come through Olm sessions
between devices, become inbound Megolm sessions in the store of keys, and decide which
events of a timeline or of a push can be read; the failures end in the tracker.
Inside the application everything meets in `LegacyAppDelegate`: life-cycle events go to the lock and to the push
service, a login or logout resets both.

What makes each correct: a lock comes off only for a reason and never becomes
unanswerable, tries are bounded, a chosen PIN is the one stored; a notification
gives away no more than settings and protection allow and every push is answered;
PushKit is heard where a call must ring, a call rings once and not for the next
account; a share ends exactly when its attachments have, and says so if they failed; a room
session reads all that follows the key it was given and nothing before; a session
between devices delivers once and never comes apart; a message that cannot be read
waits for its key, and the key is asked for until it came.

## 2. Modules and how they correspond to the code

| Module | Models |
|---|---|
| `PinCodePreferences` | the keychain record of `PinCodePreferences.swift` and what changes it |
| `SetPinFlow` | variables of the lock; the two presenters (`lock`: over the window, `sheet`: in settings or at login), the modes of `SetPinCoordinator`, what releasing each does |
| `EnterPinCode` | `EnterPinCodeViewModel`, its screen and its coordinator: one action per branch of `digitPressed` |
| `SetupBiometrics` | `SetupBiometricsViewModel`, `BiometricsAuthenticationPresenter`, retry and fallback |
| `AppLock` | life cycle, login and logout; composes the four; properties and `IInv` |
| `PushNotificationStore` | the keychain entries and the gateway between the two processes |
| `NotificationService` | the extension and `MXSession` below it |
| `PushNotificationService` | the push service; with `PushNotificationStore`, both ends of the hand-over |
| `ShareExtension` | the share extension |
| `Megolm` | the ratchet of `megolm.c`, as operators: one step (`Advance`), a jump (`AdvanceTo`) |
| `MegolmHistory` | abstract: which of a sender's messages each copy of a session can read |
| `GroupSession` | a sender's outbound session and the inbound copies of it (`outbound_group_session.c`, `inbound_group_session.c`); refines `MegolmHistory` |
| `OlmChannel` | abstract: what a session between two devices promises |
| `OlmSession` | `session.cpp` and `ratchet.cpp` with their bounded lists; refines `OlmChannel` |
| `RoomKeyRequests` | `MXOutgoingRoomKeyRequestManager`: the bodies of its tasks, its timer, its calls |
| `RoomKeys` | composes them with the store, the timeline's decryption and the tracker |
| `MC*` | instances for TLC |
| `AppLock_proofs`, `LockAnswer_proofs`, `NotificationService_proofs`, `PushNotificationService_proofs`, `ShareExtension_proofs`, `GroupSession_proofs`, `OlmSession_proofs`, `RoomKeys_proofs` | theorems about the module they are named for (the second about `AppLock`) |

State of the lock: `flow[o]` is the screen of presenter `o` (mode, root screen,
digits, alert, first PIN, local failures), `late` the delayed blocks not yet run,
`dialog` the system dialog with its owner (`orphan` when the screen that asked is
gone: it still writes the keychain), `prefs` the keychain. `auth` and `tries` are
history: a credential accepted by this lock, wrong PINs since a success.

State of the notification service: `step[e]` is where the push of event `e` is in
its chain, `mxSession` the shared session with the single pair of blocks it holds.
Each synchronous run of code up to the next callback is one step. A request of the
event stream goes through three of them: the server composes the `response` from the
to-device messages it holds then (`ServerResponds`), the client handles these
(`ToDeviceReceived`), and after `preloadRoomsData` it asks again (`CatchUpContinues`)
or calls the block of the background sync (`SyncSucceeds`). What comes to the server
in between is not in the response. A request that ends without a response received is
`SyncFails` or `UnknownToken`.

State of the push service: `delegate` is the PushKit delegate, `observers` counts
the observers of the session state and whether the one the code still knows is
among them. `invited`, `stale`, `rings`, `missed` are history of the calls.

State of the share extension: `item[s][a]` is how far attachment `a` is in the
`s`-th share, `group[s]` the dispatch group of that share; the rest has the name
it has in `ShareExtensionManager.m`. Handlers of images run on their provider's
thread, so they interleave with the loop that asks for the items; the rest waits
for the main queue (`MainFree`).

State of the Megolm models: a counter is its four bytes, a part of the ratchet is the
way it was derived (`seed`, and how often each of the four hashes was applied), so two
parts are equal exactly when libolm would compute the same bytes. `inbound[s]` has
`initial` and `latest` ratchets, as the structure in C has. The server is the set of
all messages sent: any of them may be handed out at any time, again and again.

State of the Olm model: `session[p]` is the ratchet of device `p`, field by field
(`sender_chain`, `receiver_chains` newest first, `skipped_message_keys` newest first).
A root key is the sequence of Diffie-Hellman pairs that made it. `written` and
`delivered` count, for the refinement; `forgotten` notes what a full list dropped.

State of the room keys: `cryptoQueue` and `mainQueue` are the two serial queues, task
by task; `work` is what the running task has left to do, because it reads the store in
one transaction and writes in another and because the import of `cargoQueue` (`cargo`)
may come in between. `showing` is the event for which the main thread is blocked.
`request` is the record of the request in the store. A dispatch group is the mark
`notify` on its last block.

### Assumptions of the models

*Cryptography.* HMAC-SHA-256, Curve25519 and the MACs are free of collisions: values
are equal when they were derived the same way. A message with a false MAC cannot be
made, so every message offered was sent by the other device. A sender encrypts less
than 2^31 messages with one group session (`MaxMessages < Half`); the application
rotates it after 100 (`MXMegolmEncryption.m:124`). `PartSize` is 256 in the code.

*Room keys.* One session and one request for it. A key is the first index it can read;
the messages' plaintext is left out. `decryptionQueue` and `cryptoQueue` are the same
serial queue (`MXCrypto.m:1755`). `startTimer` goes through the main queue, which is
not told from a longer delay. Two calls with the same transaction id are one to the
server. Retries take the events in any order (the order of a dictionary). A timeline
shows one event per message index, so a second decryption of an index is the same event.

*Lock.* A PIN is typed in one action. A 0.1 s callback runs before a user gets
through another screen, alert or dialog (`Quiet`), but taps on the keypad and
life-cycle events may overtake it. The block posted by the launch is first in its
queue. Alerts survive a change of the root screen, not the release of the lock.
Identical pending callbacks are one. Settings keep their presenter after
dismissal, as the code does. A kill at any time loses the logout in flight.
The error observer, which only shows alerts, is left out.

*Notification service.* One extension object per push; the first call of a content
handler counts; a room state always loads; a response has to-device messages if the
server holds any, some or all of them, and they are acknowledged by the request that
follows (`MXSession.m:1156`); non-Matrix pushes, which are handed back unchanged, are
left out; the keychain read and write of `sendVoipPush` are one step; whether a
name or summary is there is nondeterministic, and so is the release of the
extension object after its answer.

*Push service.* One account; PushKit keeps pushes until it has a delegate, may
deliver one twice, and gives credentials whenever it has a delegate.

*Share extension.* The store opens when a room is chosen (if it does not, the code
only logs); the "sending" display appears with the first send; a posted notify
block runs before the user's next answer; the images of a batch are answered in one
step. `images` are the attachments loaded as images and `allImages` the answer of
`areAllAttachmentsImages`, which is also true when some are image *files*, loaded
as files. Two handlers that add to a plain array at once may lose an addition
(`Added`). Whether an image can be reduced (and so needs a prompt) is nondeterministic.

## 3. Runs

| Run | Question | Bounds |
|---|---|---|
| `applock_shipped` | as shipped: does the lock lift only for a reason, is it always answerable, is a chosen PIN kept | two PINs (one right, one wrong), symmetric |
| `applock_forced` | forced PIN, refused PIN, forced logouts: are wrong tries bounded, is `IInv` an invariant; with fairness, does an accepted credential unlock and does the lock reach its PIN screen | two PINs, limit 2, so the limit is reached across kills and covers |
| `notification_burst` | three pushes on one session: is what is shown permitted, is who waits waited for | one clear verification request and two encrypted messages, alike (symmetric), that compete for the one sync; two keys, so a response may hold one of them |
| `notification_live` | are pushes answered | an encrypted message and a call in the clear; its key and one other to-device message, so that a sync may need several responses |
| `voip_pushes` | is PushKit heard exactly in the background, does a call ring at most once and never after a logout | two invites, two observers (the count saturates; more behave as two) |
| `share_attachments` | is the group balanced, does nothing end early, is no error lost | two attachments of every kind, two shares, so that they share the manager's state |
| `share_live` | does a share end | three attachments, one share |
| `notification_forgotten` | violation, see findings | two pushes |
| `group_session` | does a session implement `MegolmHistory`; is everything from the shared index on read, nothing before, no key used twice, whatever order the messages come in | bytes of three values (a counter of 81), 28 messages: every part is rekeyed and the lower bytes wrap; two inbound copies, keys shared or exported at 8 and 25, before and after a carry into two parts |
| `olm_session` | does a session implement `OlmChannel`; can the next message always be read; is an unread one given up only for a limit | lists of two chains and two skipped keys, gaps of two; five messages a device fill and overflow each |
| `room_keys` | is no failed event forgotten, no request left behind or lost, no failure counted twice | two events, two keys (one reads both events, one only the second), four inputs from outside |
| `room_keys_lost` | violation, see findings | the same |

Bounds. PINs are only compared, so one right and one wrong value give every
comparison. `FailureBound` caps both failure counters above the configured
limits. Time is measured against `Grace` only; TLC uses the shipped value 0, the
theorems hold for every one. Two invites suffice to overwrite the single entry,
two shares for a state shared between them, three pushes for one that opens the
store, one that syncs and one that finds both busy. `MaxInputs` bounds what comes from
outside in `room_keys` (keys, imports, events shown, failures formatted, switches,
failed calls, restarts); what follows from it runs to its end. Symmetry is used in safety runs
only, on values that are only compared. Deadlock checking is off where the process
really ends (the share extension) or all that the bounds allow has been done (messages
sent, inputs used).

Fairness. Only the program and the system are fair, never the user. Lock: posted
blocks (`PinCompletes`, `FallBackToPin`, `BiometricsSucceed`, `LaunchConfigure`) run
because the main queue does; `LogoutFinished` because the request ends or times
out, and both call the completion. Notification service: stores open or fail,
requests end, posted callbacks run, a crashing process ends. Share extension: item
providers call their handlers, sends end in success or failure, the notify block
runs.

What the properties say, in short:

* `UnlockNeedsAReason`: the lock leaves the screen only after a credential accepted
  by that presenter, an activation that asks for no PIN, or with the protection.
* `WrongTriesBounded`: no kill, cover or fallback gives tries beyond the maximum.
* `LockIsAnswerable`, `BiometricsSuspendedOnlyWithPin`: never a lock with nothing to
  answer, never biometrics suspended with no PIN to fall back on.
* `PendingPinIsKept`: the block that stores the PIN 0.1 s later finds a PIN the
  build allows, whatever is tapped in between.
* `AcceptedCredentialUnlocks`, `BiometricsFallsBackToPin`: liveness of the same.
* `ShownContentIsPermitted`: under protection from push to notification, no name and
  no text is shown; no decrypted text when the user wants none.
* `WaitersAreHeld`: a push that waits is one that somebody will call back.
* `PlainPushIsShown`, `SyncedPushIsShown`: pushes in the clear are answered whatever
  encrypted ones do; so is the one that got the sync, if its key is on the server while
  a request of that sync still waits for its response.
* `PushKitIsHeardInBackground`, `PushKitIsSilentWhenActive`, `RingsOnce`,
  `LogoutForgetsInvites`.
* `KnownMessagesAreRead`, `HistoryIsNotRead`: an inbound session reads exactly what
  follows its first index; `KeysAreFresh`: no message key is used twice;
  `HistorySpec`: who can read what depends on who was given the key when, never on what
  was read. An exported copy reads what its origin does from one message on.
  (`OnlyTheLatestMoves`, a session never goes back, is proved and in no run.)
* `ChannelSpec`: every message is read once, by the other device only.
  `ReadKeysAreGone`: nor can it be read again later. `NextMessageIsReadable`: no order
  of deliveries leaves two devices with different root keys. `UnreadIsReadable`: only
  the documented limits lose a message.
* `FailedIsRemembered`, `RequestIsLookedAt`, `RequestIsKept`, `CountedOnce`: an event
  that failed is retried when keys come; the request for them is sent, resent and
  cancelled whatever fails, and not lost before; the tracker counts once.
* `GroupCountsWhatIsOnItsWay`, `NothingIsCutOff`, `CompletedWithoutError`,
  `ShareEnds`: for shares that do not collect images (and, for the third, all).

Every property has a mutant in its module (`Mutant of ...` above the definition it
replaces): a plausible bug under which TLC finds the property violated.

## 4. Findings

Runs that end in a violation, each against a line of the repository:

1. `notification_forgotten`: `backgroundSync` drops a request while another runs
   (`MXSession.m:699`), so a push may get no answer, not even its best attempt
   (`NotificationService.swift:26`). In the shortest trace the key never comes, and the
   sync the push asks for a second time is dropped. The key may also come in time and
   be missed, which the model has too: a sync ends with the first response without
   to-device messages (`:992`), so a key that comes to the server after that response
   was composed, or while `preloadRoomsData` runs (`:1131`), is not there when the block
   is called (`:1178`); the second sync is dropped again (`:702`), because the request
   is still set. That is why `SyncedPushIsShown` asks for the key before the last
   response is composed.
2. `room_keys_lost`: `importInboundGroupSessions` runs on `cargoQueue` and
   `addInboundGroupSession` on `cryptoQueue`; each reads, compares and stores in separate
   transactions, so the worse of two keys may be left (`MXOlmDevice.m:348` and `:395`:
   "If our existing session is better, we keep it"). The same happens when
   `decryptGroupMessage` writes back the session it read (`:424`).

Stated in the modules but in no configuration; each is violated, and an INVARIANTS
entry in the configuration named shows the trace:

* `InUseMeansRestarted` (`AppLockShipped.cfg`): when a PIN is required, nothing is
  presented and `createIfRequired` is NO, `LegacyAppDelegate.m:641` neither shows a lock
  nor restarts what was paused.
* `RemovedWasUnwanted` (`NotificationLive.cfg`, with `Kind <- WantedKind` and
  `Encrypted <- NothingEncrypted`): a verification request is answered as unwanted
  before it is looked up, and the next push removes it (`NotificationService.swift:391`).
* `HandOffMatches` (`VoipPushes.cfg`): the one entry `lastCallInvite` is overwritten by a
  second invite; the push of the first finds nothing (`PushNotificationService.m:576`).
* `CompletedMeansShared` (`ShareAttachments.cfg`): a load that fails is reported with a
  nil error, and an image that fails among others leaves the group twice, so the sheet
  closes as after a success (`ShareExtensionManager.m:316`, against `.h:106`).

Seen while modelling, with no run of their own:

* PIN failures in the settings count towards the forced logout of the lock
  (`EnterPinCodeViewModel.swift:146`; `PinCodePreferences.swift:62` speaks of
  unlocking). The model counts both.
* The grace time restarts at every resignation, locked or not
  (`LocalAuthenticationService.swift:57`; `PinCodePreferences.swift:79`).
* The alert "you've been logged out" is shown, and the PIN reset, before the logout
  request ends (`LegacyAppDelegate.m:2141`, `:4590`); a process that ends in between
  keeps the account without its PIN.
* The observer of errors is stored over the previous one, which stays
  (`LegacyAppDelegate.m:710`, `:502`).
* A VoIP push that arrives just before the application leaves the background is
  refused without a report (`PushNotificationService.m:588`).
* When failures of biometrics log out and no PIN is forced, a failed dialog that outlives
  the screen that asked for it suspends biometrics without a PIN
  (`SetupBiometricsViewModel.swift:103`): `BiometricsSuspendedOnlyWithPin` holds for the
  switches that are shipped, and the theorem assumes them.
* Room keys that arrive while a session has no crypto are acknowledged and lost
  (`MXSession.m:987`). This happens to an extension whose second push syncs while the
  first still opens the store: the keys of that response are gone when the crypto is
  there, and the push is not answered.
* The completion of a first registration for notifications is overwritten by a second
  registration and then never called (`PushNotificationService.m:97`).
* Room keys: an event that fails its retry is put back behind a second key that is
  queued already; the retry for that key may find nothing to do, succeed, and cancel the
  request although the event is still not readable. A cancel-and-resend whose call
  failed is never sent again: the loop looks for `CANCELLATION_PENDING` and `UNSENT`
  only (`MXOutgoingRoomKeyRequestManager.m:236`). `setEnabled:YES` deletes requests in
  any state (`MXRealmCryptoStore.m:974`). A re-request of what is still unsent deletes it
  and sends nothing (`MXOutgoingRoomKeyRequestManager.m:139`; `MXCrypto.h:514`). The
  transaction id of a cancellation is not stored when the request is updated
  (`MXRealmCryptoStore.m:1016`). A late success of a repeated request takes
  `CANCELLATION_PENDING` back to `SENT`, a step the diagram of
  `MXOutgoingRoomKeyRequest.h` does not have. All but the fifth are in the model; the
  properties it checks hold in spite of them.
* A retry of an event that was read meanwhile ends in a duplicate-index error. The
  report of a failure may reach the tracker after the event was decrypted and count as a
  failure (`EventFormatter.m:202`, against `DecryptionFailureTracker.m:24`).
* With images only, two handlers may both find everything loaded
  (`ShareExtensionManager.m:270`, `:322`) and the images are prompted for or sent twice;
  a cancelled or lost prompt leaves the group for ever.

## 5. Proofs

All are proved by TLAPS for every value of the constants allowed by the named
assumptions beside them.

**Lock** (`AppLock_proofs`). `TypeCorrect`, `Invariance` (`IInv`), and from it
`UnlockSafe`, `WrongTries`, `PendingPin`. `IInv` strengthens the properties by what
the delayed blocks rest on: a pending completion or an accepted dialog of the lock
means an accepted credential (`CompletionInv`, `DialogInv`), without which a late
block could lift a lock put up since; a sheet with a pending block is still on the
screen that posted it (`SheetInv`); the persistent counter covers the tries
(`TriesInv`), because only the counter survives a kill. One lemma per component and
conjunct, one step per action.

`LockAnswer_proofs` goes on from there. `Answerable` (`LockIsAnswerable`) rests on
`AnswerInv`: while the lock is up the dialog on screen is its own (`OwnerInv`), no
cover stays in an active application (`CoverInv`), and the callback that leads from a
cancelled dialog to the PIN screen finds a PIN there, or nothing left to protect
(`CancelInv`). `SuspendedWithPin` (`BiometricsSuspendedOnlyWithPin`) assumes that neither
kind of failure logs out, as shipped; why it needs that is under the findings.

**Notification service** (`NotificationService_proofs`). `ExtensionInvariance`, and
from it `ShownIsPermitted` and `WaitersHeld`, for any burst of events of any kinds.
`SessionIsShared` says that one push opens the store and nothing runs before, and that a
response belongs to the request in progress;
`ContentIsPermitted` that what a fallback *would* show is as harmless as what is shown.
`LostInv` goes on from there: the end of a chain of callbacks is an answer, the session
holds the blocks of encrypted pushes only, and a mark to be removed has a reason from the
moment the content is composed. From it two theorems that say how far two findings go.
`OnlyEncryptedPushesAreDropped`: a push without an answer is on its way, or is encrypted
and was left to the background sync (the safety half of `PlainPushIsShown`).
`ShownMessagesStay`: what is removed never showed the content of a message or of a call.

**Push service** (`PushNotificationService_proofs`). `ServiceInvariance`, then
`HeardInBackground`, `SilentInForeground`, `CallRingsOnce`, `LogoutForgets`. The
invariant adds that in the background an observer waits where the delegate is not
set yet (`ListensInBackground`), and that an invite held in the store or by a
handler is newer than the last logout and has not rung (`HeldInviteIsFresh`).

**Share extension** (`ShareExtension_proofs`). `ShareInvariance`, then
`TypeCorrect`, `GroupIsBalanced`, `SharesAreComplete`, `ErrorsAreReported`, for every finite set of
attachments and any number of shares. The core is that the group of a share has the
cardinality of the attachments on their way: a handler finds it positive, and an empty
group after the loop means that nothing is waited for. `ErrorsAreKept`,
`NothingCollected` and `FetchedAreImages` are what that needs at the notify block.
`OnlyNilErrorsAreHidden` bounds the finding about `CompletedMeansShared`: behind an end
that looks like a success there is no failed send and nothing still under way, only
attachments that could not be loaded or images of no known type.

**Megolm** (`GroupSession_proofs`), for every `PartSize`, set of inbound copies and
number of messages below 2^31. The ratchet after `n` steps has a closed form: part `k`
is derived from the parts above it as often as the bytes of `n` say. `StepAgrees` shows
that `Advance` keeps that form, `JumpAgrees` that `AdvanceTo` ends in the form of its
target from any earlier one: so a jump is what as many steps are, with no induction
over the counter. The invariant is that every ratchet held, by the sender or a copy, is
in that form. From it `ReadsWhatFollows`, `HistoryStaysClosed`, `FreshKeys` (the form is
injective) and `ForwardOnly`. `ImplementsHistory` maps each session to the set of the
messages it can read, which the invariant puts in closed form (those from its first index
on): sending, sharing and exporting are the steps of `MegolmHistory` of these names, and
reading, which moves ratchets, is none (a stutter). `ExportGivesWhatFollows` adds that the
message an export starts at is the one asked for, which the refinement does not say.
`UnsignedDifference` is where the bound 2^31 comes from: up to it the comparison of the
code is the order of the indexes.

**Olm** (`OlmSession_proofs`), for every limit and any traffic. The invariant says that a
chain and a skipped key belong to exactly the messages their ratchet key and index name,
that the keys of messages read are behind their chain and not among the skipped ones,
and that ratchet keys are generated in order. `ReadOnce` (`ReadKeysAreGone`) follows, and
with it `ImplementsChannel`: the initial state is that of `OlmChannel`, an encryption is
a `Write`, a decryption a `Read`, the creation of a session that cannot read a stutter.
`NothingIsReadTwice` is then shown of the channel alone and holds of the session because it
implements it: a device reads no more messages than the other wrote.

That invariant looks at one device at a time. That the two stay together
(`NextIsReadable`, `UnreadStaysReadable`) rests on `SyncInv`, of both (`InStep`):

* Of the two devices one was heard by the other (`Heard`: equal root keys, one sends on a
  chain the other has received), or one is ahead (`Ahead`: its root key is one step on, made
  from the chain the other still sends on). No third case arises, because only a device
  that received a new chain starts one, and it drops its own when it receives one.
* The chains received are those of the last ratchet keys of the other, in order, so the
  oldest is the one a full list drops (`ChainsInOrder`).
* A chain received has the root key its messages were encrypted under (`RootsAgree`) and is
  not past the sender's (`NotPast`).
* A message behind its chain and not read has its key among the skipped ones, or that key
  was dropped for a limit (`SkippedOrForgotten`).

The difficult step is a message on a chain unknown to its receiver. `SentRoots` tells
whether it can be the next one: root keys only grow, the older messages of a device have
shorter ones, so a message that passes for the next chain is of the newest key of a device
that is ahead. An old message on a chain that was dropped cannot pass for a new one.

**Room keys** (`RoomKeys_proofs`), for any events, keys and number of inputs, with
`TypeCorrect`. `FailuresAreRemembered` (`FailedIsRemembered`) rests on `RememberInv`: an
event is kept from the moment its decryption fails on `cryptoQueue`, not only from the
moment the main thread hears of it, and an index that was seen is a result on its way to
the main thread. That needs `ShowInv`, that the main thread waits for the one event whose
decryption is queued or going on. `RequestsAreLookedAt` needs only the types: whatever
takes away the timer, the loop or the call that would look at the request leaves another.
`RequestsAreKept` rests on `KeptInv`: while the store has no key, no import, retry, result
or cancellation is under way that a key would have caused, so only the user's own
re-request drops the request. `FailuresAreCountedOnce` is inductive as it stands.
`SerialImportsKeepTheBetterKey` proves `KeepsTheBetterKey`, which the code violates
(finding 2), of every behaviour in which an import and a task of `cryptoQueue` never hold
a session at the same time (`OneAtATime`): then a session that is held is the one stored
(`HeldIsStored`). So the overlap is the whole cause, and one queue would be the cure.

Only model-checked: the five liveness properties, which need `ENABLED` and are beyond the
prover, as would be induction over data or a theorem about a RECURSIVE operator (none is
used).

## 6. Plan

Done, because most users depend on them: the lock, the two ends of a push, the share
extension; then Megolm and Olm, the room keys with their requests and the tracker. Next,
in order:

1. `SipCall`: a call of the softphone between PJSIP callbacks, the user and the ringing,
   whose `ring_on` and `ringback_on` are shared by all calls (`Riot/ChatApp/Sip/call.m`).
2. `InlineReply` (`PushNotificationService.m:382-460`) with the registration's
   completion, and `PushDelivery`, which composes both ends of the hand-over in one
   specification.
3. `OlmAccount`: one-time keys, their upload and their use; the sending side of room keys
   (`MXMegolmEncryption`), so that `OlmSession` carries the keys of `GroupSession`.
4. `KeyVerification`, `WidgetManager`, secrets and backups, links and intents.

Runs of new modules replace or join those that ask the least; each new run is to ask a
question that no other asks.

Not modelled, and why: formats, wording, layout, theming (presentation); what MatrixKit,
PJSIP and the rest of MatrixSDK do beyond what the code sees of it (vendored); sizes and
compression of images (data); uploads' progress (display).
