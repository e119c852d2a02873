# Verification of hosted-backend

TLA+ models of this backend, TLC configurations that check them on small
instances, and TLAPS proofs about the room manager, signaling, the IRCd bridge,
Orca's memory, the bot's commands, Sentry and the HTTP process. File and line
references are to the repository; `PROJECT.json` maps every definition to the
lines it models, lists every hazard with the properties that cover it, and every
part that is left out with the reason.

## The system and its parts

One Go process holds three services that share little state: an HTTP API, a
WebRTC selective forwarding unit (SFU) for voice (`^`) and stream (`$`)
channels, and Orca, an operator bot that answers in chat and by voice. Sentry, a
behaviour classifier fed by the IRC server's sentinel module, is a second
process.

| Part | State | Operations | Talks to | What is hard |
|---|---|---|---|---|
| SFU room manager (`voice.go`, `voice_local.go`) | `rooms`, `localExpected`, each room's `peers` and `localPeers`, each peer's role and connection | join, leave, quit, promote, demote, RegisterLocal, stop, connection callbacks | bridge (calls in, envelopes out), pion (callbacks), Orca | handlers and callbacks overlap; a handler keeps the room and nick it looked up across unlocks |
| Presence and role broadcasts (`voice.go`) | none of its own | one or two envelopes per handler, after the unlock | every client of the channel | order against the changes they announce |
| Offer/answer signaling (`voice.go`) | signaling state, senders, `pendingRenegotiate` | handleOffer, handleClientAnswer, renegotiateFor, delayed follow-up | pion, the client | several goroutines renegotiate one connection; glare; lost wakeups |
| Track fan-out (`voice.go`, `voice_local.go`) | `publishedTracks`, `subSenders` | fanOutTrack, subscribeTo, detach on leave | signaling | publishing races with joining |
| IRCd bridge (`voice_bridge.go`) | current connection and its epoch, chunk buffers | accept, replace, dispatch, reassembly, send | IRC server, room manager | refused sends, chunks of a lost connection, two readers after a reconnect |
| Orca memory (`orca/memory.go`) | conversations, turns, summaries | GetOrCreate, Reset, append, BuildMessages, MaybeCompact | chat model | compaction releases its lock during the model call; several questions share a conversation |
| Orca commands and question loops (`orca/*.go`) | a prompt, an iteration count, a card | one per slash command; chat and voice questions | memory, tools, chat model, gateway | they overlap, fail at any call, and outlive their session |
| Bot gateway and cards (`bot/`) | session, heartbeat, Orca's gateway, card state | dial, HELLO, identify, frames, teardown, redial; start, steps, terminal states | gateway server | a session ends under running commands; a card must end on every path |
| Sentry (`sentry/`) | user records, nick index, windows, hash counts, feature cache, models and their file, labels | Observe, eviction, operator labels, admin API, saving, restart | sentinel's socket, admin API | two readers, stale index entries, bounded windows, kills during a save |
| HTTP API (`main.go`, `uploads.go`, `auth*.go`, `irc.go`, `account.go`, `channel.go`, `emoji.go`, `db.go`, `webpush.go`) | SQLite, files, timers, RPC connection, push keypair | one handler per route | IRC server RPC, scanner | partial failure, retries, kills and restarts, overlapping uploads |

What makes each part correct:

- **Room manager**: a room never exceeds its member and streamer limits;
  everyone in a voice room may publish; only a streamer itself or the host takes
  the streamer role away; when the last streamer leaves, the member of longest
  standing succeeds; a lost connection's peer leaves; no mutex waits for itself.
- **Broadcasts**: a client that hears all of them has each row of the server's
  roster right that no two handlers changed across each other.
- **Signaling**: one offer out at a time; unless the bridge loses a message,
  every exchange ends and every track that was added is announced.
- **Bridge**: clients' signals are handed over whole, once, and only if sent;
  the SFU writes to the live connection, and its split signals in order.
- **Memory**: no turn is lost without being summarised, and every prompt has
  complete tool-call sequences.
- **Commands**: each card appears once, ends once with no step open, and the
  command is answered at most once (`/ask` with `reset` whispers once before that,
  under the same interaction); a lost session is replaced; Orca holds no dead gateway.
- **Sentry**: events are counted on their user's record, the index does not take
  one user for another, counts and caches agree with the windows, rate rules
  fire exactly when their limit is reached, and a kill never costs the models.
- **HTTP API**: a token admits one request, uploads are scanned, owned by a
  timer and expire, an account has one avatar, rows and files agree, the push
  keypair survives restarts, and a request waits for ever only on a remote
  party, or behind one that does.

## Modules

| Module | Models |
|---|---|
| `VoiceManager` | the room manager and the in-process participant |
| `VoicePresence` | `VoiceManager` composed with the roster a listening client keeps |
| `Signaling` | offer/answer exchange between the SFU and one member |
| `VoiceBridge` | the IRC server's connection, split signals in both directions |
| `SignalStream` | what the bridge promises about signals; implemented by `VoiceBridge` |
| `OrcaMemory` | Orca's conversation memory and the questions that use it |
| `Gateway` | the bot's sessions with its gateway |
| `BotCommands` | commands, chat answers and their cards, on top of `Gateway` |
| `CardLife` | what users see of a command; implemented by `BotCommands` |
| `UserState` | what Sentry remembers about one user, and the L1 rules |
| `SentryManager` | socket, user table, Observe, labels and admin API, on top of `UserState` |
| `SentryDaemon` | the Sentry process: saving, stopping, kill and restart of `SentryManager` |
| `IrcRpc` | requests of the HTTP server, credentials and the RPC connection |
| `MediaFiles` | uploads, scanner, timers and avatars, on top of `IrcRpc` |
| `Tables` | accounts, channels, emoji packs and their rows, on top of `MediaFiles` |
| `Backend` | the HTTP process: start-up, push keypair, kill and restart, on top of `Tables` |
| `VoiceProofs`, `SignalingProofs`, `VoiceBridgeProofs`, `OrcaMemoryProofs`, `BotCommandsProofs`, `SentryProofs`, `SentryRateProofs`, `BackendProofs` | theorems and their proofs; `SentryRateProofs` builds on `SentryProofs` |
| `MC...` | small instances of the module of that name |

Operators named as a variant of the definition that follows them
(`RoomFullOffByOne`, `AnswerDrainOnly`, `UnsetForgets`, ...) and commented "wrong
form" are deliberately wrong versions of it. No specification uses them;
substituting one shows that the property it is meant for can fail.

Variables that the code does not have record history for the properties
(`mixed` and `raced` in `OrcaMemory`, `givenUp`, `lost` and `missed` in
`Signaling`, `orderly`, `forgotten`, `strayed`, `misjudged` and the like in
`SentryManager`, `crowded`, `earlier`, `unsaved` and `unread` in the HTTP modules).
No guard reads them.

### VoiceManager

Rooms, peers and local participants are Go objects: the model numbers them in
order of allocation, keeps the pointers between them (`registry`, `peers`,
`locals`, `proom`, `lroom`, `tap`) and never reuses a number, so that a stale
pointer is told from a fresh one of the same nick or channel. Numbers of peers
grow with `joinedAt`, which is all the code uses that time for.

Processes are goroutines. A `Dispatcher` is the goroutine of one bridge
connection and runs one frame's handler at a time; two of them exist when the
IRCd reconnected and the old connection's handler is still running. A `Callback`
is the goroutine in which pion reports a connection as failed, disconnected or
closed. A `Loop` is Orca's `runChannel`. `th[t]` holds a goroutine's program
point and what the handler remembers.

A handler is split where it takes and releases locks: a critical section is one
step. A join is `JoinEnter` (the `isLocalExpected` test and `getOrCreateRoom`),
then one of `JoinRoomFull`, `JoinAllocFails` and `JoinInsert` (the critical
section of `room.mu`), then `JoinTell` (callbacks set, envelopes sent). A leave,
from whichever of the four callers, is `LeaveLookup`, `LeaveAbsent` or
`LeaveRemove` with the automatic promotion, `LeaveTell` and `LeaveReap`. Role
requests are a lookup, a locked step with all of its early returns, and a
broadcast. `RegisterLocal` and `stop` are split in the same way; `RegWedge` is
`RegisterLocal` calling `prev.stop()` with the mutex held that `stop` takes.

pion appears only through what `voice.go` relies on: allocation may fail,
closing a connection that has its callbacks makes it report Closed once, and
any connection may be lost. `reapEmpty` reads a room's maps without its mutex;
that read is one atomic step in the model.

### VoicePresence

Adds `view`, the roster of a client that receives every broadcast of a channel
in the order `voiceBridge.send` writes them. The envelopes belong to the `Tell`
steps, which come after the unlock, in any order. `view` also keeps account of
rows that cannot be relied on: a row is "any" once two handlers have changed it
across each other, or in one of the three ways that no envelope tells of
(`Spoilt`), and until a handler replaces or removes it alone. Relays that change nothing on the server (mic, video, hand, reactions)
are left out.

### Signaling

One member, its connection, the client, and every goroutine that renegotiates
with it: one per published track, the follow-ups of `handleOffer`, and the
dispatcher. `renegotiateFor` takes no lock between its test of the signaling
state and `SetLocalDescription`, and is split into those steps. An SDP is the
set of tracks it describes. pion's signaling state machine is external: a local
offer is accepted in the stable state if no other offer was created since. An
answer describes the senders already announced and at most `Slots` others,
which is why `handleOffer` looks for unannounced senders. The client answers
every server offer, rolling back an offer of its own. Any message either way can
be lost, up to `MaxLosses`: `m.send` logs the error of a bridge that is down and
goes on, as if the message had been sent.

### VoiceBridge and SignalStream

Every connection has its handler goroutine: `Register` (the critical section
that closes the connection before it and takes an epoch), then `Assemble` and
`Dispatch` per frame, then `Finish` at the end of the stream or `ScanFails` at a
line the scanner refuses, either of which lets go of the connection only under
its own epoch. A socket that another handler closed while it was open is "cut".
A late handler of an older connection does that to the live one
(`voice_bridge.go:170`). Two handlers overlap while the older one works off what its
scanner has buffered. `chunkBuf` is shared and keyed by sender and chunk id. A
piece is a pair of signal and number, so a whole signal is recognised by its
contents; no piece comes twice, so the branch for a duplicate is never taken.
The comment at `voice_bridge.go:72-74` says that buffers are reset when the bridge
reconnects; the code keeps them, and so does the model. `SendPiece` is one iteration of `sendChunked`; it is refused while
there is no connection and then the rest is not tried.

`SignalStream` has two variables, the signals sent completely and the sequence
handed to the room manager: each is handed over at most once and only when sent.
It may be lost and may overtake others. `VoiceBridge` implements it with
`sent <- Sent`, the signals all of whose pieces the IRC server has been given.

### OrcaMemory

One channel. A turn's number stands for its text and a summary is the set of
turns it was written from, so that "lost" means in neither. Each `Ask` is one
question's goroutine, a `/ask` command (`Command`) or a chat or voice question:
they differ in that only a command can reset the thread, and only the others
compact after running out of tool iterations. Appends are atomic (`conv.mu`);
`MaybeCompact` is split at its unlocks. A slice bound out of range ends the
process (`crashed`).

### Gateway, BotCommands and CardLife

Every connection is a `Gateway` object, numbered by dial. `runBot` is the program
counter `loop`; the deferred calls of `connectAndRun` are the separate steps
`Unset`, `Close` and `Cancel`, for other goroutines run between them. The read
loop ends only when the socket fails; RECONNECT cancels the context and no more.

A command is a goroutine that keeps the gateway it was invoked on (a chat answer
reads Orca's when it starts), and a list of phases: tool calls whose failure ends
the command or does not, reasoning lines, checks. `/ask` and chat answers are
rounds of model and tools with a budget. A frame changes `card[i]`, what the
server shows, only while the session is alive. `/ask` with `reset` whispers "(thread
reset)" (`orca/ask.go:47-50`) under the interaction that its answer will also
use: `Reset` sends it before the card starts, and `CardLife` counts it apart
(`early`). `CardLife` is the card, that whisper and the answer.

### UserState, SentryManager and SentryDaemon

`UserState` has the windows, the hash counts, the cached features and the
thirteen rules as operators on one record. A message body is what the code reads
off a text (hash, URLs, capitals, mentions, phishing); a feature vector is the
window contents its numbers come from. `SentryManager` adds the table of records
by UID, the nick index with its fallback, idle eviction, the socket with one
reader per accepted connection, and the pipeline of `Observe` split where the
manager's mutex is released. The IRC network is external and is the reference: it
knows who did what, and `Due` computes from the last minute, without any window,
which rate rules should fire. `SentryDaemon` adds `saveModels` on its two
goroutines at the level of inodes and names, signals, kills and restarts.

### IrcRpc, MediaFiles, Tables and Backend

A request is a record with its handler, program counter, input and what it has
found out. A statement, a file operation and an RPC are one step each; between
them any other request runs and the process may be killed. `ircQuery` holds
`ircMu` over connecting, asking, and asking again after a connection error; the
`/irc/` handlers use the connection without it. The IRC server spends a token
when it validates it, whether or not the answer arrives. Reading the avatar
directory, removing a file, running the scanner, reading the key file and making
a key can each fail, and the handler goes on as the code does: it ignores the
error of `ReadDir` and of `os.Remove` (such a file is "left"), rejects an upload
whose scanner did not run, and makes a new key. A file is named after
the request that makes it, which stands for the time and random suffix in its
name. Foreign keys are declared but not enforced, as SQLite does without the
pragma. `Backend` starts the process in `main`'s order and resets on `Crash`
what a killed process loses.

## Runs

Ten runs pass. `VoiceWedge` and `SignalingWakeup` each check one thing a comment
says of the code, and TLC finds it violated.

| Run | Properties | Shows |
|---|---|---|
| `VoiceOverlap` | `StreamerCap`, `OnlySelfOrHostDemotes`, `SuccessionByTenure` | a `$`-room of three nicks, one bridge connection and callbacks overlapping |
| `VoiceRooms` | `IInv`, `RoomCap` | two bridge connections and two `runChannel` loops racing for the one place of a `^`-room, with library calls failing: the inductive invariant holds even where `RegisterLocal` deadlocks |
| `VoiceLiveness` | `RowsTold`, `LostPeersLeave` | handlers, callbacks and a loop announce their changes in any order: rows no two of them fought over are right; a peer whose connection is lost leaves the registered room |
| `VoiceWedge` | `NoRoomWedged` violated | with two loops on one channel, `RegisterLocal` stops the registration it finds while it holds the mutex that `stop` takes, and the room stays locked; `voice_local.go:66-68` calls it idempotent |
| `SignalingOverlap` | `OneOfferOut`, `ExchangesEnd`, `TracksAnnounced` | two publishers, the follow-up and the dispatcher overlap with a client's offer, and the bridge loses up to two messages |
| `SignalingWakeup` | `FlagDrained` violated | with nothing lost, a renegotiation that was put off is forgotten: the flag is set after `handleClientAnswer` has looked at it, against `voice.go:1051-1053` |
| `Memory` | `NoTurnForgotten`, `CallsAnswered`, `NoOrphanResponse` | two questions, a reset and up to two compactions in one conversation |
| `BridgeReconnect` | `TypeOK`, `LiveIsCurrent`, `WrittenInOrder`, `WholeOnce`, `DeadLetGo` | the connection is lost and replaced in the middle of split signals, two clients with the same chunk id, one of them misnumbering its pieces |
| `BotSessions` | `OrcaGwLive`, `CardsEnd`, `CardsClose`, `SessionsReplaced` | a command of each kind, `/ask` with and without `reset`, while its session is lost, torn down and replaced |
| `SentryTable` | `AttributedToSelf`, `IndexHonest`, `ModelsWhole`, `StepsOnRecord` | two users, two nicks, two connections of sentinel, lost lines, both forms of nick lines, eviction; training, two savers, signals, kills and restarts |
| `SentryWindows` | `HashesMatchWindow`, `FeaturesCurrent`, `RateAlertsTrue` | one user against windows of two entries, beside the admin API and eviction |
| `Backend` | `TokenOnce`, `InfoNeverNil`, `UploadsOwned`, `OneAvatar`, `AvatarLeft`, `EntryHasFile`, `RegisteredWhole`, `KeyStable`, `RequestsEnd`, `UploadExpires` | two requests in every order, an RPC connection that breaks, files that cannot be read, written or removed, a process killed at any step and started again |

### What the properties except

The models have the following behaviour because the code has it. Where a
property says "unless", this is what it excepts, and each exception is tied to
the overlap or fault that causes it.

Voice:
- A connection callback names its peer by nick and channel: the Closed callback
  of a connection that a rejoin replaced removes the new peer (`voice.go:650`).
- The only streamer that rejoins comes back as a viewer, for its stale entry
  still counts (`voice.go:554`). `SuccessionByTenure` is about leaves.
- A join can insert its member into a room that was reaped since the lookup
  (`voice.go:519`), or a nick that became the local participant's since the test
  (`voice.go:515`).
- Two handlers that change one row across each other may announce it in the
  wrong order, and nothing corrects the client until the row changes again.
  `RowsTold` excepts such rows, and those no envelope tells of: a change in a
  room that is no longer registered, one of a client and the local participant
  of the same nick where the other stays, and the eviction by a `RegisterLocal`
  that then fails to make its track.
- A channel configured twice has two loops, and `RegisterLocal` then waits for a
  mutex it holds (`VoiceWedge`). With one loop this is proved not to happen.
- A lost offer or answer leaves the connection waiting for an answer: it offers
  nothing and accepts no offer until the member rejoins (`lost`).
- A renegotiation is lost when the exchange it defers to ends before it sets the
  flag (`voice.go:1057`, `SignalingWakeup`), or another offer is created first
  (`givenUp`).
- The late handler of an older bridge connection closes the live one and takes
  its place; signals are refused until it ends and the IRC server dials again.
  `LiveIsCurrent` allows that cut and no other.

Orca:
- Two compactions at once cut by cutoffs that no longer fit and may slice out of
  range (`orca/memory.go:291`, `raced`).
- Turns of another question between a call and its responses make the repair
  drop the call and keep the responses (`mixed`), although
  `orca/memory.go:179-180` says that dangling responses are discarded.
- `/ask` with `reset` gives two responses to one interaction: the whisper about
  the reset and its answer.
- RECONNECT cancels the context only, and the session goes on until the server
  closes it; the reconnect delay is never reset.

Sentry:
- A user without a record of its own is looked up by nick and may be taken for
  one who left (`AttributedToSelf`); evicting a user deletes its nick's entry
  even when the nick is another's by now, so the index may lack an entry.
  `sentry/manager.go:530-532` says that a minimal record is created for a user
  without one; after an eviction the record found by nick is used instead
  (`forgotten`).
- A nick line that has the new nick as its target: `handleNick` follows it, and
  `onNick` (`sentry/state.go:251`) writes the old one back into the record.
  `IndexHonest` is about connections without such lines (`orderly`).
- A later identity line changes the account and TLS of a user and leaves the
  cached features, which hold both (`sentry/manager.go:487`), though
  `sentry/state.go:271-272` says that the next event invalidates the cache:
  `FeaturesCurrent` excepts these two.
- The rate rules compare with `>=` where the comments of `sentry/l1.go` say "more
  than" (`>30`, `>10`, `>5`), and `hop_flood` counts kicks as parts. `Due` has the
  comparisons of the code: `RateAlertsTrue` is about the windows and the cache,
  not about the limits.
- A signal during a periodic save lets both savers write one temporary file, and
  the models file can be torn (`overlapped`).
- `pm_shotgun` and `nickserv_spoof` look at windows that may have lost what they
  would count: they are checked not to fire wrongly, not to fire always.
- Without the admin API there is no alert sink, and the first alert panics
  (`sentry/cmd/sentry/main.go:77`); the model has the API on.

HTTP API:
- A token may be spent and the answer lost: the upload is then refused.
- The `/irc/` handlers never reconnect, and fail until an upload does.
- Nothing limits in time how long a request waits for its client's body, for an
  address it fetches (`main.go:423`), for the IRC server (asked with `ircMu` held,
  so that all others wait too) or for the scanner. `RequestsEnd` says that a
  request waits for ever on nothing else.
- A failed write leaves a partial upload without a timer; timers die with the
  process; a kill between write and scan leaves a file unscanned; a file whose
  removal fails stays, also a rejected one (`main.go:500`, `main.go:506`).
- Overlapping avatar uploads may leave two files, and so does a directory that
  cannot be read or a file that cannot be removed (`main.go:954`); removing avatars goes by name
  prefix and also hits accounts whose name continues with an underscore. A raw
  or JSON avatar upload without an account is stored under another name than a
  form's.
- An account may lack its verification code after a failure that its caller was
  told of, or a kill.
- A key file that is whole but cannot be read at a start is taken for a first
  run and overwritten (`webpush.go:55`): all subscriptions are void, although
  `webpush.go:48-52` says that the keypair must be stable (`unread`). When no key
  can be made the process goes on with an empty one.
- Deleting a pack leaves its entries, which a pack of the same name revives. The
  comment at `emoji.go:312` counts on CASCADE, which SQLite does not do unless
  foreign keys are switched on; `db.go` does not.

### Bounds

All `Max...` constants only bound how many objects or events a behaviour has.
Voice: two rooms of one channel are enough for a reaped room and its successor;
three peers for a stale connection, its replacement and a bystander, or for two
streamers and a viewer with `MaxStreamers = 2`; two local registrations for a
replacement; `MaxRoomSize = 1` makes two joins compete. Signaling: one track from
before the join, two published later and one slot give an answer that leaves a
sender out while others publish; one client offer allows glare and a follow-up;
two losses can take an answer and then an offer. Bridge: two connections are an
old handler and its successor; two pieces are a signal cut short. Memory scales
24 and 40 turns down to 4 and 5, keeps their order, and starts with an earlier
exchange so that window and cutoff fall inside tool-call sequences; two asks make
at most two compactions. Bot: two sessions are one lost and its replacement, two
rounds with up to two calls are a first and a last one. Sentry: limits and
windows of one or two entries in the code's order (no limit above its window);
four lines fill a window, empty it and trigger a rule; `MaxWork` limits lines,
requests, saves and stops together, so that any few of them meet. Backend: two requests
suffice for every race between two handlers; `Traffic` splits the routes into
those that share state (uploads and RPC, avatars, accounts and channels, emoji,
push key); one break and one kill can come at any step; trouble with the key file
only where somebody asks for the key; it starts both as a fresh installation and
as one that has run before.

Nicks other than Orca's are interchangeable, as are bridge connections, loops,
and Sentry's users and nicks, hence the symmetry sets; they are used in no run
with a liveness property.

All runs say `CHECK_DEADLOCK FALSE`: with its bounds used up, a server with
nothing left to handle rests, as the real one does between requests. The
deadlocks the code could have are properties of their own, `NoRoomWedged` and
`RequestsEnd`.

### Fairness

Always weak fairness of goroutines that are inside a handler, which the Go
scheduler runs; nothing makes a client send, a connection fail, or a process die.
`Signaling!FairSpec` assumes in addition that the client makes its first offer (a
client joins to negotiate) and reads what it is sent; that messages arrive is not
assumed. `BotCommands!Fairness` assumes that model calls return, whose HTTP client
has a timeout, and not that tools do: `CardsClose` excepts a command whose tool
never returns (`InCall`). `Backend!Fairness` is of the steps that no remote party
owes: statements, file operations, the mutex, and timers. Receiving a body,
fetching, dialling and asking the IRC server, and the scanner have no timeout in
the code and are owed nothing (`Remote`). `VoiceBridge!Fairness` is of its
handlers; the IRC server owes nothing.

## Proofs

All theorems are for every value of the constants that the named assumptions of
the modules allow. The bounds of the runs (`Max...`) are among those constants.
The proof of each inductive invariant has one lemma per action and, under it, a
step per conjunct the action can disturb.

### VoiceProofs

`Invariance` (`Spec => []IInv`), `Typed`, `StreamersBounded` (`StreamerCap`),
`MembersBounded` (`RoomCap`), `VoiceRoomsHaveNoViewers` (`VoiceRoomsPublish`),
`DemotionIsAsked` (`OnlySelfOrHostDemotes`), `TenureDecides`
(`SuccessionByTenure`), `OneLoopNeverWedges` (`NoRoomWedged` with one loop).
Assumed: `MaxStreamers` is at least 1 (the code's is 4), the nicks are finitely
many, and the three kinds of goroutine are distinct.

`StreamerCap` is not inductive. A step that changes the role of one peer could
change the count of several rooms if two entries shared the peer, and a
promotion is only safe in the room whose mode was tested at the lookup.
`IInv` therefore adds `PeersFit` (a member entry and its peer name each other,
and unallocated numbers are unused, so a new peer is in no room) and `FramesFit`
(what a goroutine remembers at each program point: an allocated room, a nick,
and a stream room for role requests; a room's channel never changes once
allocated, so this stays true while other handlers run). The counting steps come
down to three facts: adding one nick to a set below its cap keeps the cap,
subsets of a finite set have no larger cardinality, and an automatic promotion
happens only when no streamer is left.

The two action properties follow from `RoomChanges`: a step changes members and
roles in one of five ways (`Admits`, `Removes`, `Raises`, `Lowers`, `Drops`) or not
at all. Only `Lowers` makes a viewer of a streamer that stays, and two members
never share a peer (`PeersDistinct`).

`NoRoomWedged` is no consequence of `IInv`. `RegisterLocal` waits for a mutex it
holds when the local peer it replaces is registered and not yet stopped, so the
proof needs that with one `runChannel` this never happens: `Owned` says that a
registered local peer that is not stopped is one that the loop is about to hand
to the tap or that the tap holds, and the loop stops it before it registers
another.

### SignalingProofs

`ServerOffersOnce`: `Spec => []OneOfferOut`, for any number of publishing tracks,
follow-ups, offers of the client and lost messages. `SInv` adds that a remote offer is being
answered exactly while the dispatcher is at that step (`AnswersRemote`), which is
what keeps a local offer from being set over it, and that a track that is not
yet on the connection has no goroutine (`NotStarted`). Messages under way are
counted by type; a step adds or takes one.

### VoiceBridgeProofs

`LiveConnection`: `Spec => []LiveIsCurrent`. A handler that ends must not take the
connection of its successor with it, which is what the epochs are for. `BInv`
says so: no two handlers share an epoch, none exceeds `connEpoch`, and the
current connection is the one of the running handler with the last epoch. An
open connection is the last one dialled, so whoever cuts it is the handler of an
earlier one, registering late.

`BridgeImplementsStream`: `Spec => WholeOnce`, the refinement of `SignalStream`.
That a signal is not handed over twice rests on where its frames can be. `WInv`:
a frame is on one connection at most, and once read on none again (`done`
collects those); a buffer holds only pieces of the signal its key names, all of
them read, and counts them; a signal about to be dispatched has all frames read,
is held by one handler and was not handed over. Completing a signal reads its
last frame, so it was not complete before. Assumed (`IdsFresh`): a client draws a
fresh chunk id for every signal it splits, and no piece is empty; `assembleChunk`
tells an arrived part by its being non-empty (`voice_bridge.go:118`).

`PiecesInOrder` (`WrittenInOrder`): `sendChunked`'s position in a signal is the
number of its pieces written so far (`Counted`). `BridgeTyped` (`TypeOK`) says that
a chunk buffer only ever holds pieces of its own signal.

### OrcaMemoryProofs

`CompactionForgetsNothing`: `Spec => []NoTurnForgotten`, for any sizes of window and
trigger and any number of questions, resets and compactions. `MaybeCompact` uses
after the model call what it read before it, so the invariant says what it still
knows then: while one compaction is at work in a conversation (`OneAtWork`), the
summary it started from is still the conversation's, its cutoff is within the
turns, and the turns it had summarised are still the first ones (`CutsUpToDate`).
Conversations where two compactions met (`raced`) are excepted, as in the run.

`EveryCallAnswered` (`CallsAnswered`) and `EveryResponseCalled` (`NoOrphanResponse`), for
any window and any interleaving of questions, need first what
`repairToolCallSequences` does: `Nth` lists what it keeps in order, each once
(`NthLists`: the ranks of a set of positions are a bijection onto 1, 2, ...), a
run of responses lies within no other (`RunsApart`), so a run is kept whole or
dropped whole (`RunRepaired`, `RepairAnswers`, `RepairFollows`). `QInv` is then about
the turns before any repair:

- `TurnsFit`: a tool turn of a conversation follows the turn that made its calls,
  or no question is left before it (`Placed`), unless a mixed question made them.
  The second case is what a compaction leaves that cuts within a run; a window
  starts at a question, so it is in no prompt (`PromptBuilt`).
- `AskFits`: between the calls of a question that is not mixed and their
  responses its conversation ends with its own turns (`Underway`); its prompt does
  so always (`Asking`), and what has no response yet is in `todo` (`Owing`).
- `Alone`: of two questions at work in one conversation both are mixed.

### BotCommandsProofs

`OrcaHoldsLiveGateway`: `Spec => []OrcaGwLive`. `CommandsImplementCards`:
`Spec => CardsEnd`, the refinement of `CardLife`. The invariant `CInv` relates a
command's program point to its card (`Match`), under the condition that its
session is alive: a lost session freezes the card wherever it is, and the
command goes on unseen. This needs that a session never comes back to life
(`NoRevival`: a dial makes a new one, and no command has the gateway of a session
not yet dialled), and that a chat answer ends in one of two ways, with its
terminal state sent or with an error said and the state left to the deferred
function (`terminated`). One lemma per step of a command shows that the frame
it sends is a change `CardLife` allows.

### SentryProofs

`ModelsFileWhole`: `Spec => []ModelsWhole`. `FInv`: unless the two savers met
(`overlapped`), at most one is at work, the temporary name is its file, and that
file is empty when it is filled and complete when it is renamed; hence the
renamed file is complete at every step a kill can come at.

`TrainingOnRecord`: `Spec => []StepsOnRecord`. Comparing steps with labels is not
inductive, for a reader or the admin API may be about to train. `LInv` counts
them: steps taken plus goroutines that are about to take one never exceed the
labels stored plus those that could not be stored, and neither do the steps in
any snapshot or file. Assumed (`ManagerAssumption`): finitely many users, and
nicks other than the names of the states of the network.

The user table needs four invariants, each on top of the one before, and the
rate rules a fifth (`SentryRateProofs`). `EInv`: what is on a socket or
before a reader is a line of a user that has connected. `TInv`: every record is
in order by itself (`RecordOK`), and the table gives a user a record of its own
UID. `AInv`: a user that has connected has a record, unless it was evicted, its
first line was lost, or that line is still before a reader; an event that finds
it there has overtaken it, on another connection. `NInv`: below.

- `HashesFollowWindow` (`HashesMatchWindow`) and `CacheNeverStale`
  (`FeaturesCurrent`) follow from `TInv`. The lemmas under it say of each operator
  of `UserState` what it does to a record: taking a message into a full window
  shifts the window by one, and the number of places of a hash changes by
  exactly what `onMessage` adds and removes; what an event changes of what
  `computeFeatures` reads empties the cache.
- `EventsAttributed` (`AttributedToSelf`) follows from `AInv`: the fallback of
  `getOrCreate` to the nick index is taken only for a user without a record, who
  was then evicted, lost, or overtaken by its own event.
- `IndexIsHonest` (`IndexHonest`) is about an orderly connection whose lines are
  read. Between lines the index and the network disagree, so `NInv` says what
  they will agree on: only the reader of the current connection has work
  (`OnlyReader`); the lines of a user before it begin with its first lines, and
  those after its last change of nick carry the nick it has (`QueueTold`); a
  record has the network's nick unless a change of it is still in the queue, and
  none while the user's registration is (`RecordsTold`); the event the reader is
  at obeys the same (`EventTold`); and an entry of the index leads to a record
  of that nick (`EntriesKept`). Two lemmas carry it: `AppendTells` (what a new
  line does to what the queue says) and `TailTells` (what taking the first one
  does).

### SentryRateProofs

`RateAlertsRight`: `Spec => []RateAlertsTrue`, on top of `EInv`, `TInv`, `AInv` and
`NInv`. `Due` says what a rule must say by everything the user did in the last
minute (`lately`); the code says it by windows that drop their oldest entries,
when the line is read at last and other lines have been written meanwhile.
`WInv` keeps an account of every user that was not evicted, as long as the
connection is orderly:

- `NoneLost`: for every class of events and every time since a minute ago, what
  the window holds since then and what the lines before the reader will add is
  never more than what the user did, and is exactly that unless the window is
  full. So a count short of its limit is right: a window that holds fewer than
  its length since then has dropped nothing since then. This is where the proof
  needs that no limit is above the length of its window (`LimitAssumption`; in
  the code the closest is 30 messages a minute in a window of 32).
- `DueKnown`: a line that waits will be judged as `Due` said when it was written:
  by the window and the lines up to it, since a minute before its time. Lines
  written later and a minute that passes change neither.
- `AllSent`, `FoundKnown`: the same for the two rules that search, as sets: what
  the window and the lines ahead hold was sent, so nothing is found wrongly.
- `Owner`: the record that the reader has found is the user's own, the windows
  call for what the line calls for once it is counted, and a cache filled since
  then has features of that time or later. Features of a later time recall
  less, hence the exception for the admin API in `Wrong`.
- `LinesKnown`, `RecordsKnown`, `NicksKnown`: lines wait in the order of their
  times and windows are in that order; a user's last line says that it leaves;
  and no waiting line of another carries a nick before its owner gives it up, so
  the fallback to the nick index cannot count it on the owner's record.

The steps come down to counting elements of a sequence (`Hits`) when one is
added at the end (`HeardHits`), taken from the front (`ReadHits`), or pushed out
of a full window (`WindowSlides`), and when the front of what was done grows older than
a minute (`HitsSuffix`). `Tick` and `messagesInWindow` are written by position
rather than as filters for the sake of this proof; a filter is an induction.

### BackendProofs

`TokenLetsInOnce`, `ConnectionStays`, `UploadsAreOwned`, `AvatarIsReplaced`,
`AvatarSurvives`, `EmojiHasFile`, `AccountHasCode`, `KeyIsStable`: all invariants of
the run `Backend`, for any number of requests, tokens, breaks of the connection
and kills, and whatever the requests are for. `BInv` says where in its handler a
request can be with a file, an owner or a reply (`Places`), and that none is
served while the process is down (`AtRest`). On top of that:

- `TokensSpent`: a token that let a request in is spent. That is why no later
  one is let in with it, although `ircQuery` repeats a validation.
- `UploadKept`: a complete upload is still being scanned, has its timer, or is
  from before a kill; what is left otherwise is a file whose removal failed.
- `AvatarsApart`: of two uploads for one owner that did not overlap, and whose
  listing and removals succeeded, the later one has the file of the earlier one
  in its listing, removes it, and creates its own only then.
- `OneHolds`: the opposite danger, that overlapping uploads remove each other's
  files. Among them one always has made its file or has yet to make it: whoever
  removes another's file creates its own afterwards.
- `EmojiKept`, `AccountKept`: a row with a file or a user was written by a request
  that is past making it.
- `KeyKept`: the key is replaced only while the file lacks it and nothing was
  made with it, unless the file could not be read or written.

### Only model-checked

Liveness (`LostPeersLeave`, `ExchangesEnd`, `TracksAnnounced`, `DeadLetGo`,
`CardsClose`, `SessionsReplaced`, `RequestsEnd`, `UploadExpires`) is outside what the
proof system handles. `RowsTold` is checked and not proved. Every other safety
property that a passing run checks has a theorem.

## Not modelled

- Track fan-out: `publishedTracks` and `subSenders` of several peers. A track is
  published before its senders are added (`voice.go:767`), and a leaving nick's
  senders are found by prefix (`voice.go:921`).
- Orca's speech: preemption by a newer answer (`disarmTTS`, `orca/voice.go:100`).
- Media (RTP forwarding, codecs, keyframe requests), ICE and TURN: I/O or pion's.
- AI providers, the OAuth proxy and sending a push notification: one outbound
  request each, without state.
- Sentry's explanations and the arithmetic of its models: reports and
  floating-point statistics, out of reach of both tools.
- The simulator and the command-line tools: not part of the running service.

## Plan

1. `TrackFanout`: each member has exactly one sender per track of the others and
   none of a peer that left, composed with joins and leaves.
2. `OrcaTTS`: preemption of playback.
