# Comic Chat for macOS: TLA+ verification project

The port runs the C++ engine of 1998 (layout and IRC protocol) under a Swift
session layer and a SwiftUI application.  Layout and drawing are sequential and
numeric; what is hard to get right, and hard to test, is the session: callbacks
of `NWConnection`, timers, tasks and the main thread that meet on one serial
queue, a handshake with three ways to log in, a reconnect loop that suspends
between checks, and events that are handled after what they tell of is gone.
This project models that part, checks it with TLC and proves its main
invariants with TLAPS.  Eight modules model the code, two (`SessionContract`,
`LineStream`) are abstract specifications that a detailed one is shown to
implement, seven hold the proofs of a component each, and one (`Induction`) the
lemmas on induction and folds that two of them need.

Paths below are relative to `macos/ComicChatKit/Sources/` unless they start
with `macos/`.

## 1. Inventory

| Component | State it keeps | Operations | Interacts with | What makes it correct | Modules |
|---|---|---|---|---|---|
| IRC session (`ComicChatKit/ProtocolSession.swift`) | connection status, `probing`/`loginSent`/`sawServerCaps`, timer, continuation of `connect()`, room and member tables, event stream | `connect`, `.ready`/`.failed`, `receiveLoop`, timer, `disconnect`, gated commands | engine by synchronous C callbacks both ways; model by `AsyncStream` | registers once; every loss reported, the user's own disconnect not | `SessionContract`, `Login` |
| Engine line framer (`cchat-engine/engine/ircsock.cpp`) | `m_szInput`, `m_nMaxMsgLength` | `ccOnReceiveBytes`, `HrInitAlloc` | blocks from `receiveLoop`, lines to the handlers | every line whole, once, in order; buffer never overrun | `LineStream`, `Framer` |
| Engine protocol (`ircsock.cpp`, `ircproto.cpp`, `query.cpp`) | query cells, `m_bIrcXServer`, `m_bJustSentModeIsIrcX`, `m_bAnonAllowed`, `m_bRegistered` | one handler per numeric and command, outbound builders | `cfg.send`, `set_timer`, `cancel_timer`, `on_event` | probe flag, cell and timer in step | `Login`; events in `Members`, `RoomList` |
| Session bridge (`cchat-engine/bridge/cc_session.cpp`) | handle, room tokens | C entry points | Swift and engine | token and channel agree | `Login`, `Rooms` |
| Auto-reconnect and shutdown (`ComicChatKit/ChatSessionModel.swift`) | `session`, `isReconnecting`, `reconnectTask`, `isShutDown` | hint, loop, attempt, finish, give up, `cancelReconnect`, `shutdown` | queue, loop Task, consumer Task, main thread | a drop starts one loop, it ends, all rooms return, nothing after shutdown | `Reconnect` |
| Event consumer (same file) | one Task per session | rebind, enqueue | stream to `engineQueue` | order kept, none for a dead model | `Reconnect` |
| Rooms, transcripts, live strip (same file) | `rooms`, `roomOrder`, `activeRoom`, transcripts, unread counts, pending echoes | join, leave, activate, send, reflow | session, strip bridge | no phantom or lost room; each line once; strip = replay of the transcript | `Rooms` |
| Room list (same file, `RoomListWindow.swift`) | in-flight flag, accumulator | request, begin/item/end, error | session, main thread | one whole answer per request, never wedged | `RoomList` |
| Member snapshots (same file) | the session's member tables, `membersSeq`, `appliedMembersSeq` | `applyStateUpdate`, `emitMembers` | session, Tasks, main thread | newest snapshot wins; list = server's list | `Members` |
| Avatars (same file, `ProtocolStripBridge.swift`, `AvatarDownloader.swift`) | participants, announced names, default cycle, in-flight set | announce, dress, fetch, reflow | detached Tasks, engine queue, disk | a peer wears what it announced; one fetch at a time | `Avatars` |
| App shell (`macos/ComicChat/ComicChat/AppState.swift`) | current model, mirrored state, metrics canvas | connect, disconnect, failed start, callbacks | models by main-actor closures | mirrors the live model only; no dangling canvas | `Shell`, `RoomList` |
| Encoding and annotations, strip engine, art, settings, replay servers, historical sources | data | pure conversion, drawing, files | - | golden tests | none |

Behaviours that are hard: two completions that notice one loss, around a
`disconnect()`; a probe timeout racing a late 800 or 451; tasks that check a
condition on the queue and act off it; events of a replaced session handled in
the name of its successor; `shutdown()` in three steps with the queue free in
between; a dial that is never answered.  `PROJECT.json` lists each at its line
under `hazards`.

## 2. Plan

Done, in this order, most important behaviour first:

1. `SessionContract` - what a session promises to its consumer.
2. `Login` - one session in detail; implements `SessionContract`.
3. `Reconnect` - the model around sessions that behave as the contract allows.
4. `Rooms` - boxes, tabs, transcripts, unread counts and the active strip
   under the user's commands and the session's events.
5. `LineStream`, `Framer` - the stream of lines, and the loops that cut it out of
   the network's blocks; the second implements the first.
6. `Members` - from the server's membership to the list on screen.
7. `Shell`, and `RoomList` which extends it - the app over the models it makes one
   after the other, and the room list across them.
8. `Avatars` - announcements, fetches, the strip's participants and the reflow.
9. `LoginProofs`, `ReconnectProofs`, `RoomsProofs`, `FramerProofs`,
   `MembersProofs`, `ShellProofs`, `AvatarsProofs`, over `Induction`: every safety
   property of the passing runs, and the two refinements but for their fairness.

Left:

10. Liveness, shutdown and the indicator the user sees around two drops whose loops
    overlap: `reconnect_drops` checks the safety of two drops without rooms and
    shutdown; more is beyond TLC in the present detail of `Reconnect`, and needs a
    narrower session (`Shell` has the indicator, with a reconnect of four steps).
11. Room display names against folded keys and exact-case tokens, with the abstract
    specification for `Rooms`: a tab that is open is joined, is being joined, or can
    be closed.
12. The pairing of an annotation (`DATA`) with the line that follows it.
13. The safety core of the liveness properties, as theorems: that a reconnect loop
    only moves forward through a bounded number of attempts, and that at most one
    loop is not cancelled.

`Rooms` and `Reconnect` meet in the hint and the login.  `Reconnect` has the loops,
the sessions and shutdown, and leaves the strip out; `Rooms` has what the two
events do to strip and tabs (`HandlesHint`, `HandlesLogin`), and of the loop only
that it makes an attempt or gives up (`Attempts`, `GivesUp`).  They are checked
apart, each with the other's part as free as its code allows.  `Members` and `Avatars` are
likewise views of the same queue that share no state with one another.

## 3. What is modelled

### `Login` (module `MCLogin` for TLC)

One `ProtocolSession` object from `connect()` to the end of its socket.  All of
it runs on the serial `sessionQueue`, so an action is one closure of that queue
with all the synchronous calls it makes: Swift into the engine
(`cc_session_probe_ircx`, `cc_session_feed_bytes`, `cc_session_fire_timer`,
`cc_session_login`) and the engine back into Swift (`send`, `set_timer`,
`cancel_timer`, `on_event`).

| Code | Model |
|---|---|
| `connectionStatus`, login flags, `timerSource` | `status`, `probing`, `loginSent`, `sawServerCaps`, `timer` |
| the continuation in `connect()` | `connectCall` |
| `cSession` and the `CIrcSocket` flags, destroyed together | `cSession`, `justSentModeIsIrcX`, `bIrcXServer`, `anonAllowed`, `registered` |
| probe cells of `m_queries` | `queries` (set of cell types: `FindQuery` looks up by type, and a type is never queued twice) |
| bytes written, events yielded | `sent`, `events` |
| `NWConnection` and its completions | `socket`, `callbacks` |
| state handler, `receiveLoop` | `SocketReady`, `DialFailed`, `DialWaits`, `LossCallback` |
| RPL_IRCX 800, 451, ERROR, 001 | `FirstCaps`, `SecondCaps`, `UnmatchedCaps`, `NotRegistered`, `ServerError`, `Welcome` |
| `cancelTimer`, `sendLoginIfNeeded` | operators `CancelTimer`, `SendLoginIfNeeded`, used by the actions that reach them, in the order the code calls them (the login goes out before `IRCX`, because the engine cancels the timer first) |

The server may send any of these lines in any order, except that it does not
answer a line it has not been sent.  A data block that arrives together with
the end of the connection may be handled after the `.failed` handler: its
completion hops to the queue once more (`Receive`).

### `SessionContract`

Five variables: stage, registered, lost, losses still owed, events.  `Login`
implements it with the mapping at the end of `Login`; `registered <- loginSent`,
`owed <- the completions still to run`, and after `disconnect()` nothing is owed.

### `Reconnect` (module `MCReconnect`)

`engineQueue` is a sequence of closures, run in order (`ClosureRuns`).  Around
it, each with its own steps: every reconnect loop ever started (`LoopStep`; its
stages are the suspension points of `runReconnectLoop`), the consumer of each
session's stream (`Consumes`; a cancelled one may still deliver or stop), the
main thread in `shutdown()` (three stages between which the queue goes on),
fire-and-forget join tasks, and the network.

| Code | Model |
|---|---|
| `session` | the last element of `sessions`; earlier ones live on until they end |
| `reconnectTask`, `Task.isCancelled` | index into `loops`, `cancelled` |
| `AsyncStream` of a session | its `stream` |
| `roomOrder` | `open` (order is not observed) |
| `onQueueGated` join | `JoinRuns`, refused unless `connected`; one step for all rooms of a Task, which hops once for each |
| `onReconnectStateChanged` | `indicator`, the last state emitted |
| (none) | `mistaken`, a history variable: the last reconnect was ended by a login of a session already replaced |
| grace window of 100 polls | `GraceEnds` (a poll sees the end), `GraceExpires` |
| backoff times | no duration: a sleep ends at some time |

A session here is the contract's: it dials, comes up or fails or waits, may log
in once, may drop, and a drop is reported once or twice, the second time after
a last block of data.  `disconnect()` and `connect()` are closures too.

### `Rooms` (module `MCRooms`)

The second half of `ChatSessionModel`: what the user sees.  A closure on
`engineQueue` is one action, since the queue is serial and no closure waits.
The user's commands are Swift Tasks that hop onto the queue two to four times;
between two hops everything else may run, so each hop is an action and `tasks`
says where a command is.  Closures of different Tasks may be queued in either
order; only the order within a Task is fixed, so no queue is kept.

| Code | Model |
|---|---|
| `rooms`, `roomOrder` | `rooms` (keys), `roomOrder` |
| `RoomBox.transcript`, `.unread` | `transcript`, `unread` |
| `activeRoom`; `strip` and `bridge` | `activeRoom`; `strip`, open or not, with the lines applied to it so far |
| `isReconnecting` | same name |
| `ignoredNicks`; `characterName # initialCharacterName` | `ignored` (one peer speaks), `switched` |
| `pendingLocalEchoes` | a set: every text is sent once |
| session: status, tokens, stream | `status`, `registered`, `wire` |
| `maybeStartReconnectLocked`, which closes the strip | `HandlesHint` |
| `.loggedIn`, with `finishReconnectLocked`, which builds it again | `HandlesLogin` |
| `reconnectAttemptLocked`, `giveUpReconnectLocked` | `Attempts`, `GivesUp` |
| `handleLocked` and its cases | `HandleLocked`, `Handles...` |
| `joinRoom`, `goToRoom` | `JoinRoom`, `JoinSends`, `SetActiveRoom` |
| `leaveRoom`: PART, removal, fallback | `LeaveRoom`, `LeaveDrops`, then `SetActiveRoom` or `LeaveClears` |
| `send`: target, PRIVMSG, pending, own line | `Send`, `SaySends`, `SayPends`, `SayRenders` |
| `setActiveRoom`, `changeCharacter`, `setIgnored`, `setViewport` | one action each |
| the Task of `.loggedIn` | `rejoining`, `RejoinSends` |

A line is one of four kinds: a peer's message, the user's own, a presence (join,
names, announced avatar), a change of the user's or a peer's look.  Events that
the strip ignores are kept out of the transcripts.  The member at the far end
may be ignored, the server may refuse a JOIN, part or kick the user, echo what
was said; the connection may drop with events still in the stream, before the
login or after it.  The hint takes the strip away; until the login that ends the
reconnect the room stays active, events are logged, and every command may be given,
of which some build the strip again.

### `LineStream` and `Framer` (module `MCFramer`)

`ccOnReceiveBytes()` copies a block, in bites, into a buffer of
`m_nMaxMsgLength` bytes, and after each bite cuts off the lines that are complete.
A line's handler runs inside the inner loop, and the handler of an 800 that
advertises a longer line replaces the buffer (`HrInitAlloc`).  Bytes are their
positions in the server's stream, so the buffer is the interval `start + 1 .. stop`
and a message is right if its interval is that of a line.

| Code | Model |
|---|---|
| `m_szInput`, its fill | `start`, `stop` |
| the block and how far it is copied | `received`, `offset` |
| outer loop: `memcpy` of what fits; the `break` on a full buffer | `Bite`, `GivesUp` |
| inner loop: `strchr('\n')`, `ccProcessMessage`, `memmove` | `Cut` |
| 800 with a larger limit | `InitAlloc` |
| a block from the network, cut anywhere | `Receive` |

`LineStream` has one step for the program: take the next line if it fits.  It lets
an 800 take bytes behind it along, for that is what the code does: bytes that were
copied behind the 800 are lost with the old buffer.  A line longer than the
buffer blocks everything behind it; both modules show it.

### `Members` (module `MCMembers`)

| Code | Model |
|---|---|
| `ProtocolSession.rooms[..].members`, with `departed` | `table` |
| `applyStateUpdate` | `Updated`, by `Appear`, `Depart`, `Rename` |
| the event stream to `handleLocked` | `stream` |
| `emitMembers`: number drawn on the queue, table read by a Task | `EmitMembers`, `TaskReads` |
| `onMembersChanged` on main, with `appliedMembersSeq` | `mailbox`, `MainApplies` |
| `setActiveRoom`, and the fallback of a part | `SetActiveRoom`, `HandlesSelf` |

The server changes membership and tells what it tells a client: nothing of rooms
we are not in.  A message on `wire` stands for its line and for what the engine's
handler makes of it.  A row is its nick.

### `Shell` and `RoomList` (module `MCShell`)

`Shell` is the app on the main actor with the models it has made, each with a
`start()` that runs off the main actor in stages, a session, a reconnect and an
engine queue.  `RoomList` adds the list, and is what is checked: it extends `Shell`,
conjoins to each shell step what the step does to lists (`ListDrops`,
`ListHandle`, ...), and adds its own.

| Code | Model |
|---|---|
| `AppState.model`, `reconnectState`, `roomList` | same names |
| closures for the main actor | `mailbox`, `Deliver` |
| `start()`: strip and canvas, dial, throw | `SetUp`, `Dial`, `DialEnds`, `Failed` |
| `disconnect()`, `connect()`, `onNickRejected` | `Disconnect`, `Connect`, `Deliver` |
| `metricsCanvasBox` and `cc_set_metrics_canvas` | `box`, `canvas` |
| `requestRoomList`: flag on the queue, `list()` in a Task | `RequestStarts`, `RequestSends` |
| `.roomListBegin`, `.roomListItem`, `.roomListEnd`, `.error` | `HandleList` by `ListBegins`, `ListAdds`, `ListEnds`, `ListErrs` |

### `Avatars` (module `MCAvatars`)

| Code | Model |
|---|---|
| `participantIDs`, announced names, `nextDefaultIndex`, panels | `strip` |
| `ensureParticipant`, `resolve(avatarName:)` | `EnsureParticipant`, `Dress` |
| `.appearsAs` in `handleLocked` | `Announces`, to a room or to all |
| `downloadAvatarIfNeededLocked` | `DownloadIfNeeded` |
| `AvatarDownloader.fetch`, the two closures after it | `FetchEnds`, `LandedRuns`, `DeferRuns` |
| `rebuildStripLocked` | `RebuildStrip`: a fold of the transcript over a blank strip |

## 4. What the runs show

| Run | Instance | Result |
|---|---|---|
| `login` | 5 server lines | 15,801 states; all properties hold |
| `login_upgrade` | 2 lines | violated: see finding 1 |
| `reconnect` | 2 rooms, 1 attempt, 1 drop, shutdown | 900,139 states; both properties hold |
| `reconnect_drops` | no rooms, 1 attempt, 2 drops | 2,106,093 states; all properties hold |
| `reconnect_rejoin` | 2 rooms, 2 attempts, 1 drop | violated: see finding 2 |
| `reconnect_late` | 1 room, 1 attempt, 1 drop, shutdown | violated: see finding 3 |
| `rooms` | 2 rooms, 2 commands, 1 server line, 1 drop | 533,160 states; all properties hold |
| `rooms_echo` | 1 command | violated: see finding 4 |
| `framer` | 3 lines of 1, 2, 4 or 5 bytes, buffer of 3 then 4 | 40,229 states; all properties hold |
| `members` | 3 nicks, 2 rooms, 3 events, 1 change of room | 1,450,969 states; all properties hold |
| `shell` | 2 connections, 2 troubles, 2 list requests | 979,806 states; all properties hold |
| `avatars` | 2 peers, 2 characters, 2 rooms, 4 events, 1 rebuild | 1,054,300 states up to symmetry; all properties hold |

Properties of `login`: NICK and USER once (`RegistersOnce`); probe flag, cell
and timer in step (`ProbeState`, which includes the engine's own assertion); no
late upgrade (`NoLateUpgrade`); a session whose socket came up logs in
(`LoginIsSent`); and the refinement (`ImplementsContract`), liveness included:
it says in particular that every loss is reported as often as completions owe it,
and that nothing is after `disconnect()`.

Properties of `reconnect`: a reconnect ends, unless the network leaves a dial
waiting (`ReconnectEnds`); after `shutdown()` nothing replaces the session or asks
for a room (`InertWhenDown`).  The exception is one of the code: in `.waiting`,
and when a dial is cancelled, the continuation of `connect()` is never resumed, so
whoever awaits it waits for good.

Properties of `reconnect_drops`: while reconnecting the model holds a live loop
(`ReconnectingHasLoop`); a loss of the session in use is answered
(`LossIsAnswered`).  A hint that comes while a reconnect is under way is coalesced
into it, and none comes again: so once the events of a lost session are handled,
the model must be reconnecting, or have given up and be about to disconnect it.
Orders that matter need a second drop: the hint of the fresh session before the
give-up of the first reconnect, behind it, or around a login.  In one of them the
code loses the drop: a login of the *replaced* session, handled after the hint of
the fresh one, ends the reconnect (finding 2).  `mistaken` is that exception, set by
such a login and cleared by the next reconnect.

Properties of `rooms`: the tab bar lists each box once (`TabsAreBoxes`); the
room in view has no unread lines (`UnreadInBackground`); what was drawn line by
line is what a reflow would draw, and a reconnect, which takes the strip away and
goes on logging, brings it back with what was logged meanwhile (`LiveIsReplay`: the
two paths have their own ignore filters and their own treatment of character
switches, and a reflow, a change of tab or of the ignore list may build the strip
before the login does); transcripts only
grow (`TranscriptOnlyGrows`); what the user said is shown, whatever the echo
does (`OwnLineAppears`).  `LiveIsReplay` says nothing of an active room whose
box is gone, as between the steps of `leaveRoom`, and after the active room and
its fallback are left at once: a closed room then stays active, with its strip on
screen.

Properties of `framer`: the buffer never holds more than it may (`BufferFits`,
the doc comment's own claim); messages adjoin, but for less than a buffer lost
behind an 800 that grows it (`LosesOnlyBehindCaps`); and the refinement
(`ImplementsLineStream`), liveness included.

Properties of `members`: once all events are applied, the table has in a room we
are in just the server's members (`NoGhosts`, `NobodyHidden`); snapshots
of another room are not shown after a switch (`ListIsOfActiveRoom`); a quiet list is
the table's (`QuietListIsTable`); and the list converges (`ListSettles`).  The
properties name two flaws of the code as exceptions.  `unseen`: NAMES adds to the
table and takes nobody away, so who left while we were out of a room is listed
after a rejoin.  `misled`: `applyStateUpdate` treats a part like a quit
(`ProtocolSession.swift:1132`) and marks the nick departed in every room, also in
those it is still in.

Properties of `shell`: types (`ShellTypeOK`); the engine never points to a
released canvas (`CanvasNeverDangles`); one strip, the current model's
(`OneStrip`); a model that is down has no connection (`DownIsOffline`); the
reconnect indicator is that of the current model (`IndicatorIsTrue`); what is
posted as a list is one whole answer or nothing (`AnswersAreWhole`), and that of
the current model (`ListIsOfModel`); a request stays in flight only if its answer
was lost (`WedgedOnlyByLoss`) and otherwise ends (`RequestEnds`).  The exceptions
are again the code's.  `overtaken`: `start()` never asks for `isShutDown`, so one
that is overtaken by `disconnect()` sets up its strip and dials after all, and
when such a start fails, `connect()` drops whichever model is current by then.
`late`: what a model posts does not say which model it is from, and a cancelled
loop still announces one attempt.  An empty list counts as whole: an end without a
begin posts one, although the comment at `ChatSessionModel.swift:808` has it
dropped (the run's server always sends its 321; the theorem covers one that
does not).  `lostAnswer`: a drop in mid-answer, or a numeric
that makes no error event, leaves the in-flight flag set.

Properties of `avatars`: one fetch per character at a time, and none barred for
good (`FetchedOnce`); a peer on the strip wears what it announced there
(`DressedAsAnnounced`); a reflow would draw the strip that is there
(`StripIsReplay`).  Exceptions: `misdressed`, where a fetch that lands late dresses
a peer in what it announced before, or leaves a second peer that announced the
same character as it was; `drifted`, where a landed fetch makes a reflow draw
earlier panels otherwise and deal the defaults to other peers, although the comment
at `ChatSessionModel.swift:3056` says that a rebuild reproduces the strip.

Every exception is a history variable that is set only by the step at fault, so a
property with an exception still constrains every behaviour without that step (the
flaw the exception is named for is stated by it, not caught);
and each property is violated by a small change of the code it is about (the
definitions marked `Mutant` in the modules).

Deadlock is not checked: a disconnected session, a shut-down model and a user
who has given all commands stop.

### Bounds, and why they are enough

- `MaxLines` bounds the server.  Five lines hold the longest handshake (451
  or 800, 800, 800, 001) with a stray line; every flag of the session has been
  set and cleared by then, and the proofs hold for every `MaxLines`.
- `MaxDrops` 2 in `reconnect_drops`: the session first in use and the fresh one, so
  that the end of one reconnect meets the loss that should begin the next, and a
  cancelled loop its successor; 1 elsewhere, where sessions also fail without it
  (dials fail, grace expires, give up).  The theorems hold for any number.
- `MaxAttempts` 1 for the code's 8, 2 in `reconnect_rejoin`: an attempt has the
  initial session, the loops of other reconnects and the give-up to race with, and
  what an attempt does depends on its number at the last one only.
  `ReconnectEnds` also holds with two attempts, one room and no shutdown (302,640
  states), which is `MCReconnect.cfg` with these bounds.
- `Rooms` in `Reconnect`: a second room where the user may join one; none in
  `reconnect_drops`, since no loop, session or hint depends on the joins.
- `MaxCommands` 2, both under way at once: every pair of commands in every
  order of their hops, around a line of the server (`MaxLines` 1, which may be
  a message, a presence, an announcement, a part or a kick) and a drop.  Each
  property needs two rooms at most: the active one and another.  The proofs
  hold for all bounds, liveness (`OwnLineAppears`) apart.
- The drop in `Rooms`: where two completions report it, one event comes between
  their reports (a data block may hold more).  An attempt that replaces a session
  whose login comes too late, and a report handled after the next login, are left
  to `Reconnect`.
- `Framer`: lines shorter than the buffer, as long as the grown one, and longer
  than both; three of them put an 800 between two others in one block.  The buffer
  of 3 for the code's 512 is enough, since only the order of lengths matters; the
  theorems hold for all sizes.
- `Members`: three events hold part, rejoin and what happened in between; the third
  nick is what a rename needs.  `MaxSwitches` 1 on top of the changes of room that
  parts cause.  The theorems hold for any nicks, rooms and numbers of both.
- `Shell`: two models are what it takes for one to be overtaken by another; two
  troubles are a drop and a failed attempt, or an error in the answer to a request
  and a drop; two requests are an answer and the one that was not waited for.  The
  theorems hold for any number of each, and for a server that sends no 321 as for
  one that does (as the run's).
- `Avatars`: four events are two announcements of a peer, one of the other and a line
  drawn.  Peers, rooms and characters are interchangeable (symmetry; only
  invariants are checked).  The theorems hold for transcripts of any length.
- A session logs in once: `001` after `001` has no further effect here.

### Findings

1. The first 800 cancels the probe timer; a cancel while probing is a login
   trigger; so NICK/USER precede the IRCX upgrade, against
   `macos/ComicChatKit/Tests/ComicChatKitTests/LoginSequencingTests.swift:125`.
2. A late login of the replaced session ends the reconnect; the fresh session
   then rejoins one room only.  If the fresh session is lost too, its hint may have
   been coalesced into the reconnect so ended, and no other reconnect starts: the
   exception of `LossIsAnswered`.
3. The loop can dial after `shutdown()` has returned.
4. A server echo handled before the closure that registers it is shown twice,
   against `ChatSessionModel.swift:2789`.

Each is a TLC counterexample of the run named in `PROJECT.json`.

## 5. Fairness

- `Login`: the timer fires, completions on the queue run, and a dial is
  answered, be it by `.waiting`.  These are the dispatch queue's and
  Network.framework's own promises.  Nothing is assumed of the server, the
  path, or the user.
- `Reconnect`: the queue drains (`ClosureRuns` as one action: the queue is
  serial, its head is all that can run), a dial is answered, be it by `.waiting`,
  and loops are resumed and their sleeps end.  The end of a reconnect needs no more:
  nothing is assumed of the consumers, the joins or the main thread; a session need
  not log in, a waiting dial need not be dialled again, the network need not break.
- `Rooms`: some suspended Task of a command is resumed, which with boundedly many
  commands resumes every one; nothing of the queue's events, the user, the server or
  the network.
- `Framer`: its loops run to their end, and a block that is there is received.
- `Members`: the two queues drain, Tasks run; nothing of the server or the user.
- `RoomList`: the Tasks of `requestRoomList` and the engine queue run, and nothing
  else; the answer itself is put on the stream when the request is sent or not at
  all.
- `Avatars`: none, its properties are invariants.

Weak fairness is enough throughout: once enabled, each of these stays enabled
until it happens or something else removes the reason for it.

## 6. What is proved

`LoginProofs`, from `MaxLines \in Nat`:

- `TypeCorrect`, `SingleRegistration`, `ProbeStateHolds`: invariants, by the
  strengthening `IInv`.  The one-shot guard alone does not give
  `RegistersOnce`: one must know that while `loginSent` is false nothing of a
  registration is on the wire (`NothingYet`).  `ProbeState` needs what each
  stage of `connect()` says of socket, engine and completions (`Stages`,
  `EngineGone`), that an answered probe leaves `bIrcXServer` set and that a
  plain login leaves no cell behind (`Settled`): without it a late 800 would
  find a cell and upgrade a registered session.  `Upgraded` (the IRCX line is
  on the wire only if the server is known to speak it) is what `NoLateUpgrade`
  needs on top.
- `UpgradeInTime`, `SilentAfterDisconnect`: action properties, from `IInv`.
- `SessionImplementsContract`: every step of `Login` is a step of
  `SessionContract` or a stutter.

`ReconnectProofs`, from `Rooms = {} \/ Home \in Rooms`, `MaxAttempts > 0`, `MaxDrops \in Nat`:

- `TypeCorrect`, `NobodyWaitsForNoLoop`: by `TypeOK /\ ReconnectingHasLoop`,
  which is inductive.  The types carry half of it: `reconnectTask` indexes an
  existing loop.  The other half is the property's last part: a held loop is
  done only if the model is shut down; a loop can end by finding the flag
  clear, and every closure that clears the flag lets the loop go too.
- `LossesAreAnswered`: `LossIsAnswered` speaks of events that have all been handled, so
  one must know that the last of them was a hint: behind every login of a lost
  session that is still to come, in its stream or on the queue, comes a hint of that
  session (`LastIsHint`), since losses are reported after the login and stream and
  queue keep the order.  Then a login that ends the reconnect has a hint behind it,
  or is one of a replaced session; and until `shutdown()` cancels it, the consumer of
  the session in use drops nothing (`Heard`).
- `ShutDownIsFinal`: from that invariant and `isShutDown => shutdownAt = "down"`.

`RoomsProofs`, from `Home \in Names`, `"" \notin Names`, natural bounds:

- `TypeCorrect`, `TabsMatchBoxes`: one induction, for each needs the other.
  `roomOrder` stays a sequence of rooms only because the removed room has a tab,
  and exactly one.
- `ActiveRoomIsRead`: `UnreadInBackground` alone is not inductive: a late line
  brings back the box of a room that is still active.  `ActiveRead` says that
  the active room is read with or without a box.
- `LogIsCanonical`: the action property, step by step with the invariant.
- `LiveDrawingIsReplay`: the replay of a transcript is a recursive function over
  its prefixes, so a line appended is one more step of it, and that step has to
  be what the live path does with the line: the two filter ignored nicks and treat
  character switches in places of their own.  Each action is shown to keep the strip
  of the active room equal to its replay, or to take it away, or to leave the room;
  and the end of a reconnect that is not a give-up is a login (`ComesBack`), which
  replays the transcript if the active room has a box.

`FramerProofs`, from `Lengths \subseteq Nat \ {0}` and `0 < DefaultMax < GrownMax`:

- `TypeCorrect`, `BufferNeverOverflows`: `start`, `stop`, `offset` and `received`
  stay in order, and a bite takes no more than the room left.
- `DropsAreOverlong`: bytes are discarded only while the buffer is full of one line
  that does not end in it.
- `LossIsBehindCaps`: needs, besides the property, that the last message ends
  where the buffer begins or is an 800 with less than a buffer behind it.
- `FramerImplementsLineStream`: a cut is the abstract take (the first line end in
  the buffer is the first behind the cursor, since the buffer begins there), every
  other turn a stutter.

`MembersProofs`, from `Me \in Nicks`, `NoRoom \notin Rooms`:

- `TypeCorrect`; `SwitchedListStays`: all that is on its way with a number from
  `activated` on is of the active room, because only a change of room or an event
  of the active room asks for a snapshot.
- `GhostsWereUnseen`, `OnlyTheMisledAreHidden`: both speak of an empty wire, so
  what is inductive speaks of the table there will be once the wire is read
  (`TableInv`).  It says that there is a path of tables, one per message, each made of
  the one before as the session makes it, and that its last one has, but for the
  `unseen` and the `misled`, the server's members.  A message read takes the first
  table off the path; an act of the server adds one at its end, and there the
  act is compared with what the session will make of its message.
- `QuietListIsRight`: the newest list asked for is what counts (`ListInv`).  It is
  a Task that has not read, and then the list is of the table to come; or it was
  read and is posted, or shown, and then whatever changed since in the active room's
  table are nicks that were marked and for which nobody asked again (the parts of
  the path called `Quiet`).  In either case everything else on its way has a lower
  number and will be dropped, in whatever order it comes.

`ShellProofs`, for `RoomList` over `Shell`, from `MaxModels > 0`:

- `TypeCorrect`, `CanvasStays`, `OneStripAtATime`, `DownStaysOffline`: by what the
  stage of a model's `start()` says of its box, session and shutdown, and that
  models other than the current one are down or were overtaken.
- `WedgeNeedsLoss`: a request in flight has its Task, its answer on the way (with an
  end or an error in it), or a loss.
- `ListsAreWhole`: a list is posted at its end, so an end that is on its way must have
  all its rows before it, in the stream or in the accumulator, and nothing of
  another answer between them (`Gathers`).  An answer comes in one piece, its 321
  empties the accumulator, an error or a drop leaves what was gathered to be emptied
  by the next 321; and on a server that sends none no row is ever kept.  From there to
  the screen rows move unchanged.
- `ListIsTheModels`, `IndicatorTellsTruth`: nothing comes of a model before its
  `start()` is done (`Untold`), so after a `connect()` the views are as it left them
  (`Unspoken`).  Then the indicator is what the letters under way will make of it: the
  last one that speaks of it, or what is shown if none does, agrees with the current
  model's flag (`Indicated`).  The exceptions `late` and `overtaken` are needed just
  where a letter is not from the model it is taken for.

`AvatarsProofs`, from the assumptions on `None` and the default cycle:

- `OneFetchAtATime`: `FetchedOnce` with the types of the two variables it relates.
- `TypeCorrect`, `PeersWearWhatTheyAnnounced`, `ReflowDrawsTheSame`: one induction
  (`StripInv`), for a reflow replaces the strip by the replay, and that must be
  dressed as announced too: every replay dresses whoever announced a character that
  is on disk.  An event that is drawn is one more step of the fold, with the files
  there are; a file that lands changes what a replay draws, and that is where
  `drifted` is set.  A landed fetch has its file (`Landed`).

`Induction` has what these need of sequences.  The library's induction theorems
take an operator that no prover here can instantiate.  `SetInduction` speaks
of a set instead and follows from the well-foundedness of `<` on the naturals, since
a set is a value like any other; by it a fold keeps its types (`FoldTypes`), takes
one step more for an element appended (`FoldAppend`), and is followed by whatever
goes along with it step by step (`FoldFollowed`).

The modules state their invariant in parts, show that each action keeps it,
and close with PTL.

Only model-checked: the liveness properties (`LoginIsSent`, `ReconnectEnds`,
`OwnLineAppears`, `ListSettles`, `RequestEnds`, and the
fairness of `SessionContract` and `LineStream` in `ImplementsContract` and
`ImplementsLineStream`), since TLAPS here proves neither `ENABLED` nor liveness under
fairness; and the four violations, which are traces.  Nothing is proved of
the code that the models abstract: that a definition translates its lines is a
matter of reading, for which `PROJECT.json` maps each to its source.

## 7. What is not modelled, and why

- Most of the repository: the historical releases of the Windows program and the
  SDKs they need, kept for reference and not built into the port; the engine's
  layout, drawing and art files; the self-tests.  These are sequential conversions
  of data, compared with golden data by the repository's tests.  What has control
  flow worth a state machine is the session layer, some six thousand lines of Swift with the engine's handlers below them.
- Two drops with rooms or shutdown, room display names, annotation pairing: planned
  (section 2).  The hazards that wait for them carry a note in `PROJECT.json`.
- In `Login`: the outbound commands besides the handshake, modes, topics, room
  properties, WHO, away marks.
- In `Shell`: `shutdown()` is one step (its three are in `Reconnect`), a waiting
  dial is a dial that does not end, an attempt that logged in is not replaced,
  sheets and the other mirrored state (members, rooms, pose) are left out.
- In `Members`: ops, away marks and icons of a row; who we are to the server (our own
  nick stays).
- In `Avatars`: the greeting sent back, the transfer (retries, size cap,
  validation, file names), icons, ignored peers and our own character.
- In `Rooms`: downloads (see `Avatars`), whispers, actions, sounds and their own echo list, topics, the
  whisper box, notifications; a strip that cannot be set up because its art is
  missing; `shutdown()`, after which every closure returns at once.
- `autoReconnect` is on; the fixture replay turns it off and has no reconnect.
- In `Reconnect`: the strip that a hint closes and a login builds again, which no
  guard of the reconnect reads; `Rooms` has both.
- Data races.  Almost all session and model state is touched on the queue only,
  and the models rest on that.  The exceptions: `emitRooms()`, marked for the
  queue, runs off it in `start()`, `joinRoom` and `leaveRoom` and reads `rooms`,
  `roomOrder` and `activeRoom` there; and `session` is read off the queue by
  `joinRoom`, `leaveRoom` and `send` while a reconnect may replace it.  `Rooms`
  and `Reconnect` take these reads as if they were made on the queue.
