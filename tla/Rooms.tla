-------------------------------- MODULE Rooms --------------------------------
(***************************************************************************)
(* Rooms, transcripts and the one live strip of ChatSessionModel.          *)
(*                                                                         *)
(* All of this state belongs to the serial engineQueue.  The user's        *)
(* commands are Swift Tasks that hop onto it several times and suspend in  *)
(* between; the events of the session, which lives on the same queue, are  *)
(* handled between those hops.  A closure is one action; the queue keeps   *)
(* each Task's hops in order, which is all that its order can show here.   *)
(*                                                                         *)
(* A room is its case-folded key.  Lines that the strip ignores (topics,   *)
(* modes, other people's parts) are left out of the transcripts.           *)
(***************************************************************************)
EXTENDS Naturals, Sequences

CONSTANTS
    Names,              \* the rooms there are
    Home,               \* config.room
    Tasks,              \* commands that may be under way at a time
    Echoes,             \* whether the server echoes a message to its sender
    MaxCommands, MaxLines, MaxDrops     \* bounds on the user, the server and the network

ASSUME HomeAssumption == Home \in Names
ASSUME NoName == "" \notin Names
ASSUME EchoesAssumption == Echoes \in BOOLEAN
ASSUME BoundsAssumption == MaxCommands \in Nat /\ MaxLines \in Nat /\ MaxDrops \in Nat

VARIABLES
    rooms,              \* the keys of the rooms dictionary
    roomOrder,          \* those keys in tab order
    transcript, unread, \* the fields of each box; empty and 0 without a box
    activeRoom,         \* a key, or ""
    strip,              \* whether there is one, and the lines it shows
    ignored,            \* whether the peer who speaks is ignored
    switched,           \* changeCharacter() has been called
    pendingLocalEchoes, \* every text is sent once, so a set
    tasks,              \* where each command is
    isReconnecting,     \* a reconnect loop is on its way
    rejoining,          \* rooms the Task of the last .loggedIn has still to join
    status,             \* of the session: it may yet log in, has done so, or is gone
    registered,         \* rooms with a token in the session
    joined,             \* rooms the server has the user in
    wire,               \* events of the session, not yet handled
    commands, lines, drops      \* how often user, server and network have acted

box     == <<rooms, roomOrder, transcript, unread>>
view    == <<activeRoom, strip>>
taste   == <<ignored, switched>>
login   == <<isReconnecting, rejoining>>
server  == <<status, registered, joined, wire>>
bounds  == <<commands, lines, drops>>
vars    == <<box, view, taste, pendingLocalEchoes, tasks, login, server, bounds>>

Line == [kind : {"say", "own", "presence", "look"}, text : Nat]
Event == [kind : {"loggedIn", "hint"}, room : {""}, text : Nat]
         \cup [kind : {"joined", "parted", "kicked", "say", "presence", "announce", "echo"},
               room : Names, text : Nat]
\* Only a send may aim at no room: it takes the active one as it finds it.
Task == [at : {"idle", "says"}, room : Names \cup {""}, goTo : BOOLEAN, text : Nat]
        \cup [at : {"joins", "activates", "drops", "clears", "pends", "renders"},
              room : Names, goTo : BOOLEAN, text : Nat]

BoxTypes ==
    /\ rooms \subseteq Names /\ roomOrder \in Seq(Names)
    /\ transcript \in [Names -> Seq(Line)] /\ unread \in [Names -> Nat]
\* What the strip shows is the subject of LiveIsReplay.
ViewTypes ==
    /\ activeRoom \in Names \cup {""}
    /\ DOMAIN strip = {"open", "shown"} /\ strip.open \in BOOLEAN
TasteTypes == ignored \in BOOLEAN /\ switched \in BOOLEAN
TaskTypes ==
    /\ tasks \in [Tasks -> Task]
    /\ pendingLocalEchoes \subseteq Nat
    /\ isReconnecting \in BOOLEAN /\ rejoining \in Seq(Names)
ServerTypes ==
    /\ status \in {"dialling", "connected", "gone"}
    /\ registered \subseteq Names /\ joined \subseteq Names
    /\ wire \in Seq(Event)
BoundTypes == commands \in Nat /\ lines \in Nat /\ drops \in Nat
TypeOK == BoxTypes /\ ViewTypes /\ TasteTypes /\ TaskTypes /\ ServerTypes /\ BoundTypes

Say  == [kind |-> "say", text |-> 0]
Look == [kind |-> "look", text |-> 0]
Presence == [kind |-> "presence", text |-> 0]
Own(n) == [kind |-> "own", text |-> n]
Idle == [at |-> "idle", room |-> "", goTo |-> FALSE, text |-> 0]
NoStrip == [open |-> FALSE, shown |-> <<>>]
Hint == [kind |-> "hint", room |-> "", text |-> 0]
Sent(kind, r, n) == Append(wire, [kind |-> kind, room |-> r, text |-> n])

\* start(): the box of the configured room and its strip; the login is to come.
Init ==
    /\ rooms = {Home} /\ roomOrder = <<Home>>
    /\ transcript = [r \in Names |-> <<>>] /\ unread = [r \in Names |-> 0]
    /\ activeRoom = Home /\ strip = [open |-> TRUE, shown |-> <<>>]
    /\ ignored = FALSE /\ switched = FALSE
    /\ pendingLocalEchoes = {}
    /\ tasks = [t \in Tasks |-> Idle]
    /\ isReconnecting = FALSE /\ rejoining = <<>>
    /\ status = "dialling" /\ registered = {} /\ joined = {} /\ wire = <<>>
    /\ commands = 0 /\ lines = 0 /\ drops = 0

-----------------------------------------------------------------------------
(* Boxes and the strip.                                                      *)

\* Mutant: an open box is seeded again.
LogReseeded(r) == IF switched THEN <<Look>> ELSE transcript[r]

\* A box made after a character switch starts with that switch.
Log(r) == IF r \in rooms THEN transcript[r] ELSE IF switched THEN <<Look>> ELSE <<>>

\* Mutant: a tab is added for a box that has one.
EnsureRoomBoxTwice(r) == rooms' = rooms \cup {r} /\ roomOrder' = Append(roomOrder, r)

EnsureRoomBox(r) ==
    /\ rooms' = rooms \cup {r}
    /\ roomOrder' = IF r \in rooms THEN roomOrder ELSE Append(roomOrder, r)

OpensBox(r) == EnsureRoomBox(r) /\ transcript' = [transcript EXCEPT ![r] = Log(r)]
Logs(r, line) ==
    EnsureRoomBox(r) /\ transcript' = [transcript EXCEPT ![r] = Append(Log(r), line)]

\* Mutant: the slot is cleared, not removed.
WithoutName(order, r) == [k \in 1..Len(order) |-> IF order[k] = r THEN "" ELSE order[k]]

\* roomOrder.removeAll: the tab order holds a key at most once (TabsAreBoxes).
Without(order, r) ==
    LET i == CHOOSE k \in 1..Len(order) : order[k] = r
    IN  [k \in 1..(Len(order) - 1) |-> IF k < i THEN order[k] ELSE order[k + 1]]

RemovesBox(r) ==
    /\ rooms' = rooms \ {r}
    /\ roomOrder' = Without(roomOrder, r)
    /\ transcript' = [transcript EXCEPT ![r] = <<>>]

Hidden(line, hides) == hides /\ line.kind = "say"
Replay(log, hides) ==
    LET shown[i \in 0..Len(log)] ==
            IF i = 0 THEN <<>>
            ELSE IF Hidden(log[i], hides) THEN shown[i - 1] ELSE Append(shown[i - 1], log[i])
    IN  shown[Len(log)]

\* rebuildStripLocked: r becomes the active room and its log is replayed.
RebuildsStrip(r, log, hides) ==
    activeRoom' = r /\ strip' = [open |-> TRUE, shown |-> Replay(log, hides)]
ClosesStrip == activeRoom' = "" /\ strip' = NoStrip

\* applyToBridgeLocked: nothing without a strip.
Draws(line) ==
    strip' = IF strip.open THEN [strip EXCEPT !.shown = Append(@, line)] ELSE strip

-----------------------------------------------------------------------------
(* handleLocked.                                                             *)

\* Mutant: the ignore list is honoured by the replay only.
HandlesMessageIgnored(r, line, isMessage) ==
    /\ Logs(r, line)
    /\ UNCHANGED activeRoom
    /\ \/ r = activeRoom /\ Draws(line) /\ UNCHANGED unread
       \/ /\ r # activeRoom
          /\ unread' = IF isMessage THEN [unread EXCEPT ![r] = @ + 1] ELSE unread
          /\ UNCHANGED strip

\* .text and .action in a room: live on the active strip, unread elsewhere.
HandlesMessage(r, line, isMessage) ==
    /\ Logs(r, line)
    /\ UNCHANGED activeRoom
    /\ \/ Hidden(line, ignored) /\ UNCHANGED <<strip, unread>>
       \/ ~Hidden(line, ignored) /\ r = activeRoom /\ Draws(line) /\ UNCHANGED unread
       \/ /\ ~Hidden(line, ignored) /\ r # activeRoom
          /\ unread' = IF isMessage THEN [unread EXCEPT ![r] = @ + 1] ELSE unread
          /\ UNCHANGED strip

\* .userJoined, .names and a room's .appearsAs: shown live, never unread.
HandlesPresence(r) ==
    /\ Logs(r, Presence)
    /\ IF r = activeRoom THEN Draws(Presence) ELSE UNCHANGED strip
    /\ UNCHANGED <<activeRoom, unread>>

\* A line for every room: a private .appearsAs, and changeCharacter().
LogsEverywhere(line) ==
    /\ transcript' = [r \in Names |->
                         IF r \in rooms THEN Append(transcript[r], line) ELSE transcript[r]]
    /\ Draws(line)
    /\ UNCHANGED <<rooms, roomOrder, unread, activeRoom>>

\* .selfParted: leaveRoom() has removed the box already, or the server forced it.
HandlesPart(r) ==
    \/ r \notin rooms /\ UNCHANGED <<box, view>>
    \/ /\ r \in rooms /\ RemovesBox(r)
       /\ \/ r # activeRoom /\ unread' = [unread EXCEPT ![r] = 0] /\ UNCHANGED view
          \/ /\ r = activeRoom /\ Len(roomOrder) > 1
             /\ LET fallback == Without(roomOrder, r)[1]
                IN  /\ RebuildsStrip(fallback, transcript[fallback], ignored)
                    /\ unread' = [unread EXCEPT ![r] = 0, ![fallback] = 0]
          \/ /\ r = activeRoom /\ Len(roomOrder) = 1
             /\ ClosesStrip /\ unread' = [unread EXCEPT ![r] = 0]

\* .selfJoined and .kicked make sure of the box.
HandlesConfirm(r) == OpensBox(r) /\ UNCHANGED <<unread, view>>

\* The own-say echo is dropped once for each pending send.
HandlesEcho(r, n) ==
    \/ /\ n \in pendingLocalEchoes
       /\ pendingLocalEchoes' = pendingLocalEchoes \ {n}
       /\ UNCHANGED <<box, view>>
    \/ /\ n \notin pendingLocalEchoes
       /\ HandlesMessage(r, Own(n), TRUE)
       /\ UNCHANGED pendingLocalEchoes

\* .disconnectedHint, by maybeStartReconnectLocked(): the strip goes, its room stays.
HandlesHint ==
    /\ isReconnecting' = TRUE
    /\ strip' = IF isReconnecting THEN strip ELSE NoStrip
    /\ UNCHANGED <<activeRoom, rejoining>>

\* Mutant: the strip is left to the next reflow.
LoginLeavesStrip ==
    \/ ~isReconnecting /\ rejoining' = <<Home>> /\ UNCHANGED <<isReconnecting, view>>
    \/ isReconnecting /\ isReconnecting' = FALSE /\ rejoining' = roomOrder /\ UNCHANGED view

\* .loggedIn: joins the configured room; while reconnecting, finishReconnectLocked()
\* builds the strip again and every tab is joined.
HandlesLogin ==
    \/ ~isReconnecting /\ rejoining' = <<Home>> /\ UNCHANGED <<isReconnecting, view>>
    \/ /\ isReconnecting /\ isReconnecting' = FALSE /\ rejoining' = roomOrder
       /\ \/ activeRoom \in rooms
             /\ RebuildsStrip(activeRoom, transcript[activeRoom], ignored)
          \/ activeRoom \notin rooms /\ UNCHANGED view

Handles(e) ==
    \/ e.kind = "loggedIn" /\ HandlesLogin /\ UNCHANGED <<box, pendingLocalEchoes>>
    \/ e.kind = "hint" /\ HandlesHint /\ UNCHANGED <<box, pendingLocalEchoes>>
    \/ e.kind = "echo" /\ HandlesEcho(e.room, e.text) /\ UNCHANGED login
    \/ /\ \/ e.kind \in {"joined", "kicked"} /\ HandlesConfirm(e.room)
          \/ e.kind = "parted" /\ HandlesPart(e.room)
          \/ e.kind = "say" /\ HandlesMessage(e.room, Say, TRUE)
          \/ e.kind = "presence" /\ HandlesPresence(e.room)
          \/ e.kind = "announce" /\ LogsEverywhere(Look)
       /\ UNCHANGED <<login, pendingLocalEchoes>>

HandleLocked ==
    /\ wire # <<>> /\ wire' = Tail(wire)
    /\ Handles(Head(wire))
    /\ UNCHANGED <<taste, tasks, status, registered, joined, bounds>>

-----------------------------------------------------------------------------
(* The session's gated commands, and what the server makes of them.          *)

connected == status = "connected"

\* session.join: the token first, then JOIN, which the server may refuse.
Joins(r) ==
    /\ registered' = registered \cup {r}
    /\ \/ UNCHANGED <<joined, wire>>
       \/ r \notin joined /\ joined' = joined \cup {r} /\ wire' = Sent("joined", r, 0)
    /\ UNCHANGED status

\* session.part and session.say: PART is confirmed, a message perhaps echoed.
Parts(r) ==
    /\ joined' = joined \ {r}
    /\ wire' = IF r \in joined THEN Sent("parted", r, 0) ELSE wire
    /\ UNCHANGED <<status, registered>>
Says(r, n) ==
    /\ wire' = IF Echoes /\ r \in joined THEN Sent("echo", r, n) ELSE wire
    /\ UNCHANGED <<status, registered, joined>>

\* onQueueGated, and the token the command needs.
MayUse(r) == connected /\ r \in registered

-----------------------------------------------------------------------------
(* The user's commands.                                                      *)

\* The slots of tasks are alike: a command takes the same free one.
Issues(t, task) ==
    /\ tasks[t].at = "idle" /\ commands < MaxCommands
    /\ t = CHOOSE free \in Tasks : tasks[free].at = "idle"
    /\ commands' = commands + 1
    /\ tasks' = [tasks EXCEPT ![t] = task]
    /\ UNCHANGED <<lines, drops>>
Goes(t, at) == tasks' = [tasks EXCEPT ![t].at = at]
Ends(t) == tasks' = [tasks EXCEPT ![t] = Idle]

\* joinRoom and goToRoom: an existing box keeps JOIN off the wire.
JoinRoom(t, r, goTo) ==
    /\ Issues(t, IF r \notin rooms THEN [Idle EXCEPT !.at = "joins", !.room = r, !.goTo = goTo]
                 ELSE IF goTo THEN [Idle EXCEPT !.at = "activates", !.room = r]
                 ELSE Idle)
    /\ IF r \in rooms THEN UNCHANGED <<rooms, roomOrder, transcript>> ELSE OpensBox(r)
    /\ UNCHANGED <<unread, view, taste, pendingLocalEchoes, login, server>>

JoinSends(t) ==
    /\ tasks[t].at = "joins"
    /\ \/ ~connected /\ Ends(t) /\ UNCHANGED server
       \/ /\ connected /\ Joins(tasks[t].room)
          /\ IF tasks[t].goTo THEN Goes(t, "activates") ELSE Ends(t)
    /\ UNCHANGED <<box, view, taste, pendingLocalEchoes, login, bounds>>

\* Mutant: the unread count stays.
ActivatesUnread(r) ==
    \/ r \in rooms /\ r # activeRoom /\ RebuildsStrip(r, transcript[r], ignored) /\ UNCHANGED unread
    \/ (r \notin rooms \/ r = activeRoom) /\ UNCHANGED <<unread, view>>

\* setActiveRoom: not for the active room, nor for one without a box.
Activates(r) ==
    \/ /\ r \in rooms /\ r # activeRoom
       /\ RebuildsStrip(r, transcript[r], ignored)
       /\ unread' = [unread EXCEPT ![r] = 0]
    \/ (r \notin rooms \/ r = activeRoom) /\ UNCHANGED <<unread, view>>

SetActiveRoom(t) ==
    /\ tasks[t].at = "activates"
    /\ Activates(tasks[t].room) /\ Ends(t)
    /\ UNCHANGED <<rooms, roomOrder, transcript, taste, pendingLocalEchoes, login,
                   server, bounds>>

UserActivates(t, r) ==
    /\ Issues(t, Idle)
    /\ Activates(r)
    /\ UNCHANGED <<rooms, roomOrder, transcript, taste, pendingLocalEchoes, login, server>>

\* leaveRoom: PART, then the box, then the strip, each in a closure of its own.
LeaveRoom(t, r) ==
    /\ \/ /\ MayUse(r) /\ Parts(r)
          /\ Issues(t, [Idle EXCEPT !.at = "drops", !.room = r])
       \/ ~MayUse(r) /\ Issues(t, Idle) /\ UNCHANGED server
    /\ UNCHANGED <<box, view, taste, pendingLocalEchoes, login>>

LeaveDrops(t) ==
    LET r == tasks[t].room
    IN  /\ tasks[t].at = "drops"
        /\ \/ r \notin rooms /\ Ends(t) /\ UNCHANGED box
           \/ /\ r \in rooms /\ RemovesBox(r) /\ unread' = [unread EXCEPT ![r] = 0]
              /\ \/ r # activeRoom /\ Ends(t)
                 \/ r = activeRoom /\ Len(roomOrder) = 1 /\ Goes(t, "clears")
                 \/ /\ r = activeRoom /\ Len(roomOrder) > 1
                    /\ tasks' = [tasks EXCEPT ![t] = [Idle EXCEPT !.at = "activates",
                                                     !.room = Without(roomOrder, r)[1]]]
        /\ UNCHANGED <<view, taste, pendingLocalEchoes, login, server, bounds>>

LeaveClears(t) ==
    /\ tasks[t].at = "clears"
    /\ ClosesStrip /\ Ends(t)
    /\ UNCHANGED <<box, taste, pendingLocalEchoes, login, server, bounds>>

\* send: the active room is read, PRIVMSG goes out, the echo is registered, and
\* the own line takes the path of a received one.
Send(t) ==
    /\ Issues(t, [Idle EXCEPT !.at = "says", !.room = activeRoom, !.text = commands + 1])
    /\ UNCHANGED <<box, view, taste, pendingLocalEchoes, login, server>>

SaySends(t) ==
    /\ tasks[t].at = "says"
    /\ \/ MayUse(tasks[t].room) /\ Says(tasks[t].room, tasks[t].text) /\ Goes(t, "pends")
       \/ ~MayUse(tasks[t].room) /\ Ends(t) /\ UNCHANGED server
    /\ UNCHANGED <<box, view, taste, pendingLocalEchoes, login, bounds>>

SayPends(t) ==
    /\ tasks[t].at = "pends"
    /\ pendingLocalEchoes' = pendingLocalEchoes \cup {tasks[t].text}
    /\ Goes(t, "renders")
    /\ UNCHANGED <<box, view, taste, login, server, bounds>>

\* Mutant: the own line is taken for its echo.
SayRendersDeduped(t) ==
    /\ tasks[t].at = "renders"
    /\ HandlesEcho(tasks[t].room, tasks[t].text) /\ Ends(t)
    /\ UNCHANGED <<taste, login, server, bounds>>

SayRenders(t) ==
    /\ tasks[t].at = "renders"
    /\ HandlesMessage(tasks[t].room, Own(tasks[t].text), FALSE) /\ Ends(t)
    /\ UNCHANGED <<taste, pendingLocalEchoes, login, server, bounds>>

\* changeCharacter, setIgnored and setViewport: one closure each.
ChangeCharacter(t) ==
    /\ Issues(t, Idle)
    /\ \/ strip.open /\ LogsEverywhere(Look) /\ switched' = TRUE
       \/ ~strip.open /\ UNCHANGED <<box, view, switched>>
    /\ UNCHANGED <<ignored, pendingLocalEchoes, login, server>>

SetIgnored(t) ==
    /\ Issues(t, Idle)
    /\ ignored' = ~ignored
    /\ \/ activeRoom # "" /\ RebuildsStrip(activeRoom, transcript[activeRoom], ignored')
       \/ activeRoom = "" /\ UNCHANGED view
    /\ UNCHANGED <<box, switched, pendingLocalEchoes, login, server>>

SetViewport(t) ==
    /\ Issues(t, Idle)
    /\ RebuildsStrip(activeRoom, IF activeRoom = "" THEN <<>> ELSE transcript[activeRoom], ignored)
    /\ UNCHANGED <<box, taste, pendingLocalEchoes, login, server>>

-----------------------------------------------------------------------------
(* The Task of a login, the server, and the network.                         *)

RejoinSends ==
    /\ rejoining # <<>> /\ rejoining' = Tail(rejoining)
    /\ \/ connected /\ Joins(Head(rejoining))
       \/ ~connected /\ UNCHANGED server
    /\ UNCHANGED <<box, view, taste, pendingLocalEchoes, tasks, isReconnecting, bounds>>

\* Somebody speaks, comes or tells their avatar; the server parts or kicks the user.
ServerSends(kind, r) ==
    /\ connected /\ lines < MaxLines /\ lines' = lines + 1
    /\ r \in joined
    /\ joined' = IF kind \in {"parted", "kicked"} THEN joined \ {r} ELSE joined
    /\ wire' = Sent(kind, r, 0)
    /\ UNCHANGED <<box, view, taste, pendingLocalEchoes, tasks, login, status,
                   registered, commands, drops>>

\* The connection drops, before the login or after it.  Some of what had arrived
\* is handled, then the report; where two completions report, one event (a bound)
\* comes between them.  A session that is gone has no use for its tokens.
ConnectionDrops ==
    /\ status # "gone" /\ drops < MaxDrops /\ drops' = drops + 1
    /\ status' = "gone" /\ registered' = {} /\ joined' = {}
    /\ \E n \in 0..Len(wire) :
          LET before == SubSeq(wire, 1, n)
          IN  \/ wire' = Append(before, Hint)
              \/ n < Len(wire) /\ wire' = before \o <<Hint, wire[n + 1], Hint>>
    /\ UNCHANGED <<box, view, taste, pendingLocalEchoes, tasks, login, commands, lines>>

\* 001.
LogsIn ==
    /\ status = "dialling" /\ status' = "connected"
    /\ wire' = Sent("loggedIn", "", 0)
    /\ UNCHANGED <<box, view, taste, pendingLocalEchoes, tasks, login, registered, joined,
                   bounds>>

\* reconnectAttemptLocked(): a fresh session takes the place of the one that is gone
\* (of one whose login comes too late: see Reconnect).  The Task of an earlier login
\* has captured its session, which refuses the joins that are left.
Attempts ==
    /\ isReconnecting /\ status = "gone"
    /\ status' = "dialling" /\ rejoining' = <<>>
    /\ UNCHANGED <<box, view, taste, pendingLocalEchoes, tasks, isReconnecting,
                   registered, joined, wire, bounds>>

\* giveUpReconnectLocked(): the last session is disconnected, the strip stays away.
GivesUp ==
    /\ isReconnecting /\ ~connected
    /\ isReconnecting' = FALSE /\ status' = "gone"
    /\ UNCHANGED <<box, view, taste, pendingLocalEchoes, tasks, rejoining, registered, joined,
                   wire, bounds>>

-----------------------------------------------------------------------------
Command(t) ==
    \/ \E r \in Names : \/ JoinRoom(t, r, FALSE) \/ JoinRoom(t, r, TRUE)
                        \/ UserActivates(t, r) \/ LeaveRoom(t, r)
    \/ Send(t) \/ ChangeCharacter(t) \/ SetIgnored(t) \/ SetViewport(t)
Continues(t) ==
    \/ JoinSends(t) \/ SetActiveRoom(t) \/ LeaveDrops(t) \/ LeaveClears(t)
    \/ SaySends(t) \/ SayPends(t) \/ SayRenders(t)
System == HandleLocked \/ RejoinSends \/ \E t \in Tasks : Continues(t)
Environment ==
    \/ ConnectionDrops \/ LogsIn \/ Attempts \/ GivesUp
    \/ \E r \in Names, kind \in {"say", "presence", "announce", "parted", "kicked"} :
          ServerSends(kind, r)

Next == System \/ Environment \/ \E t \in Tasks : Command(t)

\* Some suspended Task is resumed: with boundedly many commands, every one.
Fairness == WF_vars(\E t \in Tasks : Continues(t))
Spec == Init /\ [][Next]_vars /\ Fairness

-----------------------------------------------------------------------------
(* Properties.                                                               *)

\* The tab bar and the dictionary agree: every box has one tab, every tab a box,
\* however leaves, parts, joins and late events take turns.
TabsAreBoxes ==
    /\ rooms = {roomOrder[i] : i \in 1..Len(roomOrder)}
    /\ \A i, j \in 1..Len(roomOrder) : roomOrder[i] = roomOrder[j] => i = j

\* The tab the user is looking at never counts unread lines.
UnreadInBackground == activeRoom \in rooms => unread[activeRoom] = 0

\* Live drawing and replay agree: whatever is drawn one line at a time on the
\* active room's strip is what a reflow would draw from its transcript; a strip
\* built for another room shows that room; and a reconnect, which takes the strip
\* away and goes on logging, brings it back with what was logged meanwhile.
InStep ==
    strip.open /\ activeRoom \in rooms =>
        strip.shown = Replay(transcript[activeRoom], ignored)
Returns ==
    isReconnecting /\ ~isReconnecting' /\ activeRoom \in rooms =>
        strip'.open \/ status' = "gone"
LiveIsReplay ==
    [][/\ activeRoom' # activeRoom \/ (InStep /\ activeRoom \in rooms) => InStep'
       /\ Returns]_vars

\* The log is canonical: while a room stays open nothing is taken from its
\* transcript, by no reflow, reconnect, rejoin or echo.
TranscriptOnlyGrows ==
    [][\A r \in rooms \cap rooms' :
          /\ Len(transcript[r]) <= Len(transcript'[r])
          /\ \A i \in 1..Len(transcript[r]) : transcript'[r][i] = transcript[r][i]]_vars

\* What the user said and the session took is shown, whatever the echo did.
OwnLineAppears ==
    \A n \in 1..MaxCommands :
        (\E t \in Tasks : tasks[t].at = "pends" /\ tasks[t].text = n)
            ~> \E r \in Names : \E i \in 1..Len(transcript[r]) : transcript[r][i] = Own(n)

\* An echo the server sends is not shown beside the line it echoes: its text is
\* pending by then, "however the two async paths interleave".
EchoShownOnce ==
    \A r \in Names : \A i, j \in 1..Len(transcript[r]) :
        transcript[r][i].kind = "own" /\ transcript[r][i] = transcript[r][j] => i = j
=============================================================================
