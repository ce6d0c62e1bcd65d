------------------------------ MODULE Reconnect ------------------------------
(***************************************************************************)
(* Auto-reconnect of ChatSessionModel: the event consumer, the handling of *)
(* .loggedIn and .disconnectedHint, the backoff loop, and shutdown().      *)
(*                                                                         *)
(* Four kinds of actors run concurrently: the serial engineQueue, each     *)
(* reconnect loop (a Task that suspends at every sleep and every hop onto  *)
(* the queue), the event consumer (a Task), and the main thread in         *)
(* shutdown().  They meet on the queue, which runs its closures in order.  *)
(* The sessions live on that same queue and behave as SessionContract      *)
(* allows; their network completions run between two closures.             *)
(***************************************************************************)
EXTENDS Naturals, Sequences

CONSTANTS
    Rooms,              \* the rooms a user may have open; none leaves the joins out, which
                        \* nothing but rooms depends on
    Home,               \* config.room
    MaxAttempts,        \* maxReconnectAttempts
    MaxDrops,           \* connections the network may break (a bound on the environment)
    MayShutDown         \* whether the user may disconnect (a bound on the environment)

ASSUME HomeAssumption == Rooms = {} \/ Home \in Rooms
ASSUME AttemptsAssumption == MaxAttempts \in Nat \ {0}
ASSUME DropsAssumption == MaxDrops \in Nat
ASSUME ShutDownAssumption == MayShutDown \in BOOLEAN

VARIABLES
    sessions,           \* every ProtocolSession made; the model's `session` is the last
    consumerStopped,    \* shutdown() has cancelled the consumer of the current session
    queue,              \* engineQueue: closures that have still to run
    loops,              \* every reconnect Task ever started
    reconnectTask,      \* the index in loops of the one held, or 0 for nil
    isReconnecting, isShutDown,
    open,               \* roomOrder: the rooms the user has open
    joining,            \* fire-and-forget join Tasks that have not run
    shutdownAt,         \* where the main thread is in shutdown()
    indicator,          \* the last ReconnectState emitted
    mistaken,           \* history: a login of a replaced session ended the last reconnect
    drops               \* number of connections broken

model == <<reconnectTask, isReconnecting, isShutDown, open, joining, indicator, mistaken>>
vars  == <<sessions, consumerStopped, queue, loops, model, shutdownAt, drops>>

session == Len(sessions)

SessionStages == {"idle", "dialing", "waiting", "failed", "up", "losing", "lost", "closed"}
LoopStages == {"head", "backoff", "hopping", "connecting", "dialing", "grace",
               "givingUp", "done"}
ShutdownStages == {"no", "cancelling", "stopping", "closing", "final", "down"}
Operations == {"loggedIn", "hint", "connect", "disconnect", "attempt", "giveUp", "cancel", "shut"}

\* stream: events yielded and not yet consumed; connected: connectionStatus.
Session == [stage : SessionStages, welcomed : BOOLEAN, connected : BOOLEAN,
            stream : Seq({"loggedIn", "hint"}), joined : SUBSET Rooms]
Loop == [at : LoopStages, attempt : Nat, cancelled : BOOLEAN, fresh : Nat]
Closure == [op : Operations, of : Nat]

TypeOK ==
    /\ sessions \in Seq(Session) /\ session > 0
    /\ consumerStopped \in BOOLEAN
    /\ queue \in Seq(Closure)
    /\ loops \in Seq(Loop)
    /\ reconnectTask \in 0..Len(loops)
    /\ isReconnecting \in BOOLEAN /\ isShutDown \in BOOLEAN
    /\ open \subseteq Rooms
    /\ joining \subseteq [on : 1..session, rooms : SUBSET Rooms]
    /\ shutdownAt \in ShutdownStages
    /\ indicator \in {"none", "reconnecting", "connected", "gaveUp"}
    /\ mistaken \in BOOLEAN
    /\ drops \in 0..MaxDrops

NewSession == [stage |-> "idle", welcomed |-> FALSE, connected |-> FALSE,
               stream |-> <<>>, joined |-> {}]
ClosedSession == [NewSession EXCEPT !.stage = "closed"]
NewLoop == [at |-> "head", attempt |-> 1, cancelled |-> FALSE, fresh |-> 0]
DoneLoop == [NewLoop EXCEPT !.at = "done"]
Run(op, of) == [op |-> op, of |-> of]
First == {Home} \cap Rooms

\* start(): the initial room's box, the consumer, and connect().
Init ==
    /\ sessions = <<NewSession>>
    /\ consumerStopped = FALSE
    /\ queue = <<Run("connect", 1)>>
    /\ loops = <<>> /\ reconnectTask = 0
    /\ isReconnecting = FALSE /\ isShutDown = FALSE
    /\ open = First /\ joining = {}
    /\ shutdownAt = "no"
    /\ indicator = "none" /\ mistaken = FALSE
    /\ drops = 0

-----------------------------------------------------------------------------
(* The sessions, as SessionContract allows.                                  *)

\* A yield reaches the stream unless its consumer has been cancelled.
Listening(s) == s = session /\ ~consumerStopped
Yield(s, e) == IF Listening(s) THEN Append(sessions[s].stream, e) ELSE sessions[s].stream

\* connect() returned: the loop's cancellation check, then the grace window.
Connected(loop) == IF loop.cancelled THEN DoneLoop ELSE [loop EXCEPT !.at = "grace"]
\* connect() threw, or the grace window elapsed: the head of the next attempt.
NextAttempt(loop) == [loop EXCEPT !.at = "head", !.attempt = @ + 1]

\* The dial of s is over: the loop that awaits its connect(), if any, goes on.
Awaits(loop, s) == loop.at = "dialing" /\ loop.fresh = s
ConnectReturns(s) ==
    loops' = [l \in 1..Len(loops) |->
                 IF Awaits(loops[l], s) THEN Connected(loops[l]) ELSE loops[l]]
ConnectThrows(s) ==
    loops' = [l \in 1..Len(loops) |->
                 IF Awaits(loops[l], s) THEN NextAttempt(loops[l]) ELSE loops[l]]

DialSucceeds(s) ==
    /\ sessions[s].stage = "dialing"
    /\ sessions' = [sessions EXCEPT ![s].stage = "up"]
    /\ ConnectReturns(s)
    /\ UNCHANGED <<consumerStopped, queue, model, shutdownAt, drops>>

DialFails(s) ==
    /\ sessions[s].stage = "dialing"
    /\ sessions' = [sessions EXCEPT ![s].stage = "failed"]
    /\ ConnectThrows(s)
    /\ UNCHANGED <<consumerStopped, queue, model, shutdownAt, drops>>

\* NWConnection's .waiting, which connect() ignores; a path change dials again.
DialWaits(s) ==
    /\ sessions[s].stage = "dialing"
    /\ sessions' = [sessions EXCEPT ![s].stage = "waiting"]
    /\ UNCHANGED <<consumerStopped, queue, loops, model, shutdownAt, drops>>

PathChanges(s) ==
    /\ sessions[s].stage = "waiting"
    /\ sessions' = [sessions EXCEPT ![s].stage = "dialing"]
    /\ UNCHANGED <<consumerStopped, queue, loops, model, shutdownAt, drops>>

\* 001, possibly in the last data block of a connection already reported lost.
LogsIn(s) ==
    /\ sessions[s].stage \in {"up", "losing"} /\ ~sessions[s].welcomed
    /\ sessions' = [sessions EXCEPT ![s].welcomed = TRUE, ![s].connected = TRUE,
                                    ![s].stream = Yield(s, "loggedIn")]
    /\ UNCHANGED <<consumerStopped, queue, loops, model, shutdownAt, drops>>

\* The connection breaks, or an ERROR line ends it, and is reported a first time;
\* a loss that two completions notice is reported again, after the last data block.
Drops(s) ==
    /\ sessions[s].stage = "up"
    /\ drops < MaxDrops
    /\ drops' = drops + 1
    /\ \E stage \in {"losing", "lost"} :
          sessions' = [sessions EXCEPT ![s].stage = stage, ![s].connected = FALSE,
                                       ![s].stream = Yield(s, "hint")]
    /\ UNCHANGED <<consumerStopped, queue, loops, model, shutdownAt>>

DropsAgain(s) ==
    /\ sessions[s].stage = "losing"
    /\ sessions' = [sessions EXCEPT ![s].stage = "lost", ![s].connected = FALSE,
                                    ![s].stream = Yield(s, "hint")]
    /\ UNCHANGED <<consumerStopped, queue, loops, model, shutdownAt, drops>>

\* The consumer moves one event from the stream to the queue.  A cancelled one may
\* still deliver what was buffered, or stop.
Consumes(s) ==
    /\ sessions[s].stream # <<>>
    /\ sessions' = [sessions EXCEPT ![s].stream = Tail(@)]
    /\ queue' = Append(queue, Run(Head(sessions[s].stream), s))
    /\ UNCHANGED <<consumerStopped, loops, model, shutdownAt, drops>>

StopsConsuming(s) ==
    /\ ~Listening(s) /\ sessions[s].stream # <<>>
    /\ sessions' = [sessions EXCEPT ![s].stream = <<>>]
    /\ UNCHANGED <<consumerStopped, queue, loops, model, shutdownAt, drops>>

-----------------------------------------------------------------------------
(* Closures on engineQueue.                                                  *)

Closes(op) == queue # <<>> /\ Head(queue).op = op
Subject == Head(queue).of

\* connect(), called once per session, whatever has been done to it meanwhile.
ConnectRuns ==
    /\ Closes("connect")
    /\ queue' = Tail(queue)
    /\ sessions' = [sessions EXCEPT ![Subject].stage = "dialing"]
    /\ UNCHANGED <<consumerStopped, loops, model, shutdownAt, drops>>

\* disconnect(): a dial under way is cancelled and its caller never resumed.
DisconnectRuns ==
    /\ Closes("disconnect")
    /\ queue' = Tail(queue)
    /\ sessions' = [sessions EXCEPT ![Subject] =
                       [ClosedSession EXCEPT !.stream = sessions[Subject].stream]]
    /\ UNCHANGED <<consumerStopped, loops, model, shutdownAt, drops>>

\* Mutant: the loop is let go, the flag forgotten.
FinishKeepsFlag ==
    IF isReconnecting
    THEN /\ reconnectTask' = 0
         /\ loops' = [loops EXCEPT ![reconnectTask].cancelled = TRUE]
         /\ indicator' = "connected" /\ mistaken' = (Subject # session)
         /\ UNCHANGED isReconnecting
    ELSE UNCHANGED <<isReconnecting, reconnectTask, loops, indicator, mistaken>>

\* finishReconnectLocked().
FinishReconnect ==
    IF isReconnecting
    THEN /\ isReconnecting' = FALSE
         /\ reconnectTask' = 0
         /\ loops' = [loops EXCEPT ![reconnectTask].cancelled = TRUE]
         /\ indicator' = "connected" /\ mistaken' = (Subject # session)
    ELSE UNCHANGED <<isReconnecting, reconnectTask, loops, indicator, mistaken>>

\* The Task of a login, if it has a room to join.
Joins(rs) == IF rs = {} THEN {} ELSE {[on |-> session, rooms |-> rs]}

\* handleLocked(.loggedIn): the login of whichever session; the joins are
\* addressed to the one that is current now.
LoggedInRuns ==
    /\ Closes("loggedIn")
    /\ queue' = Tail(queue)
    /\ IF isShutDown
       THEN UNCHANGED <<loops, model>>
       ELSE /\ joining' = joining \cup Joins(IF isReconnecting THEN open ELSE First)
            /\ FinishReconnect
            /\ UNCHANGED <<isShutDown, open>>
    /\ UNCHANGED <<sessions, consumerStopped, shutdownAt, drops>>

\* Mutant: the Task is held before it exists.
StartHoldsNothing ==
    IF ~isShutDown /\ ~isReconnecting
    THEN /\ isReconnecting' = TRUE /\ mistaken' = FALSE
         /\ reconnectTask' = Len(loops) + 1
         /\ UNCHANGED loops
    ELSE UNCHANGED <<isReconnecting, loops, reconnectTask, mistaken>>

\* maybeStartReconnectLocked(), autoReconnect being on.
MaybeStartReconnect ==
    IF ~isShutDown /\ ~isReconnecting
    THEN /\ isReconnecting' = TRUE /\ mistaken' = FALSE
         /\ loops' = Append(loops, NewLoop)
         /\ reconnectTask' = Len(loops) + 1
    ELSE UNCHANGED <<isReconnecting, loops, reconnectTask, mistaken>>

\* handleLocked(.disconnectedHint), whichever session it is about.
HintRuns ==
    /\ Closes("hint")
    /\ queue' = Tail(queue)
    /\ MaybeStartReconnect
    /\ UNCHANGED <<sessions, consumerStopped, isShutDown, open, joining, indicator, shutdownAt,
                   drops>>

\* Mutant: shutdown() relies on having cancelled the loop.
StillReconnecting == isReconnecting

\* What the loop's closure checks before reconnectAttemptLocked().
MayAttempt == ~isShutDown /\ isReconnecting

\* The loop's hop and reconnectAttemptLocked(): the old session is told to
\* disconnect, a fresh one takes its place and the consumer is rebound.
AttemptRuns ==
    /\ Closes("attempt")
    /\ IF MayAttempt
       THEN /\ queue' = Append(Tail(queue), Run("disconnect", session))
            /\ sessions' = Append(sessions, NewSession)
            /\ consumerStopped' = FALSE
            /\ loops' = [loops EXCEPT ![Subject].at = "connecting",
                                      ![Subject].fresh = session + 1]
       ELSE /\ queue' = Tail(queue)
            /\ loops' = [loops EXCEPT ![Subject] = DoneLoop]
            /\ UNCHANGED <<sessions, consumerStopped>>
    /\ UNCHANGED <<model, shutdownAt, drops>>

\* Mutant: the user is told, the state kept.
GiveUpOnlyTells ==
    IF isReconnecting
    THEN /\ queue' = Append(Tail(queue), Run("disconnect", session))
         /\ indicator' = "gaveUp"
         /\ UNCHANGED <<isReconnecting, reconnectTask>>
    ELSE queue' = Tail(queue) /\ UNCHANGED <<isReconnecting, reconnectTask, indicator>>

\* Mutant: the session is not torn down.
GiveUpLeavesSession ==
    /\ queue' = Tail(queue)
    /\ IF isReconnecting
       THEN isReconnecting' = FALSE /\ reconnectTask' = 0 /\ indicator' = "gaveUp"
       ELSE UNCHANGED <<isReconnecting, reconnectTask, indicator>>

\* giveUpReconnectLocked().
GiveUpReconnect ==
    IF isReconnecting
    THEN /\ isReconnecting' = FALSE
         /\ reconnectTask' = 0
         /\ queue' = Append(Tail(queue), Run("disconnect", session))
         /\ indicator' = "gaveUp"
    ELSE queue' = Tail(queue) /\ UNCHANGED <<isReconnecting, reconnectTask, indicator>>

\* The loop's last hop, past its last attempt.
GiveUpRuns ==
    /\ Closes("giveUp")
    /\ loops' = [loops EXCEPT ![Subject] = DoneLoop]
    /\ GiveUpReconnect
    /\ UNCHANGED <<sessions, consumerStopped, isShutDown, open, joining, mistaken,
                   shutdownAt, drops>>

\* A join Task's closure: the join is gated on a connected session.
JoinRuns ==
    \E j \in joining :
        /\ joining' = joining \ {j}
        /\ sessions' = IF sessions[j.on].connected
                       THEN [sessions EXCEPT ![j.on].joined = @ \cup j.rooms]
                       ELSE sessions
        /\ UNCHANGED <<consumerStopped, queue, loops, reconnectTask, isReconnecting, isShutDown,
                       open, shutdownAt, indicator, mistaken, drops>>

\* joinRoom(): the room's box is made at once, the JOIN follows.
UserJoins(r) ==
    /\ shutdownAt = "no"
    /\ r \notin open
    /\ open' = open \cup {r}
    /\ joining' = joining \cup {[on |-> session, rooms |-> {r}]}
    /\ UNCHANGED <<sessions, consumerStopped, queue, loops, reconnectTask, isReconnecting,
                   isShutDown, shutdownAt, indicator, mistaken, drops>>

-----------------------------------------------------------------------------
(* A reconnect loop.                                                         *)

\* The head of an attempt announces it, cancelled or not, and goes to sleep; past
\* the last attempt the loop hops onto the queue to give up.
LoopHead(l) ==
    /\ loops[l].at = "head"
    /\ IF loops[l].attempt <= MaxAttempts
       THEN /\ indicator' = "reconnecting"
            /\ loops' = [loops EXCEPT ![l].at = "backoff"]
            /\ UNCHANGED queue
       ELSE /\ queue' = Append(queue, Run("giveUp", l))
            /\ loops' = [loops EXCEPT ![l].at = "givingUp"]
            /\ UNCHANGED indicator
    /\ UNCHANGED <<sessions, consumerStopped, reconnectTask, isReconnecting, isShutDown, open,
                   joining, mistaken, shutdownAt, drops>>

\* The sleep ends, by itself or by the cancellation of the Task.
BackoffEnds(l) ==
    /\ loops[l].at = "backoff"
    /\ IF loops[l].cancelled
       THEN loops' = [loops EXCEPT ![l] = DoneLoop] /\ UNCHANGED queue
       ELSE /\ loops' = [loops EXCEPT ![l].at = "hopping"]
            /\ queue' = Append(queue, Run("attempt", l))
    /\ UNCHANGED <<sessions, consumerStopped, model, shutdownAt, drops>>

\* fresh.connect(), off the queue: no check comes before it.
LoopConnects(l) ==
    /\ loops[l].at = "connecting"
    /\ loops' = [loops EXCEPT ![l].at = "dialing"]
    /\ queue' = Append(queue, Run("connect", loops[l].fresh))
    /\ UNCHANGED <<sessions, consumerStopped, model, shutdownAt, drops>>

\* A poll of the grace window finds the reconnect over, or the sleep is cancelled.
GraceEnds(l) ==
    /\ loops[l].at = "grace"
    /\ loops[l].cancelled \/ ~isReconnecting
    /\ loops' = [loops EXCEPT ![l] = DoneLoop]
    /\ UNCHANGED <<sessions, consumerStopped, queue, model, shutdownAt, drops>>

\* A hundred polls have found no login.
GraceExpires(l) ==
    /\ loops[l].at = "grace" /\ ~loops[l].cancelled
    /\ loops' = [loops EXCEPT ![l] = NextAttempt(@)]
    /\ UNCHANGED <<sessions, consumerStopped, queue, model, shutdownAt, drops>>

LoopStep(l) ==
    LoopHead(l) \/ BackoffEnds(l) \/ LoopConnects(l) \/ GraceEnds(l) \/ GraceExpires(l)

-----------------------------------------------------------------------------
(* shutdown() on the main thread, which waits for "cancel" and "shut" to run *)
(* (engineQueue.sync).                                                       *)

\* cancelReconnect().
ShutdownCalled ==
    /\ MayShutDown /\ shutdownAt = "no"
    /\ shutdownAt' = "cancelling"
    /\ queue' = Append(queue, Run("cancel", 0))
    /\ UNCHANGED <<sessions, consumerStopped, loops, model, drops>>

CancelRuns ==
    /\ Closes("cancel") /\ shutdownAt = "cancelling"
    /\ queue' = Tail(queue)
    /\ loops' = [l \in 1..Len(loops) |->
                    IF l = reconnectTask THEN [loops[l] EXCEPT !.cancelled = TRUE] ELSE loops[l]]
    /\ reconnectTask' = 0
    /\ isReconnecting' = FALSE
    /\ shutdownAt' = "stopping"
    /\ UNCHANGED <<sessions, consumerStopped, isShutDown, open, joining, indicator, mistaken,
                   drops>>

StopsConsumer ==
    /\ shutdownAt = "stopping"
    /\ consumerStopped' = TRUE
    /\ shutdownAt' = "closing"
    /\ UNCHANGED <<sessions, queue, loops, model, drops>>

\* session.disconnect(), then the final engineQueue.sync.
DisconnectsSession ==
    /\ shutdownAt = "closing"
    /\ queue' = queue \o <<Run("disconnect", session), Run("shut", 0)>>
    /\ shutdownAt' = "final"
    /\ UNCHANGED <<sessions, consumerStopped, loops, model, drops>>

ShutRuns ==
    /\ Closes("shut") /\ shutdownAt = "final"
    /\ queue' = Tail(queue)
    /\ isShutDown' = TRUE
    /\ shutdownAt' = "down"
    /\ UNCHANGED <<sessions, consumerStopped, loops, reconnectTask, isReconnecting, open, joining,
                   indicator, mistaken, drops>>

-----------------------------------------------------------------------------
ClosureRuns ==
    \/ ConnectRuns \/ DisconnectRuns \/ LoggedInRuns \/ HintRuns
    \/ AttemptRuns \/ GiveUpRuns \/ CancelRuns \/ ShutRuns

DialEnds(s) == DialSucceeds(s) \/ DialFails(s) \/ DialWaits(s)

Next ==
    \/ ClosureRuns \/ JoinRuns
    \/ \E l \in 1..Len(loops) : LoopStep(l)
    \/ \E s \in 1..session :
          \/ DialEnds(s) \/ PathChanges(s) \/ LogsIn(s)
          \/ Drops(s) \/ DropsAgain(s)
          \/ Consumes(s) \/ StopsConsuming(s)
    \/ \E r \in Rooms : UserJoins(r)
    \/ ShutdownCalled \/ StopsConsumer \/ DisconnectsSession

(* The queue drains, dials end and reconnect loops go on: the end of a       *)
(* reconnect needs no more.  The server need not answer, and a dial may wait *)
(* for ever.                                                                 *)
Fairness ==
    /\ WF_vars(ClosureRuns)
    /\ WF_vars(\E s \in 1..session : DialEnds(s))
    /\ WF_vars(\E l \in 1..Len(loops) : LoopStep(l))

Spec == Init /\ [][Next]_vars /\ Fairness

-----------------------------------------------------------------------------
(* Properties.                                                               *)

\* While the model is reconnecting, the Task it holds is a live, uncancelled loop:
\* no order of logins, drops and give-ups leaves the flag set with nobody to
\* clear it, which would swallow every later drop.
ReconnectingHasLoop ==
    isReconnecting =>
        /\ reconnectTask \in 1..Len(loops)
        /\ ~loops[reconnectTask].cancelled
        /\ loops[reconnectTask].at = "done" => isShutDown

\* Every reconnect comes to an end (a login, a give-up, a shutdown), unless the
\* network leaves a dial waiting.
ReconnectEnds ==
    isReconnecting ~> (\/ ~isReconnecting \/ isShutDown
                       \/ \E s \in 1..session : sessions[s].stage = "waiting")

\* A drop of the session in use is never lost on the model: once its events have
\* been handled it is reconnecting, or gave that up (and is about to disconnect the
\* session), or the user is leaving, whatever logins, hints and give-ups of older
\* sessions and loops were on the queue before and behind it.  Except that a login
\* of a replaced session may have ended the reconnect in its place: the hint was
\* coalesced into it, and no other will come.
Handled(s) ==
    /\ sessions[s].stream = <<>>
    /\ \A i \in 1..Len(queue) : queue[i] \notin {Run("hint", s), Run("loggedIn", s)}
LossIsAnswered ==
    sessions[session].stage = "lost" /\ Handled(session) =>
        \/ isReconnecting \/ mistaken \/ shutdownAt # "no"
        \/ \E i \in 1..Len(queue) : queue[i] = Run("disconnect", session)

\* After shutdown() no loop, login or late event replaces the session or joins a
\* room, though a hint handled inside shutdown() may have started a new loop.
InertWhenDown == [][isShutDown => session' = session /\ joining' \subseteq joining]_vars

\* "RECONNECT login: re-join EVERY room the user had open"
\* (ChatSessionModel.swift:1333).  Once a fresh session is connected and nothing
\* is under way, it has been asked to join every open room.
RejoinsEveryRoom ==
    /\ session > 1 /\ sessions[session].connected /\ ~isShutDown
    /\ \A s \in 1..session : sessions[s].stream = <<>>
    /\ queue = <<>> /\ joining = {}
    => open \subseteq sessions[session].joined

\* "the caller can rely on no reconnect attempt launching after it returns"
\* (ChatSessionModel.swift:3435, of cancelReconnect()): no session starts to dial
\* once shutdown() is over.
NoAttemptAfterShutdown ==
    [][shutdownAt = "down" =>
         \A s \in 1..session :
            sessions'[s].stage = "dialing" => sessions[s].stage \in {"dialing", "waiting"}]_vars
=============================================================================
