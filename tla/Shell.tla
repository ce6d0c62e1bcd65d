--------------------------------- MODULE Shell ---------------------------------
(***************************************************************************)
(* The app shell: AppState on the main actor, which makes and drops one    *)
(* ChatSessionModel per connection, and what these models share: the one   *)
(* metrics canvas of the engine and the state mirrored for the views.      *)
(*                                                                         *)
(* start() runs off the main actor and may be overtaken by it in every     *)
(* stage; each model has an engine queue of its own; what a model tells    *)
(* the main actor waits in a queue and does not say which model it is from *)
(* (`from` is known to the properties only).  The steps of a reconnect and *)
(* of a login are those of Reconnect and Login, each taken at once here.   *)
(***************************************************************************)
EXTENDS Integers, Sequences

CONSTANTS
    MaxModels,          \* bounds the user
    MaxTroubles         \* bounds drops, refusals of the server, attempts that fail

ASSUME ModelsAssumption == MaxModels \in Nat \ {0}
ASSUME TroublesAssumption == MaxTroubles \in Nat

VARIABLES
    model, made,        \* AppState.model, or 0 for nil; the models made so far
    reconnectState, roomList,       \* mirrored from the models for the views
    mailbox,            \* what the models have posted to the main actor
    stage,              \* where start() of each model is
    session, isShutDown,
    isReconnecting, loop,           \* the reconnect and where its Task is
    stream,             \* events of each model on their way to handleLocked()
    box, canvas,        \* metricsCanvasBox held; whose box the engine points to
    troubles,
    \* History: the models shut down before their start() had come to its end;
    \* whether something arrived of a model that was no longer the current one, or
    \* a loop announced an attempt that it does not make.
    overtaken, late

main == <<model, made, reconnectState, roomList>>
engine == <<box, canvas>>
retry == <<isReconnecting, loop>>
history == <<overtaken, late>>
shellVars == <<main, mailbox, stage, session, isShutDown, retry, stream, engine,
               troubles, history>>

Models == 1..MaxModels

Stages == {"none", "start", "setUp", "dial", "failed", "done"}
Sessions == {"none", "dialling", "failed", "socket", "up", "lost", "closed"}
Events == {"welcome", "hint", "rejected"}
Indications == {"reconnecting", "connected", "gaveUp"}
Rows == [of : Models, list : Nat]
Letters == [from : Models, says : Indications \cup {"rejected", "roomList"}, rows : Seq(Rows)]

TypeOK ==
    /\ made \in 0..MaxModels /\ model \in 0..made
    /\ reconnectState \in Indications \cup {"none"} /\ roomList \in Seq(Rows)
    /\ mailbox \in Seq(Letters)
    /\ stage \in [Models -> Stages] /\ session \in [Models -> Sessions]
    /\ isShutDown \in [Models -> BOOLEAN] /\ isReconnecting \in [Models -> BOOLEAN]
    /\ loop \in [Models -> {"none", "head", "trying"}]
    /\ stream \in [Models -> Seq(Events)]
    /\ box \in [Models -> BOOLEAN] /\ canvas \in 0..made
    /\ troubles \in 0..MaxTroubles
    /\ overtaken \subseteq 1..made /\ late \in BOOLEAN

Init ==
    /\ model = 0 /\ made = 0 /\ reconnectState = "none" /\ roomList = <<>>
    /\ mailbox = <<>>
    /\ stage = [m \in Models |-> "none"] /\ session = [m \in Models |-> "none"]
    /\ isShutDown = [m \in Models |-> FALSE]
    /\ isReconnecting = [m \in Models |-> FALSE] /\ loop = [m \in Models |-> "none"]
    /\ stream = [m \in Models |-> <<>>]
    /\ box = [m \in Models |-> FALSE] /\ canvas = 0
    /\ troubles = 0
    /\ overtaken = {} /\ late = FALSE

-----------------------------------------------------------------------------
(* The main actor.                                                           *)

\* Mutants: the box is released with the engine still pointing to it; the session
\* is left to itself.
ReleasesOnly(m) == box' = [box EXCEPT ![m] = FALSE] /\ UNCHANGED canvas

Releases(m) == box' = [box EXCEPT ![m] = FALSE] /\ canvas' = 0

LeavesSession(m) == UNCHANGED session

\* ProtocolSession.disconnect(): a dial under way is cancelled and never returns.
Disconnects(m) == session' = [session EXCEPT ![m] = "closed"]

\* The reconnect is over; its loop notices where it sleeps, not where it announces.
Ends(m) ==
    /\ isReconnecting' = [isReconnecting EXCEPT ![m] = FALSE]
    /\ loop' = [loop EXCEPT ![m] = IF @ = "head" THEN "head" ELSE "none"]

\* shutdown(); a start() that comes to its end later finds the model shut down.
ShutsDown(m) ==
    /\ isShutDown' = [isShutDown EXCEPT ![m] = TRUE]
    /\ Ends(m)
    /\ stream' = [stream EXCEPT ![m] = <<>>]
    /\ Disconnects(m)
    /\ Releases(m)

\* Mutants: one of the two mirrored states is forgotten.
ClearsRoomListOnly == UNCHANGED reconnectState /\ roomList' = <<>>

ClearsIndicatorOnly == reconnectState' = "none" /\ UNCHANGED roomList

\* The part of AppState.disconnect() that the views of a connection see.
Clears == reconnectState' = "none" /\ roomList' = <<>>

ShutsDownCurrent ==
    IF model = 0
    THEN UNCHANGED <<isShutDown, retry, stream, session, engine, overtaken>>
    ELSE /\ ShutsDown(model)
         /\ overtaken' = IF stage[model] \in {"start", "setUp", "failed"}
                         THEN overtaken \cup {model} ELSE overtaken

\* Mutant: connect() makes a model beside the one there is.
KeepsCurrent == UNCHANGED <<isShutDown, retry, stream, session, engine, overtaken>>

\* connect(), up to the first suspension of start().
TearsDownFirst == ShutsDownCurrent

Connect ==
    /\ made < MaxModels
    /\ TearsDownFirst /\ Clears
    /\ made' = made + 1 /\ model' = made + 1
    /\ stage' = [stage EXCEPT ![made + 1] = "start"]
    /\ UNCHANGED <<mailbox, troubles, late>>

\* Room > Leave/Disconnect.
Disconnect ==
    /\ model # 0
    /\ ShutsDownCurrent /\ Clears
    /\ model' = 0
    /\ UNCHANGED <<made, mailbox, stage, troubles, late>>

\* start() threw: connect() drops the current model, whichever that is by now.
Failed(m) ==
    /\ stage[m] = "failed"
    /\ stage' = [stage EXCEPT ![m] = "done"]
    /\ ShutsDown(m)
    /\ model' = 0
    /\ UNCHANGED <<made, reconnectState, roomList, mailbox, troubles, history>>

\* Callbacks set the mirrored state; a rejected nick ends the current connection.
Deliver ==
    /\ mailbox # <<>> /\ mailbox' = Tail(mailbox)
    /\ LET letter == Head(mailbox) IN
       /\ late' = (late \/ letter.from # model)
       /\ IF letter.says = "rejected"
          THEN ShutsDownCurrent /\ Clears /\ model' = 0
          ELSE /\ IF letter.says = "roomList"
                  THEN roomList' = letter.rows /\ UNCHANGED reconnectState
                  ELSE reconnectState' = letter.says /\ UNCHANGED roomList
               /\ UNCHANGED <<model, isShutDown, retry, stream, session, engine,
                              overtaken>>
    /\ UNCHANGED <<made, stage, troubles>>

-----------------------------------------------------------------------------
(* start(), off the main actor.  Nothing in it asks for isShutDown.          *)

\* The strip on its canvas; Strip() and the art files may throw.
SetUp(m) ==
    /\ stage[m] = "start"
    /\ box' = [box EXCEPT ![m] = TRUE] /\ canvas' = m
    /\ \E s \in {"setUp", "failed"} : stage' = [stage EXCEPT ![m] = s]
    /\ UNCHANGED <<main, mailbox, session, isShutDown, retry, stream, troubles, history>>

Dial(m) ==
    /\ stage[m] = "setUp" /\ session[m] \in {"none", "closed"}
    /\ stage' = [stage EXCEPT ![m] = "dial"]
    /\ session' = [session EXCEPT ![m] = "dialling"]
    /\ UNCHANGED <<main, mailbox, isShutDown, retry, stream, engine, troubles, history>>

\* It need not end: without a path to the server connect() waits for one.
DialEnds(m) ==
    /\ session[m] = "dialling"
    /\ \/ /\ session' = [session EXCEPT ![m] = "socket"]
          /\ stage' = [stage EXCEPT ![m] = "done"]
       \/ /\ session' = [session EXCEPT ![m] = "failed"]
          /\ stage' = [stage EXCEPT ![m] = "failed"]
    /\ UNCHANGED <<main, mailbox, isShutDown, retry, stream, engine, troubles, history>>

-----------------------------------------------------------------------------
(* The session.  handleLocked() drops the events of a model that is down.    *)

Troubles == troubles < MaxTroubles /\ troubles' = troubles + 1

Yields(m, e) ==
    stream' = IF isShutDown[m] THEN stream ELSE [stream EXCEPT ![m] = Append(@, e)]

\* The first login; there is no reconnect that its .loggedIn might end.
LogsIn(m) ==
    /\ session[m] = "socket"
    /\ session' = [session EXCEPT ![m] = "up"]
    /\ UNCHANGED <<main, mailbox, stage, isShutDown, retry, stream, engine, troubles,
                   history>>

\* 432 or 433 before the login.
RejectsNick(m) ==
    /\ session[m] = "socket"
    /\ Troubles
    /\ Yields(m, "rejected")
    /\ UNCHANGED <<main, mailbox, stage, session, isShutDown, retry, engine, history>>

Drops(m) ==
    /\ session[m] \in {"socket", "up"}
    /\ Troubles
    /\ session' = [session EXCEPT ![m] = "lost"] /\ Yields(m, "hint")
    /\ UNCHANGED <<main, mailbox, stage, isShutDown, retry, engine, history>>

-----------------------------------------------------------------------------
(* The model on its engine queue.                                            *)

Posts(m, says) == mailbox' = Append(mailbox, [from |-> m, says |-> says, rows |-> <<>>])

\* Mutant: the views are told of the event as it is.
ForwardsEvent(m) == Posts(m, Head(stream[m])) /\ UNCHANGED retry

\* handleLocked(): the end of a reconnect, its beginning, a nick that is taken.
HandlesEvent(m) ==
    CASE Head(stream[m]) = "welcome" /\ isReconnecting[m] -> Ends(m) /\ Posts(m, "connected")
      [] Head(stream[m]) = "hint" /\ ~isReconnecting[m] ->
            /\ isReconnecting' = [isReconnecting EXCEPT ![m] = TRUE]
            /\ loop' = [loop EXCEPT ![m] = "head"]
            /\ UNCHANGED mailbox
      [] Head(stream[m]) = "rejected" -> Posts(m, "rejected") /\ UNCHANGED retry
      [] OTHER -> UNCHANGED <<mailbox, retry>>

Handle(m) ==
    /\ stream[m] # <<>> /\ stream' = [stream EXCEPT ![m] = Tail(@)]
    /\ HandlesEvent(m)
    /\ UNCHANGED <<main, stage, session, isShutDown, engine, troubles, history>>

\* Head of the loop: an attempt is announced before the loop asks if it is cancelled.
Announces(m) ==
    /\ loop[m] = "head"
    /\ loop' = [loop EXCEPT ![m] = IF isReconnecting[m] THEN "trying" ELSE "none"]
    /\ Posts(m, "reconnecting")
    /\ late' = (late \/ ~isReconnecting[m])
    /\ UNCHANGED <<main, stage, session, isShutDown, isReconnecting, stream, engine,
                   troubles, overtaken>>

\* An attempt that logs in,
Reattempts(m) ==
    /\ loop[m] = "trying" /\ session[m] = "lost"
    /\ session' = [session EXCEPT ![m] = "up"] /\ Yields(m, "welcome")
    /\ UNCHANGED <<main, mailbox, stage, isShutDown, retry, engine, troubles, history>>

\* one that fails or whose grace window ends, be it just before its login is
\* handled,
TimesOut(m) ==
    /\ loop[m] = "trying"
    /\ Troubles
    /\ loop' = [loop EXCEPT ![m] = "head"]
    /\ UNCHANGED <<main, mailbox, stage, session, isShutDown, isReconnecting, stream,
                   engine, history>>

\* and the last one, likewise.
GivesUp(m) ==
    /\ loop[m] = "trying" /\ session[m] \in {"lost", "up"}
    /\ Disconnects(m) /\ Ends(m) /\ Posts(m, "gaveUp")
    /\ UNCHANGED <<main, stage, isShutDown, stream, engine, troubles, history>>

MainActs == Connect \/ Disconnect \/ Deliver \/ \E m \in Models : Failed(m)
Starts(m) == SetUp(m) \/ Dial(m) \/ DialEnds(m)
Networks(m) == LogsIn(m) \/ RejectsNick(m) \/ Drops(m)
Reconnects(m) == Announces(m) \/ Reattempts(m) \/ TimesOut(m) \/ GivesUp(m)

ShellNext ==
    MainActs \/ \E m \in Models : Starts(m) \/ Networks(m) \/ Handle(m) \/ Reconnects(m)

ShellSpec == Init /\ [][ShellNext]_shellVars

-----------------------------------------------------------------------------
(* Properties.                                                               *)

\* Dangling canvas: the engine never points to a canvas box that was released.
CanvasNeverDangles == canvas # 0 => box[canvas]

\* One strip: unless a start() was overtaken, only the current model has a strip
\* set up and the engine measures with that model's canvas.
OneStrip ==
    overtaken = {} => \A m \in Models : box[m] => m = model /\ canvas = m

\* Offline: a model that was shut down has no connection and none under way,
\* unless its start() was overtaken and dials after all.
DownIsOffline ==
    \A m \in Models : isShutDown[m] /\ m \notin overtaken =>
        session[m] = "closed" /\ stage[m] \notin {"start", "setUp"}

\* Indicator: once a reconnect is announced and all that was posted has arrived,
\* the views show one just when the current model has one, unless something
\* arrived of an older model or a cancelled loop announced one attempt too many.
IndicatorIsTrue ==
    ~late /\ overtaken = {} /\ mailbox = <<>> =>
        \/ model # 0 /\ loop[model] = "head"
        \/ (reconnectState = "reconnecting") <=> (model # 0 /\ isReconnecting[model])
=============================================================================
